----------------------- MODULE AffiliateRewritingProofs -----------------------
(***************************************************************************)
(* Proofs about AffiliateRewriting, for any links, pages, messages, ids    *)
(* and numbers of requests and edits at once.                              *)
(*                                                                         *)
(* What a request answers depends on what it read at three moments: the    *)
(* credential, a row of the cache, the page. IInv says what each step has  *)
(* in hand: an id some active credential held since the request began, a   *)
(* row whose URL is of the id in its key and of the product of a page seen *)
(* less than a life of a row ago, a product chosen for this very text.     *)
(***************************************************************************)
EXTENDS AffiliateRewriting, SequenceTheorems, FiniteSetTheorems, TLAPS

----------------------------------------------------------------------------
(* The ids in a URL. *)

(* A URL of two parts carries the ids of both. *)
LEMMA ConcatIds ==
  ASSUME NEW S, NEW a \in Seq(S), NEW b \in Seq(S)
  PROVE  IdsIn(a \o b) = IdsIn(a) \cup IdsIn(b)
<1>1. /\ a \o b \in Seq(S) /\ Len(a \o b) = Len(a) + Len(b)
      /\ \A i \in 1 .. Len(a) + Len(b) :
           (a \o b)[i] = IF i <= Len(a) THEN a[i] ELSE b[i - Len(a)]
  BY ConcatProperties
<1>2. PICK c : c = a \o b
  OBVIOUS
<1>3. /\ DOMAIN a = 1 .. Len(a) /\ DOMAIN b = 1 .. Len(b) /\ DOMAIN c = 1 .. Len(a) + Len(b)
      /\ Len(a) \in Nat /\ Len(b) \in Nat
      /\ \A i \in 1 .. Len(a) : c[i] = a[i]
      /\ \A i \in 1 .. Len(b) : c[i + Len(a)] = b[i]
      /\ \A i \in DOMAIN c : i \in DOMAIN a \/ (i - Len(a)) \in DOMAIN b
      /\ \A i \in DOMAIN a : i \in DOMAIN c
      /\ \A i \in DOMAIN b : (i + Len(a)) \in DOMAIN c
      /\ \A i \in DOMAIN c : i \notin DOMAIN a => c[i] = b[i - Len(a)]
  BY <1>1, <1>2
<1>4. IdsIn(c) \subseteq IdsIn(a) \cup IdsIn(b)
  BY <1>3 DEF IdsIn
<1>5. IdsIn(a) \subseteq IdsIn(c)
  BY <1>3 DEF IdsIn
<1>6. IdsIn(b) \subseteq IdsIn(c)
  BY <1>3 DEF IdsIn
<1> QED
  BY <1>2, <1>4, <1>5, <1>6

(* The atoms of URLs as they were typed, and behind their redirects, carry  *)
(* no id.                                                                   *)
LEMMA PlainIds ==
  ASSUME NEW l \in Link
  PROVE  IdsIn(Protocol) = {} /\ IdsIn(PartsOf[l]) = {} /\ IdsIn(Behind[l]) = {}
<1>1. IdsIn(Protocol) = {}
  BY DEF IdsIn, Protocol
<1>2. \A parts \in {PartsOf[l], Behind[l]} : IdsIn(parts) = {}
  BY AffiliateAssumption DEF IdsIn
<1> QED
  BY <1>1, <1>2

LEMMA PlainParts ==
  ASSUME NEW l \in Link, NEW S
  PROVE  /\ ToSet(PartsOf[l]) \subseteq S => PartsOf[l] \in Seq(S)
         /\ ToSet(Behind[l]) \subseteq S => Behind[l] \in Seq(S)
<1>1. PartsOf[l] \in Seq(ToSet(PartsOf[l])) /\ Behind[l] \in Seq(ToSet(Behind[l]))
  BY AffiliateAssumption
<1>2. \A T, s : s \in Seq(T) /\ T \subseteq S => s \in Seq(S)
  OBVIOUS
<1> QED
  BY <1>1, <1>2

(* An atom that carries an id, alone. *)
LEMMA CarrierIds ==
  ASSUME NEW atom, atom[1] \in {"tag", "store", "short"}
  PROVE  IdsIn(<<atom>>) = {atom[2]}
<1>1. PICK c : c = <<atom>>
  OBVIOUS
<1>2. DOMAIN c = {1} /\ c[1] = atom
  BY <1>1
<1>3. \A i \in DOMAIN c : c[i][1] \in {"tag", "store", "short"}
  BY <1>2
<1>4. {j \in DOMAIN c : c[j][1] \in {"tag", "store", "short"}} = DOMAIN c
  BY <1>3
<1>5. IdsIn(c) = {c[i][2] : i \in DOMAIN c}
  BY <1>4 DEF IdsIn
<1> QED
  BY <1>1, <1>2, <1>5

(* The three forms of a rewritten URL carry the id they were made with. *)
LEMMA TaggedIds ==
  ASSUME NEW l \in Link, NEW id
  PROVE  IdsIn(Protocol \o Behind[l] \o <<<<"tag", id>>>>) = {id}
<1>1. PICK atom : atom = <<"tag", id>>
  OBVIOUS
<1>2. PICK S : S = {<<"https">>, atom} \cup ToSet(Behind[l])
  OBVIOUS
<1>3. Protocol \in Seq(S) /\ Behind[l] \in Seq(S) /\ <<atom>> \in Seq(S)
  BY <1>2, PlainParts DEF Protocol
<1>4. PICK c : c = <<atom>>
  OBVIOUS
<1>5. IdsIn(c) = {id} /\ c \in Seq(S)
  BY <1>1, <1>3, <1>4, CarrierIds
<1>6. PICK head : head = Protocol \o Behind[l]
  OBVIOUS
<1>7. head \in Seq(S)
  BY <1>3, <1>6, ConcatProperties
<1>8. IdsIn(head) = {}
  <2>1. IdsIn(head) = IdsIn(Protocol) \cup IdsIn(Behind[l])
    BY <1>3, <1>6, ConcatIds
  <2> QED
    BY <2>1, PlainIds
<1>9. IdsIn(head \o c) = {id}
  BY <1>5, <1>7, <1>8, ConcatIds
<1> QED
  BY <1>1, <1>4, <1>6, <1>9

LEMMA StoreIds ==
  ASSUME NEW l \in Link, NEW id
  PROVE  IdsIn(Protocol \o <<<<"store", id>>>> \o PartsOf[l]) = {id}
<1>1. PICK atom : atom = <<"store", id>>
  OBVIOUS
<1>2. PICK S : S = {<<"https">>, atom} \cup ToSet(PartsOf[l])
  OBVIOUS
<1>3. Protocol \in Seq(S) /\ PartsOf[l] \in Seq(S) /\ <<atom>> \in Seq(S)
  BY <1>2, PlainParts DEF Protocol
<1>4. PICK c : c = <<atom>>
  OBVIOUS
<1>5. IdsIn(c) = {id} /\ c \in Seq(S)
  BY <1>1, <1>3, <1>4, CarrierIds
<1>6. PICK head : head = Protocol \o c
  OBVIOUS
<1>7. head \in Seq(S)
  BY <1>3, <1>5, <1>6, ConcatProperties
<1>8. IdsIn(head) = {id}
  BY <1>3, <1>5, <1>6, ConcatIds, PlainIds
<1>9. IdsIn(head \o PartsOf[l]) = {id}
  BY <1>3, <1>7, <1>8, ConcatIds, PlainIds
<1> QED
  BY <1>1, <1>4, <1>6, <1>9

LEMMA ShortIds ==
  ASSUME NEW id, NEW p, NEW url, url = Short(id, p)
  PROVE  /\ IdsIn(url) = {id}
         /\ url[CHOOSE j \in DOMAIN url : url[j][1] = "short"][3] = p
<1>1. PICK atom : atom = <<"short", id, p>>
  OBVIOUS
<1>2. PICK S : S = {<<"https">>, atom}
  OBVIOUS
<1>3. /\ Protocol \in Seq(S) /\ Len(Protocol) = 1 /\ Protocol[1] = <<"https">>
      /\ <<atom>> \in Seq(S) /\ Len(<<atom>>) = 1 /\ <<atom>>[1] = atom
  BY <1>2 DEF Protocol
<1>4. PICK c : c = <<atom>>
  OBVIOUS
<1>5. url = Protocol \o c
  BY <1>1, <1>4 DEF Short
<1>6. url \in Seq(S) /\ Len(url) = 2 /\ url[1] = <<"https">> /\ url[2] = atom
  BY <1>3, <1>4, <1>5, ConcatProperties
<1>7. DOMAIN url = 1 .. 2 /\ url[1][1] = "https" /\ url[2][1] = "short" /\ url[2][3] = p
  BY <1>1, <1>6
<1>8. (CHOOSE j \in DOMAIN url : url[j][1] = "short") = 2
  BY <1>7
<1>9. IdsIn(c) = {id} /\ c \in Seq(S)
  BY <1>1, <1>3, <1>4, CarrierIds
<1>10. IdsIn(Protocol) = {}
  BY DEF IdsIn, Protocol
<1>11. IdsIn(url) = {id}
  BY <1>3, <1>5, <1>9, <1>10, ConcatIds
<1> QED
  BY <1>7, <1>8, <1>11

----------------------------------------------------------------------------
(* The links of a message. *)

LEMMA LinksAreLinks ==
  ASSUME NEW m \in Message
  PROVE  LinksIn(m) \subseteq Link
BY AffiliateAssumption DEF LinksIn, Items, IsLink

(* extractLinks returns links that occur in the message: as many places     *)
(* have been met at the least place where k have been, and it is one.       *)
LEMMA ExtractedLinks ==
  ASSUME NEW m \in Message, NEW k \in DOMAIN ExtractLinks(m)
  PROVE  ExtractLinks(m)[k] \in LinksIn(m)
<1>1. PICK n \in Nat : DOMAIN Items(m) = 1 .. n
  <2>1. Items(m) \in Seq(ToSet(Items(m)))
    BY AffiliateAssumption DEF Items
  <2> QED
    BY <2>1
<1>2. PICK F : F = FirstPlaces(m)
  OBVIOUS
<1>3. F \in SUBSET (1 .. n) /\ \A i \in F : i \in 1 .. n
  BY <1>1, <1>2 DEF FirstPlaces
<1>4. PICK upTo : upTo = [i \in 0 .. n |-> {j \in F : j <= i}]
  OBVIOUS
<1>5. PICK met : met = [i \in 0 .. n |-> Cardinality(upTo[i])]
  OBVIOUS
<1>6. IsFiniteSet(F) /\ Cardinality(F) \in Nat
  <2>1. IsFiniteSet(1 .. n)
    BY FS_Interval
  <2>2. IsFiniteSet(F)
    BY <1>3, <2>1, FS_Subset
  <2> QED
    BY <2>2, FS_CardinalityType
<1>7. ASSUME NEW i \in 0 .. n
      PROVE  /\ IsFiniteSet(upTo[i]) /\ met[i] = Cardinality(upTo[i]) /\ met[i] \in Nat
             /\ \A j : j \in upTo[i] <=> j \in F /\ j <= i
  <2>1. upTo[i] \in SUBSET F /\ \A j : j \in upTo[i] <=> j \in F /\ j <= i
    BY <1>4
  <2>2. IsFiniteSet(upTo[i])
    BY <1>6, <2>1, FS_Subset
  <2>3. met[i] = Cardinality(upTo[i])
    BY <1>5
  <2> QED
    BY <2>1, <2>2, <2>3, FS_CardinalityType
<1>8. met[0] = 0 /\ met[n] = Cardinality(F)
  <2>1. 0 \in 0 .. n /\ n \in 0 .. n
    BY <1>1
  <2>2. upTo[0] = {}
    <3>1. upTo[0] = {j \in F : j <= 0}
      BY <1>4, <2>1
    <3>2. \A j \in F : ~(j <= 0)
      BY <1>1, <1>3
    <3> QED
      BY <3>1, <3>2
  <2>3. upTo[n] = F
    <3>1. upTo[n] = {j \in F : j <= n}
      BY <1>4, <2>1
    <3>2. \A j \in F : j <= n
      BY <1>1, <1>3
    <3> QED
      BY <3>1, <3>2
  <2> QED
    BY <1>7, <2>1, <2>2, <2>3, FS_EmptySet
<1>9. ASSUME NEW i \in 1 .. n
      PROVE  met[i] = met[i - 1] + (IF i \in F THEN 1 ELSE 0)
  <2>1. i \in 0 .. n /\ i - 1 \in 0 .. n
    BY <1>1
  <2>2. \A j \in F : j <= i <=> j <= i - 1 \/ j = i
    BY <1>1, <1>3
  <2>3. CASE i \in F
    <3>1. upTo[i] = upTo[i - 1] \cup {i}
      <4>1. /\ upTo[i] = {j \in F : j <= i}
            /\ upTo[i - 1] = {j \in F : j <= i - 1}
        BY <1>4, <2>1
      <4>2. {j \in F : j <= i} = {j \in F : j <= i - 1} \cup {i}
        <5>1. i <= i
          BY <1>1
        <5> QED
          BY <2>2, <2>3, <5>1
      <4> QED
        BY <4>1, <4>2
    <3>2. i \notin upTo[i - 1]
      BY <1>1, <1>7, <2>1
    <3>3. IsFiniteSet(upTo[i - 1])
      BY <1>7, <2>1
    <3>4. Cardinality(upTo[i]) = Cardinality(upTo[i - 1]) + 1
      BY <3>1, <3>2, <3>3, FS_AddElement
    <3> QED
      BY <1>7, <2>1, <2>3, <3>4
  <2>4. CASE i \notin F
    <3>1. upTo[i] = upTo[i - 1]
      BY <1>7, <2>1, <2>2, <2>4
    <3> QED
      BY <1>7, <2>1, <2>4, <3>1
  <2> QED
    BY <2>3, <2>4
<1>10. k \in Nat /\ 1 <= k /\ k <= met[n]
  <2>1. DOMAIN ExtractLinks(m) = 1 .. Cardinality(F)
    BY <1>2 DEF ExtractLinks
  <2> QED
    BY <1>6, <1>8, <2>1
<1>11. \E i \in F : met[i] = k
  <2>1. PICK T : T = {i \in 0 .. n : met[i] >= k}
    OBVIOUS
  <2>2. T \subseteq Nat /\ T \subseteq 0 .. n /\ n \in T
    BY <1>1, <1>7, <1>10, <2>1
  <2>3. PICK i \in T : \A j \in T : <<j, i>> \notin OpToRel(<, Nat)
    BY <2>2, NatLessThanWellFounded, WFMin
  <2>4. i \in 1 .. n /\ met[i] >= k
    <3>1. i \in 0 .. n /\ met[i] >= k
      BY <2>1, <2>3
    <3>2. i # 0
      BY <1>8, <1>10, <3>1
    <3> QED
      BY <1>1, <3>1, <3>2
  <2>5. i - 1 \notin T
    <3>1. <<i - 1, i>> \in OpToRel(<, Nat)
      BY <1>1, <2>4 DEF OpToRel
    <3> QED
      BY <2>3, <3>1
  <2>6. i \in 0 .. n /\ i - 1 \in 0 .. n
    BY <1>1, <2>4
  <2>7. ~(met[i - 1] >= k) /\ met[i - 1] \in Nat
    BY <1>7, <2>1, <2>5, <2>6
  <2>8. met[i] = met[i - 1] + (IF i \in F THEN 1 ELSE 0)
    BY <1>9, <2>4
  <2> QED
    BY <1>10, <2>4, <2>7, <2>8
<1>12. PICK i \in F : ExtractLinks(m)[k] = Items(m)[i].link
  <2>1. ExtractLinks(m)[k] =
          Items(m)[CHOOSE i \in F : Cardinality({j \in F : j <= i}) = k].link
    BY <1>2 DEF ExtractLinks
  <2>2. \E i \in F : Cardinality({j \in F : j <= i}) = k
    <3>1. PICK i \in F : met[i] = k
      BY <1>11
    <3>2. i \in 0 .. n /\ met[i] = Cardinality(upTo[i]) /\ upTo[i] = {j \in F : j <= i}
      BY <1>1, <1>3, <1>4, <1>5, <3>1
    <3> QED
      BY <3>1, <3>2
  <2> QED
    BY <2>1, <2>2
<1> QED
  BY <1>2, <1>12 DEF FirstPlaces, LinksIn

(* The words of a message decide only between products the page does not    *)
(* decide between itself.                                                   *)
LEMMA PageDecides ==
  ASSUME NEW page \in Page, NEW m \in Message, NEW other \in Message,
         Choice[page][m].by # "candidate_fallback"
  PROVE  Choice[page][other].product = Choice[page][m].product
<1>1. Choice[page][m] = Chosen(PageOf[page], MessageOf[m].lines)
  BY DEF Choice
<1>2. Choice[page][other] = Chosen(PageOf[page], MessageOf[other].lines)
  BY DEF Choice
<1> QED
  BY <1>1, <1>2 DEF Chosen
----------------------------------------------------------------------------
(* The inductive invariant. Its parts are about a value and the moment `t`, *)
(* so that a step that leaves the value alone leaves them alone.            *)

(* What a page gave for a message. *)
IsChoice(src) ==
  /\ src.page \in Page /\ src.msg \in Message
  /\ src.product = Choice[src.page][src.msg].product
  /\ src.by = Choice[src.page][src.msg].by

(* A row's URL is of the id in its key and of the product of its source,    *)
(* which a page showed a life of a row before the row ends.                 *)
GoodRow(c) ==
  /\ c.key \in Link \X (Id \cup {NoId}) /\ c.until \in Nat
  /\ c.url = Short(c.key[2], c.source.product)
  /\ c.key[1] \in ListLink =>
       IsChoice(c.source) /\ c.source.at \in Nat /\ c.until = c.source.at + Ttl

CacheInv ==
  /\ \A c \in cache : GoodRow(c)
  /\ \A c, d \in cache : c.key = d.key => c = d

(* An answer carries an id of `seen`; the product of a list is what the     *)
(* page gave for the message, or what a row had from the page for another.  *)
GoodResult(r, l, m, seen, t) ==
  /\ r.link = l /\ r.changed \in BOOLEAN /\ r.fwd \in BOOLEAN
  /\ r.changed => \E id : IdsIn(r.url) = {id} /\ <<MarketOf[l], id>> \in seen
  /\ r.changed /\ l \in ListLink =>
       /\ \E id : r.url = Short(id, r.source.product)
       /\ IsChoice(r.source) /\ t - r.source.at < Ttl
       /\ r.source.msg = m \/ r.reason = "CACHE_HIT"

(* A link on its way: the id was active during the request, the product is  *)
(* of this moment and this message.                                         *)
GoodWork(p, l, m, seen, t) ==
  /\ p = [pc |-> p.pc, id |-> p.id, ssid |-> p.ssid, source |-> p.source, result |-> p.result]
  /\ p.pc \in Progress /\ p.id \in Id \cup {NoId} /\ p.ssid \in BOOLEAN
  /\ GoodResult(p.result, l, m, seen, t)
  /\ p.pc = "cred" => MarketOf[l] # "unknown"
  /\ p.pc \in {"cache", "fetch", "generate", "save"} =>
       MarketOf[l] = "mercado_livre" /\ <<"mercado_livre", p.id>> \in seen
  /\ p.pc \in {"generate", "save"} /\ l \in ListLink =>
       IsChoice(p.source) /\ p.source.msg = m /\ p.source.at = t
  /\ p.pc = "done" /\ MarketOf[l] = "amazon" /\ ~p.result.fwd =>
       p.result.reason \in AmazonReasons

GoodAsk(a, rows, t) ==
  /\ a = [msg |-> a.msg, seen |-> a.seen, links |-> a.links]
  /\ a.msg \in Message
  /\ a.seen \subseteq Market \X (Id \cup {NoId}) /\ ActiveIds(rows) \subseteq a.seen
  /\ a.links = [l \in LinksIn(a.msg) |-> a.links[l]]
  /\ \A l \in LinksIn(a.msg) : GoodWork(a.links[l], l, a.msg, a.seen, t)

AsksInv ==
  /\ asks = [q \in Slot |-> asks[q]]
  /\ \A q \in Slot : asks[q] = Idle \/ GoodAsk(asks[q], cred, now)

RowsInv ==
  /\ now \in Nat /\ cred \in [Market -> Credential] /\ edits \subseteq Edit
  /\ spent \in [{"requests", "edits"} -> Nat]

IInv == RowsInv /\ CacheInv /\ AsksInv
----------------------------------------------------------------------------
(* Results. *)

LEMMA UnchangedGood ==
  ASSUME NEW l, NEW reason, NEW fwd \in BOOLEAN, NEW m, NEW seen, NEW t
  PROVE  /\ GoodResult(Unchanged(l, reason, fwd), l, m, seen, t)
         /\ GoodResult(Failure(l, reason), l, m, seen, t)
BY DEF GoodResult, Unchanged, Failure

(* Providers that ask nobody else: the id is that of an active credential,  *)
(* and an Amazon link that may not go out names one of its three reasons.   *)
LEMMA DirectGood ==
  ASSUME RowsInv, NEW l \in Link, NEW m, NEW seen, NEW t, MarketOf[l] # "unknown",
         ActiveIds(cred) \subseteq seen, NEW r \in DirectResults(l)
  PROVE  /\ GoodResult(r, l, m, seen, t)
         /\ MarketOf[l] = "amazon" /\ ~r.fwd => r.reason \in AmazonReasons
<1>1. MarketOf[l] \in {"mercado_livre", "amazon", "magazine_luiza", "shopee"}
  BY AffiliateAssumption
<1>2. CASE MarketOf[l] = "shopee"
  <2>1. PICK reason : r = Unchanged(l, reason, TRUE)
    BY <1>2 DEF DirectResults, ShopeeResults
  <2> QED
    BY <1>2, <2>1, UnchangedGood
<1>3. CASE MarketOf[l] # "shopee" /\ ~cred[MarketOf[l]].on
  <2>1. r = MissingCredential(l)
    BY <1>3 DEF DirectResults
  <2>2. /\ MarketOf[l] = "amazon" => r = Unchanged(l, "AMAZON_TAG_NOT_CONFIGURED", FALSE)
        /\ \E reason : r = Unchanged(l, reason, FALSE)
    BY <2>1 DEF MissingCredential
  <2>3. PICK reason :
          /\ r = Unchanged(l, reason, FALSE)
          /\ MarketOf[l] = "amazon" => reason = "AMAZON_TAG_NOT_CONFIGURED"
    BY <2>2
  <2>4. GoodResult(r, l, m, seen, t)
    BY <2>3, UnchangedGood
  <2>5. r.reason = reason
    BY <2>3 DEF Unchanged
  <2> QED
    BY <2>3, <2>4, <2>5 DEF AmazonReasons
<1>4. CASE MarketOf[l] = "amazon" /\ cred["amazon"].on
  <2>1. PICK id : id = cred["amazon"].id
    OBVIOUS
  <2>2. r \in AmazonResults(l, id)
    BY <1>4, <2>1 DEF DirectResults
  <2>3. <<"amazon", id>> \in seen
    BY <1>4, <2>1 DEF ActiveIds, Market
  <2>4. \/ \E reason \in AmazonReasons : r = Unchanged(l, reason, FALSE)
        \/ r = Rewritten(l, Protocol \o Behind[l] \o <<<<"tag", id>>>>, "")
    BY <2>2 DEF AmazonResults, AmazonReasons
  <2>5. CASE r = Rewritten(l, Protocol \o Behind[l] \o <<<<"tag", id>>>>, "")
    <3>1. PICK url : url = Protocol \o Behind[l] \o <<<<"tag", id>>>>
      OBVIOUS
    <3>2. r = Rewritten(l, url, "") /\ IdsIn(url) = {id}
      BY <2>5, <3>1, TaggedIds
    <3>3. r.link = l /\ r.changed \in BOOLEAN /\ r.fwd = TRUE /\ r.url = url
      BY <3>2 DEF Rewritten, Unchanged
    <3> QED
      BY <1>4, <2>3, <3>2, <3>3 DEF GoodResult, ListLink
  <2>6. ASSUME NEW reason \in AmazonReasons, r = Unchanged(l, reason, FALSE)
        PROVE  GoodResult(r, l, m, seen, t) /\ r.reason \in AmazonReasons
    <3>1. r.reason = reason
      BY <2>6 DEF Unchanged
    <3>2. GoodResult(r, l, m, seen, t)
      BY <2>6, UnchangedGood
    <3> QED
      BY <3>1, <3>2
  <2> QED
    BY <2>4, <2>5, <2>6
<1>5. CASE MarketOf[l] = "magazine_luiza" /\ cred["magazine_luiza"].on
  <2>1. PICK id : id = cred["magazine_luiza"].id
    OBVIOUS
  <2>2. r \in MagaluResults(l, id)
    BY <1>5, <2>1 DEF DirectResults
  <2>3. <<"magazine_luiza", id>> \in seen
    BY <1>5, <2>1 DEF ActiveIds, Market
  <2>4. \/ \E reason : r = Unchanged(l, reason, FALSE)
        \/ r = Rewritten(l, Protocol \o <<<<"store", id>>>> \o PartsOf[l], "")
    BY <2>2 DEF MagaluResults
  <2>5. CASE r = Rewritten(l, Protocol \o <<<<"store", id>>>> \o PartsOf[l], "")
    <3>1. PICK url : url = Protocol \o <<<<"store", id>>>> \o PartsOf[l]
      OBVIOUS
    <3>2. r = Rewritten(l, url, "") /\ IdsIn(url) = {id}
      BY <2>5, <3>1, StoreIds
    <3>3. r.link = l /\ r.changed \in BOOLEAN /\ r.fwd = TRUE /\ r.url = url
      BY <3>2 DEF Rewritten, Unchanged
    <3> QED
      BY <1>5, <2>3, <3>2, <3>3 DEF GoodResult, ListLink
  <2>6. ASSUME NEW reason, r = Unchanged(l, reason, FALSE)
        PROVE  GoodResult(r, l, m, seen, t)
    BY <2>6, UnchangedGood
  <2> QED
    BY <1>5, <2>4, <2>5, <2>6
<1>6. CASE MarketOf[l] = "mercado_livre" /\ cred["mercado_livre"].on
  BY <1>6 DEF DirectResults
<1> QED
  BY <1>1, <1>2, <1>3, <1>4, <1>5, <1>6

(* An answer with a short link of an id in `seen`. *)
LEMMA ShortGood ==
  ASSUME NEW l, NEW id, NEW src, NEW reason, NEW m, NEW seen, NEW t,
         <<MarketOf[l], id>> \in seen,
         l \in ListLink =>
           IsChoice(src) /\ t - src.at < Ttl /\ (src.msg = m \/ reason = "CACHE_HIT")
  PROVE  GoodResult([Rewritten(l, Short(id, src.product), reason) EXCEPT !.source = src],
                    l, m, seen, t)
<1>1. PICK r : r = [Rewritten(l, Short(id, src.product), reason) EXCEPT !.source = src]
  OBVIOUS
<1>2. /\ r.link = l /\ r.changed \in BOOLEAN /\ r.fwd = TRUE /\ r.reason = reason
      /\ r.url = Short(id, src.product) /\ r.source = src
  BY <1>1 DEF Rewritten, Unchanged
<1>3. IdsIn(r.url) = {id}
  <2>1. PICK url : url = Short(id, src.product)
    OBVIOUS
  <2>2. IdsIn(url) = {id}
    BY <2>1, ShortIds
  <2> QED
    BY <1>2, <2>1, <2>2
<1> QED
  BY <1>1, <1>2, <1>3 DEF GoodResult

----------------------------------------------------------------------------
(* Steps of a link. *)

(* A request with a link at `l`. *)
LEMMA AskOf ==
  ASSUME AsksInv, NEW q \in Slot, NEW l \in DOMAIN asks[q].links
  PROVE  /\ asks[q] # Idle /\ GoodAsk(asks[q], cred, now)
         /\ l \in LinksIn(asks[q].msg) /\ l \in Link
         /\ GoodWork(asks[q].links[l], l, asks[q].msg, asks[q].seen, now)
<1>1. asks[q] # Idle
  BY DEF Idle
<1>2. GoodAsk(asks[q], cred, now)
  BY <1>1 DEF AsksInv
<1>3. l \in LinksIn(asks[q].msg)
  BY <1>2 DEF GoodAsk
<1> QED
  BY <1>1, <1>2, <1>3, LinksAreLinks DEF GoodAsk

(* A step of one link leaves the others and the request as they are.        *)
LEMMA GotoKeeps ==
  ASSUME AsksInv, NEW q \in Slot, NEW l \in DOMAIN asks[q].links, NEW p, Goto(q, l, p),
         GoodWork(p, l, asks[q].msg, asks[q].seen, now)
  PROVE  AsksInv'
<1>1. GoodAsk(asks[q], cred, now)
  BY AskOf
<1>2. PICK a : a = asks[q]
  OBVIOUS
<1>3. PICK b : b = [a EXCEPT !.links = [a.links EXCEPT ![l] = p]]
  OBVIOUS
<1>4. asks' = [asks EXCEPT ![q] = b] /\ cred' = cred /\ now' = now
  BY <1>2, <1>3 DEF Goto
<1>5. a = [msg |-> a.msg, seen |-> a.seen, links |-> a.links]
  BY <1>1, <1>2 DEF GoodAsk
<1>6. b = [msg |-> a.msg, seen |-> a.seen, links |-> [a.links EXCEPT ![l] = p]]
  BY <1>3, <1>5
<1>7. /\ a.links = [k \in LinksIn(a.msg) |-> a.links[k]]
      /\ l \in LinksIn(a.msg)
      /\ \A k \in LinksIn(a.msg) : GoodWork(a.links[k], k, a.msg, a.seen, now)
  BY <1>1, <1>2 DEF GoodAsk
<1>8. PICK ls : ls = [a.links EXCEPT ![l] = p]
  OBVIOUS
<1>9. /\ ls = [k \in LinksIn(a.msg) |-> ls[k]]
      /\ ls[l] = p /\ \A k \in LinksIn(a.msg) \ {l} : ls[k] = a.links[k]
  BY <1>7, <1>8
<1>10. \A k \in LinksIn(a.msg) : GoodWork(ls[k], k, a.msg, a.seen, now)
  BY <1>2, <1>7, <1>9
<1>11. GoodAsk(b, cred, now)
  BY <1>1, <1>2, <1>6, <1>8, <1>9, <1>10 DEF GoodAsk
<1>12. asks' = [k \in Slot |-> asks'[k]] /\ asks'[q] = b
       /\ \A k \in Slot \ {q} : asks'[k] = asks[k]
  BY <1>4 DEF AsksInv
<1>13. \A k \in Slot : asks'[k] = Idle \/ GoodAsk(asks'[k], cred, now)
  BY <1>11, <1>12 DEF AsksInv
<1> QED
  BY <1>4, <1>12, <1>13 DEF AsksInv

(* The end of a link. *)
LEMMA FinishKeeps ==
  ASSUME AsksInv, NEW q \in Slot, NEW l \in DOMAIN asks[q].links,
         NEW pc \in {"done", "thrown"}, NEW r, Finish(q, l, pc, r),
         GoodResult(r, l, asks[q].msg, asks[q].seen, now),
         pc = "done" /\ MarketOf[l] = "amazon" /\ ~r.fwd => r.reason \in AmazonReasons
  PROVE  AsksInv'
<1>1. PICK p : p = [pc |-> pc, id |-> NoId, ssid |-> FALSE, source |-> <<>>, result |-> r]
  OBVIOUS
<1>2. GoodWork(p, l, asks[q].msg, asks[q].seen, now)
  BY <1>1 DEF GoodWork, Progress
<1> QED
  BY <1>1, <1>2, GotoKeeps DEF Finish
(* The credential is read. *)
LEMMA CredentialKeeps ==
  ASSUME RowsInv, AsksInv, NEW q \in Slot, NEW l \in DOMAIN asks[q].links,
         ReadCredential(q, l)
  PROVE  AsksInv'
<1>1. PICK a : a = asks[q]
  OBVIOUS
<1>2. PICK p : p = a.links[l]
  OBVIOUS
<1>3. /\ GoodWork(p, l, a.msg, a.seen, now) /\ l \in Link
      /\ ActiveIds(cred) \subseteq a.seen /\ p.pc = "cred" /\ MarketOf[l] # "unknown"
  BY <1>1, <1>2, AskOf DEF GoodAsk, GoodWork, ReadCredential, At
<1>4. ASSUME NEW r \in DirectResults(l), Finish(q, l, "done", r)
      PROVE  AsksInv'
  <2>1. /\ GoodResult(r, l, a.msg, a.seen, now)
        /\ MarketOf[l] = "amazon" /\ ~r.fwd => r.reason \in AmazonReasons
    BY <1>3, DirectGood
  <2> QED
    BY <1>1, <1>4, <2>1, FinishKeeps
<1>5. ASSUME DirectResults(l) = {},
             Goto(q, l, [p EXCEPT !.pc = "cache", !.id = cred[MarketOf[l]].id,
                                  !.ssid = cred[MarketOf[l]].session # NoSession])
      PROVE  AsksInv'
  <2>1. MarketOf[l] = "mercado_livre" /\ cred["mercado_livre"].on
    <3>1. MarketOf[l] \in {"mercado_livre", "amazon", "magazine_luiza", "shopee"}
      BY <1>3, AffiliateAssumption
    <3>2. MarketOf[l] # "shopee"
      BY <1>5 DEF DirectResults, ShopeeResults
    <3>3. cred[MarketOf[l]].on
      BY <1>5, <3>2 DEF DirectResults
    <3>4. MarketOf[l] # "amazon"
      BY <1>5, <3>3 DEF DirectResults, AmazonResults
    <3>5. MarketOf[l] # "magazine_luiza"
      BY <1>5, <3>3 DEF DirectResults, MagaluResults
    <3> QED
      BY <3>1, <3>2, <3>3, <3>4, <3>5
  <2>2. PICK id : id = cred["mercado_livre"].id
    OBVIOUS
  <2>3. id \in Id \cup {NoId} /\ <<"mercado_livre", id>> \in a.seen
    BY <1>3, <2>1, <2>2 DEF RowsInv, Credential, Market, ActiveIds
  <2>4. PICK ssid \in BOOLEAN : ssid = (cred["mercado_livre"].session # NoSession)
    OBVIOUS
  <2>5. PICK x : x = [p EXCEPT !.pc = "cache", !.id = id, !.ssid = ssid]
    OBVIOUS
  <2>6. x = [pc |-> "cache", id |-> id, ssid |-> ssid, source |-> p.source, result |-> p.result]
    BY <1>3, <2>5 DEF GoodWork
  <2>7. GoodWork(x, l, a.msg, a.seen, now)
    BY <1>3, <2>1, <2>3, <2>6 DEF GoodWork, Progress
  <2>8. Goto(q, l, x)
    BY <1>5, <2>1, <2>2, <2>4, <2>5
  <2> QED
    BY <1>1, <2>7, <2>8, GotoKeeps
<1> QED
  BY <1>1, <1>2, <1>4, <1>5 DEF ReadCredential

(* A row is of the id it is read for and not older than a life of a row. *)
LEMMA CacheReadKeeps ==
  ASSUME RowsInv, CacheInv, AsksInv, NEW q \in Slot, NEW l \in DOMAIN asks[q].links,
         ReadCache(q, l)
  PROVE  AsksInv'
<1>1. PICK a : a = asks[q]
  OBVIOUS
<1>2. PICK p : p = a.links[l]
  OBVIOUS
<1>3. /\ GoodWork(p, l, a.msg, a.seen, now) /\ l \in Link /\ p.pc = "cache"
      /\ MarketOf[l] = "mercado_livre" /\ <<"mercado_livre", p.id>> \in a.seen
  BY <1>1, <1>2, AskOf DEF GoodWork, ReadCache, At
<1>4. ASSUME NEW c \in cache, c.key = CacheKey(l, p.id), Fresh(c),
             Finish(q, l, "done", [Rewritten(l, c.url, "CACHE_HIT") EXCEPT !.source = c.source])
      PROVE  AsksInv'
  <2>1. PICK src : src = c.source
    OBVIOUS
  <2>2. PICK until : until = c.until
    OBVIOUS
  <2>3. /\ c.url = Short(p.id, src.product) /\ until \in Nat /\ until > now
        /\ l \in ListLink => IsChoice(src) /\ src.at \in Nat /\ until = src.at + Ttl
    BY <1>4, <2>1, <2>2 DEF CacheInv, GoodRow, CacheKey, Fresh
  <2>4. l \in ListLink => now - src.at < Ttl
    BY <2>3, AffiliateAssumption DEF RowsInv
  <2>5. PICK r : r = [Rewritten(l, Short(p.id, src.product), "CACHE_HIT") EXCEPT !.source = src]
    OBVIOUS
  <2>6. GoodResult(r, l, a.msg, a.seen, now)
    BY <1>3, <2>3, <2>4, <2>5, ShortGood
  <2>7. Finish(q, l, "done", r)
    BY <1>4, <2>1, <2>3, <2>5
  <2> QED
    BY <1>1, <1>3, <2>6, <2>7, FinishKeeps
<1>5. ASSUME NEW reason, Finish(q, l, "done", Unchanged(l, reason, FALSE))
      PROVE  AsksInv'
  <2>1. GoodResult(Unchanged(l, reason, FALSE), l, a.msg, a.seen, now)
    BY UnchangedGood
  <2> QED
    BY <1>1, <1>3, <1>5, <2>1, FinishKeeps
<1>6. ASSUME Goto(q, l, [p EXCEPT !.pc = "fetch"])
      PROVE  AsksInv'
  <2>1. PICK x : x = [p EXCEPT !.pc = "fetch"]
    OBVIOUS
  <2>2. x = [pc |-> "fetch", id |-> p.id, ssid |-> p.ssid, source |-> p.source, result |-> p.result]
    BY <1>3, <2>1 DEF GoodWork
  <2>3. GoodWork(x, l, a.msg, a.seen, now)
    BY <1>3, <2>2 DEF GoodWork, Progress
  <2> QED
    BY <1>1, <1>6, <2>1, <2>3, GotoKeeps
<1> QED
  BY <1>1, <1>2, <1>4, <1>5, <1>6 DEF ReadCache

(* The product is what the page gives for the text of the request, now. *)
LEMMA FetchKeeps ==
  ASSUME RowsInv, AsksInv, NEW q \in Slot, NEW l \in DOMAIN asks[q].links, Fetch(q, l)
  PROVE  AsksInv'
<1>1. PICK a : a = asks[q]
  OBVIOUS
<1>2. PICK p : p = a.links[l]
  OBVIOUS
<1>3. /\ GoodWork(p, l, a.msg, a.seen, now) /\ l \in Link /\ p.pc = "fetch"
      /\ MarketOf[l] = "mercado_livre" /\ <<"mercado_livre", p.id>> \in a.seen
      /\ a.msg \in Message
  BY <1>1, <1>2, AskOf DEF GoodAsk, GoodWork, Fetch, At
<1>4. ASSUME NEW reason, Finish(q, l, "done", Unchanged(l, reason, FALSE))
      PROVE  AsksInv'
  <2>1. GoodResult(Unchanged(l, reason, FALSE), l, a.msg, a.seen, now)
    BY UnchangedGood
  <2> QED
    BY <1>1, <1>3, <1>4, <2>1, FinishKeeps
<1>5. ASSUME NEW reason, Finish(q, l, "done", Failure(l, reason))
      PROVE  AsksInv'
  <2>1. GoodResult(Failure(l, reason), l, a.msg, a.seen, now)
    BY UnchangedGood
  <2> QED
    BY <1>1, <1>3, <1>5, <2>1, FinishKeeps
<1>6. ASSUME NEW src, Goto(q, l, [p EXCEPT !.pc = "generate", !.source = src]),
             l \in ListLink => IsChoice(src) /\ src.msg = a.msg /\ src.at = now
      PROVE  AsksInv'
  <2>1. PICK x : x = [p EXCEPT !.pc = "generate", !.source = src]
    OBVIOUS
  <2>2. x = [pc |-> "generate", id |-> p.id, ssid |-> p.ssid, source |-> src, result |-> p.result]
    BY <1>3, <2>1 DEF GoodWork
  <2>3. GoodWork(x, l, a.msg, a.seen, now)
    BY <1>3, <1>6, <2>2 DEF GoodWork, Progress
  <2> QED
    BY <1>1, <1>6, <2>1, <2>3, GotoKeeps
<1>7. ASSUME NEW page \in Page,
             Goto(q, l, [p EXCEPT !.pc = "generate",
                !.source = [page |-> page, msg |-> a.msg, at |-> now,
                            product |-> Choice[page][a.msg].product,
                            by |-> Choice[page][a.msg].by]])
      PROVE  AsksInv'
  <2>1. PICK src : src = [page |-> page, msg |-> a.msg, at |-> now,
                          product |-> Choice[page][a.msg].product,
                          by |-> Choice[page][a.msg].by]
    OBVIOUS
  <2>2. IsChoice(src) /\ src.msg = a.msg /\ src.at = now
    BY <1>3, <2>1 DEF IsChoice
  <2> QED
    BY <1>6, <1>7, <2>1, <2>2
<1>8. CASE Redirects(l) /\ Finish(q, l, "done", Unchanged(l, "MERCADO_LIVRE_PRODUCT_NOT_FOUND", FALSE))
  BY <1>4, <1>8
<1>9. CASE Finish(q, l, "done", Failure(l, "MERCADO_LIVRE_PRODUCT_NOT_FOUND"))
  BY <1>5, <1>9
<1>10. ASSUME NEW src, Shape[l] = "product",
              Goto(q, l, [p EXCEPT !.pc = "generate", !.source = src])
       PROVE  AsksInv'
  <2>1. l \notin ListLink
    BY <1>10 DEF ListLink
  <2> QED
    BY <1>6, <1>10, <2>1
<1> QED
  BY <1>1, <1>2, <1>7, <1>8, <1>9, <1>10 DEF Fetch

LEMMA GenerateKeeps ==
  ASSUME RowsInv, AsksInv, NEW q \in Slot, NEW l \in DOMAIN asks[q].links, Generate(q, l)
  PROVE  AsksInv'
<1>1. PICK a : a = asks[q]
  OBVIOUS
<1>2. PICK p : p = a.links[l]
  OBVIOUS
<1>3. /\ GoodWork(p, l, a.msg, a.seen, now) /\ p.pc = "generate"
      /\ MarketOf[l] = "mercado_livre"
  BY <1>1, <1>2, AskOf DEF GoodWork, Generate, At
<1>4. ASSUME Goto(q, l, [p EXCEPT !.pc = "save"])
      PROVE  AsksInv'
  <2>1. PICK x : x = [p EXCEPT !.pc = "save"]
    OBVIOUS
  <2>2. x = [pc |-> "save", id |-> p.id, ssid |-> p.ssid, source |-> p.source, result |-> p.result]
    BY <1>3, <2>1 DEF GoodWork
  <2>3. GoodWork(x, l, a.msg, a.seen, now)
    BY <1>3, <2>2 DEF GoodWork, Progress
  <2> QED
    BY <1>1, <1>4, <2>1, <2>3, GotoKeeps
<1>5. ASSUME NEW error, Finish(q, l, "done", Failure(l, error))
      PROVE  AsksInv'
  <2>1. GoodResult(Failure(l, error), l, a.msg, a.seen, now)
    BY UnchangedGood
  <2> QED
    BY <1>1, <1>3, <1>5, <2>1, FinishKeeps
<1> QED
  BY <1>1, <1>2, <1>4, <1>5 DEF Generate

(* What is saved has the id and the product it was made of. *)
LEMMA SaveKeeps ==
  ASSUME RowsInv, CacheInv, AsksInv, NEW q \in Slot, NEW l \in DOMAIN asks[q].links,
         SaveCache(q, l)
  PROVE  CacheInv' /\ AsksInv'
<1>1. PICK a : a = asks[q]
  OBVIOUS
<1>2. PICK p : p = a.links[l]
  OBVIOUS
<1>3. /\ GoodWork(p, l, a.msg, a.seen, now) /\ l \in Link /\ p.pc = "save"
      /\ MarketOf[l] = "mercado_livre" /\ <<"mercado_livre", p.id>> \in a.seen
      /\ p.id \in Id \cup {NoId}
  BY <1>1, <1>2, AskOf DEF GoodWork, SaveCache, At
<1>4. PICK src : src = p.source
  OBVIOUS
<1>5. l \in ListLink => IsChoice(src) /\ src.msg = a.msg /\ src.at = now
  BY <1>3, <1>4 DEF GoodWork
<1>6. PICK row : row = [key |-> CacheKey(l, p.id), url |-> Short(p.id, src.product),
                        until |-> now + Ttl, source |-> src]
  OBVIOUS
<1>7. cache' \in {cache, Saved(row)}
  BY <1>1, <1>2, <1>4, <1>6 DEF SaveCache
<1>8. GoodRow(row)
  <2>1. /\ row.key = <<l, p.id>> /\ row.url = Short(p.id, src.product)
        /\ row.until = now + Ttl /\ row.source = src
    BY <1>6 DEF CacheKey
  <2>2. now + Ttl \in Nat /\ now \in Nat
    BY AffiliateAssumption DEF RowsInv
  <2> QED
    BY <1>3, <1>5, <2>1, <2>2 DEF GoodRow
<1>9. CacheInv'
  <2>1. \A c \in cache' : c \in cache \/ c = row
    BY <1>7 DEF Saved
  <2>2. \A c \in cache' : GoodRow(c)
    BY <1>8, <2>1 DEF CacheInv
  <2>3. \A c, d \in cache' : c.key = d.key => c = d
    BY <1>7 DEF CacheInv, Saved
  <2> QED
    BY <2>2, <2>3 DEF CacheInv
<1>10. AsksInv'
  <2>1. PICK r : r = [Rewritten(l, Short(p.id, src.product), "") EXCEPT !.source = src]
    OBVIOUS
  <2>2. l \in ListLink => now - src.at < Ttl
    BY <1>5, AffiliateAssumption DEF RowsInv
  <2>3. GoodResult(r, l, a.msg, a.seen, now)
    BY <1>3, <1>5, <2>1, <2>2, ShortGood
  <2>4. Finish(q, l, "done", r)
    BY <1>1, <1>2, <1>4, <2>1 DEF SaveCache
  <2> QED
    BY <1>1, <1>3, <2>3, <2>4, FinishKeeps
<1> QED
  BY <1>9, <1>10

LEMMA ThrowKeeps ==
  ASSUME AsksInv, NEW q \in Slot, NEW l \in DOMAIN asks[q].links, QueryThrows(q, l)
  PROVE  AsksInv'
<1>1. GoodResult(asks[q].links[l].result, l, asks[q].msg, asks[q].seen, now)
  BY AskOf DEF GoodWork
<1> QED
  BY <1>1, FinishKeeps DEF QueryThrows
----------------------------------------------------------------------------
(* Credentials, and the beginning and the end of a request. *)

LEMMA SpendKeeps ==
  ASSUME RowsInv, NEW b \in {"requests", "edits"}, NEW max, Spend(b, max)
  PROVE  spent' \in [{"requests", "edits"} -> Nat]
BY DEF RowsInv, Spend

(* What is seen only grows. *)
LEMMA SeenGrows ==
  ASSUME NEW p, NEW l, NEW m, NEW seen, NEW more, NEW t, seen \subseteq more,
         GoodWork(p, l, m, seen, t)
  PROVE  GoodWork(p, l, m, more, t)
BY DEF GoodWork, GoodResult

LEMMA ActiveIdsType ==
  ASSUME NEW rows \in [Market -> Credential]
  PROVE  ActiveIds(rows) \subseteq Market \X (Id \cup {NoId})
BY DEF ActiveIds, Credential

(* Every request in flight sees the id that is written. *)
LEMMA WriteKeeps ==
  ASSUME RowsInv, AsksInv, NEW m \in Market, NEW row \in Credential,
         WriteCredential(m, row), now' = now
  PROVE  AsksInv' /\ cred' \in [Market -> Credential]
<1>1. cred' \in [Market -> Credential]
  BY DEF WriteCredential, RowsInv
<1>2. PICK new : new = ActiveIds(cred')
  OBVIOUS
<1>3. new \subseteq Market \X (Id \cup {NoId})
  BY <1>1, <1>2, ActiveIdsType
<1>4. /\ asks' = [q \in Slot |-> asks'[q]]
      /\ \A q \in Slot : asks'[q] = IF asks[q] = Idle THEN Idle
                                    ELSE [asks[q] EXCEPT !.seen = asks[q].seen \cup new]
  BY <1>2 DEF WriteCredential
<1>5. ASSUME NEW q \in Slot, asks[q] # Idle
      PROVE  GoodAsk(asks'[q], cred', now)
  <2>1. PICK a : a = asks[q]
    OBVIOUS
  <2>2. GoodAsk(a, cred, now)
    BY <1>5, <2>1 DEF AsksInv
  <2>3. PICK more : more = a.seen \cup new
    OBVIOUS
  <2>4. asks'[q] = [a EXCEPT !.seen = more]
    BY <1>4, <1>5, <2>1, <2>3
  <2>5. a = [msg |-> a.msg, seen |-> a.seen, links |-> a.links]
    BY <2>2 DEF GoodAsk
  <2>6. PICK b : b = asks'[q]
    OBVIOUS
  <2>7. b = [msg |-> a.msg, seen |-> more, links |-> a.links]
    BY <2>4, <2>5, <2>6
  <2>8. \A l \in LinksIn(a.msg) : GoodWork(a.links[l], l, a.msg, more, now)
    BY <2>2, <2>3, SeenGrows DEF GoodAsk
  <2>9. more \subseteq Market \X (Id \cup {NoId}) /\ ActiveIds(cred') \subseteq more
    BY <1>2, <1>3, <2>2, <2>3 DEF GoodAsk
  <2>10. b.msg = a.msg /\ b.seen = more /\ b.links = a.links
    BY <2>7
  <2>11. GoodAsk(b, cred', now)
    BY <2>2, <2>7, <2>8, <2>9, <2>10 DEF GoodAsk
  <2> QED
    BY <2>6, <2>11
<1>6. \A q \in Slot : asks'[q] = Idle \/ GoodAsk(asks'[q], cred', now')
  BY <1>4, <1>5
<1> QED
  BY <1>1, <1>4, <1>6 DEF AsksInv

LEMMA AskKeeps ==
  ASSUME RowsInv, AsksInv, NEW q \in Slot, NEW m \in Message, Ask(q, m)
  PROVE  AsksInv'
<1> DEFINE begin(l) == [pc |-> IF MarketOf[l] = "unknown" THEN "done" ELSE "cred",
                        id |-> NoId, ssid |-> FALSE, source |-> <<>>,
                        result |-> Unchanged(l, "UNKNOWN_MARKETPLACE", FALSE)]
<1>1. PICK links : links = [l \in LinksIn(m) |-> begin(l)]
  OBVIOUS
<1>2. PICK a : a = [msg |-> m, seen |-> ActiveIds(cred), links |-> links]
  OBVIOUS
<1>3. asks' = [asks EXCEPT ![q] = a] /\ cred' = cred /\ now' = now
  BY <1>1, <1>2 DEF Ask
<1>4. ASSUME NEW l \in LinksIn(m)
      PROVE  GoodWork(links[l], l, m, ActiveIds(cred), now)
  <2>1. PICK r : r = Unchanged(l, "UNKNOWN_MARKETPLACE", FALSE)
    OBVIOUS
  <2>2. PICK pc : pc = IF MarketOf[l] = "unknown" THEN "done" ELSE "cred"
    OBVIOUS
  <2>3. PICK p : p = links[l]
    OBVIOUS
  <2>4. p = [pc |-> pc, id |-> NoId, ssid |-> FALSE, source |-> <<>>, result |-> r]
    BY <1>1, <2>1, <2>2, <2>3
  <2>5. GoodResult(r, l, m, ActiveIds(cred), now)
    BY <2>1, UnchangedGood
  <2>6. GoodWork(p, l, m, ActiveIds(cred), now)
    BY <2>2, <2>4, <2>5 DEF GoodWork, Progress
  <2> QED
    BY <2>3, <2>6
<1>5. GoodAsk(a, cred, now)
  <2>1. a.msg = m /\ a.seen = ActiveIds(cred) /\ a.links = links
    BY <1>2
  <2>2. links = [l \in LinksIn(m) |-> links[l]]
    BY <1>1
  <2>3. ActiveIds(cred) \subseteq Market \X (Id \cup {NoId})
    BY ActiveIdsType DEF RowsInv
  <2> QED
    BY <1>2, <1>4, <2>1, <2>2, <2>3 DEF GoodAsk
<1>6. asks' = [k \in Slot |-> asks'[k]] /\ asks'[q] = a /\ \A k \in Slot \ {q} : asks'[k] = asks[k]
  BY <1>3 DEF AsksInv
<1>7. \A k \in Slot : asks'[k] = Idle \/ GoodAsk(asks'[k], cred, now)
  BY <1>5, <1>6 DEF AsksInv
<1> QED
  BY <1>3, <1>6, <1>7 DEF AsksInv

LEMMA CloseKeeps ==
  ASSUME AsksInv, NEW q \in Slot, Close(q)
  PROVE  AsksInv'
BY DEF AsksInv, Close

LEMMA EditWriteKeeps ==
  ASSUME RowsInv, AsksInv, NEW e \in edits, EditWrite(e)
  PROVE  RowsInv' /\ AsksInv'
<1>1. e \in Edit
  BY DEF RowsInv
<1>2. PICK m : m = e.market
  OBVIOUS
<1>3. PICK old : old = cred[m]
  OBVIOUS
<1>4. /\ m \in Market /\ e.row \in Credential /\ e.old \in Session \cup {NoSession}
      /\ old \in Credential
  BY <1>1, <1>2, <1>3 DEF Edit, RowsInv
<1>5. PICK row : row = [f \in {"on", "id", "session"} |->
                          IF f \in e.fields THEN e.row[f]
                          ELSE IF f = "session" /\ e.op = "update" THEN e.old
                          ELSE old[f]]
  OBVIOUS
<1>6. row \in Credential
  <2>1. row = [on |-> row.on, id |-> row.id, session |-> row.session]
    BY <1>5
  <2>2. row.on \in BOOLEAN
    BY <1>4, <1>5 DEF Credential
  <2>3. row.id \in Id \cup {NoId}
    BY <1>4, <1>5 DEF Credential
  <2>4. row.session \in Session \cup {NoSession}
    BY <1>4, <1>5 DEF Credential
  <2> QED
    BY <2>1, <2>2, <2>3, <2>4 DEF Credential
<1>7. WriteCredential(m, row)
  BY <1>2, <1>3, <1>5 DEF EditWrite
<1>8. now' = now /\ edits' = edits \ {e} /\ spent' = spent
  BY DEF EditWrite
<1> QED
  BY <1>4, <1>6, <1>7, <1>8, WriteKeeps DEF RowsInv

LEMMA UpdateFindKeeps ==
  ASSUME RowsInv, NEW m \in Market, UpdateFind(m)
  PROVE  RowsInv'
<1>1. spent' \in [{"requests", "edits"} -> Nat]
  BY SpendKeeps DEF UpdateFind
<1>2. PICK f \in {"on", "id", "session"}, row \in Credential :
        edits' = edits \cup {[market |-> m, op |-> "update", fields |-> {f},
                              row |-> row, old |-> cred[m].session]}
  BY DEF UpdateFind
<1>3. PICK old : old = cred[m].session
  OBVIOUS
<1>4. old \in Session \cup {NoSession}
  BY <1>3 DEF RowsInv, Credential
<1>5. {f} \in SUBSET {"on", "id", "session"}
  BY <1>2
<1>6. [market |-> m, op |-> "update", fields |-> {f}, row |-> row, old |-> old] \in Edit
  BY <1>2, <1>4, <1>5 DEF Edit
<1> QED
  BY <1>1, <1>2, <1>3, <1>6 DEF RowsInv, UpdateFind

LEMMA DeleteFindKeeps ==
  ASSUME RowsInv, NEW m \in Market, DeleteFind(m)
  PROVE  RowsInv'
<1>1. spent' \in [{"requests", "edits"} -> Nat]
  BY SpendKeeps DEF DeleteFind
<1>2. PICK row : row = [cred[m] EXCEPT !.on = FALSE]
  OBVIOUS
<1>3. PICK old : old = cred[m].session
  OBVIOUS
<1>4. old \in Session \cup {NoSession} /\ row \in Credential
  BY <1>2, <1>3 DEF RowsInv, Credential
<1>5. [market |-> m, op |-> "delete", row |-> row, old |-> old, fields |-> {"on"}] \in Edit
  BY <1>4 DEF Edit
<1> QED
  BY <1>1, <1>2, <1>3, <1>5 DEF RowsInv, DeleteFind

----------------------------------------------------------------------------
LEMMA IInvInit == Init => IInv
<1> SUFFICES ASSUME Init PROVE IInv
  OBVIOUS
<1>1. cred \in [Market -> Credential]
  <2>1. PICK id \in Id, session \in Session : cred = Configured(id, session)
    BY DEF Init
  <2>2. \A m \in Market :
          [on |-> TRUE, id |-> id,
           session |-> IF m = "mercado_livre" THEN session ELSE NoSession] \in Credential
    BY DEF Credential
  <2> QED
    BY <2>1, <2>2 DEF Configured
<1>2. RowsInv
  BY <1>1 DEF Init, RowsInv
<1>3. CacheInv /\ AsksInv
  BY DEF Init, CacheInv, AsksInv
<1> QED
  BY <1>2, <1>3 DEF IInv

LEMMA IInvStep ==
  ASSUME IInv, [Next]_vars
  PROVE  IInv'
<1> USE DEF IInv
<1>1. ASSUME NEW m \in Market, CreateCredential(m) PROVE IInv'
  <2>1. PICK row \in Credential : WriteCredential(m, row)
    BY <1>1 DEF CreateCredential
  <2>2. now' = now /\ edits' = edits /\ cache' = cache
    BY <1>1 DEF CreateCredential
  <2>3. spent' \in [{"requests", "edits"} -> Nat]
    BY <1>1, SpendKeeps DEF CreateCredential
  <2>4. AsksInv' /\ cred' \in [Market -> Credential]
    BY <2>1, <2>2, WriteKeeps
  <2> QED
    BY <2>2, <2>3, <2>4 DEF RowsInv, CacheInv
<1>2. ASSUME NEW m \in Market, UpdateFind(m) PROVE IInv'
  <2>1. RowsInv'
    BY <1>2, UpdateFindKeeps
  <2> QED
    BY <1>2, <2>1 DEF UpdateFind, CacheInv, AsksInv
<1>3. ASSUME NEW m \in Market, DeleteFind(m) PROVE IInv'
  <2>1. RowsInv'
    BY <1>3, DeleteFindKeeps
  <2> QED
    BY <1>3, <2>1 DEF DeleteFind, CacheInv, AsksInv
<1>4. ASSUME NEW e \in edits, EditWrite(e) PROVE IInv'
  <2>1. RowsInv' /\ AsksInv'
    BY <1>4, EditWriteKeeps
  <2> QED
    BY <1>4, <2>1 DEF EditWrite, CacheInv
<1>5. ASSUME NEW q \in Slot, NEW m \in Message, Ask(q, m) PROVE IInv'
  <2>1. AsksInv'
    BY <1>5, AskKeeps
  <2>2. spent' \in [{"requests", "edits"} -> Nat]
    BY <1>5, SpendKeeps DEF Ask
  <2> QED
    BY <1>5, <2>1, <2>2 DEF Ask, RowsInv, CacheInv
<1>6. ASSUME NEW q \in Slot, NEW l \in DOMAIN asks[q].links, LinkStep(q, l) PROVE IInv'
  <2>1. RowsInv'
    BY <1>6 DEF RowsInv, LinkStep, ReadCredential, QueryThrows, ReadCache, Fetch, Generate,
                SaveCache, Finish, Goto
  <2>2. ASSUME ~SaveCache(q, l) PROVE CacheInv'
    <3>1. cache' = cache
      BY <1>6, <2>2 DEF LinkStep, ReadCredential, QueryThrows, ReadCache, Fetch, Generate
    <3> QED
      BY <3>1 DEF CacheInv
  <2>3. AsksInv'
    BY <1>6, CredentialKeeps, ThrowKeeps, CacheReadKeeps, FetchKeeps, GenerateKeeps, SaveKeeps
       DEF LinkStep
  <2>4. CacheInv'
    BY <2>2, SaveKeeps
  <2> QED
    BY <2>1, <2>3, <2>4
<1>7. ASSUME NEW q \in Slot, Close(q) PROVE IInv'
  <2>1. AsksInv'
    BY <1>7, CloseKeeps
  <2> QED
    BY <1>7, <2>1 DEF Close, RowsInv, CacheInv
<1>8. CASE Tick
  BY <1>8 DEF Tick, RowsInv, CacheInv, AsksInv
<1>9. CASE UNCHANGED vars
  BY <1>9 DEF vars, RowsInv, CacheInv, AsksInv
<1> QED
  BY <1>1, <1>2, <1>3, <1>4, <1>5, <1>6, <1>7, <1>8, <1>9 DEF Next

(* The inductive invariant of the rewriting, for any number of requests,    *)
(* links and edits at once.                                                 *)
THEOREM RewritingInvariance == Spec => []IInv
<1>1. IInv /\ [Next]_vars => IInv'
  BY IInvStep
<1> QED
  BY <1>1, IInvInit, PTL DEF Spec

(* The credentials, the edits, the rows of the cache, one per key, and the  *)
(* requests in flight keep their types.                                     *)
THEOREM RewritingTypes == Spec => []TypeOK
<1>1. IInv => TypeOK
  <2> SUFFICES ASSUME IInv PROVE TypeOK
    OBVIOUS
  <2>1. \A c \in cache : [key |-> c.key, until |-> c.until] \in CacheRow
    BY DEF IInv, CacheInv, GoodRow, CacheRow
  <2>2. ASSUME NEW q \in Slot, asks[q] # Idle
        PROVE  /\ asks[q].msg \in Message
               /\ asks[q].seen \subseteq Market \X (Id \cup {NoId})
               /\ DOMAIN asks[q].links = LinksIn(asks[q].msg)
               /\ \A l \in DOMAIN asks[q].links :
                    LET p == asks[q].links[l]
                    IN  p.pc \in Progress /\ p.id \in Id \cup {NoId} /\ p.ssid \in BOOLEAN
                        /\ p.result.link = l /\ p.result.changed \in BOOLEAN
                        /\ p.result.fwd \in BOOLEAN
    <3>1. GoodAsk(asks[q], cred, now)
      BY <2>2 DEF IInv, AsksInv
    <3>2. DOMAIN asks[q].links = LinksIn(asks[q].msg)
      BY <3>1 DEF GoodAsk
    <3> QED
      BY <3>1, <3>2 DEF GoodAsk, GoodWork, GoodResult
  <2> QED
    BY <2>1, <2>2 DEF IInv, RowsInv, CacheInv, TypeOK
<1> QED
  BY <1>1, RewritingInvariance, PTL

(* Also while credentials change hands and rows of the cache are shared, a  *)
(* rewritten link carries an id that was active during the request.         *)
THEOREM RewrittenLinksAreOwn == Spec => []LinksAreOwn
<1>1. IInv => LinksAreOwn
  <2> SUFFICES ASSUME IInv, NEW q \in Slot, NEW l \in DOMAIN asks[q].links, NEW r,
                      r = asks[q].links[l].result, r.changed
               PROVE  /\ IdsIn(r.url) # {}
                      /\ \A id \in IdsIn(r.url) : <<MarketOf[l], id>> \in asks[q].seen
    BY DEF LinksAreOwn
  <2>1. GoodResult(r, l, asks[q].msg, asks[q].seen, now)
    BY AskOf DEF IInv, GoodWork
  <2> QED
    BY <2>1 DEF GoodResult
<1> QED
  BY <1>1, RewritingInvariance, PTL

(* The product behind a rewritten link of a list is the one the page gave   *)
(* for this text no longer ago than the life of a row, or the words of      *)
(* another text chose it: an action or an item of the page is never one     *)
(* message's own.                                                           *)
THEOREM ProductsWereShown == Spec => []ProductWasShown
<1>1. IInv => ProductWasShown
  <2> SUFFICES ASSUME IInv, NEW q \in Slot, NEW l \in DOMAIN asks[q].links, NEW r,
                      r = asks[q].links[l].result, r.changed, l \in ListLink
               PROVE  /\ now - r.source.at < Ttl
                      /\ r.url[CHOOSE j \in DOMAIN r.url : r.url[j][1] = "short"][3]
                           = r.source.product
                      /\ \/ r.source.msg = asks[q].msg
                         \/ Choice[r.source.page][asks[q].msg].product = r.source.product
                         \/ r.reason = "CACHE_HIT" /\ r.source.by = "candidate_fallback"
    BY DEF ProductWasShown
  <2>1. GoodResult(r, l, asks[q].msg, asks[q].seen, now) /\ asks[q].msg \in Message
    BY AskOf DEF IInv, GoodWork, GoodAsk
  <2>2. /\ IsChoice(r.source) /\ now - r.source.at < Ttl
        /\ r.source.msg = asks[q].msg \/ r.reason = "CACHE_HIT"
    BY <2>1 DEF GoodResult
  <2>3. PICK id : r.url = Short(id, r.source.product)
    BY <2>1 DEF GoodResult
  <2>4. r.url[CHOOSE j \in DOMAIN r.url : r.url[j][1] = "short"][3] = r.source.product
    <3>1. PICK p : p = r.source.product
      OBVIOUS
    <3>2. PICK url : url = r.url
      OBVIOUS
    <3>3. url = Short(id, p)
      BY <2>3, <3>1, <3>2
    <3>4. url[CHOOSE j \in DOMAIN url : url[j][1] = "short"][3] = p
      BY <3>3, ShortIds
    <3> QED
      BY <3>1, <3>2, <3>4
  <2>5. r.source.by # "candidate_fallback" =>
          Choice[r.source.page][asks[q].msg].product = r.source.product
    BY <2>1, <2>2, PageDecides DEF IsChoice
  <2> QED
    BY <2>2, <2>4, <2>5
<1> QED
  BY <1>1, RewritingInvariance, PTL

(* The preview of a message and an automatic run agree on whether its       *)
(* rewritten text goes out, for any message and whatever the marketplaces   *)
(* answer.                                                                  *)
THEOREM PreviewAgrees == Spec => []PreviewIsForwarding
<1>1. IInv => PreviewIsForwarding
  <2> SUFFICES ASSUME IInv, NEW q \in Slot, Answered(q), NEW rs, rs = Results(q)
               PROVE  CanForward(rs) <=> Forwards(rs, "auto") /\ ~FallsBack(rs)
    BY DEF PreviewIsForwarding
  <2>1. PICK links : links = ExtractLinks(asks[q].msg)
    OBVIOUS
  <2>2. GoodAsk(asks[q], cred, now)
    BY DEF IInv, AsksInv, Answered
  <2>3. \A i \in DOMAIN links : links[i] \in LinksIn(asks[q].msg)
    BY <2>1, <2>2, ExtractedLinks DEF GoodAsk
  <2>4. DOMAIN asks[q].links = LinksIn(asks[q].msg)
    BY <2>2 DEF GoodAsk
  <2>5. DOMAIN rs = DOMAIN links /\ \A i \in DOMAIN rs : rs[i] = asks[q].links[links[i]].result
    BY <2>1 DEF Results
  <2>6. \A i \in DOMAIN rs : AmazonFailed(rs[i]) => rs[i].reason \in AmazonReasons
    <3> SUFFICES ASSUME NEW i \in DOMAIN rs, AmazonFailed(rs[i])
                 PROVE  rs[i].reason \in AmazonReasons
      OBVIOUS
    <3>1. links[i] \in LinksIn(asks[q].msg) /\ links[i] \in DOMAIN asks[q].links
      BY <2>3, <2>4, <2>5
    <3>2. asks[q].links[links[i]].pc = "done"
      BY <3>1 DEF Answered, At
    <3>3. GoodWork(asks[q].links[links[i]], links[i], asks[q].msg, asks[q].seen, now)
      BY <2>2, <3>1 DEF GoodAsk
    <3>4. rs[i].link = links[i]
      BY <2>5, <3>3 DEF GoodWork, GoodResult
    <3> QED
      BY <2>5, <3>2, <3>3, <3>4 DEF GoodWork, AmazonFailed
  <2>7. Has(rs, AmazonFailed) <=>
          Has(rs, LAMBDA r : AmazonFailed(r) /\ r.reason \in AmazonReasons)
    BY <2>6 DEF Has
  <2>8. Has(rs, MlLink) /\ ~Has(rs, MlFailed) => Has(rs, Useful)
    BY DEF Has, MlFailed, Useful
  <2>9. ~Has(rs, MlLink) => ~Has(rs, MlFailed)
    BY DEF Has, MlFailed
  <2>10. FallsBack(rs) => Has(rs, MlFailed)
    BY DEF FallsBack
  <2> QED
    BY <2>7, <2>8, <2>9, <2>10 DEF CanForward, Forwards
<1> QED
  BY <1>1, RewritingInvariance, PTL
==============================================================================
