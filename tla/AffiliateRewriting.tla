-------------------------- MODULE AffiliateRewriting --------------------------
(***************************************************************************)
(* AffiliateLinkRewriterService with its credentials, its link cache and   *)
(* the providers of the marketplaces: the links of a captured message are  *)
(* rewritten in parallel to links of one user, for the preview of the      *)
(* message and for MessageForwardingService, which decides from the same   *)
(* answer whether, and with which text, the message goes out.              *)
(*                                                                         *)
(* Abstractions. A step is one query or one exchange with a marketplace.   *)
(* Texts and URLs are sequences of atoms: words, and fragments of URLs, so *)
(* that one URL may begin with another. `id` of a credential is what its   *)
(* provider reads of it: affiliate id, tag or store slug. One unit of time *)
(* is half the life of a cache row; what a request takes does not count.   *)
(* MERCADO_LIVRE_MODE is the default. No message holds WhatsApp invites.   *)
(***************************************************************************)
EXTENDS SocialPage

CONSTANTS
  Link,                 \* links as extractLinks returns them
  MarketOf,             \* detectMarketplace
  Shape,                \* what is behind an ML or Amazon link: "list", "product", "other"
  PartsOf, Behind,      \* atoms after the protocol, as it is and where it redirects to
  ProductOf,            \* the product of an ML link of shape "product"
  Page, PageOf,         \* what a social page may show, and its content
  Message, MessageOf,   \* [lines, items]; an item is a word or a link as it was typed
  Id, NoId, Session, NoSession,
  Slot,                 \* requests that may be in flight
  Ttl,                  \* cacheExpiration
  MaxTime, MaxRequests, MaxEdits   \* bounds

(* Items name links of Link. What is typed has no atom of the kinds that a   *)
(* rewriting adds: somebody else's tag is replaced, and not told apart here. *)
ASSUME AffiliateAssumption ==
  /\ NoId \notin Id /\ NoSession \notin Session
  /\ MarketOf \in [Link -> {"mercado_livre", "amazon", "magazine_luiza", "shopee", "unknown"}]
  /\ Shape \in [Link -> {"list", "product", "other"}]
  /\ \A page \in Page : IsPage(PageOf[page])
  /\ \A m \in Message : LET items == MessageOf[m].items IN
       /\ items \in Seq(ToSet(items))
       /\ \A i \in DOMAIN items : "link" \in DOMAIN items[i] => items[i].link \in Link
  /\ \A l \in Link : \A parts \in {PartsOf[l], Behind[l]} :
       /\ parts \in Seq(ToSet(parts))
       /\ \A i \in DOMAIN parts : parts[i][1] \notin {"tag", "store", "short"}
  /\ Ttl \in Nat \ {0}
  /\ {MaxTime, MaxRequests, MaxEdits} \subseteq Nat

VARIABLES
  now,
  cred,       \* AffiliateCredential rows of the user
  edits,      \* updates and deletions in flight
  cache,      \* AffiliateLinkCache rows
  asks,       \* rewriteMessageForUser requests
  spent       \* how much of the bounds is used

vars == <<now, cred, edits, cache, asks, spent>>

Market == {"mercado_livre", "amazon", "magazine_luiza"}
ListLink == {l \in Link : MarketOf[l] = "mercado_livre" /\ Shape[l] = "list"}
Redirects(l) == Behind[l] # PartsOf[l]

Credential == [on : BOOLEAN, id : Id \cup {NoId}, session : Session \cup {NoSession}]

(* A PATCH names `fields` and has read the session `old`; a DELETE names    *)
(* isActive alone.                                                          *)
Edit == [market : Market, op : {"update", "delete"}, fields : SUBSET {"on", "id", "session"},
         row : Credential, old : Session \cup {NoSession}]

Protocol == <<<<"https">>>>
Url(l) == Protocol \o PartsOf[l]
Short(id, p) == Protocol \o <<<<"short", id, p>>>>
IdsIn(url) == {url[i][2] : i \in {j \in DOMAIN url : url[j][1] \in {"tag", "store", "short"}}}

----------------------------------------------------------------------------
(* What becomes of a link. `behind` is resolvedUrl; `source`, a history,    *)
(* says from which page, for which message and when a short link was made.  *)

Unchanged(l, reason, fwd) ==
  [link |-> l, changed |-> FALSE, fwd |-> fwd, reason |-> reason,
   url |-> Url(l), behind |-> Url(l), source |-> <<>>]

Rewritten(l, url, reason) ==
  [Unchanged(l, reason, TRUE) EXCEPT !.changed = url # Url(l), !.url = url,
                                     !.behind = Protocol \o Behind[l]]

(* AmazonAffiliateProvider: a short link may lead nowhere, or elsewhere.    *)
AmazonResults(l, id) ==
  LET tagged == Rewritten(l, Protocol \o Behind[l] \o <<<<"tag", id>>>>, "")
      invalid == Unchanged(l, "INVALID_AMAZON_URL", FALSE)
  IN CASE id = NoId -> {Unchanged(l, "AMAZON_TAG_NOT_CONFIGURED", FALSE)}
       [] id # NoId /\ Redirects(l) ->
            {tagged, invalid, Unchanged(l, "AMAZON_SHORT_URL_RESOLUTION_FAILED", FALSE)}
       [] OTHER -> {IF Shape[l] = "other" THEN invalid ELSE tagged}

(* MagazineLuizaAffiliateProvider *)
MagaluResults(l, id) ==
  IF id = NoId THEN {Unchanged(l, "MAGALU_CREDENTIAL_MISSING", FALSE)}
  ELSE IF Shape[l] = "other" THEN {Unchanged(l, "MAGALU_REWRITE_FAILED", FALSE)}
  ELSE {Rewritten(l, Protocol \o <<<<"store", id>>>> \o PartsOf[l], "")}

(* ShopeeAffiliateProvider, with and without keys: never a generator.       *)
ShopeeResults(l) ==
  {Unchanged(l, reason, TRUE) : reason \in {"SHOPEE_CREDENTIAL_MISSING",
                                            "SHOPEE_GENERATOR_NOT_IMPLEMENTED"}}

(* The credential is missing or inactive. *)
MissingCredential(l) ==
  CASE MarketOf[l] = "amazon" -> Unchanged(l, "AMAZON_TAG_NOT_CONFIGURED", FALSE)
    [] MarketOf[l] = "magazine_luiza" -> Unchanged(l, "MAGALU_CREDENTIAL_MISSING", FALSE)
    [] OTHER -> Unchanged(l, "MISSING_CREDENTIAL", FALSE)

(* generateAffiliateLink: the statuses of the first post and of the one     *)
(* with a csrf token, if one is known or found. "other" stands for a status *)
(* or a body that is of no use.                                             *)
GeneratorStatus == {"short_url", "csrf", "401", "403", "other"}

Generated(first, token, second) ==
  LET last == IF first \in {"csrf", "403"} /\ token THEN second ELSE first
  IN  CASE last \in {"401", "403"} -> "MERCADO_LIVRE_SESSION_INVALID"
        [] last = "short_url" -> ""
        [] OTHER -> "MERCADO_LIVRE_GENERATION_FAILED"

(* What analyzeSocialPage takes from each page for each text. *)
Choice == [page \in Page |-> [m \in Message |-> Chosen(PageOf[page], MessageOf[m].lines)]]

----------------------------------------------------------------------------
(* Texts. *)

StartsAt(url, text, i) ==
  i + Len(url) - 1 <= Len(text) /\ SubSeq(text, i, i + Len(url) - 1) = url

Occurs(url, text) == \E i \in DOMAIN text : StartsAt(url, text, i)

(* Wrong: the first occurrence only. *)
Substitute_First(text, url, by) ==
  IF ~Occurs(url, text) THEN text
  ELSE LET at == CHOOSE i \in DOMAIN text :
             StartsAt(url, text, i) /\ \A j \in 1 .. i - 1 : ~StartsAt(url, text, j)
       IN  SubSeq(text, 1, at - 1) \o by \o SubSeq(text, at + Len(url), Len(text))

(* text.split(url).join(by) *)
Substitute(text, url, by) ==
  LET from[i \in 1 .. Len(text) + Len(url)] ==
        IF i > Len(text) THEN <<>>
        ELSE IF StartsAt(url, text, i) THEN by \o from[i + Len(url)]
        ELSE <<text[i]>> \o from[i + 1]
  IN  from[1]

(* An item is [word] or [link, bare]; a bare link is typed without its      *)
(* protocol, which extractLinks puts before it.                             *)
IsLink(item) == "link" \in DOMAIN item
Typed(item) == IF ~IsLink(item) THEN <<<<"word", item.word>>>>
               ELSE IF item.bare THEN PartsOf[item.link] ELSE Url(item.link)

Items(m) == MessageOf[m].items

TextOf(m) == FlattenSeq([i \in DOMAIN Items(m) |-> Typed(Items(m)[i])])

LinksIn(m) == {Items(m)[i].link : i \in {j \in DOMAIN Items(m) : IsLink(Items(m)[j])}}

(* Each link once, in the order in which they are first met. *)
FirstPlaces(m) ==
  {i \in DOMAIN Items(m) : IsLink(Items(m)[i]) /\
     \A j \in 1 .. i - 1 : ~(IsLink(Items(m)[j]) /\ Items(m)[j].link = Items(m)[i].link)}

ExtractLinks(m) ==
  LET met(i) == Cardinality({j \in FirstPlaces(m) : j <= i})
      place(k) == CHOOSE i \in FirstPlaces(m) : met(i) = k
  IN  [k \in 1 .. Cardinality(FirstPlaces(m)) |-> Items(m)[place(k)].link]

----------------------------------------------------------------------------
(* The answer for a message, and what forwarding makes of it. *)

Has(rs, Test(_)) == \E i \in DOMAIN rs : Test(rs[i])
First(rs, Test(_)) ==
  rs[CHOOSE i \in DOMAIN rs : Test(rs[i]) /\ \A j \in 1 .. i - 1 : ~Test(rs[j])]

MlLink(r) == MarketOf[r.link] = "mercado_livre"
MlFailed(r) == MlLink(r) /\ ~(r.changed /\ r.fwd)
AmazonFailed(r) == MarketOf[r.link] = "amazon" /\ ~r.fwd
MagaluFailed(r) == MarketOf[r.link] = "magazine_luiza" /\ ~r.fwd
Useful(r) == r.changed \/ r.fwd

(* The changed links are replaced one after the other, then those of        *)
(* Mercado Livre that failed are removed.                                   *)
RewrittenText(m, rs) ==
  LET replace(text, r) == IF r.changed THEN Substitute(text, Url(r.link), r.url) ELSE text
      remove(text, r) == Substitute(text, Url(r.link), <<>>)
  IN  FoldLeft(remove, FoldLeft(replace, TextOf(m), rs), SelectSeq(rs, MlFailed))

(* Wrong: one rewritten Mercado Livre link is enough. *)
CanForward_Any(rs) ==
  /\ ~Has(rs, AmazonFailed) /\ ~Has(rs, MagaluFailed)
  /\ Has(rs, Useful)

(* canForward of the preview *)
CanForward(rs) ==
  /\ ~Has(rs, AmazonFailed) /\ ~Has(rs, MagaluFailed)
  /\ IF Has(rs, MlLink) THEN ~Has(rs, MlFailed) ELSE Has(rs, Useful)

FallbackReasons == {"MERCADO_LIVRE_PRODUCT_NOT_FOUND", "MERCADO_LIVRE_GENERATION_FAILED"}
AmazonReasons == {"AMAZON_TAG_NOT_CONFIGURED", "AMAZON_SHORT_URL_RESOLUTION_FAILED",
                  "INVALID_AMAZON_URL"}

(* buildMercadoLivreFallbackText: the text as captured, with what is behind *)
(* its first Mercado Livre link.                                            *)
FallbackText(m, rs) ==
  LET behind == First(rs, MlLink).behind
  IN  IF Occurs(behind, TextOf(m)) THEN TextOf(m) ELSE TextOf(m) \o behind

(* Wrong: the fallback sends the text the failed links were removed from. *)
ForwardText_Removed(m, rs) == RewrittenText(m, rs)

(* The first failure decides whether the message goes out as it came. *)
FallsBack(rs) == Has(rs, MlFailed) /\ First(rs, MlFailed).reason \in FallbackReasons

ForwardText(m, rs) == IF FallsBack(rs) THEN FallbackText(m, rs) ELSE RewrittenText(m, rs)

Forwards(rs, mode) ==
  /\ Has(rs, MlFailed) => FallsBack(rs)
  /\ ~Has(rs, LAMBDA r : AmazonFailed(r) /\ r.reason \in AmazonReasons)
  /\ ~Has(rs, MagaluFailed)
  /\ mode = "auto" /\ ~FallsBack(rs) => Has(rs, Useful)

----------------------------------------------------------------------------
(* Wrong: the key leaves the affiliate id out. *)
CacheKey_NoIdentity(l, id) == <<l>>

(* hashAffiliateCacheKey *)
CacheKey(l, id) == <<l, id>>

CacheRow == [key : Link \X (Id \cup {NoId}), until : Nat]

Progress == {"cred", "cache", "fetch", "generate", "save", "done", "thrown"}
Idle == [links |-> <<>>]

(* `ssid`: the credential read had a session; `seen`, a history: what was   *)
(* stored in active credentials while the request was in flight.            *)
TypeOK ==
  /\ now \in Nat
  /\ cred \in [Market -> Credential]
  /\ edits \subseteq Edit
  /\ \A c \in cache : [key |-> c.key, until |-> c.until] \in CacheRow
  /\ \A c, d \in cache : c.key = d.key => c = d
  /\ \A q \in Slot : asks[q] = Idle \/
       /\ asks[q].msg \in Message
       /\ asks[q].seen \subseteq Market \X (Id \cup {NoId})
       /\ DOMAIN asks[q].links = LinksIn(asks[q].msg)
       /\ \A l \in DOMAIN asks[q].links :
            LET p == asks[q].links[l]
            IN  p.pc \in Progress /\ p.id \in Id \cup {NoId} /\ p.ssid \in BOOLEAN
                /\ p.result.link = l /\ p.result.changed \in BOOLEAN
                /\ p.result.fwd \in BOOLEAN
  /\ spent \in [{"requests", "edits"} -> Nat]

(* The user begins with a credential of each marketplace: one that was      *)
(* never stored is read as an inactive one.                                 *)
Configured(id, session) ==
  [m \in Market |-> [on |-> TRUE, id |-> id,
                     session |-> IF m = "mercado_livre" THEN session ELSE NoSession]]

Init ==
  /\ now = 0
  /\ \E id \in Id, session \in Session : cred = Configured(id, session)
  /\ edits = {} /\ cache = {}
  /\ asks = [q \in Slot |-> Idle]
  /\ spent = [b \in {"requests", "edits"} |-> 0]

Spend(b, max) == spent[b] < max /\ spent' = [spent EXCEPT ![b] = @ + 1]

----------------------------------------------------------------------------
(* AffiliateCredentialsService *)

ActiveIds(rows) == {<<m, rows[m].id>> : m \in {n \in Market : rows[n].on}}

WriteCredential(m, row) ==
  /\ cred' = [cred EXCEPT ![m] = row]
  /\ asks' = [q \in Slot |-> IF asks[q] = Idle THEN Idle
                             ELSE [asks[q] EXCEPT !.seen = @ \cup ActiveIds(cred')]]

(* Only Mercado Livre's metadata is ever read. *)
MayStore(m, row) ==
  /\ m = "magazine_luiza" => row.id # NoId
  /\ m # "mercado_livre" => row.session = NoSession

(* create: one upsert, which activates. A field left out keeps its value,   *)
(* which is among those it may be given.                                    *)
CreateCredential(m) ==
  /\ Spend("edits", MaxEdits)
  /\ \E row \in Credential : row.on /\ MayStore(m, row) /\ WriteCredential(m, row)
  /\ UNCHANGED <<now, edits, cache>>

(* update and softDelete read the row and then write it by id. A PATCH      *)
(* names one field here.                                                    *)
UpdateFind(m) ==
  /\ Spend("edits", MaxEdits)
  /\ \E f \in {"on", "id", "session"}, row \in {c \in Credential : MayStore(m, c)} :
       /\ \A g \in {"on", "id", "session"} : row[g] # cred[m][g] <=> g = f
       /\ edits' = edits \cup {[market |-> m, op |-> "update", fields |-> {f},
                                row |-> row, old |-> cred[m].session]}
  /\ UNCHANGED <<now, cred, cache, asks>>

DeleteFind(m) ==
  /\ Spend("edits", MaxEdits)
  /\ edits' = edits \cup {[market |-> m, op |-> "delete", row |-> [cred[m] EXCEPT !.on = FALSE],
                           old |-> cred[m].session, fields |-> {"on"}]}
  /\ UNCHANGED <<now, cred, cache, asks>>

(* update encrypts the metadata it read anew and writes it back, also when  *)
(* it was not asked to change it.                                           *)
EditWrite(e) ==
  /\ WriteCredential(e.market,
       [f \in {"on", "id", "session"} |->
          IF f \in e.fields THEN e.row[f]
          ELSE IF f = "session" /\ e.op = "update" THEN e.old
          ELSE cred[e.market][f]])
  /\ edits' = edits \ {e}
  /\ UNCHANGED <<now, cache, spent>>

----------------------------------------------------------------------------
(* rewriteMessageForUser *)

Ask(q, m) ==
  /\ asks[q] = Idle
  /\ Spend("requests", MaxRequests)
  /\ LET begin(l) == [pc |-> IF MarketOf[l] = "unknown" THEN "done" ELSE "cred",
                      id |-> NoId, ssid |-> FALSE, source |-> <<>>,
                      result |-> Unchanged(l, "UNKNOWN_MARKETPLACE", FALSE)]
     IN asks' = [asks EXCEPT ![q] = [msg |-> m, seen |-> ActiveIds(cred),
                                     links |-> [l \in LinksIn(m) |-> begin(l)]]]
  /\ UNCHANGED <<now, cred, edits, cache>>

At(q, l, pc) == asks[q].links[l].pc = pc

Goto(q, l, p) ==
  /\ asks' = [asks EXCEPT ![q].links[l] = p]
  /\ UNCHANGED <<now, cred, edits, spent>>

Finish(q, l, pc, r) ==
  Goto(q, l, [pc |-> pc, id |-> NoId, ssid |-> FALSE, source |-> <<>>, result |-> r])

(* The result of the providers that ask nobody else. *)
DirectResults(l) ==
  CASE MarketOf[l] = "shopee" -> ShopeeResults(l)
    [] MarketOf[l] # "shopee" /\ ~cred[MarketOf[l]].on -> {MissingCredential(l)}
    [] MarketOf[l] = "amazon" /\ cred["amazon"].on -> AmazonResults(l, cred["amazon"].id)
    [] MarketOf[l] = "magazine_luiza" /\ cred["magazine_luiza"].on ->
         MagaluResults(l, cred["magazine_luiza"].id)
    [] OTHER -> {}

ReadCredential(q, l) ==
  /\ At(q, l, "cred")
  /\ \/ \E r \in DirectResults(l) : Finish(q, l, "done", r)
     \/ /\ DirectResults(l) = {}
        /\ Goto(q, l, [asks[q].links[l] EXCEPT
             !.pc = "cache", !.id = cred[MarketOf[l]].id,
             !.ssid = cred[MarketOf[l]].session # NoSession])
  /\ UNCHANGED cache

(* The query of the credential rejects, and the answer with it; the other   *)
(* links go on.                                                             *)
QueryThrows(q, l) ==
  /\ At(q, l, "cred")
  /\ Finish(q, l, "thrown", asks[q].links[l].result)
  /\ UNCHANGED cache

(* Wrong: rows do not expire. *)
Fresh_Always(c) == TRUE

Fresh(c) == c.until > now

(* What MercadoLivreAffiliateProvider asks of a credential before anything. *)
Refusals(p) ==
  CASE ~p.ssid -> {"MISSING_MERCADO_LIVRE_SESSION"}
    [] p.ssid /\ p.id = NoId -> {"MISSING_AFFILIATE_VALUE"}
    [] OTHER -> {}

(* A query that fails is as good as no row; then the provider begins.       *)
ReadCache(q, l) ==
  /\ At(q, l, "cache")
  /\ LET p == asks[q].links[l]
         hits == {c \in cache : c.key = CacheKey(l, p.id) /\ Fresh(c)}
     IN \/ \E c \in hits :
             Finish(q, l, "done", [Rewritten(l, c.url, "CACHE_HIT") EXCEPT !.source = c.source])
        \/ \E reason \in Refusals(p) :
             Finish(q, l, "done", Unchanged(l, reason, FALSE))
        \/ Refusals(p) = {} /\ Goto(q, l, [p EXCEPT !.pc = "fetch"])
  /\ UNCHANGED cache

(* A failure once the redirects were followed. *)
Failure(l, reason) == [Unchanged(l, reason, FALSE) EXCEPT !.behind = Protocol \o Behind[l]]

(* resolveUrl, and for a social page the page and its product. The owner of *)
(* the list may change it at any time, so it shows anything.                *)
Fetch(q, l) ==
  /\ At(q, l, "fetch")
  /\ LET source(page, choice) ==
           [page |-> page, msg |-> asks[q].msg, at |-> now,
            product |-> choice.product, by |-> choice.by]
         found(src) == Goto(q, l, [asks[q].links[l] EXCEPT !.pc = "generate", !.source = src])
     IN \/ /\ Redirects(l)
           /\ Finish(q, l, "done", Unchanged(l, "MERCADO_LIVRE_PRODUCT_NOT_FOUND", FALSE))
        \/ /\ Shape[l] # "product"
           /\ Finish(q, l, "done", Failure(l, "MERCADO_LIVRE_PRODUCT_NOT_FOUND"))
        \/ \E page \in Page :
             /\ Shape[l] = "list" /\ Choice[page][asks[q].msg].product # NoProduct
             /\ found(source(page, Choice[page][asks[q].msg]))
        \/ /\ Shape[l] = "product"
           /\ found(source("none", [product |-> ProductOf[l], by |-> "direct"]))
  /\ UNCHANGED cache

GeneratorErrors ==
  {Generated(first, token, second) :
     first \in GeneratorStatus, token \in BOOLEAN, second \in GeneratorStatus}

Generate(q, l) ==
  /\ At(q, l, "generate")
  /\ \E error \in GeneratorErrors :
       IF error = "" THEN Goto(q, l, [asks[q].links[l] EXCEPT !.pc = "save"])
       ELSE Finish(q, l, "done", Failure(l, error))
  /\ UNCHANGED cache

(* Wrong: a second row of the key. *)
Saved_Append(row) == cache \cup {row}

(* The upsert of a row. *)
Saved(row) == {c \in cache : c.key # row.key} \cup {row}

(* A failure to save is only logged. *)
SaveCache(q, l) ==
  /\ At(q, l, "save")
  /\ LET p == asks[q].links[l]
         url == Short(p.id, p.source.product)
         row == [key |-> CacheKey(l, p.id), url |-> url, until |-> now + Ttl,
                 source |-> p.source]
     IN /\ cache' \in {cache, Saved(row)}
        /\ Finish(q, l, "done", [Rewritten(l, url, "") EXCEPT !.source = p.source])

(* The request is over when the last of its links is, answered or not.      *)
Close(q) ==
  /\ asks[q] # Idle
  /\ \A l \in DOMAIN asks[q].links : asks[q].links[l].pc \in {"done", "thrown"}
  /\ asks' = [asks EXCEPT ![q] = Idle]
  /\ UNCHANGED <<now, cred, edits, cache, spent>>

----------------------------------------------------------------------------
Tick ==
  /\ now < MaxTime /\ now' = now + 1
  /\ edits = {} /\ \A q \in Slot : asks[q] = Idle
  /\ UNCHANGED <<cred, edits, cache, asks, spent>>

LinkStep(q, l) ==
  \/ ReadCredential(q, l) \/ QueryThrows(q, l) \/ ReadCache(q, l)
  \/ Fetch(q, l) \/ Generate(q, l) \/ SaveCache(q, l)

Next ==
  \/ \E m \in Market : CreateCredential(m) \/ UpdateFind(m) \/ DeleteFind(m)
  \/ \E e \in edits : EditWrite(e)
  \/ \E q \in Slot, m \in Message : Ask(q, m)
  \/ \E q \in Slot : \E l \in DOMAIN asks[q].links : LinkStep(q, l)
  \/ \E q \in Slot : Close(q)
  \/ Tick

Spec == Init /\ [][Next]_vars

----------------------------------------------------------------------------
(* Properties. *)

Answered(q) ==
  asks[q] # Idle /\ \A l \in DOMAIN asks[q].links : At(q, l, "done")
Results(q) ==
  LET links == ExtractLinks(asks[q].msg)
  IN  [i \in DOMAIN links |-> asks[q].links[links[i]].result]

(* A rewritten link, from the cache or made while the credential changed    *)
(* hands, carries an id that an active credential of its marketplace held   *)
(* at some moment of the request.                                           *)
LinksAreOwn ==
  \A q \in Slot : \A l \in DOMAIN asks[q].links :
    LET r == asks[q].links[l].result
    IN  r.changed => IdsIn(r.url) # {} /\
          \A id \in IdsIn(r.url) : <<MarketOf[l], id>> \in asks[q].seen

(* The product behind an answered link of a social page is what the page,   *)
(* no longer ago than the life of a cache row, gave for this very text; or  *)
(* it was chosen by the words of another message that shares the link.      *)
ProductWasShown ==
  \A q \in Slot : \A l \in DOMAIN asks[q].links :
    LET r == asks[q].links[l].result
        product == (CHOOSE j \in DOMAIN r.url : r.url[j][1] = "short")
    IN  r.changed /\ l \in ListLink =>
          /\ now - r.source.at < Ttl
          /\ r.url[product][3] = r.source.product
          /\ \/ r.source.msg = asks[q].msg
             \/ Choice[r.source.page][asks[q].msg].product = r.source.product
             \/ r.reason = "CACHE_HIT" /\ r.source.by = "candidate_fallback"

(* One link's URL is found in another's, as typed or as rewritten before    *)
(* it, or was typed without its protocol: then replacing one after another  *)
(* is not replacing each.                                                   *)
Entangled(m, rs) ==
  \/ \E i \in DOMAIN Items(m) : IsLink(Items(m)[i]) /\ Items(m)[i].bare
  \/ \E i, j \in DOMAIN rs :
       i # j /\ (Occurs(Url(rs[i].link), Url(rs[j].link)) \/ Occurs(Url(rs[i].link), rs[j].url))

(* Otherwise the rewritten text has every occurrence of every link replaced *)
(* by its own rewriting, and those of Mercado Livre that failed removed.    *)
LinksReplaced ==
  \A q \in Slot : Answered(q) =>
    LET m == asks[q].msg
        rs == Results(q)
        of(l) == rs[CHOOSE i \in DOMAIN rs : rs[i].link = l]
        fate(item) == IF ~IsLink(item) THEN Typed(item)
                      ELSE IF MlFailed(of(item.link)) THEN <<>> ELSE of(item.link).url
    IN  Entangled(m, rs) \/
        RewrittenText(m, rs) = FlattenSeq([i \in DOMAIN Items(m) |-> fate(Items(m)[i])])

(* A text that is forwarded has each of its links, rewritten or as it came: *)
(* the text that links were removed from is never sent.                     *)
SentKeepsLinks ==
  \A q \in Slot : Answered(q) =>
    LET m == asks[q].msg
        rs == Results(q)
        text == ForwardText(m, rs)
    IN  ~Entangled(m, rs) /\ (\E mode \in {"auto", "manual"} : Forwards(rs, mode)) =>
          \A i \in DOMAIN rs : Occurs(rs[i].url, text) \/ Occurs(Url(rs[i].link), text)

(* The preview says canForward exactly when an automatic run would send the *)
(* rewritten text: what else it sends, it sends as the message came.        *)
PreviewIsForwarding ==
  \A q \in Slot : Answered(q) =>
    LET rs == Results(q)
    IN  CanForward(rs) <=> Forwards(rs, "auto") /\ ~FallsBack(rs)

(* Without a show-product action, the product that was chosen for a text    *)
(* does not depend on the order in which the page names its products, if it *)
(* names each of them once.                                                 *)
OrderIsIrrelevant ==
  \A q \in Slot : \A l \in DOMAIN asks[q].links :
    LET p == asks[q].links[l]
        page == PageOf[p.source.page]
        n == Len(page.places)
        reorders(other) == /\ other.pdp = page.pdp /\ Len(other.places) = n
                           /\ ToSet(other.places) = ToSet(page.places)
    IN  /\ At(q, l, "generate") /\ l \in ListLink
        /\ \A j, k \in 1 .. n : j # k => page.places[j].product # page.places[k].product
        /\ \A j \in 1 .. n : ~page.places[j].action
        => \A other \in {o \in Page \ {p.source.page} : reorders(PageOf[o])} :
             Choice[other][asks[q].msg].product = p.source.product
=============================================================================
