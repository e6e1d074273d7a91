--------------------------- MODULE DashboardProofs ---------------------------
(***************************************************************************)
(* The invariants of the pages of the web application, for any elements,   *)
(* plans, limits and numbers of clicks, polls, failures and changes.       *)
(***************************************************************************)
EXTENDS Dashboard, FiniteSetTheorems, TLAPS

State == {"absent", "pending", "connected", "disconnected", "active", "inactive",
          "none", "canceled", "set", "eligible", "waiting", "paid", "rejected"}
Element == [is : State, rev : Nat]
Elements == [Item -> Element]
Usage == [plan : Plan, sessions : Nat, sources : Nat, destinations : Nat]
Field == [rev : Nat, edited : BOOLEAN]
CallName == {"write", "rows", "row", "usage", "other"}
Operation ==
  {"load", "poll", "status", "qr", "sync", "connect", "remove", "pause", "resume", "invite",
   "groups", "createRoute", "checkout", "cancel", "save", "test", "raw", "paid", "reject",
   "setActive", "savePrices"}
Reads == {"load", "poll", "status", "qr", "sync", "groups", "test", "raw"}

Answers(call) ==
  CASE call \in {"write", "rows"} -> Elements
    [] call = "row"               -> Element
    [] call = "usage"             -> Usage
    [] call = "other"             -> {TRUE}

TabOK(t) ==
  t \in [visit : Nat, loading : BOOLEAN, read : {"no", "yes", "failed"},
         view : Elements, usage : Usage \cup {NoUsage}, listed : BOOLEAN,
         draft : [Item -> Field],
         busy : [FlagName -> {NoOne} \cup [op : Operation, item : Item \cup {AnyItem}]]]

(* Conditions on one handler f, on one page p. *)

(* Its state, the answers aside. *)
FlightOK(p, f) ==
  /\ f = [visit |-> f.visit, op |-> f.op, item |-> f.item, step |-> f.step,
          got |-> f.got, refused |-> f.refused, body |-> f.body, seen |-> f.seen,
          read |-> f.read, wrote |-> f.wrote, freed |-> f.freed]
  /\ f.visit \in Nat /\ f.op \in DOMAIN Pages[p] /\ f.item \in Item
  /\ f.step \in 1 .. Len(Calls(p, f.op))
  /\ f.refused \in BOOLEAN /\ f.freed \in BOOLEAN
  /\ f.body \in [Item -> Field] /\ f.seen \in [Item -> Nat]
  /\ f.read \in {"no", "yes", "failed"}
  /\ f.wrote \in [Item -> Nat]

(* Sent, of the page p. *)
SentOn(p, op, i) ==
  CASE p \in {"user", "generator"} /\ op = "save" -> Item
    [] p = "settings" /\ op = "savePrices"        -> Item \ {First}
    [] op \in Reads                               -> {}
    [] OTHER                                      -> {i}

(* What it has got: answers of its step, or of every step so far when it   *)
(* shows them at its end. The list it read is not older than what it wrote, *)
(* and what its write answered is what it wrote.                           *)
GotOK(p, f) ==
  /\ \A c \in DOMAIN f.got :
       /\ f.got[c] \in Answers(c)
       /\ \/ c \in Calls(p, f.op)[f.step]
          \/ ShowsAtEnd(p, f.op) /\ \E n \in 1 .. f.step - 1 : c \in Calls(p, f.op)[n]
  /\ "rows" \in DOMAIN f.got => \A i \in Item : f.wrote[i] <= f.got["rows"][i].rev
  /\ "write" \in DOMAIN f.got =>
       \A i \in Item : f.wrote[i] = 0 \/ (/\ i \in SentOn(p, f.op, f.item)
                                          /\ f.wrote[i] = f.got["write"][i].rev)
  /\ "write" \notin Calls(p, f.op)[1] => \A i \in Item : f.wrote[i] = 0
  /\ p = "billing" /\ f.op = "checkout" /\ f.step = 3 => "rows" \in DOMAIN f.got

(* What it sends was edited, or is as it was read. *)
SendsRead(p, f) ==
  p \in Forms =>
    \A i \in SentOn(p, f.op, f.item) :
      f.body[i].edited \/ (f.read # "no" /\ f.body[i].rev = f.seen[i])

Sound(p, f) == FlightOK(p, f) /\ GotOK(p, f) /\ SendsRead(p, f)

(* The component t it was started from, whose elements o were overtaken. *)
InTab(p, t, o, f) ==
  /\ f.visit <= t.visit
  /\ f.visit = t.visit =>
       /\ Flag(p, f.op) \in FlagName /\ ~f.freed
            => t.busy[Flag(p, f.op)] = Mark(f.op, f.item)
       /\ p = "user" /\ f.op # "load" => t.read # "no"
       /\ p # "generator" /\ f.step >= 2 /\ ShowsAnswer(p, f.op) =>
            \A i \in Item : f.wrote[i] <= t.view[i].rev \/ i \in o

(* What it wrote is at the API, or something newer. *)
IsStored(d, f) == \A i \in Item : f.wrote[i] <= d[i].rev

(* f and g are two runs of a button, each with the flag. *)
Twice(p, f, g) ==
  f.visit = g.visit /\ Flag(p, f.op) \in FlagName /\ Mark(f.op, f.item) = Mark(g.op, g.item)

(* A form shows what it read last, or what was typed since. *)
DraftOK(p, t) ==
  p \in Forms => \A i \in Item : t.draft[i].edited \/ t.draft[i].rev = t.view[i].rev

TypeOK ==
  /\ page \in Page /\ plan \in Plan /\ db \in Elements /\ TabOK(tab)
  /\ flight = [k \in Slot |-> flight[k]]
  /\ wrote \in [Item -> Nat] /\ overtaken \subseteq Item

(* The routes of the page of the groups are active or not, nothing else. *)
RoutesOK == page = "groups" => \A i \in Item : db[i].is \in {"active", "inactive"}

FlightsOK ==
  \A k \in Slot : flight[k] = NoOne \/
    (Sound(page, flight[k]) /\ InTab(page, tab, overtaken, flight[k]) /\ IsStored(db, flight[k]))

TwiceOK ==
  \A k, n \in Slot :
    (k # n /\ flight[k] # NoOne /\ flight[n] # NoOne /\ Twice(page, flight[k], flight[n]))
      => flight[k].freed \/ flight[n].freed

FormOK ==
  /\ DraftOK(page, tab)
  /\ page \in Forms /\ ~tab.loading => tab.read # "no"

IInv == TypeOK /\ RoutesOK /\ FlightsOK /\ TwiceOK /\ FormOK /\ OwnWritesShown

USE DashboardAssumption

----------------------------------------------------------------------------
(* The table of the pages. *)

TableOK(p, op) ==
  /\ op \in Operation
  /\ Flag(p, op) \in FlagName => op \notin {"load", "poll"}
  /\ Len(Calls(p, op)) \in 1 .. 3
  /\ \A n \in 1 .. Len(Calls(p, op)) :
       /\ Calls(p, op)[n] \subseteq CallName
       /\ "write" \in Calls(p, op)[n] => n = 1 /\ Calls(p, op)[n] = {"write"} /\ op \notin Reads
       /\ "row" \in Calls(p, op)[n] => n = 1 /\ p = "whatsapp"
  /\ op \in {"poll", "status"} => Calls(p, op)[1] = {"row"}
  /\ ShowsAnswer(p, op) => "rows" \notin Calls(p, op)[1]
  /\ "write" \in Calls(p, op)[1] =>
       \/ p = "generator" \/ ShowsAnswer(p, op)
       \/ Len(Calls(p, op)) = 2 /\ "rows" \in Calls(p, op)[2] /\ ~ShowsAtEnd(p, op)
       \/ p = "billing" /\ op = "checkout"
  /\ op = "load" /\ p \in Forms => Len(Calls(p, op)) = 1 /\ "rows" \in Calls(p, op)[1]
  /\ ShowsAtEnd(p, op) => p \in {"billing", "routes"} /\ ~ShowsAnswer(p, op)
  /\ p = "billing" /\ op = "checkout" =>
       Len(Calls(p, op)) = 3 /\ Calls(p, op)[1] = {"write"} /\ Calls(p, op)[2] = {"rows"} /\ ShowsAtEnd(p, op)

(* The handler op of page p, spelled out. *)
Does(p, op, flag, calls) == Flag(p, op) = flag /\ Calls(p, op) = calls

LEMMA TableHolds == ASSUME NEW p \in Page, NEW op \in DOMAIN Pages[p] PROVE TableOK(p, op)
<1>1. CASE p = "whatsapp"
  <2>1. \/ op = "load" /\ Does(p, op, "loading", <<{"rows", "usage"}>>)
        \/ op = "poll" /\ Does(p, op, "none", <<{"row"}, {"other"}>>)
        \/ op = "status" /\ Does(p, op, "actionId", <<{"row"}, {"other"}>>)
        \/ op \in {"qr", "sync"} /\ Does(p, op, "actionId", <<{"other"}>>)
        \/ op = "connect" /\ Does(p, op, "actionId", <<{"write"}, {"usage"}, {"other"}>>)
        \/ op = "remove" /\ Does(p, op, "actionId", <<{"write"}, {"usage"}>>)
    BY <1>1 DEF WhatsAppPage, Does, Flag, Calls, Handler, Pages
  <2> QED
    BY ONLY <1>1, <2>1 DEF Does, TableOK, Operation, Reads, CallName, FlagName, Forms,
                       ShowsAnswer, ShowsAtEnd
<1>2. CASE p = "routes"
  <2>1. \/ op = "load" /\ Does(p, op, "loading", <<{"rows"}, {"other"}>>)
        \/ op \in {"pause", "resume", "invite"} /\ Does(p, op, "savingId", <<{"write"}, {"rows"}>>)
    BY <1>2 DEF RoutesPage, Does, Flag, Calls, Handler, Pages, Reloading
  <2> QED
    BY ONLY <1>2, <2>1 DEF Does, TableOK, Operation, Reads, CallName, FlagName, Forms,
                       ShowsAnswer, ShowsAtEnd
<1>3. CASE p = "groups"
  <2>1. \/ op = "load" /\ Does(p, op, "loading", <<{"rows", "usage"}, {"other"}>>)
        \/ op = "groups" /\ Does(p, op, "actionId", <<{"other"}>>)
        \/ op = "createRoute" /\ Does(p, op, "actionId", <<{"write"}, {"rows", "usage"}>>)
    BY <1>3 DEF GroupsPage, GroupsLoad, Does, Flag, Calls, Handler, Pages
  <2> QED
    BY ONLY <1>3, <2>1 DEF Does, TableOK, Operation, Reads, CallName, FlagName, Forms,
                       ShowsAnswer, ShowsAtEnd
<1>4. CASE p = "billing"
  <2>1. \/ op = "load" /\ Does(p, op, "loading", <<{"rows", "usage"}>>)
        \/ op = "checkout" /\ Does(p, op, "checkoutPlan", <<{"write"}, {"rows"}, {"usage"}>>)
        \/ op = "cancel" /\ Does(p, op, "canceling", <<{"write"}>>)
    BY <1>4 DEF BillingPage, Does, Flag, Calls, Handler, Pages
  <2> QED
    BY ONLY <1>4, <2>1 DEF Does, TableOK, Operation, Reads, CallName, FlagName, Forms,
                       ShowsAnswer, ShowsAtEnd
<1>5. CASE p = "credentials"
  <2>1. \/ op = "load" /\ Does(p, op, "loading", <<{"rows"}>>)
        \/ op = "save" /\ Does(p, op, "saving", <<{"write"}, {"rows"}>>)
        \/ op = "test" /\ Does(p, op, "testing", <<{"other"}>>)
        \/ op = "raw" /\ Does(p, op, "testingRaw", <<{"other"}>>)
    BY <1>5 DEF CredentialsPage, CredentialsLoad, CredentialsTest, Does, Flag, Calls, Handler, Pages, Reloading
  <2> QED
    BY ONLY <1>5, <2>1 DEF Does, TableOK, Operation, Reads, CallName, FlagName, Forms,
                       ShowsAnswer, ShowsAtEnd
<1>6. CASE p = "referrals"
  <2>1. \/ op = "load" /\ Does(p, op, "none", <<{"rows"}>>)
        \/ op = "paid" /\ Does(p, op, "payingId", <<{"write"}, {"rows"}>>)
        \/ op = "reject" /\ Does(p, op, "rejectingId", <<{"write"}, {"rows"}>>)
    BY <1>6 DEF ReferralsPage, Does, Flag, Calls, Handler, Pages, Reloading
  <2> QED
    BY ONLY <1>6, <2>1 DEF Does, TableOK, Operation, Reads, CallName, FlagName, Forms,
                       ShowsAnswer, ShowsAtEnd
<1>7. CASE p = "user"
  <2>1. \/ op = "load" /\ Does(p, op, "loading", <<{"rows", "usage"}>>)
        \/ op \in {"save", "setActive"} /\ Does(p, op, "saving", <<{"write"}, {"rows", "usage"}>>)
    BY <1>7 DEF UserPage, Does, Flag, Calls, Handler, Pages
  <2> QED
    BY ONLY <1>7, <2>1 DEF Does, TableOK, Operation, Reads, CallName, FlagName, Forms,
                       ShowsAnswer, ShowsAtEnd
<1>8. CASE p = "settings"
  <2>1. \/ op = "load" /\ Does(p, op, "loading", <<{"rows"}>>)
        \/ op = "save" /\ Does(p, op, "saving", <<{"write"}>>)
        \/ op = "savePrices" /\ Does(p, op, "savingPrices", <<{"write"}>>)
    BY <1>8 DEF SettingsPage, Does, Flag, Calls, Handler, Pages
  <2> QED
    BY ONLY <1>8, <2>1 DEF Does, TableOK, Operation, Reads, CallName, FlagName, Forms,
                       ShowsAnswer, ShowsAtEnd
<1>9. CASE p = "generator"
  <2>1. \/ op = "load" /\ Does(p, op, "loading", <<{"rows"}>>)
        \/ op = "save" /\ Does(p, op, "saving", <<{"write"}>>)
        \/ op = "test" /\ Does(p, op, "testing", <<{"other"}>>)
    BY <1>9 DEF GeneratorPage, Does, Flag, Calls, Handler, Pages
  <2> QED
    BY ONLY <1>9, <2>1 DEF Does, TableOK, Operation, Reads, CallName, FlagName, Forms,
                       ShowsAnswer, ShowsAtEnd
<1> QED
  BY <1>1, <1>2, <1>3, <1>4, <1>5, <1>6, <1>7, <1>8, <1>9 DEF Page, Pages

LEMMA SentIs == \A op, i : Sent(op, i) = SentOn(page, op, i)
  BY DEF Sent, SentOn, Reads

LEMMA SentType ==
  ASSUME NEW p \in Page, NEW op, NEW i \in Item
  PROVE  SentOn(p, op, i) \subseteq Item /\ (op \in Reads => SentOn(p, op, i) = {})
  BY DEF SentOn, Reads

LEMMA NoOneOp == \A p \in Page : NoOne.op \notin DOMAIN Pages[p]
<1> SUFFICES ASSUME NEW p \in Page, "none" \in DOMAIN Pages[p] PROVE FALSE
  BY DEF NoOne
<1> QED
  BY TableHolds DEF TableOK, Operation

----------------------------------------------------------------------------
(* The API's answers. *)

LEMMA RowsAre ==
  ASSUME db \in Elements
  PROVE  /\ Rows \in Elements /\ \A i \in Item : Row(i) \in Element
         /\ \A i \in Item : Rows[i].rev = db[i].rev
<1>1. ASSUME NEW i \in Item PROVE Row(i) \in Element /\ Row(i).rev = db[i].rev
  <2>1. db[i] \in Element
    BY DEF Elements
  <2>2. RowIs(i) \in State
    BY <2>1 DEF RowIs, Element, State
  <2> QED
    BY <2>1, <2>2 DEF Row, Element
<1> QED
  BY <1>1 DEF Rows, Elements

LEMMA StoredIs ==
  ASSUME db \in Elements, NEW f
  PROVE  /\ Stored(f) \in Elements
         /\ \A i \in Item : db[i].rev <= Stored(f)[i].rev
<1>1. ASSUME NEW i \in Item
      PROVE  Stored(f)[i] \in Element /\ db[i].rev <= Stored(f)[i].rev
  <2>1. db[i] \in Element
    BY DEF Elements
  <2>2. Becomes(f.op, db[i].is) \in State
    BY <2>1 DEF Becomes, Element, State
  <2>3. Stored(f)[i] = db[i]
        \/ Stored(f)[i] = [is |-> Becomes(f.op, db[i].is), rev |-> db[i].rev + 1]
    BY DEF Stored
  <2> QED
    BY <2>1, <2>2, <2>3 DEF Element
<1>2. Stored(f) = [i \in Item |-> Stored(f)[i]]
  BY DEF Stored
<1> QED
  BY <1>1, <1>2 DEF Elements

LEMMA GroupsFinite ==
  ASSUME NEW of, NEW R \in SUBSET Item
  PROVE  IsFiniteSet(Groups(of, R)) /\ Cardinality(Groups(of, R)) \in Nat
<1>1. IsFiniteSet(R)
  BY FS_Subset
<1>2. [i \in R |-> of[i]] \in Surjection(R, Groups(of, R))
  BY DEF Surjection, Groups
<1>3. IsFiniteSet(Groups(of, R))
  BY <1>1, <1>2, FS_Surjection
<1> QED
  BY <1>3, FS_CardinalityType

LEMMA UsageIs == plan \in Plan => UsageNow \in Usage
<1>1. {i \in Item : Exists(i)} \subseteq Item /\ Active \subseteq Item
  BY DEF Active
<1>2. Cardinality({i \in Item : Exists(i)}) \in Nat
  BY <1>1, FS_Subset, FS_CardinalityType
<1> QED
  BY <1>1, <1>2, GroupsFinite DEF UsageNow, Usage

LEMMA AnswerIs ==
  ASSUME plan \in Plan, db \in Elements, NEW f, f.item \in Item, NEW call \in CallName
  PROVE  Answer(f, call) \in Answers(call)
  BY RowsAre, StoredIs, UsageIs DEF Answer, Answers, CallName

----------------------------------------------------------------------------
(* Handlers, and what they show. *)

(* g is the handler f, later. *)
Follows(f, g) ==
  /\ f # NoOne /\ g # NoOne
  /\ g.visit = f.visit /\ g.op = f.op /\ g.item = f.item /\ (f.freed => g.freed)

LEMMA NewFlight ==
  ASSUME page \in Page, NEW t, TabOK(t), NEW op \in DOMAIN Pages[page], NEW i \in Item,
         page \in Forms /\ SentOn(page, op, i) # {} => t.read # "no" /\ DraftOK(page, t),
         NEW f, f = Flight(t, op, i)
  PROVE  /\ Sound(page, f) /\ f # NoOne
         /\ f.visit = t.visit /\ f.op = op /\ f.item = i /\ f.step = 1
         /\ \A j \in Item : f.wrote[j] = 0
<1>1. f = [visit |-> t.visit, op |-> op, item |-> i, step |-> 1, got |-> <<>>,
           refused |-> FALSE,
           body |-> [j \in Item |-> IF j \in SentOn(page, op, i) THEN t.draft[j] ELSE Blank],
           seen |-> [j \in Item |-> IF j \in SentOn(page, op, i) THEN t.view[j].rev ELSE 0],
           read |-> t.read, wrote |-> [j \in Item |-> 0], freed |-> FALSE]
  BY SentIs DEF Flight
<1>2. /\ t.visit \in Nat /\ t.read \in {"no", "yes", "failed"}
      /\ t.draft \in [Item -> Field] /\ \A j \in Item : t.view[j].rev \in Nat
  BY DEF TabOK, Elements, Element
<1>3. TableOK(page, op) /\ SentOn(page, op, i) \subseteq Item
  BY TableHolds, SentType
<1>4. FlightOK(page, f)
  <2>1. f.body \in [Item -> Field]
    BY <1>1, <1>2 DEF Field, Blank
  <2>2. f.seen \in [Item -> Nat]
    BY <1>1, <1>2
  <2>3. 1 \in 1 .. Len(Calls(page, op))
    BY <1>3 DEF TableOK
  <2> QED
    BY <1>1, <1>2, <2>1, <2>2, <2>3 DEF FlightOK
<1>5. GotOK(page, f)
  BY <1>1 DEF GotOK
<1>6. SendsRead(page, f)
  BY <1>1, <1>3 DEF SendsRead, DraftOK
<1>7. f # NoOne
  BY <1>1, NoOneOp
<1> QED
  BY <1>1, <1>4, <1>5, <1>6, <1>7 DEF Sound

LEMMA SoundRuns ==
  ASSUME NEW p \in Page, NEW f, Sound(p, f)
  PROVE  /\ f # NoOne /\ TableOK(p, f.op) /\ f.step \in 1 .. Len(Calls(p, f.op))
         /\ f.item \in Item /\ f.op \in DOMAIN Pages[p] /\ f.wrote \in [Item -> Nat]
  BY NoOneOp, TableHolds DEF Sound, FlightOK

LEMMA FreedIs ==
  ASSUME NEW p \in Page, NEW f, Sound(p, f), NEW g, g = [f EXCEPT !.freed = TRUE]
  PROVE  /\ Sound(p, g) /\ Follows(f, g) /\ g.freed
         /\ g.step = f.step /\ g.wrote = f.wrote
<1>1. g = [visit |-> f.visit, op |-> f.op, item |-> f.item, step |-> f.step,
           got |-> f.got, refused |-> f.refused, body |-> f.body, seen |-> f.seen,
           read |-> f.read, wrote |-> f.wrote, freed |-> TRUE]
  BY DEF Sound, FlightOK
<1>2. FlightOK(p, g)
  BY <1>1 DEF Sound, FlightOK
<1>3. GotOK(p, g)
  BY <1>1 DEF Sound, GotOK
<1>4. SendsRead(p, g)
  BY <1>1 DEF Sound, SendsRead
<1>5. g # NoOne /\ f # NoOne
  BY <1>1, NoOneOp DEF Sound, FlightOK
<1> QED
  BY <1>1, <1>2, <1>3, <1>4, <1>5 DEF Sound, Follows

(* What showing an answer leaves as it is in the page. *)
Alike(p, a, b) ==
  /\ TabOK(b) /\ b.visit = a.visit /\ b.busy = a.busy /\ b.loading = a.loading
  /\ a.read # "no" => b.read # "no"
  /\ DraftOK(p, a) => DraftOK(p, b)

LEMMA ShowIs ==
  ASSUME page \in Page, NEW t, TabOK(t), NEW f, Sound(page, f), NEW s, s = Show(t, f)
  PROVE  /\ Alike(page, t, s)
         /\ "rows" \in DOMAIN f.got => s.read # "no"
         /\ "row" \notin DOMAIN f.got => \A i \in Item :
              s.view[i] = IF "rows" \in DOMAIN f.got THEN f.got["rows"][i]
                          ELSE IF /\ "write" \in DOMAIN f.got /\ ShowsAnswer(page, f.op)
                                  /\ i \in SentOn(page, f.op, f.item)
                          THEN f.got["write"][i] ELSE t.view[i]
<1> DEFINE Has(c) == c \in DOMAIN f.got
           t1 == IF Has("write") /\ ShowsAnswer(page, f.op) THEN ShowWritten(t, f) ELSE t
           t2 == IF Has("rows") THEN ShowRows(t1, f.got["rows"]) ELSE t1
           t3 == IF Has("row") /\ t2.view[f.item].is # "absent"
                 THEN [t2 EXCEPT !.view[f.item] = f.got["row"]] ELSE t2
           t4 == IF Has("usage") THEN [t3 EXCEPT !.usage = f.got["usage"]] ELSE t3
<1> USE DEF Alike
<1>1. /\ Has("write") => f.got["write"] \in Elements
      /\ Has("rows") => f.got["rows"] \in Elements
      /\ Has("row") => f.got["row"] \in Element /\ page \notin Forms
      /\ Has("usage") => f.got["usage"] \in Usage
  <2>1. \A c \in DOMAIN f.got : f.got[c] \in Answers(c)
    BY DEF Sound, GotOK
  <2>2. Has("row") => page = "whatsapp"
    <3>1. TableOK(page, f.op) /\ f.step \in 1 .. Len(Calls(page, f.op))
      BY SoundRuns
    <3>2. Len(Calls(page, f.op)) \in 1 .. 3
      BY <3>1 DEF TableOK
    <3>3. Has("row") => \E n \in 1 .. Len(Calls(page, f.op)) : "row" \in Calls(page, f.op)[n]
      BY <3>1, <3>2 DEF Sound, GotOK
    <3> QED
      BY <3>1, <3>3 DEF TableOK
  <2> QED
    BY <2>1, <2>2 DEF Answers, Forms
<1>2. \A e \in Elements : Unedited(e) \in [Item -> Field] /\ \A i \in Item : Unedited(e)[i].rev = e[i].rev
  BY DEF Unedited, Elements, Element, Field
<1>3. f.item \in Item
  BY SoundRuns
<1>4. Alike(page, t, t1) /\ t1.view = IF Has("write") /\ ShowsAnswer(page, f.op)
                               THEN [i \in Item |-> IF i \in SentOn(page, f.op, f.item)
                                                    THEN f.got["write"][i] ELSE t.view[i]]
                               ELSE t.view
  <2>1. CASE ~(Has("write") /\ ShowsAnswer(page, f.op))
    BY <2>1
  <2>2. CASE Has("write") /\ ShowsAnswer(page, f.op)
    <3> DEFINE w == f.got["write"]
               v == [i \in Item |-> IF i \in SentOn(page, f.op, f.item) THEN w[i] ELSE t.view[i]]
               dr == [i \in Item |-> IF i \in SentOn(page, f.op, f.item) /\ page \in Forms
                                     THEN Unedited(w)[i] ELSE t.draft[i]]
    <3>1. t1 = [t EXCEPT !.view = v, !.draft = dr]
      BY <2>2, SentIs DEF ShowWritten, TabOK
    <3>2. v \in Elements /\ dr \in [Item -> Field]
      BY <1>1, <1>2, <2>2 DEF TabOK, Elements
    <3>3. DraftOK(page, t) /\ page \in Forms =>
            \A i \in Item : dr[i].edited \/ dr[i].rev = v[i].rev
      BY <1>1, <1>2, <2>2 DEF DraftOK
    <3> HIDE DEF v, dr, t1
    <3>4. TabOK(t1)
      BY <3>1, <3>2 DEF TabOK
    <3>5. t1.view = v /\ t1.draft = dr
      BY <3>1 DEF TabOK
    <3> QED
      BY <2>2, <3>1, <3>3, <3>4, <3>5 DEF TabOK, DraftOK, v
  <2> QED
    BY <2>1, <2>2
<1> HIDE DEF t1
<1>5. /\ Alike(page, t1, t2) /\ t2.view = IF Has("rows") THEN f.got["rows"] ELSE t1.view
      /\ Has("rows") => t2.read = "yes"
  <2>1. CASE ~Has("rows")
    BY <1>4, <2>1
  <2>2. CASE Has("rows")
    <3> DEFINE r == f.got["rows"]
               dr == IF page \in Forms THEN Unedited(r) ELSE t1.draft
    <3>1. t2 = [t1 EXCEPT !.view = r, !.read = "yes", !.draft = dr]
      BY <1>4, <2>2 DEF ShowRows, TabOK
    <3>2. r \in Elements /\ dr \in [Item -> Field]
      BY <1>1, <1>2, <1>4, <2>2 DEF TabOK
    <3>3. page \in Forms => \A i \in Item : dr[i].rev = r[i].rev
      BY <1>1, <1>2, <2>2
    <3> HIDE DEF r, dr, t2
    <3>4. TabOK(t2) /\ t2.view = r /\ t2.draft = dr /\ t2.read = "yes"
      BY <1>4, <3>1, <3>2 DEF TabOK
    <3> QED
      BY <1>4, <2>2, <3>1, <3>3, <3>4 DEF TabOK, DraftOK, r
  <2> QED
    BY <2>1, <2>2
<1> HIDE DEF t2
<1>6. /\ Alike(page, t2, t3) /\ t3.read = t2.read
      /\ ~Has("row") => t3.view = t2.view
  <2>1. CASE ~(Has("row") /\ t2.view[f.item].is # "absent")
    BY <1>5, <2>1
  <2>2. CASE Has("row") /\ t2.view[f.item].is # "absent"
    <3>1. [t2.view EXCEPT ![f.item] = f.got["row"]] \in Elements
      BY <1>1, <1>3, <1>5, <2>2 DEF TabOK, Elements
    <3>2. t3 = [t2 EXCEPT !.view = [t2.view EXCEPT ![f.item] = f.got["row"]]]
      BY <1>5, <2>2 DEF TabOK
    <3> HIDE DEF t3
    <3> QED
      BY <1>1, <1>5, <2>2, <3>1, <3>2 DEF TabOK, DraftOK
  <2> QED
    BY <2>1, <2>2
<1> HIDE DEF t3
<1>7. Alike(page, t3, t4) /\ t4.read = t3.read /\ t4.view = t3.view
  BY <1>1, <1>6 DEF TabOK, DraftOK
<1> HIDE DEF t4
<1>8. Alike(page, t4, s) /\ s.read = t4.read /\ s.view = t4.view
  <2>1. s = [t4 EXCEPT !.listed = @ \/ (page = "groups" /\ Has("other"))]
    BY DEF Show, t1, t2, t3, t4
  <2> QED
    BY <1>7, <2>1 DEF TabOK, DraftOK
<1> QED
  BY <1>4, <1>5, <1>6, <1>7, <1>8

----------------------------------------------------------------------------
(* The handlers that go on, and one that starts. *)

LEMMA TwiceKept ==
  ASSUME TwiceOK, page' = page,
         \A k \in Slot : flight'[k] = NoOne \/ Follows(flight[k], flight'[k])
  PROVE  TwiceOK'
<1> SUFFICES ASSUME NEW k \in Slot, NEW n \in Slot, k # n,
                    flight'[k] # NoOne, flight'[n] # NoOne, Twice(page, flight'[k], flight'[n])
             PROVE  flight'[k].freed \/ flight'[n].freed
  BY DEF TwiceOK
<1>1. Follows(flight[k], flight'[k]) /\ Follows(flight[n], flight'[n])
  OBVIOUS
<1>2. Twice(page, flight[k], flight[n])
  BY <1>1 DEF Follows, Twice
<1> QED
  BY <1>1, <1>2 DEF TwiceOK, Follows

LEMMA TwiceAdded ==
  ASSUME TwiceOK, page' = page, NEW m \in Slot,
         \A k \in Slot \ {m} :
           /\ flight'[k] = NoOne \/ Follows(flight[k], flight'[k])
           /\ flight'[k] # NoOne /\ Twice(page, flight'[m], flight'[k]) => flight'[k].freed
  PROVE  TwiceOK'
<1> SUFFICES ASSUME NEW k \in Slot, NEW n \in Slot, k # n,
                    flight'[k] # NoOne, flight'[n] # NoOne, Twice(page, flight'[k], flight'[n])
             PROVE  flight'[k].freed \/ flight'[n].freed
  BY DEF TwiceOK
<1>1. CASE k = m
  BY <1>1
<1>2. CASE n = m
  <2>1. Twice(page, flight'[n], flight'[k])
    BY DEF Twice, Mark
  <2> QED
    BY <1>2, <2>1
<1>3. CASE k # m /\ n # m
  <2>1. Follows(flight[k], flight'[k]) /\ Follows(flight[n], flight'[n])
    BY <1>3
  <2>2. Twice(page, flight[k], flight[n])
    BY <2>1 DEF Follows, Twice
  <2> QED
    BY <2>1, <2>2 DEF TwiceOK, Follows
<1> QED
  BY <1>1, <1>2, <1>3

(* A handler that waits while another one shows t, frees it at most, and   *)
(* writes nothing.                                                         *)
LEMMA OthersKept ==
  ASSUME NEW p \in Page, NEW t, NEW t2, NEW o, NEW o2, NEW d, NEW f, NEW g,
         Sound(p, f), InTab(p, t, o, f), IsStored(d, f),
         g = f \/ g = [f EXCEPT !.freed = TRUE],
         t2.visit = t.visit, t.read # "no" => t2.read # "no", o \subseteq o2,
         TabOK(t), TabOK(t2),
         \A i \in Item : t.view[i].rev <= t2.view[i].rev \/ i \in o2,
         Flag(p, f.op) \in FlagName /\ f.visit = t.visit /\ ~g.freed =>
           t2.busy[Flag(p, f.op)] = t.busy[Flag(p, f.op)]
  PROVE  Sound(p, g) /\ InTab(p, t2, o2, g) /\ IsStored(d, g) /\ Follows(f, g)
<1>1. /\ Sound(p, g) /\ Follows(f, g) /\ g.step = f.step /\ g.wrote = f.wrote
      /\ g.freed = f.freed \/ g.freed
  BY FreedIs, SoundRuns DEF Follows
<1>2. /\ g.visit = f.visit /\ g.op = f.op /\ g.item = f.item /\ (f.freed => g.freed)
  BY <1>1 DEF Follows
<1>3. IsStored(d, g)
  BY <1>1 DEF IsStored
<1>4. InTab(p, t2, o2, g)
  <2>1. \A i \in Item : t.view[i].rev \in Nat /\ t2.view[i].rev \in Nat /\ f.wrote[i] \in Nat
    BY SoundRuns DEF TabOK, Elements, Element
  <2> QED
    BY <1>1, <1>2, <2>1 DEF InTab
<1> QED
  BY <1>1, <1>3, <1>4

LEMMA EndStep ==
  ASSUME IInv, NEW k \in Slot, flight[k] # NoOne, NEW t, TabOK(t), NEW well, End(k, t, well),
         UNCHANGED <<page, db, plan>>,
         t.visit = tab.visit, t.busy = tab.busy, t.loading = tab.loading,
         flight[k].visit # tab.visit => t = tab,
         tab.read # "no" => t.read # "no", DraftOK(page, t),
         page \in Forms /\ Loads(flight[k]) /\ flight[k].visit = tab.visit => t.read # "no",
         overtaken \subseteq overtaken', overtaken' \subseteq Item,
         \A i \in Item : tab.view[i].rev <= t.view[i].rev \/ i \in overtaken',
         well /\ flight[k].visit = tab.visit /\ page # "generator" =>
           \A i \in Item : flight[k].wrote[i] <= t.view[i].rev \/ i \in overtaken'
  PROVE  IInv'
<1> PICK f : f = flight[k]
  OBVIOUS
<1> DEFINE flag == Flag(page, f.op)
<1>1. page \in Page /\ TabOK(tab) /\ Sound(page, f) /\ f.wrote \in [Item -> Nat]
  BY SoundRuns DEF IInv, TypeOK, FlightsOK
<1>2. /\ TabOK(tab') /\ tab'.visit = tab.visit /\ tab'.view = t.view /\ tab'.read = t.read
      /\ tab'.draft = t.draft
      /\ tab'.loading = (tab.loading /\ ~(f.visit = tab.visit /\ Loads(f)))
      /\ \A b \in FlagName : ~(f.visit = tab.visit /\ b = flag) => tab'.busy[b] = tab.busy[b]
  <2>1. CASE f.visit # tab.visit
    BY <1>1, <2>1 DEF End, TabOK
  <2>2. CASE f.visit = tab.visit
    <3>1. PICK c : c = IF flag \in FlagName THEN [t EXCEPT !.busy[flag] = NoOne] ELSE t
      OBVIOUS
    <3>2. tab' = [c EXCEPT !.loading = c.loading /\ ~Loads(f)]
      BY <2>2, <3>1 DEF End
    <3>3. /\ TabOK(c) /\ c.visit = t.visit /\ c.view = t.view /\ c.read = t.read
          /\ c.draft = t.draft /\ c.loading = t.loading
          /\ \A b \in FlagName : b # flag => c.busy[b] = t.busy[b]
      <4>1. CASE flag \notin FlagName
        BY <3>1, <4>1
      <4>2. CASE flag \in FlagName
        <5>1. c = [t EXCEPT !.busy = [t.busy EXCEPT ![flag] = NoOne]]
          BY <3>1, <4>2 DEF TabOK
        <5>2. [t.busy EXCEPT ![flag] = NoOne] \in
                [FlagName -> {NoOne} \cup [op : Operation, item : Item \cup {AnyItem}]]
          BY <4>2 DEF TabOK
        <5> HIDE DEF flag
        <5> QED
          BY <5>1, <5>2 DEF TabOK
      <4> QED
        BY <4>1, <4>2
    <3>4. Loads(f) \in BOOLEAN
      BY DEF Loads
    <3> HIDE DEF flag
    <3> QED
      BY <2>2, <3>2, <3>3, <3>4 DEF TabOK
  <2> QED
    BY <2>1, <2>2
<1>3. /\ flight' = [n \in Slot |-> flight'[n]] /\ flight'[k] = NoOne
      /\ \A n \in Slot \ {k} :
           \/ flight'[n] = flight[n]
              /\ (f.visit = tab.visit => n \notin Holding(flag))
           \/ flight'[n] = [flight[n] EXCEPT !.freed = TRUE] /\ flight[n] # NoOne
  <2>1. flight = [n \in Slot |-> flight[n]]
    BY DEF IInv, TypeOK
  <2>2. CASE f.visit # tab.visit
    BY <2>1, <2>2 DEF End
  <2>3. CASE f.visit = tab.visit
    <3>1. flight' = [FlagTaken(Holding(flag)) EXCEPT ![k] = NoOne]
      BY <2>3 DEF End
    <3>2. \A n \in Holding(flag) : n \in Slot /\ flight[n] # NoOne
      BY DEF Holding, IsFree
    <3> HIDE DEF flag
    <3> QED
      BY <3>1, <3>2 DEF FlagTaken
  <2> QED
    BY <2>2, <2>3
<1>4. wrote' \in [Item -> Nat] /\
      (page # "generator" => \A i \in Item : tab'.view[i].rev < wrote'[i] => i \in overtaken')
  <2>1. \A i \in Item : /\ wrote[i] \in Nat /\ tab.view[i].rev \in Nat /\ t.view[i].rev \in Nat
                        /\ f.wrote[i] \in Nat
    BY <1>1 DEF IInv, TypeOK, TabOK, Elements, Element
  <2>2. page # "generator" => \A i \in Item : t.view[i].rev < wrote[i] => i \in overtaken'
    BY <2>1 DEF IInv, OwnWritesShown
  <2>3. CASE wrote' = wrote
    BY <1>2, <2>2, <2>3 DEF IInv, TypeOK
  <2>4. CASE well /\ f.visit = tab.visit /\ wrote' = [i \in Item |-> Later(wrote[i], f.wrote[i])]
    BY <1>2, <2>1, <2>2, <2>4 DEF Later
  <2> QED
    BY <2>3, <2>4 DEF End
<1>5. ASSUME NEW n \in Slot, flight'[n] # NoOne
      PROVE  /\ Sound(page, flight'[n]) /\ InTab(page, tab', overtaken', flight'[n])
             /\ IsStored(db, flight'[n]) /\ Follows(flight[n], flight'[n])
  <2>1. PICK g : g = flight[n]
    OBVIOUS
  <2>2. PICK h : h = flight'[n]
    OBVIOUS
  <2>3. n # k /\ g # NoOne /\ (h = g \/ h = [g EXCEPT !.freed = TRUE])
    BY <1>3, <1>5, <2>1, <2>2
  <2>4. Sound(page, g) /\ InTab(page, tab, overtaken, g) /\ IsStored(db, g)
    BY <2>1, <2>3 DEF IInv, FlightsOK
  <2>5. Flag(page, g.op) \in FlagName /\ g.visit = tab.visit /\ ~h.freed =>
          ~(f.visit = tab.visit /\ Flag(page, g.op) = flag)
    <3> SUFFICES ASSUME Flag(page, g.op) \in FlagName, g.visit = tab.visit,
                        f.visit = tab.visit, Flag(page, g.op) = flag
                 PROVE  h.freed
      OBVIOUS
    <3>1. n \in Holding(flag)
      BY <2>1, <2>3 DEF Holding, IsFree
    <3>2. h = [g EXCEPT !.freed = TRUE]
      BY <1>3, <2>1, <2>2, <2>3, <3>1
    <3> QED
      BY <1>1, <2>4, <3>2, FreedIs
  <2>6. Sound(page, h) /\ InTab(page, tab', overtaken', h) /\ IsStored(db, h) /\ Follows(g, h)
    <3>1. PICK u : u = tab'
      OBVIOUS
    <3>2. PICK o : o = overtaken'
      OBVIOUS
    <3>3. /\ TabOK(u) /\ u.visit = tab.visit /\ (tab.read # "no" => u.read # "no")
          /\ overtaken \subseteq o
          /\ \A i \in Item : tab.view[i].rev <= u.view[i].rev \/ i \in o
      BY <1>2, <3>1, <3>2
    <3>4. Flag(page, g.op) \in FlagName /\ g.visit = tab.visit /\ ~h.freed =>
            u.busy[Flag(page, g.op)] = tab.busy[Flag(page, g.op)]
      BY <1>2, <2>5, <3>1
    <3>5. Sound(page, h) /\ InTab(page, u, o, h) /\ IsStored(db, h) /\ Follows(g, h)
      BY ONLY <1>1, <2>3, <2>4, <3>3, <3>4, OthersKept
    <3> QED
      BY <3>1, <3>2, <3>5
  <2> QED
    BY <2>1, <2>2, <2>6
<1>6. TypeOK'
  BY <1>2, <1>3, <1>4 DEF IInv, TypeOK
<1>7. FlightsOK'
  BY <1>5 DEF FlightsOK
<1>8. TwiceOK'
  BY <1>5, TwiceKept DEF IInv
<1>9. FormOK'
  BY <1>2 DEF IInv, FormOK, DraftOK
<1>10. RoutesOK' /\ OwnWritesShown'
  BY <1>4 DEF IInv, RoutesOK, OwnWritesShown
<1> QED
  BY <1>6, <1>7, <1>8, <1>9, <1>10 DEF IInv

LEMMA ThrownStep ==
  ASSUME IInv, NEW k \in Slot, flight[k] # NoOne, Thrown(k)
  PROVE  IInv'
<1> PICK f : f = flight[k]
  OBVIOUS
<1> PICK t : t = IF f.op = "load" /\ f.visit = tab.visit /\ tab.read = "no"
                 THEN [tab EXCEPT !.read = "failed"] ELSE tab
  OBVIOUS
<1>1. /\ page \in Page /\ TabOK(tab) /\ Sound(page, f) /\ InTab(page, tab, overtaken, f)
      /\ DraftOK(page, tab) /\ overtaken \subseteq Item
  BY DEF IInv, TypeOK, FlightsOK, FormOK
<1>2. End(k, t, FALSE) /\ UNCHANGED <<page, db, plan, overtaken>>
  BY DEF Thrown
<1>3. /\ TabOK(t) /\ t.visit = tab.visit /\ t.busy = tab.busy /\ t.loading = tab.loading
      /\ t.view = tab.view /\ t.draft = tab.draft /\ (tab.read # "no" => t.read # "no")
      /\ f.op = "load" /\ f.visit = tab.visit => t.read # "no"
      /\ f.visit # tab.visit => t = tab
  BY <1>1 DEF TabOK
<1>4. page = "user" /\ f.step = 2 => f.op # "load"
  BY <1>1, SoundRuns DEF TableOK, Forms
<1>5. page \in Forms /\ Loads(f) /\ f.visit = tab.visit => t.read # "no"
  BY <1>1, <1>3, <1>4 DEF Loads, InTab
<1>6. DraftOK(page, t)
  BY <1>1, <1>3 DEF DraftOK
<1>7. \A i \in Item : tab.view[i].rev <= t.view[i].rev
  BY <1>1, <1>3 DEF TabOK, Elements, Element
<1> QED
  BY <1>1, <1>2, <1>3, <1>5, <1>6, <1>7, EndStep

(* What a handler wrote is shown when it ends, and, when it shows what its *)
(* write answered, from then on.                                           *)
LEMMA WrittenIsShown ==
  ASSUME page \in Page, page # "generator", TabOK(tab), NEW f, Sound(page, f),
         NEW o, overtaken \subseteq o, InTab(page, tab, overtaken, f), f.visit = tab.visit,
         NEW t, t = Show(tab, f), \A i \in Item : tab.view[i].rev <= t.view[i].rev \/ i \in o,
         Calls(page, f.op)[f.step] \subseteq DOMAIN f.got \/ f.op = "load",
         IsLast(f) \/ ShowsAnswer(page, f.op)
  PROVE  \A i \in Item : f.wrote[i] <= t.view[i].rev \/ i \in o
<1> SUFFICES ASSUME NEW i \in Item, i \notin o PROVE f.wrote[i] <= t.view[i].rev
  OBVIOUS
<1> DEFINE calls == Calls(page, f.op)
<1>1. TableOK(page, f.op) /\ f.step \in 1 .. Len(calls) /\ f.wrote[i] \in Nat /\ Len(calls) \in 1 .. 3
  <2>1. TableOK(page, f.op) /\ f.step \in 1 .. Len(calls) /\ f.wrote \in [Item -> Nat]
    BY SoundRuns
  <2> QED
    BY <2>1 DEF TableOK
<1>2. TabOK(t) /\ tab.view[i].rev \in Nat /\ t.view[i].rev \in Nat
  <2>1. TabOK(t)
    BY ShowIs DEF Alike
  <2> QED
    BY <2>1 DEF TabOK, Elements, Element
<1>3. CASE "write" \notin calls[1]
  BY <1>1, <1>2, <1>3 DEF Sound, GotOK
<1>4. CASE "write" \in calls[1]
  <2>1. /\ calls[1] = {"write"} /\ f.op \notin Reads
        /\ \A n \in 1 .. Len(calls) : "row" \notin calls[n] /\ ("write" \in calls[n] => n = 1)
    BY <1>1, <1>4 DEF TableOK
  <2>2. "row" \notin DOMAIN f.got /\ calls[f.step] \subseteq DOMAIN f.got
    <3>1. \A c \in DOMAIN f.got : \E n \in 1 .. Len(calls) : c \in calls[n]
      BY <1>1 DEF Sound, GotOK
    <3> QED
      BY <2>1, <3>1 DEF Reads
  <2>3. t.view[i] = IF "rows" \in DOMAIN f.got THEN f.got["rows"][i]
                    ELSE IF /\ "write" \in DOMAIN f.got /\ ShowsAnswer(page, f.op)
                            /\ i \in SentOn(page, f.op, f.item)
                    THEN f.got["write"][i] ELSE tab.view[i]
    BY <2>2, ShowIs
  <2>4. CASE "rows" \in DOMAIN f.got
    BY <2>3, <2>4 DEF Sound, GotOK
  <2>5. CASE "rows" \notin DOMAIN f.got /\ ShowsAnswer(page, f.op)
    <3>1. CASE f.step = 1
      <4>1. "write" \in DOMAIN f.got
        BY <2>1, <2>2, <3>1
      <4>2. f.wrote[i] = 0 \/ (/\ i \in SentOn(page, f.op, f.item)
                               /\ f.wrote[i] = f.got["write"][i].rev)
        BY <4>1 DEF Sound, GotOK
      <4> QED
        BY <1>2, <2>3, <2>5, <4>1, <4>2
    <3>2. CASE f.step # 1
      <4>1. "write" \notin DOMAIN f.got
        BY <1>1, <2>1, <2>5, <3>2 DEF Sound, GotOK, TableOK
      <4>2. f.wrote[i] <= tab.view[i].rev
        BY <1>1, <2>5, <3>2 DEF InTab
      <4> QED
        BY <2>3, <2>5, <4>1, <4>2
    <3> QED
      BY <3>1, <3>2
  <2>6. CASE ~ShowsAnswer(page, f.op)
    <3>1. f.step = Len(calls)
      BY <1>1, <2>1, <2>6 DEF IsLast, TableOK
    <3>2. "rows" \in DOMAIN f.got
      <4>1. CASE Len(calls) = 2 /\ "rows" \in calls[2]
        BY <2>2, <3>1, <4>1
      <4>2. CASE page = "billing" /\ f.op = "checkout"
        BY <1>1, <3>1, <4>2 DEF Sound, GotOK, TableOK
      <4> QED
        BY <1>1, <1>4, <2>6, <4>1, <4>2 DEF TableOK
    <3> QED
      BY <2>4, <3>2
  <2> QED
    BY <2>4, <2>5, <2>6
<1> QED
  BY <1>3, <1>4

LEMMA GoOnStep ==
  ASSUME IInv, NEW k \in Slot, flight[k] # NoOne, GoOn(k),
         \/ StepCalls(flight[k]) \subseteq DOMAIN flight[k].got
         \/ page = "routes" /\ flight[k].op = "load"
  PROVE  IInv'
<1> PICK f : f = flight[k]
  OBVIOUS
<1> DEFINE held == ShowsAtEnd(page, f.op) /\ ~IsLast(f)
           calls == Calls(page, f.op)
<1> PICK t : t = IF held \/ f.visit # tab.visit THEN tab ELSE Show(tab, f)
  OBVIOUS
<1>1. /\ page \in Page /\ TabOK(tab) /\ Sound(page, f) /\ InTab(page, tab, overtaken, f)
      /\ IsStored(db, f) /\ DraftOK(page, tab) /\ overtaken \subseteq Item
  BY DEF IInv, TypeOK, FlightsOK, FormOK
<1>2. /\ UNCHANGED <<page, db, plan>>
      /\ overtaken' = overtaken \cup {i \in Item : t.view[i].rev < tab.view[i].rev}
  BY DEF GoOn
<1>3. calls[f.step] \subseteq DOMAIN f.got \/ (page = "routes" /\ f.op = "load")
  BY DEF StepCalls
<1>4. /\ TabOK(t) /\ t.visit = tab.visit /\ t.busy = tab.busy /\ t.loading = tab.loading
      /\ DraftOK(page, t) /\ (tab.read # "no" => t.read # "no")
      /\ ~held /\ f.visit = tab.visit /\ "rows" \in DOMAIN f.got => t.read # "no"
  <2>1. CASE held \/ f.visit # tab.visit
    BY <1>1, <2>1
  <2>2. CASE ~(held \/ f.visit # tab.visit)
    <3>1. t = Show(tab, f)
      BY <2>2
    <3>2. Alike(page, tab, t) /\ ("rows" \in DOMAIN f.got => t.read # "no")
      BY <1>1, <3>1, ShowIs
    <3> HIDE DEF held
    <3> QED
      BY <1>1, <3>2 DEF Alike
  <2> QED
    BY <2>1, <2>2
<1>5. PICK o : o = overtaken'
  OBVIOUS
<1>6. /\ overtaken \subseteq o /\ o \subseteq Item
      /\ \A i \in Item : tab.view[i].rev <= t.view[i].rev \/ i \in o
  <2>1. \A i \in Item : tab.view[i].rev \in Nat /\ t.view[i].rev \in Nat
    BY <1>1, <1>4 DEF TabOK, Elements, Element
  <2> QED
    BY <1>1, <1>2, <1>5, <2>1
<1>7. ~held /\ f.visit = tab.visit /\ page # "generator" /\ (IsLast(f) \/ ShowsAnswer(page, f.op))
        => \A i \in Item : f.wrote[i] <= t.view[i].rev \/ i \in o
  <2> SUFFICES ASSUME ~held, f.visit = tab.visit, page # "generator",
                      IsLast(f) \/ ShowsAnswer(page, f.op)
               PROVE  \A i \in Item : f.wrote[i] <= t.view[i].rev \/ i \in o
    OBVIOUS
  <2>1. t = Show(tab, f)
    OBVIOUS
  <2> QED
    BY <1>1, <1>3, <1>6, <2>1, WrittenIsShown
<1>8. TableOK(page, f.op) /\ f.step \in 1 .. Len(calls) /\ Len(calls) \in 1 .. 3
  BY <1>1, SoundRuns DEF TableOK
<1>9. CASE IsLast(f)
  <2>1. End(k, t, TRUE)
    BY <1>9 DEF GoOn
  <2>2. ~held
    BY <1>9
  <2>3. page \in Forms /\ Loads(f) /\ f.visit = tab.visit => t.read # "no"
    <3>1. page \in Forms /\ f.op = "load" => "rows" \in DOMAIN f.got
      <4> SUFFICES ASSUME page \in Forms, f.op = "load" PROVE "rows" \in DOMAIN f.got
        OBVIOUS
      <4>1. f.step = 1 /\ "rows" \in calls[1]
        BY <1>8 DEF TableOK
      <4>2. page # "routes"
        BY DEF Forms
      <4> QED
        BY <1>3, <4>1, <4>2
    <3>2. page = "user" /\ f.step = 2 => f.op # "load"
      BY <1>8 DEF TableOK, Forms
    <3> HIDE DEF held
    <3> QED
      BY <1>1, <1>4, <2>2, <3>1, <3>2 DEF Loads, InTab
  <2>4. f.visit # tab.visit => t = tab
    OBVIOUS
  <2> HIDE DEF held
  <2> QED
    BY <1>2, <1>4, <1>5, <1>6, <1>7, <1>9, <2>1, <2>2, <2>3, <2>4, EndStep
<1>10. CASE ~IsLast(f)
  <2>1. PICK u : u = tab'
    OBVIOUS
  <2>2. PICK g : g = flight'[k]
    OBVIOUS
  <2>3. /\ u = IF f.visit # tab.visit THEN tab ELSE [t EXCEPT !.loading = @ \/ page = "user"]
        /\ flight' = [flight EXCEPT ![k].step = @ + 1, ![k].got = IF held THEN @ ELSE <<>>]
        /\ wrote' = wrote
    BY <1>10, <2>1 DEF GoOn
  <2>4. /\ TabOK(u) /\ u.visit = tab.visit /\ u.busy = tab.busy /\ u.view = t.view
        /\ u.read = t.read /\ u.draft = t.draft /\ (tab.loading => u.loading)
    <3>1. f.visit # tab.visit => t = tab
      OBVIOUS
    <3> HIDE DEF held
    <3> QED
      BY <1>4, <2>3, <3>1 DEF TabOK
  <2>5. /\ flight = [n \in Slot |-> flight[n]] /\ flight' = [n \in Slot |-> flight'[n]]
        /\ g = [f EXCEPT !.step = f.step + 1, !.got = IF held THEN f.got ELSE <<>>]
        /\ \A n \in Slot \ {k} : flight'[n] = flight[n]
    <3>1. flight = [n \in Slot |-> flight[n]]
      BY DEF IInv, TypeOK
    <3> HIDE DEF held
    <3> QED
      BY <2>2, <2>3, <3>1
  <2>6. g = [visit |-> f.visit, op |-> f.op, item |-> f.item, step |-> f.step + 1,
             got |-> IF held THEN f.got ELSE <<>>, refused |-> f.refused, body |-> f.body,
             seen |-> f.seen, read |-> f.read, wrote |-> f.wrote, freed |-> f.freed]
    <3> HIDE DEF held
    <3> QED
      BY <1>1, <2>5 DEF Sound, FlightOK
  <2>7. Sound(page, g) /\ Follows(f, g)
    <3>1. f.step + 1 \in 1 .. Len(calls)
      BY <1>8, <1>10 DEF IsLast
    <3>2. FlightOK(page, g)
      <4> HIDE DEF held
      <4> QED
        BY <1>1, <2>6, <3>1 DEF Sound, FlightOK
    <3>3. GotOK(page, g)
      <4>1. CASE held
        <5>1. g.got = f.got /\ g.wrote = f.wrote /\ g.op = f.op /\ g.item = f.item /\ g.step = f.step + 1
          BY <2>6, <4>1
        <5>2. \A c \in DOMAIN g.got :
                /\ g.got[c] \in Answers(c)
                /\ \E n \in 1 .. g.step - 1 : c \in Calls(page, g.op)[n]
          <6> SUFFICES ASSUME NEW c \in DOMAIN f.got
                       PROVE  /\ f.got[c] \in Answers(c)
                              /\ \E n \in 1 .. f.step : c \in calls[n]
            BY <1>8, <5>1
          <6> QED
            BY <1>1, <1>8 DEF Sound, GotOK
        <5>3. page = "billing" /\ g.op = "checkout" /\ g.step = 3 => "rows" \in DOMAIN g.got
          BY <1>3, <1>8, <5>1 DEF TableOK
        <5> QED
          BY <1>1, <4>1, <5>1, <5>2, <5>3 DEF Sound, GotOK
      <4>2. CASE ~held
        <5>1. g.got = <<>> /\ g.wrote = f.wrote /\ g.op = f.op
          BY <2>6, <4>2
        <5>2. ~(page = "billing" /\ f.op = "checkout")
          BY <1>8, <1>10, <4>2 DEF TableOK
        <5> QED
          BY <1>1, <5>1, <5>2 DEF Sound, GotOK
      <4> QED
        BY <4>1, <4>2
    <3>4. SendsRead(page, g)
      BY <1>1, <2>6 DEF Sound, SendsRead
    <3> QED
      BY <1>1, <2>6, <3>2, <3>3, <3>4, SoundRuns DEF Sound, Follows
  <2>8. InTab(page, u, o, g) /\ IsStored(db, g)
    <3>1. /\ g.visit = f.visit /\ g.op = f.op /\ g.item = f.item /\ g.wrote = f.wrote
          /\ g.freed = f.freed
      BY <2>6
    <3>2. ShowsAnswer(page, f.op) => ~held
      BY <1>8 DEF TableOK
    <3> HIDE DEF held
    <3>3. \A i \in Item : page # "generator" /\ ShowsAnswer(page, g.op) /\ f.visit = tab.visit
                            => g.wrote[i] <= u.view[i].rev \/ i \in o
      BY <1>7, <2>4, <3>1, <3>2
    <3>4. page = "user" /\ f.op # "load" /\ f.visit = tab.visit => u.read # "no"
      BY <1>1, <1>4, <2>4 DEF InTab
    <3>5. IsStored(db, g)
      BY <1>1, <3>1 DEF IsStored
    <3>6. /\ f.visit <= tab.visit
          /\ f.visit = tab.visit /\ Flag(page, f.op) \in FlagName /\ ~f.freed
               => tab.busy[Flag(page, f.op)] = Mark(f.op, f.item)
      BY <1>1 DEF InTab
    <3> QED
      BY <2>4, <3>1, <3>3, <3>4, <3>5, <3>6 DEF InTab
  <2>9. ASSUME NEW n \in Slot, n # k, flight[n] # NoOne
        PROVE  /\ Sound(page, flight[n]) /\ InTab(page, u, o, flight[n])
               /\ IsStored(db, flight[n]) /\ Follows(flight[n], flight[n])
    <3>1. PICK h : h = flight[n]
      OBVIOUS
    <3>2. Sound(page, h) /\ InTab(page, tab, overtaken, h) /\ IsStored(db, h)
      BY <2>9, <3>1 DEF IInv, FlightsOK
    <3>3. tab.read # "no" => u.read # "no"
      BY <1>4, <2>4
    <3>4. \A i \in Item : tab.view[i].rev <= u.view[i].rev \/ i \in o
      BY <1>6, <2>4
    <3>5. Sound(page, h) /\ InTab(page, u, o, h) /\ IsStored(db, h) /\ Follows(h, h)
      BY ONLY <1>1, <1>6, <2>4, <3>2, <3>3, <3>4, OthersKept
    <3> QED
      BY <3>1, <3>5
  <2> HIDE DEF held
  <2>10. FlightsOK'
    BY <1>2, <1>5, <2>1, <2>2, <2>5, <2>7, <2>8, <2>9 DEF FlightsOK
  <2>11. TwiceOK'
    <3>1. \A n \in Slot : flight'[n] = NoOne \/ Follows(flight[n], flight'[n])
      BY <2>2, <2>5, <2>7, <2>9
    <3> QED
      BY <1>2, <3>1, TwiceKept DEF IInv
  <2>12. TypeOK'
    BY <1>2, <1>5, <1>6, <2>1, <2>3, <2>4, <2>5 DEF IInv, TypeOK
  <2>13. FormOK'
    <3>1. DraftOK(page, u)
      BY <1>4, <2>4 DEF DraftOK
    <3> QED
      BY <1>2, <1>4, <2>1, <2>4, <3>1 DEF IInv, FormOK
  <2>14. OwnWritesShown'
    <3>1. \A i \in Item : wrote[i] \in Nat /\ tab.view[i].rev \in Nat /\ t.view[i].rev \in Nat
      BY <1>1, <1>4 DEF IInv, TypeOK, TabOK, Elements, Element
    <3> QED
      BY <1>2, <1>5, <1>6, <2>1, <2>3, <2>4, <3>1 DEF IInv, OwnWritesShown
  <2> QED
    BY <1>2, <2>10, <2>11, <2>12, <2>13, <2>14 DEF IInv, RoutesOK
<1> QED
  BY <1>9, <1>10

LEMMA StoredKept ==
  ASSUME NEW d \in Elements, NEW e \in Elements, \A i \in Item : d[i].rev <= e[i].rev,
         NEW f, f.wrote \in [Item -> Nat], IsStored(d, f)
  PROVE  IsStored(e, f)
<1>1. \A i \in Item : d[i].rev \in Nat /\ e[i].rev \in Nat /\ f.wrote[i] \in Nat
  BY DEF Elements, Element
<1> QED
  BY <1>1 DEF IsStored

LEMMA RefusedIs ==
  ASSUME page \in Page, NEW f, Sound(page, f), InTab(page, tab, overtaken, f), IsStored(db, f),
         NEW g, g = [f EXCEPT !.refused = TRUE]
  PROVE  Sound(page, g) /\ InTab(page, tab, overtaken, g) /\ IsStored(db, g) /\ Follows(f, g)
<1>1. g = [visit |-> f.visit, op |-> f.op, item |-> f.item, step |-> f.step,
           got |-> f.got, refused |-> TRUE, body |-> f.body, seen |-> f.seen,
           read |-> f.read, wrote |-> f.wrote, freed |-> f.freed]
  BY DEF Sound, FlightOK
<1>2. FlightOK(page, g)
  BY <1>1 DEF Sound, FlightOK
<1>3. GotOK(page, g) /\ SendsRead(page, g)
  BY <1>1 DEF Sound, GotOK, SendsRead
<1>4. InTab(page, tab, overtaken, g) /\ IsStored(db, g)
  BY <1>1 DEF InTab, IsStored
<1>5. Sound(page, g)
  BY <1>2, <1>3 DEF Sound
<1> QED
  BY <1>1, <1>4, <1>5, SoundRuns DEF Follows

LEMMA ServedIs ==
  ASSUME page \in Page, plan \in Plan, db \in Elements, NEW f,
         Sound(page, f), InTab(page, tab, overtaken, f), IsStored(db, f),
         NEW call \in StepCalls(f) \ DOMAIN f.got,
         NEW got, got = WithAnswer(f.got, call, Answer(f, call)),
         NEW w, w = IF call # "write" THEN f.wrote
                    ELSE [j \in Item |-> IF j \in SentOn(page, f.op, f.item)
                                         THEN Stored(f)[j].rev ELSE 0],
         NEW g, g = [f EXCEPT !.got = got, !.wrote = w],
         NEW d, d = IF call = "write" THEN Stored(f) ELSE db
  PROVE  Sound(page, g) /\ InTab(page, tab, overtaken, g) /\ IsStored(d, g) /\ Follows(f, g)
<1> DEFINE calls == Calls(page, f.op)
<1>1. /\ TableOK(page, f.op) /\ f.step \in 1 .. Len(calls) /\ f.item \in Item
      /\ f.wrote \in [Item -> Nat] /\ call \in calls[f.step] /\ call \notin DOMAIN f.got
  BY SoundRuns DEF StepCalls
<1>2. call \in CallName /\ (call = "write" => f.step = 1 /\ calls[1] = {"write"})
  BY <1>1 DEF TableOK
<1>3. /\ Stored(f) \in Elements /\ Rows \in Elements /\ Answer(f, call) \in Answers(call)
      /\ \A i \in Item : Rows[i].rev = db[i].rev /\ Stored(f)[i].rev \in Nat /\ db[i].rev \in Nat
  BY <1>1, <1>2, StoredIs, RowsAre, AnswerIs DEF Elements, Element
<1>4. g = [visit |-> f.visit, op |-> f.op, item |-> f.item, step |-> f.step, got |-> got,
           refused |-> f.refused, body |-> f.body, seen |-> f.seen, read |-> f.read,
           wrote |-> w, freed |-> f.freed]
  BY DEF Sound, FlightOK
<1>5. w \in [Item -> Nat]
  BY <1>1, <1>3
<1>6. /\ DOMAIN got = DOMAIN f.got \cup {call} /\ got[call] = Answer(f, call)
      /\ \A c \in DOMAIN f.got : got[c] = f.got[c]
  BY <1>1 DEF WithAnswer
<1>7. CASE call = "write"
  <2>1. Answer(f, call) = Stored(f)
    BY <1>7 DEF Answer
  <2>2. DOMAIN got = {"write"}
    <3>1. \A c \in DOMAIN f.got : c \in calls[f.step]
      BY <1>2, <1>7 DEF Sound, GotOK
    <3> QED
      BY <1>1, <1>2, <1>6, <1>7, <3>1
  <2>3. /\ w = [j \in Item |-> IF j \in SentOn(page, f.op, f.item) THEN Stored(f)[j].rev ELSE 0]
        /\ got["write"] = Stored(f)
    BY <1>6, <1>7, <2>1
  <2>4. FlightOK(page, g)
    BY <1>4, <1>5 DEF Sound, FlightOK
  <2>5. GotOK(page, g)
    <3>1. got["write"] \in Answers("write") /\ "write" \in calls[1]
      BY <1>2, <1>3, <1>7, <2>1, <2>3
    <3>2. g.got = got /\ g.wrote = w /\ g.op = f.op /\ g.item = f.item /\ g.step = 1
      BY ONLY <1>2, <1>4, <1>7
    <3>3. \A i \in Item : w[i] = 0 \/ (i \in SentOn(page, f.op, f.item) /\ w[i] = got["write"][i].rev)
      BY <2>3
    <3> QED
      BY ONLY <1>2, <1>7, <2>2, <3>1, <3>2, <3>3 DEF GotOK
  <2>a. /\ g.visit = f.visit /\ g.op = f.op /\ g.item = f.item /\ g.step = 1
        /\ g.body = f.body /\ g.seen = f.seen /\ g.read = f.read /\ g.freed = f.freed
    BY ONLY <1>2, <1>4, <1>7
  <2>6. SendsRead(page, g)
    BY <2>a DEF Sound, SendsRead
  <2>7. InTab(page, tab, overtaken, g)
    BY <2>a DEF InTab
  <2>b. g.wrote = w /\ d = Stored(f)
    BY <1>4, <1>7
  <2>8. IsStored(d, g)
    BY <1>3, <2>3, <2>b DEF IsStored
  <2>9. Sound(page, g)
    BY <2>4, <2>5, <2>6 DEF Sound
  <2> QED
    BY <1>4, <2>7, <2>8, <2>9, SoundRuns DEF Follows
<1>8. CASE call # "write"
  <2>1. w = f.wrote /\ d = db
    BY <1>8
  <2>2. call = "rows" => got["rows"] = Rows
    BY <1>6 DEF Answer
  <2>3. FlightOK(page, g)
    BY <1>4, <1>5 DEF Sound, FlightOK
  <2>4. GotOK(page, g)
    <3>1. \A c \in DOMAIN got :
            /\ got[c] \in Answers(c)
            /\ \/ c \in calls[f.step]
               \/ ShowsAtEnd(page, f.op) /\ \E n \in 1 .. f.step - 1 : c \in calls[n]
      BY <1>1, <1>3, <1>6 DEF Sound, GotOK
    <3>2. "rows" \in DOMAIN got => \A i \in Item : f.wrote[i] <= got["rows"][i].rev
      BY <1>3, <1>6, <2>2 DEF Sound, GotOK, IsStored
    <3>3. "write" \in DOMAIN got =>
            \A i \in Item : f.wrote[i] = 0 \/ (/\ i \in SentOn(page, f.op, f.item)
                                               /\ f.wrote[i] = got["write"][i].rev)
      BY <1>6, <1>8 DEF Sound, GotOK
    <3>4. /\ "write" \notin calls[1] => \A i \in Item : f.wrote[i] = 0
          /\ page = "billing" /\ f.op = "checkout" /\ f.step = 3 => "rows" \in DOMAIN got
      BY <1>6 DEF Sound, GotOK
    <3>5. g.got = got /\ g.wrote = f.wrote /\ g.op = f.op /\ g.item = f.item /\ g.step = f.step
      BY <1>4, <2>1
    <3> QED
      BY ONLY <3>1, <3>2, <3>3, <3>4, <3>5 DEF GotOK
  <2>5. SendsRead(page, g)
    BY <1>4 DEF Sound, SendsRead
  <2>6. InTab(page, tab, overtaken, g) /\ IsStored(d, g)
    BY <1>4, <2>1 DEF InTab, IsStored
  <2>7. Sound(page, g)
    BY <2>3, <2>4, <2>5 DEF Sound
  <2> QED
    BY <1>4, <2>6, <2>7, SoundRuns DEF Follows
<1> QED
  BY <1>7, <1>8

LEMMA ServeStep ==
  ASSUME IInv, NEW k \in Slot, Serve(k)
  PROVE  IInv'
<1> PICK f : f = flight[k]
  OBVIOUS
<1> PICK g : g = flight'[k]
  OBVIOUS
<1>1. /\ f # NoOne /\ page \in Page /\ plan \in Plan /\ db \in Elements
      /\ flight = [n \in Slot |-> flight[n]]
      /\ UNCHANGED <<page, plan, tab, wrote, overtaken>>
  BY DEF IInv, TypeOK, Serve, IsFree
<1>2. Sound(page, f) /\ InTab(page, tab, overtaken, f) /\ IsStored(db, f)
  BY <1>1 DEF IInv, FlightsOK
<1>3. PICK call \in StepCalls(f) \ DOMAIN f.got :
        \/ flight' = [flight EXCEPT ![k].refused = TRUE] /\ db' = db
        \/ /\ flight' = [flight EXCEPT
                ![k].got = WithAnswer(@, call, Answer(f, call)),
                ![k].wrote = IF call # "write" THEN @
                             ELSE [j \in Item |-> IF j \in SentOn(page, f.op, f.item)
                                                  THEN Stored(f)[j].rev ELSE 0]]
           /\ db' = IF call = "write" THEN Stored(f) ELSE db
  BY SentIs DEF Serve
<1>4. /\ Sound(page, g) /\ InTab(page, tab, overtaken, g) /\ IsStored(db', g) /\ Follows(f, g)
      /\ flight' = [n \in Slot |-> flight'[n]]
      /\ \A n \in Slot \ {k} : flight'[n] = flight[n]
      /\ db' = db \/ (call = "write" /\ db' = Stored(f))
  <2>1. CASE flight' = [flight EXCEPT ![k].refused = TRUE] /\ db' = db
    <3>1. g = [f EXCEPT !.refused = TRUE]
      BY <1>1, <2>1
    <3>2. Sound(page, g) /\ InTab(page, tab, overtaken, g) /\ IsStored(db, g) /\ Follows(f, g)
      BY <1>1, <1>2, <3>1, RefusedIs
    <3> QED
      BY <1>1, <2>1, <3>2
  <2>2. CASE /\ flight' = [flight EXCEPT
                  ![k].got = WithAnswer(@, call, Answer(f, call)),
                  ![k].wrote = IF call # "write" THEN @
                               ELSE [j \in Item |-> IF j \in SentOn(page, f.op, f.item)
                                                    THEN Stored(f)[j].rev ELSE 0]]
             /\ db' = IF call = "write" THEN Stored(f) ELSE db
    <3>a. PICK got : got = WithAnswer(f.got, call, Answer(f, call))
      OBVIOUS
    <3>b. PICK w : w = IF call # "write" THEN f.wrote
                     ELSE [j \in Item |-> IF j \in SentOn(page, f.op, f.item)
                                          THEN Stored(f)[j].rev ELSE 0]
      OBVIOUS
    <3>1. g = [f EXCEPT !.got = got, !.wrote = w]
      BY <1>1, <2>2, <3>a, <3>b
    <3>c. call \in StepCalls(f) \ DOMAIN f.got
      BY <1>3
    <3>2. PICK d : d = db'
      OBVIOUS
    <3>3. d = IF call = "write" THEN Stored(f) ELSE db
      BY <2>2, <3>2
    <3>4. Sound(page, g) /\ InTab(page, tab, overtaken, g) /\ IsStored(d, g) /\ Follows(f, g)
      BY ONLY <1>1, <1>2, <3>a, <3>b, <3>c, <3>1, <3>3, ServedIs
    <3> QED
      BY <1>1, <2>2, <3>2, <3>4
  <2> QED
    BY <1>3, <2>1, <2>2
<1>5. db' \in Elements /\ \A i \in Item : db[i].rev <= db'[i].rev
  <2>1. \A i \in Item : db[i].rev \in Nat
    BY <1>1 DEF Elements, Element
  <2> QED
    BY <1>1, <1>4, <2>1, StoredIs
<1>6. ASSUME NEW n \in Slot, n # k, flight[n] # NoOne
      PROVE  /\ Sound(page, flight[n]) /\ InTab(page, tab, overtaken, flight[n])
             /\ IsStored(db', flight[n]) /\ Follows(flight[n], flight[n])
  <2>1. Sound(page, flight[n]) /\ InTab(page, tab, overtaken, flight[n]) /\ IsStored(db, flight[n])
    BY <1>6 DEF IInv, FlightsOK
  <2>2. flight[n].wrote \in [Item -> Nat]
    BY <1>1, <2>1, SoundRuns
  <2> QED
    BY <1>1, <1>5, <1>6, <2>1, <2>2, StoredKept DEF Follows
<1>7. FlightsOK'
  BY <1>1, <1>4, <1>6 DEF FlightsOK
<1>8. TwiceOK'
  <2>1. \A n \in Slot : flight'[n] = NoOne \/ Follows(flight[n], flight'[n])
    BY <1>4, <1>6
  <2> QED
    BY <1>1, <2>1, TwiceKept DEF IInv
<1>9. RoutesOK'
  <2> SUFFICES ASSUME page = "groups", call = "write", db' = Stored(f)
               PROVE  \A i \in Item : db'[i].is \in {"active", "inactive"}
    BY <1>1, <1>4 DEF IInv, RoutesOK
  <2>1. f.op \in {"load", "groups", "createRoute"}
    BY <1>1, <1>2, SoundRuns DEF Pages, GroupsPage
  <2>2. f.op \notin Reads
    BY <1>1, <1>2, <1>3, SoundRuns DEF StepCalls, TableOK
  <2>3. \A i \in Item : Becomes(f.op, db[i].is) = "active"
    BY <2>1, <2>2 DEF Becomes, Reads
  <2> QED
    BY <2>3 DEF IInv, RoutesOK, Stored
<1>10. TypeOK' /\ FormOK' /\ OwnWritesShown'
  BY <1>1, <1>4, <1>5 DEF IInv, TypeOK, FormOK, OwnWritesShown
<1> QED
  BY <1>7, <1>8, <1>9, <1>10 DEF IInv

----------------------------------------------------------------------------
(* What happens without the page's handlers, and how they start. *)

LEMMA OpsExist ==
  /\ \A p \in Page : "load" \in DOMAIN Pages[p]
  /\ "poll" \in DOMAIN Pages["whatsapp"]
  BY DEF Page, Pages, WhatsAppPage, RoutesPage, GroupsPage, BillingPage, CredentialsPage,
         ReferralsPage, UserPage, SettingsPage, GeneratorPage

LEMMA MovedStep == ASSUME IInv, NEW i \in Item, Moved(i) PROVE IInv'
<1>1. /\ UNCHANGED <<page, plan, tab, flight, wrote, overtaken>>
      /\ page \in Page /\ db \in Elements
  BY DEF Moved, IInv, TypeOK
<1>2. PICK m \in Moves : db[i].is = m[1] /\ db' = AfterMove(i, m[2])
  BY DEF Moved
<1>3. m[2] \in State /\ (page = "groups" => m[2] \in {"active", "inactive"})
  BY <1>1, <1>2 DEF Moves, State, Page, Pages
<1>4. ASSUME NEW j \in Item
      PROVE  /\ db'[j] \in Element /\ db[j].rev <= db'[j].rev
             /\ page # "billing" /\ j # i => db'[j] = db[j]
             /\ j = i => db'[j].is = m[2]
  <2>1. db[j] \in Element
    BY <1>1 DEF Elements
  <2>2. \/ j = i /\ db'[j] = [is |-> m[2], rev |-> db[j].rev + 1]
        \/ page = "billing" /\ j # i /\ db'[j] = [is |-> "none", rev |-> db[j].rev + 1]
        \/ j # i /\ db'[j] = db[j]
    BY <1>2 DEF AfterMove
  <2> QED
    BY <1>3, <2>1, <2>2 DEF Element, State
<1>5. db' \in Elements
  <2>1. db' = [j \in Item |-> db'[j]]
    BY <1>2 DEF AfterMove
  <2> QED
    BY <1>4, <2>1 DEF Elements
<1>6. FlightsOK'
  <2> SUFFICES ASSUME NEW k \in Slot, flight[k] # NoOne PROVE IsStored(db', flight[k])
    BY <1>1 DEF IInv, FlightsOK
  <2>1. Sound(page, flight[k]) /\ IsStored(db, flight[k])
    BY DEF IInv, FlightsOK
  <2>2. flight[k].wrote \in [Item -> Nat]
    BY <1>1, <2>1, SoundRuns
  <2> QED
    BY <1>1, <1>4, <1>5, <2>1, <2>2, StoredKept
<1>7. RoutesOK'
  BY <1>1, <1>3, <1>4 DEF IInv, RoutesOK
<1>8. TypeOK' /\ TwiceOK' /\ FormOK' /\ OwnWritesShown'
  BY <1>1, <1>5 DEF IInv, TypeOK, TwiceOK, FormOK, OwnWritesShown
<1> QED
  BY <1>6, <1>7, <1>8 DEF IInv

LEMMA EditStep == ASSUME IInv, NEW i \in Item, Edit(i) PROVE IInv'
<1> PICK u : u = tab'
  OBVIOUS
<1>1. /\ UNCHANGED <<page, db, plan, flight, wrote, overtaken>>
      /\ page \in Page /\ TabOK(tab) /\ DraftOK(page, tab) /\ wrote \in [Item -> Nat]
  BY DEF Edit, IInv, TypeOK, FormOK
<1>2. PICK dr : dr = [tab.draft EXCEPT ![i] = [tab.draft[i] EXCEPT !.edited = TRUE]]
  OBVIOUS
<1>3. u = [tab EXCEPT !.draft = dr]
  BY <1>1, <1>2 DEF Edit, TabOK
<1>4. dr \in [Item -> Field] /\ \A j \in Item : dr[j].edited \/ dr[j] = tab.draft[j]
  <2>1. tab.draft \in [Item -> Field]
    BY <1>1 DEF TabOK
  <2>2. [tab.draft[i] EXCEPT !.edited = TRUE] \in Field /\ [tab.draft[i] EXCEPT !.edited = TRUE].edited
    BY <2>1 DEF Field
  <2> QED
    BY ONLY <1>2, <2>1, <2>2
<1>5. /\ TabOK(u) /\ u.visit = tab.visit /\ u.busy = tab.busy /\ u.view = tab.view
      /\ u.read = tab.read /\ u.loading = tab.loading /\ u.draft = dr
  BY <1>1, <1>3, <1>4 DEF TabOK
<1>6. DraftOK(page, u)
  BY <1>1, <1>4, <1>5 DEF DraftOK
<1>7. FlightsOK'
  <2> SUFFICES ASSUME NEW k \in Slot, flight[k] # NoOne
               PROVE  InTab(page, u, overtaken, flight[k])
    BY <1>1 DEF IInv, FlightsOK
  <2>1. InTab(page, tab, overtaken, flight[k])
    BY DEF IInv, FlightsOK
  <2> QED
    BY <1>5, <2>1 DEF InTab
<1>8. TypeOK' /\ RoutesOK' /\ TwiceOK'
  BY <1>1, <1>5 DEF IInv, TypeOK, RoutesOK, TwiceOK
<1>9. FormOK' /\ OwnWritesShown'
  BY <1>1, <1>5, <1>6 DEF IInv, FormOK, OwnWritesShown
<1> QED
  BY <1>7, <1>8, <1>9 DEF IInv

LEMMA PollStep == ASSUME IInv, NEW i \in Item, Poll(i) PROVE IInv'
<1>1. /\ UNCHANGED <<page, db, plan, tab, wrote, overtaken>>
      /\ page \in Page /\ page = "whatsapp" /\ TabOK(tab) /\ db \in Elements
      /\ flight = [n \in Slot |-> flight[n]]
  BY DEF Poll, PollIsDue, IInv, TypeOK
<1>2. PICK k \in Slot : flight' = [flight EXCEPT ![k] = Flight(tab, "poll", i)]
  BY DEF Poll
<1> PICK f : f = Flight(tab, "poll", i)
  OBVIOUS
<1>3. /\ Sound(page, f) /\ f # NoOne
      /\ f.visit = tab.visit /\ f.op = "poll" /\ f.item = i /\ f.step = 1
      /\ \A j \in Item : f.wrote[j] = 0
  <2>1. page \notin Forms /\ "poll" \in DOMAIN Pages[page]
    BY <1>1, OpsExist DEF Forms
  <2> QED
    BY <1>1, <2>1, NewFlight
<1>4. /\ flight' = [n \in Slot |-> flight'[n]] /\ flight'[k] = f
      /\ \A n \in Slot \ {k} : flight'[n] = flight[n]
  BY <1>1, <1>2
<1>5. Flag(page, "poll") \notin FlagName
  <2>1. TableOK(page, "poll")
    BY <1>1, <1>3, SoundRuns
  <2> QED
    BY <2>1 DEF TableOK
<1>6. InTab(page, tab, overtaken, f) /\ IsStored(db, f)
  <2>1. \A j \in Item : db[j].rev \in Nat
    BY <1>1 DEF Elements, Element
  <2>2. f.visit <= tab.visit
    BY <1>1, <1>3 DEF TabOK
  <2> QED
    BY <1>1, <1>3, <1>5, <2>1, <2>2 DEF InTab, IsStored
<1>7. FlightsOK'
  BY <1>1, <1>3, <1>4, <1>6 DEF IInv, FlightsOK
<1>8. TwiceOK'
  <2>1. \A n \in Slot : ~Twice(page, flight'[k], flight'[n])
    BY <1>3, <1>4, <1>5 DEF Twice
  <2>2. \A n \in Slot \ {k} : flight'[n] = NoOne \/ Follows(flight[n], flight'[n])
    BY <1>4 DEF Follows
  <2> QED
    BY <1>1, <2>1, <2>2, TwiceAdded DEF IInv
<1>9. TypeOK' /\ RoutesOK' /\ FormOK' /\ OwnWritesShown'
  BY <1>1, <1>4 DEF IInv, TypeOK, RoutesOK, FormOK, OwnWritesShown
<1> QED
  BY <1>7, <1>8, <1>9 DEF IInv

(* A button is enabled only while its own handler does not hold its flag,  *)
(* and a form is sent only once it was read.                               *)
LEMMA ClickIsFree ==
  ASSUME page \in Page, NEW op \in DOMAIN Pages[page], NEW i \in Item, MayClick(op, i), FormOK
  PROVE  /\ Flag(page, op) \in FlagName /\ tab.busy[Flag(page, op)] # Mark(op, i)
         /\ page \in Forms /\ SentOn(page, op, i) # {} => tab.read # "no"
         /\ page = "user" => tab.read # "no"
<1> DEFINE flag == Flag(page, op)
<1> USE DEF Flag, Pages, Handler, FlagName, Mark, NoOne, BusyWith, BusyOn, Free, Forms
<1>1. CASE page = "whatsapp"
  <2>1. WhatsAppClick(op, i)
    BY <1>1 DEF MayClick
  <2>2. op \in {"connect", "status", "qr", "sync", "remove"} /\ flag = "actionId"
    BY <1>1, <2>1 DEF WhatsAppClick, WhatsAppPage
  <2> QED
    BY <1>1, <2>1, <2>2 DEF WhatsAppClick
<1>2. CASE page = "routes"
  <2>1. RoutesClick(op, i)
    BY <1>2 DEF MayClick
  <2>2. op \in {"pause", "invite", "resume"} /\ flag = "savingId"
    BY <1>2, <2>1 DEF RoutesClick, RoutesPage, Reloading
  <2> QED
    BY <1>2, <2>1, <2>2 DEF RoutesClick
<1>3. CASE page = "groups"
  <2>1. GroupsClick(op, i)
    BY <1>3 DEF MayClick
  <2>2. op \in {"groups", "createRoute"} /\ flag = "actionId"
    BY <1>3, <2>1 DEF GroupsClick, GroupsPage
  <2> QED
    BY <1>3, <2>1, <2>2 DEF GroupsClick
<1>4. CASE page = "billing"
  <2>1. (op = "checkout" /\ MayCheckout(i)) \/ (op = "cancel" /\ MayCancel(i))
    BY <1>4 DEF MayClick, BillingClick
  <2>2. flag = IF op = "checkout" THEN "checkoutPlan" ELSE "canceling"
    BY <1>4, <2>1 DEF BillingPage
  <2> QED
    BY <1>4, <2>1, <2>2 DEF MayCheckout, MayCancel
<1>5. CASE page = "credentials"
  <2>1. CredentialsClick(op, i)
    BY <1>5 DEF MayClick
  <2>2. \/ op = "save" /\ flag = "saving"
        \/ op = "test" /\ flag = "testing"
        \/ op = "raw" /\ flag = "testingRaw"
    BY <1>5, <2>1 DEF CredentialsClick, CredentialsPage, CredentialsTest, Reloading
  <2> QED
    BY <1>5, <2>1, <2>2 DEF CredentialsClick, FormOK
<1>6. CASE page = "referrals"
  <2>1. ReferralsClick(op, i)
    BY <1>6 DEF MayClick
  <2>2. \/ op = "paid" /\ flag = "payingId"
        \/ op = "reject" /\ flag = "rejectingId"
    BY <1>6, <2>1 DEF ReferralsClick, ReferralsPage, Reloading
  <2> QED
    BY <1>6, <2>1, <2>2 DEF ReferralsClick
<1>7. CASE page = "user"
  <2>1. UserClick(op, i)
    BY <1>7 DEF MayClick
  <2>2. op \in {"save", "setActive"} /\ flag = "saving"
    BY <1>7, <2>1 DEF UserClick, UserPage
  <2> QED
    BY <1>7, <2>1, <2>2 DEF UserClick
<1>8. CASE page = "settings"
  <2>1. SettingsClick(op, i)
    BY <1>8 DEF MayClick
  <2>2. \/ op = "save" /\ flag = "saving"
        \/ op = "savePrices" /\ flag = "savingPrices"
    BY <1>8, <2>1 DEF SettingsClick, SettingsPage
  <2> QED
    BY <1>8, <2>1, <2>2 DEF SettingsClick, FormOK
<1>9. CASE page = "generator"
  <2>1. GeneratorClick(op, i)
    BY <1>9 DEF MayClick
  <2>2. \/ op = "save" /\ flag = "saving"
        \/ op = "test" /\ flag = "testing"
    BY <1>9, <2>1 DEF GeneratorClick, GeneratorPage
  <2>3. op = "test" => SentOn(page, op, i) = {}
    BY <1>9, SentType DEF Reads
  <2> QED
    BY <1>9, <2>1, <2>2, <2>3 DEF GeneratorClick, FormOK
<1> QED
  BY <1>1, <1>2, <1>3, <1>4, <1>5, <1>6, <1>7, <1>8, <1>9 DEF Page

LEMMA ClickStep ==
  ASSUME IInv, NEW op \in DOMAIN Pages[page], NEW i \in Item, Click(op, i)
  PROVE  IInv'
<1> PICK flag : flag = Flag(page, op)
  OBVIOUS
<1> PICK others : others = {k \in Holding(flag) : Mark(flight[k].op, flight[k].item) # Mark(op, i)}
  OBVIOUS
<1> PICK f : f = Flight(tab, op, i)
  OBVIOUS
<1> PICK u : u = tab'
  OBVIOUS
<1>1. /\ page \in Page /\ TabOK(tab) /\ db \in Elements /\ FormOK /\ DraftOK(page, tab)
      /\ flight = [n \in Slot |-> flight[n]]
  BY DEF IInv, TypeOK, FormOK
<1>2. PICK k \in Slot : flight' = [FlagTaken(others) EXCEPT ![k] = f]
  BY DEF Click
<1>3. /\ UNCHANGED <<page, db, plan, wrote, overtaken>> /\ MayClick(op, i)
      /\ u = [tab EXCEPT !.busy[flag] = Mark(op, i)]
  BY DEF Click
<1>4. /\ flag \in FlagName /\ tab.busy[flag] # Mark(op, i)
      /\ page \in Forms /\ SentOn(page, op, i) # {} => tab.read # "no"
      /\ page = "user" => tab.read # "no"
  BY <1>1, <1>3, ClickIsFree
<1>5. /\ Sound(page, f) /\ f # NoOne
      /\ f.visit = tab.visit /\ f.op = op /\ f.item = i /\ f.step = 1
      /\ \A j \in Item : f.wrote[j] = 0
  BY <1>1, <1>4, NewFlight
<1>6. /\ TabOK(u) /\ u.visit = tab.visit /\ u.view = tab.view /\ u.read = tab.read
      /\ u.loading = tab.loading /\ u.draft = tab.draft
      /\ u.busy[flag] = Mark(op, i)
      /\ \A b \in FlagName : b # flag => u.busy[b] = tab.busy[b]
  <2>1. Mark(op, i) \in [op : Operation, item : Item \cup {AnyItem}]
    <3>1. op \in Operation
      BY <1>1, TableHolds DEF TableOK
    <3> QED
      BY <3>1 DEF Mark
  <2>2. PICK b : b = [tab.busy EXCEPT ![flag] = Mark(op, i)]
    OBVIOUS
  <2>3. u = [tab EXCEPT !.busy = b]
    BY <1>1, <1>3, <2>2 DEF TabOK
  <2>4. /\ b \in [FlagName -> {NoOne} \cup [op : Operation, item : Item \cup {AnyItem}]]
        /\ b[flag] = Mark(op, i) /\ \A c \in FlagName : c # flag => b[c] = tab.busy[c]
    BY <1>1, <1>4, <2>1, <2>2 DEF TabOK
  <2> QED
    BY <1>1, <2>3, <2>4 DEF TabOK
<1>7. /\ flight' = [n \in Slot |-> flight'[n]] /\ flight'[k] = f
      /\ \A n \in Slot \ {k} :
           \/ flight'[n] = flight[n] /\ n \notin others
           \/ flight'[n] = [flight[n] EXCEPT !.freed = TRUE] /\ flight[n] # NoOne
  <2>1. \A n \in others : n \in Slot /\ flight[n] # NoOne
    BY DEF Holding, IsFree
  <2> QED
    BY <1>2, <2>1 DEF FlagTaken
<1>8. ASSUME NEW n \in Slot \ {k}, flight'[n] # NoOne
      PROVE  /\ Sound(page, flight'[n]) /\ InTab(page, u, overtaken, flight'[n])
             /\ IsStored(db, flight'[n]) /\ Follows(flight[n], flight'[n])
             /\ Twice(page, f, flight'[n]) => flight'[n].freed
  <2>1. PICK g : g = flight[n]
    OBVIOUS
  <2>2. PICK h : h = flight'[n]
    OBVIOUS
  <2>3. g # NoOne /\ ((h = g /\ n \notin others) \/ h = [g EXCEPT !.freed = TRUE])
    BY <1>7, <1>8, <2>1, <2>2
  <2>4. Sound(page, g) /\ InTab(page, tab, overtaken, g) /\ IsStored(db, g)
    BY <2>1, <2>3 DEF IInv, FlightsOK
  <2>5. g.visit = tab.visit /\ Flag(page, g.op) = flag => h.freed
    <3> SUFFICES ASSUME g.visit = tab.visit, Flag(page, g.op) = flag, h = g, n \notin others
                 PROVE  g.freed
      BY <1>1, <2>3, <2>4, FreedIs
    <3>1. n \in Holding(flag)
      BY <1>4, <2>1, <2>3 DEF Holding, IsFree
    <3>2. Mark(g.op, g.item) = Mark(op, i)
      BY <2>1, <3>1
    <3> QED
      BY <1>4, <2>4, <3>2 DEF InTab
  <2>6. Sound(page, h) /\ InTab(page, u, overtaken, h) /\ IsStored(db, h) /\ Follows(g, h)
    <3>1. /\ h = g \/ h = [g EXCEPT !.freed = TRUE]
          /\ Flag(page, g.op) \in FlagName /\ g.visit = tab.visit /\ ~h.freed =>
               u.busy[Flag(page, g.op)] = tab.busy[Flag(page, g.op)]
          /\ \A j \in Item : tab.view[j].rev <= u.view[j].rev
      <4>1. \A j \in Item : tab.view[j].rev \in Nat
        BY <1>1 DEF TabOK, Elements, Element
      <4> QED
        BY <1>6, <2>3, <2>5, <4>1
    <3> QED
      BY ONLY <1>1, <1>6, <2>4, <3>1, OthersKept
  <2>7. Twice(page, f, h) => h.freed
    <3> SUFFICES ASSUME Twice(page, f, h) PROVE h.freed
      OBVIOUS
    <3>1. h.op = g.op /\ h.visit = g.visit
      BY <2>6 DEF Follows
    <3>2. g.op = op /\ g.visit = tab.visit
      BY <1>5, <3>1 DEF Twice, Mark
    <3> QED
      BY <2>5, <3>2
  <2> QED
    BY <2>1, <2>2, <2>6, <2>7
<1>9. InTab(page, u, overtaken, f) /\ IsStored(db, f)
  <2>1. \A j \in Item : db[j].rev \in Nat
    BY <1>1 DEF Elements, Element
  <2>2. f.visit <= u.visit
    BY <1>1, <1>5, <1>6 DEF TabOK
  <2> QED
    BY <1>4, <1>5, <1>6, <2>1, <2>2 DEF InTab, IsStored
<1>10. FlightsOK'
  BY <1>3, <1>5, <1>7, <1>8, <1>9 DEF FlightsOK
<1>11. TwiceOK'
  <2>1. \A n \in Slot \ {k} :
          /\ flight'[n] = NoOne \/ Follows(flight[n], flight'[n])
          /\ flight'[n] # NoOne /\ Twice(page, flight'[k], flight'[n]) => flight'[n].freed
    BY <1>7, <1>8
  <2> QED
    BY <1>3, <2>1, TwiceAdded DEF IInv
<1>12. TypeOK' /\ RoutesOK'
  BY <1>3, <1>6, <1>7 DEF IInv, TypeOK, RoutesOK
<1>13. FormOK' /\ OwnWritesShown'
  BY <1>3, <1>6 DEF IInv, FormOK, DraftOK, OwnWritesShown
<1> QED
  BY <1>10, <1>11, <1>12, <1>13 DEF IInv

LEMMA MountedIs ==
  ASSUME NEW n \in Nat, NEW t, t = Mounted(n)
  PROVE  /\ TabOK(t) /\ t.visit = n /\ DraftOK(page, t)
         /\ page \in Forms => t.loading
<1>1. /\ [i \in Item |-> Absent] \in Elements /\ [i \in Item |-> Blank] \in [Item -> Field]
      /\ Absent.rev = Blank.rev
  BY DEF Elements, Element, State, Field, Absent, Blank
<1>2. TabOK(t)
  BY <1>1 DEF Mounted, TabOK
<1>3. /\ t.visit = n /\ t.view = [i \in Item |-> Absent] /\ t.draft = [i \in Item |-> Blank]
      /\ t.loading = (page # "referrals")
  BY DEF Mounted
<1> QED
  BY <1>1, <1>2, <1>3 DEF DraftOK, Forms

(* The load a page starts with when it is mounted. *)
LEMMA LoadIs ==
  ASSUME page \in Page, NEW t, TabOK(t), NEW f, f = Flight(t, "load", First)
  PROVE  /\ Sound(page, f) /\ f # NoOne /\ f.visit = t.visit
         /\ Flag(page, f.op) \notin FlagName
         /\ \A o : InTab(page, t, o, f)
         /\ \A d \in Elements : IsStored(d, f)
<1>1. "load" \in DOMAIN Pages[page] /\ SentOn(page, "load", First) = {}
  BY OpsExist, SentType DEF Reads
<1>2. /\ Sound(page, f) /\ f # NoOne /\ f.visit = t.visit /\ f.op = "load" /\ f.step = 1
      /\ \A j \in Item : f.wrote[j] = 0
  BY <1>1, NewFlight
<1>3. Flag(page, "load") \notin FlagName
  <2>1. TableOK(page, "load")
    BY <1>1, TableHolds
  <2> QED
    BY <2>1 DEF TableOK
<1>4. \A d \in Elements : IsStored(d, f)
  BY <1>2 DEF IsStored, Elements, Element
<1>5. \A o : InTab(page, t, o, f)
  <2>1. t.visit \in Nat
    BY DEF TabOK
  <2> QED
    BY <1>2, <1>3, <2>1 DEF InTab
<1> QED
  BY <1>2, <1>3, <1>4, <1>5

LEMMA ReopenStep == ASSUME IInv, Reopen PROVE IInv'
<1> PICK u : u = tab'
  OBVIOUS
<1> PICK f : f = Flight(u, "load", First)
  OBVIOUS
<1>1. /\ page \in Page /\ TabOK(tab) /\ db \in Elements /\ tab.visit \in Nat
      /\ flight = [n \in Slot |-> flight[n]]
  BY DEF IInv, TypeOK, TabOK
<1>2. /\ UNCHANGED <<page, db, plan>> /\ wrote' = [i \in Item |-> 0] /\ overtaken' = {}
      /\ u = Mounted(tab.visit + 1)
  BY DEF Reopen
<1>3. PICK k \in Slot : flight' = [flight EXCEPT ![k] = f]
  BY DEF Reopen
<1>4. /\ TabOK(u) /\ u.visit = tab.visit + 1 /\ DraftOK(page, u)
      /\ page \in Forms => u.loading
  BY <1>1, <1>2, MountedIs
<1>5. /\ Sound(page, f) /\ f # NoOne /\ Flag(page, f.op) \notin FlagName
      /\ InTab(page, u, {}, f) /\ IsStored(db, f)
  BY <1>1, <1>4, LoadIs
<1>6. /\ flight' = [n \in Slot |-> flight'[n]] /\ flight'[k] = f
      /\ \A n \in Slot \ {k} : flight'[n] = flight[n]
  BY <1>1, <1>3
<1>7. ASSUME NEW n \in Slot, flight[n] # NoOne
      PROVE  Sound(page, flight[n]) /\ InTab(page, u, {}, flight[n]) /\ IsStored(db, flight[n])
  <2>1. Sound(page, flight[n]) /\ InTab(page, tab, overtaken, flight[n]) /\ IsStored(db, flight[n])
    BY <1>7 DEF IInv, FlightsOK
  <2>2. flight[n].visit \in Nat
    BY <2>1 DEF Sound, FlightOK
  <2> QED
    BY <1>1, <1>4, <2>1, <2>2 DEF InTab
<1>8. FlightsOK'
  BY <1>2, <1>5, <1>6, <1>7 DEF FlightsOK
<1>9. TwiceOK'
  <2>1. \A n \in Slot : ~Twice(page, flight'[k], flight'[n])
    BY <1>5, <1>6 DEF Twice
  <2>2. \A n \in Slot \ {k} : flight'[n] = NoOne \/ Follows(flight[n], flight'[n])
    BY <1>6 DEF Follows
  <2> QED
    BY <1>2, <2>1, <2>2, TwiceAdded DEF IInv
<1>10. TypeOK' /\ RoutesOK'
  BY <1>2, <1>4, <1>6 DEF IInv, TypeOK, RoutesOK
<1>11. FormOK' /\ OwnWritesShown'
  <2>1. \A i \in Item : u.view[i].rev \in Nat
    BY <1>4 DEF TabOK, Elements, Element
  <2> QED
    BY <1>2, <1>4, <2>1 DEF FormOK, OwnWritesShown
<1> QED
  BY <1>8, <1>9, <1>10, <1>11 DEF IInv

LEMMA InitInv == Init => IInv
<1> SUFFICES ASSUME Init PROVE IInv
  OBVIOUS
<1> PICK f : f = Flight(tab, "load", First)
  OBVIOUS
<1>1. /\ page \in Page /\ plan \in Plan /\ db \in InitDb /\ tab = Mounted(1)
      /\ flight = [k \in Slot |-> IF k = <<AnyItem, 1>> THEN f ELSE NoOne]
      /\ wrote = [i \in Item |-> 0] /\ overtaken = {}
  BY DEF Init
<1>2. db \in Elements /\ RoutesOK
  <2>1. Absent \in Element /\ \A is \in State : [is |-> is, rev |-> 1] \in Element
    BY DEF Absent, Element, State
  <2>2. \A i \in Item : db[i] \in Element /\ (page = "groups" => db[i].is \in {"active", "inactive"})
    BY <1>1, <2>1 DEF InitDb, State, Page, Pages
  <2>3. db = [i \in Item |-> db[i]]
    BY <1>1 DEF InitDb, Page, Pages
  <2> QED
    BY <2>2, <2>3 DEF Elements, RoutesOK
<1>3. TabOK(tab) /\ DraftOK(page, tab) /\ (page \in Forms => tab.loading)
  BY <1>1, MountedIs
<1>4. Sound(page, f) /\ InTab(page, tab, overtaken, f) /\ IsStored(db, f)
  BY <1>1, <1>2, <1>3, LoadIs
<1>5. FlightsOK /\ TwiceOK
  BY <1>1, <1>4 DEF FlightsOK, TwiceOK
<1>6. TypeOK /\ FormOK
  BY <1>1, <1>2, <1>3 DEF TypeOK, FormOK
<1>7. OwnWritesShown
  BY <1>1, <1>3 DEF OwnWritesShown, TabOK, Elements, Element
<1> QED
  BY <1>2, <1>5, <1>6, <1>7 DEF IInv

LEMMA InvStep == IInv /\ [Next]_vars => IInv'
<1> SUFFICES ASSUME IInv, [Next]_vars PROVE IInv'
  OBVIOUS
<1>1. ASSUME NEW i \in Item, Moved(i) PROVE IInv'
  BY <1>1, MovedStep
<1>2. ASSUME NEW i \in Item, Edit(i) PROVE IInv'
  BY <1>2, EditStep
<1>3. ASSUME NEW i \in Item, Poll(i) PROVE IInv'
  BY <1>3, PollStep
<1>4. ASSUME NEW i \in Item, NEW op \in DOMAIN Pages[page], Click(op, i) PROVE IInv'
  BY <1>4, ClickStep
<1>5. CASE PlanMoved
  <2>1. plan' \in Plan /\ UNCHANGED <<page, db, tab, flight, wrote, overtaken>>
    BY <1>5 DEF PlanMoved
  <2> QED
    BY <2>1 DEF IInv, TypeOK, RoutesOK, FlightsOK, TwiceOK, FormOK, OwnWritesShown
<1>6. CASE Reopen
  BY <1>6, ReopenStep
<1>7. ASSUME NEW k \in Slot, Serve(k) PROVE IInv'
  BY <1>7, ServeStep
<1>8. ASSUME NEW k \in Slot, Answered(k) PROVE IInv'
  BY <1>8, GoOnStep DEF Answered, IsFree
<1>9. ASSUME NEW k \in Slot, RefusalCame(k) PROVE IInv'
  BY <1>9, ThrownStep DEF RefusalCame, IsFree
<1>10. ASSUME NEW k \in Slot, CallFails(k) PROVE IInv'
  BY <1>10, GoOnStep, ThrownStep DEF CallFails, IsFree
<1>11. CASE UNCHANGED vars
  BY <1>11 DEF vars, IInv, TypeOK, RoutesOK, FlightsOK, TwiceOK, FormOK, OwnWritesShown
<1> QED
  BY <1>1, <1>2, <1>3, <1>4, <1>5, <1>6, <1>7, <1>8, <1>9, <1>10, <1>11 DEF Next

----------------------------------------------------------------------------
(* Every reachable state satisfies the inductive invariant. *)
THEOREM DashboardInvariance == Spec => []IInv
  BY InitInv, InvStep, PTL DEF Spec

(* What a handler wrote and ended well, the page shows, or something newer, *)
(* unless a read that was served earlier was answered later: each handler  *)
(* reads again, or shows what the write answered, after it wrote.          *)
THEOREM WritesAreShown == Spec => []OwnWritesShown
<1>1. IInv => OwnWritesShown
  BY DEF IInv
<1> QED
  BY <1>1, DashboardInvariance, PTL

(* A form sends a field that was not edited as the page read it last: each *)
(* form waits for its load, and every read replaces what was typed.        *)
THEOREM FormsSendWhatWasRead == Spec => []SavesWhatWasRead
<1>1. IInv => SavesWhatWasRead
  <2> SUFFICES ASSUME IInv, NEW k \in Slot, flight[k] # NoOne, page \in Forms,
                      NEW i \in Sent(flight[k].op, flight[k].item)
               PROVE  \/ flight[k].body[i].edited
                      \/ flight[k].read # "no" /\ flight[k].body[i].rev = flight[k].seen[i]
    BY DEF SavesWhatWasRead, IsFree
  <2>1. SendsRead(page, flight[k])
    BY DEF IInv, FlightsOK, Sound
  <2>2. i \in SentOn(page, flight[k].op, flight[k].item)
    BY SentIs
  <2> QED
    BY <2>1, <2>2 DEF SendsRead
<1> QED
  BY <1>1, DashboardInvariance, PTL

(* A button is pressed again while its handler waits only after another    *)
(* handler with the same flag started or ended.                            *)
THEOREM ClicksAreNotRepeated == Spec => []TwiceNeedsOther
<1>1. IInv => TwiceNeedsOther
  BY DEF IInv, TwiceOK, Twice, TwiceNeedsOther, IsFree
<1> QED
  BY <1>1, DashboardInvariance, PTL

(* The page counts the groups of a route that the API counts as new: adding *)
(* the routes' groups to a set grows it by one exactly when it is new.      *)
LEMMA GroupsGrow ==
  ASSUME NEW of, NEW R \in SUBSET Item, NEW i \in Item
  PROVE  Cardinality(Groups(of, R \cup {i}))
           = Cardinality(Groups(of, R)) + (IF of[i] \in Groups(of, R) THEN 0 ELSE 1)
<1>1. Groups(of, R \cup {i}) = Groups(of, R) \cup {of[i]}
  BY DEF Groups
<1>2. IsFiniteSet(Groups(of, R)) /\ Cardinality(Groups(of, R)) \in Nat
  BY GroupsFinite
<1>3. CASE of[i] \in Groups(of, R)
  <2>1. Groups(of, R \cup {i}) = Groups(of, R)
    <3>1. \A S, g : g \in S => S \cup {g} = S
      OBVIOUS
    <3> QED
      BY ONLY <1>1, <1>3, <3>1
  <2>2. Cardinality(Groups(of, R \cup {i})) = Cardinality(Groups(of, R)) + 0
    BY ONLY <1>2, <2>1
  <2> QED
    BY ONLY <1>3, <2>2
<1>4. CASE of[i] \notin Groups(of, R)
  <2>1. PICK S : S = Groups(of, R)
    OBVIOUS
  <2>2. PICK g : g = of[i]
    OBVIOUS
  <2>3. Cardinality(S \cup {g}) = Cardinality(S) + 1
    BY ONLY <1>2, <1>4, <2>1, <2>2, FS_AddElement
  <2> QED
    BY <1>1, <1>4, <2>1, <2>2, <2>3
<1> QED
  BY <1>3, <1>4

LEMMA MessageIsRefusal ==
  ASSUME TypeOK, RoutesOK, page = "groups", tab.view = Rows, tab.usage = UsageNow,
         NEW i \in Item
  PROVE  RouteLimitMessage(i) <=> ~LimitAllows(i)
<1>1. {j \in Item : ShowsAs(j, "active")} = Active
  <2>1. \A j \in Item : db[j].is \in {"active", "inactive"}
    BY DEF RoutesOK
  <2>2. ASSUME NEW j \in Item PROVE tab.view[j].is = "active" <=> db[j].is = "active"
    <3>1. db[j] \in Element
      BY DEF TypeOK, Elements
    <3>2. RowIs(j) = IF db[j].is = "inactive" THEN "absent" ELSE "active"
      BY <2>1 DEF RowIs
    <3>3. tab.view[j].is = RowIs(j)
      BY <3>1 DEF Rows, Row, Element
    <3> QED
      BY <2>1, <3>2, <3>3
  <2> QED
    BY <2>2 DEF ShowsAs, Active
<1>2. /\ tab.usage # NoUsage /\ tab.usage.plan = plan /\ plan \in Plan
      /\ tab.usage.sources = Cardinality(Groups(SourceOf, Active))
      /\ tab.usage.destinations = Cardinality(Groups(DestinationOf, Active))
  <2>1. UsageNow # NoUsage
    <3>1. "sessions" \in DOMAIN UsageNow /\ "sessions" \notin DOMAIN NoUsage
      BY DEF UsageNow, NoUsage
    <3> QED
      BY <3>1
  <2> QED
    BY <2>1 DEF UsageNow, TypeOK
<1>3. Active \subseteq Item
  BY DEF Active
<1>4. /\ Limits[plan].sources \in Nat /\ Limits[plan].destinations \in Nat
  BY <1>2
<1>5. /\ Cardinality(Groups(SourceOf, Active \cup {i}))
           = tab.usage.sources + (IF SourceOf[i] \in Groups(SourceOf, Active) THEN 0 ELSE 1)
      /\ Cardinality(Groups(DestinationOf, Active \cup {i}))
           = tab.usage.destinations + (IF DestinationOf[i] \in Groups(DestinationOf, Active) THEN 0 ELSE 1)
      /\ tab.usage.sources \in Nat /\ tab.usage.destinations \in Nat
  BY <1>2, <1>3, GroupsGrow, GroupsFinite
<1>6. RouteLimitMessage(i) <=>
        \/ tab.usage.sources + (IF SourceOf[i] \in Groups(SourceOf, Active) THEN 0 ELSE 1)
             > Limits[plan].sources
        \/ tab.usage.destinations
             + (IF DestinationOf[i] \in Groups(DestinationOf, Active) THEN 0 ELSE 1)
             > Limits[plan].destinations
  BY <1>1, <1>2 DEF RouteLimitMessage
<1>7. LimitAllows(i) <=>
        /\ tab.usage.sources + (IF SourceOf[i] \in Groups(SourceOf, Active) THEN 0 ELSE 1)
             <= Limits[plan].sources
        /\ tab.usage.destinations
             + (IF DestinationOf[i] \in Groups(DestinationOf, Active) THEN 0 ELSE 1)
             <= Limits[plan].destinations
  BY <1>5 DEF LimitAllows
<1> QED
  BY ONLY <1>4, <1>5, <1>6, <1>7

(* The page of the groups forbids the routes that the API would refuse, and *)
(* no other, whenever what it shows is what is stored: the page counts what *)
(* the route adds, the API the groups with the route.                       *)
THEOREM LimitMessagesAgree == Spec => []LimitMessageAgrees
<1>1. IInv => LimitMessageAgrees
  BY MessageIsRefusal DEF IInv, LimitMessageAgrees
<1> QED
  BY <1>1, DashboardInvariance, PTL
=============================================================================
