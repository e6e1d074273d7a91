--------------------------- MODULE MessageForwarding ---------------------------
(***************************************************************************)
(* What happens to the group messages of one user's session: capture       *)
(* (WhatsAppMessagesService.recordIncomingGroupMessage), the automatic     *)
(* forward it starts and does not wait for, and the forwards the user asks *)
(* for (MessageForwardingService.forwardMessageById). A run of             *)
(* forwardMessageById awaits the database, the affiliate providers and the *)
(* WhatsApp socket; other runs, the plan and the routes move meanwhile.    *)
(*                                                                         *)
(* Abstractions. What the providers, the image download and the session    *)
(* answer is nondeterministic. Delivery is the moment WhatsApp accepts a   *)
(* sendMessage. Of the ForwardedMessage rows those of a delivery are kept, *)
(* as a set; how many of a day count for the limit is `today`. The FAILED  *)
(* and SKIPPED rows, which the code only lists, are not. Plan and routes   *)
(* may change at any time: a run reads any.                                *)
(***************************************************************************)
EXTENDS Integers, FiniteSets

CONSTANTS
  Message,      \* Baileys message ids that arrive
  Dest,         \* destination groups with a route from the source group
  DailyLimit,   \* dailyForwardLimit of the FREE plan
  MaxRuns,      \* bound on the calls of forwardMessageById
  MaxCaptures,  \* bound on the handlers of an arriving message
  Plans         \* what User.plan may be while the system runs

ASSUME ForwardingAssumption ==
  /\ DailyLimit \in Nat \ {0}
  /\ MaxRuns \in Nat /\ MaxCaptures \in Nat
  /\ Plans \subseteq {"FREE", "PAID"}     \* PAID: BASIC or PRO, no limit

Sent == {"SENT", "SENT_TEXT_FALLBACK", "SENT_MEDIA_FALLBACK"}
Status == Sent \cup {"FAILED", "SKIPPED", "SKIPPED_ALREADY_SENT"}

(* The statuses countForwardsToday selects. *)
Counted == {"SENT", "SENT_TEXT_FALLBACK"}

VARIABLES
  captures,  \* handlers of an arriving message
  saved,     \* the WhatsAppMessage rows, and whether they have links
  runs,      \* calls of forwardMessageById that are not over
  started,   \* how many were started
  rows,      \* ForwardedMessage: <<message, destination, status>>
  today,     \* rows of this São Paulo day that count for the limit
  freeToday, \* history: those among them a FREE run wrote
  delivered, \* history: <<message, destination>> that WhatsApp accepted
  autoSends, \* history: how often an automatic run sent it
  sendsToday \* history: deliveries of this São Paulo day, up to DailyLimit + 1

vars == <<captures, saved, runs, started, rows, today, freeToday, delivered,
          autoSends, sendsToday>>
history == <<delivered, autoSends, sendsToday>>
traffic == <<rows, today, freeToday, history>>

Mode == {"auto", "manual"}

(* `before`: history, the destinations that had a SENT row of the message   *)
(* when the run listed its routes.                                          *)
Run == [id : Nat, msg : Message, mode : Mode, plan : {"", "FREE", "PAID"},
        style : {"rewritten", "textFallback", "mediaFallback"},
        todo : SUBSET Dest, before : SUBSET Dest,
        dest : SUBSET Dest, status : Status \cup {""},
        pc : {"load", "routes", "gate", "prepare", "skipAll", "limit",
               "duplicate", "send", "record"}]

Capture == [msg : Message, links : BOOLEAN, pc : {"create", "backfill"}]

TypeOK ==
  /\ captures \subseteq Capture
  /\ saved \in [Message -> {"none", "plain", "linked"}]
  /\ runs \subseteq Run
  /\ started \in 0 .. MaxRuns
  /\ rows \subseteq Message \X Dest \X Sent
  /\ today \in Nat /\ freeToday \in 0 .. today
  /\ delivered \subseteq Message \X Dest
  /\ autoSends \in [Message \X Dest -> Nat]
  /\ sendsToday \in 0 .. DailyLimit + 1

Init ==
  /\ captures = {}
  /\ saved = [m \in Message |-> "none"]
  /\ runs = {}
  /\ started = 0
  /\ rows = {}
  /\ today = 0 /\ freeToday = 0
  /\ delivered = {}
  /\ autoSends = [x \in Message \X Dest |-> 0]
  /\ sendsToday = 0

----------------------------------------------------------------------------
(* Runs. *)

Start(m, mode, others) ==
  /\ started < MaxRuns
  /\ started' = started + 1
  /\ runs' = others \cup
       {[id |-> started + 1, msg |-> m, mode |-> mode, plan |-> "",
         style |-> "rewritten", todo |-> {}, before |-> {}, dest |-> {},
         status |-> "", pc |-> "load"]}

Become(r, s) == runs' = (runs \ {r}) \cup {s}

Finish(r) == runs' = runs \ {r}

SentBefore(m) == {d \in Dest : <<m, d, "SENT">> \in rows}

----------------------------------------------------------------------------
(* recordIncomingGroupMessage *)

(* Baileys hands over a message that passed readSkipReason,                 *)
(* isMessageTooOld and isRouted; the others leave no trace. WhatsApp may    *)
(* deliver it again, with or without links.                                 *)
Arrive(m, links) ==
  /\ Cardinality(captures) < MaxCaptures
  /\ captures' = captures \cup {[msg |-> m, links |-> links, pc |-> "create"]}
  /\ UNCHANGED <<saved, runs, started, traffic>>

Content(c) == IF c.links THEN "linked" ELSE "plain"

(* whatsAppMessage.create: messageId is unique. *)
CaptureCreate(c) ==
  /\ c.pc = "create"
  /\ saved[c.msg] = "none"
  /\ saved' = [saved EXCEPT ![c.msg] = Content(c)]
  /\ captures' = captures \ {c}
  /\ IF c.links THEN Start(c.msg, "auto", runs) ELSE UNCHANGED <<runs, started>>
  /\ UNCHANGED <<traffic>>

(* Wrong: the duplicate is forwarded as well. *)
CaptureDuplicate_Forwards(c) ==
  /\ c.pc = "create"
  /\ saved[c.msg] # "none"
  /\ c.links
  /\ captures' = captures \ {c}
  /\ saved' = [saved EXCEPT ![c.msg] = "linked"]
  /\ Start(c.msg, "auto", runs)
  /\ UNCHANGED <<traffic>>

(* P2002: the row exists; only its links are backfilled. *)
CaptureDuplicate(c) ==
  /\ c.pc = "create"
  /\ saved[c.msg] # "none"
  /\ captures' = (captures \ {c}) \cup
                 IF c.links THEN {[c EXCEPT !.pc = "backfill"]} ELSE {}
  /\ UNCHANGED <<saved, runs, started, traffic>>

CaptureBackfill(c) ==
  /\ c.pc = "backfill"
  /\ saved' = [saved EXCEPT ![c.msg] = "linked"]
  /\ captures' = captures \ {c}
  /\ UNCHANGED <<runs, started, traffic>>

CaptureFails(c) ==
  /\ captures' = captures \ {c}
  /\ UNCHANGED <<saved, runs, started, traffic>>

CaptureStep(c) ==
  \/ CaptureCreate(c) \/ CaptureDuplicate(c) \/ CaptureBackfill(c) \/ CaptureFails(c)

(* POST routes/forward/:messageId of a captured message. *)
ForwardManually(m) ==
  /\ saved[m] # "none"
  /\ Start(m, "manual", runs)
  /\ UNCHANGED <<captures, saved, traffic>>

----------------------------------------------------------------------------
(* forwardMessageById *)

(* The message and the user are read; the plan is read ONCE. *)
RunLoad(r) ==
  /\ r.pc = "load"
  /\ IF r.mode = "auto" /\ saved[r.msg] = "plain"
     THEN Finish(r)
     ELSE \E plan \in Plans : Become(r, [r EXCEPT !.plan = plan, !.pc = "routes"])
  /\ UNCHANGED <<captures, saved, started, traffic>>

(* The active routes from the message's source group. *)
RunRoutes(r) ==
  /\ r.pc = "routes"
  /\ \E dests \in SUBSET Dest :
       IF dests = {}
       THEN Finish(r)
       ELSE Become(r, [r EXCEPT !.todo = dests, !.before = SentBefore(r.msg),
                                !.pc = "gate"])
  /\ UNCHANGED <<captures, saved, started, traffic>>

(* canForwardMessage, with the plan the run read. *)
CanForward(r) == r.plan = "PAID" \/ today < DailyLimit

RunGate(r) ==
  /\ r.pc = "gate"
  /\ Become(r, [r EXCEPT !.pc = IF CanForward(r) THEN "prepare" ELSE "skipAll"])
  /\ UNCHANGED <<captures, saved, started, traffic>>

(* The affiliate links: every one rewritten, the original text and perhaps  *)
(* an image in place of a Mercado Livre link, or a reason to skip. Then the *)
(* session: CONNECTED with a socket, or a reason to skip; a session that is *)
(* gone ends the run (RunAborts).                                           *)
RunPrepare(r) ==
  /\ r.pc = "prepare"
  /\ \/ \E style \in {"rewritten", "textFallback", "mediaFallback"} :
          Become(r, [r EXCEPT !.style = style, !.pc = "limit"])
     \/ Become(r, [r EXCEPT !.pc = "skipAll"])
  /\ UNCHANGED <<captures, saved, started, traffic>>

(* persistSkippedForRoutes: a SKIPPED row per route. *)
RunSkipAll(r) ==
  /\ r.pc = "skipAll"
  /\ Finish(r)
  /\ UNCHANGED <<captures, saved, started, traffic>>

(* Wrong: the limit is checked before the loop only. *)
RunLimit_Once(r) ==
  /\ r.pc = "limit"
  /\ \E d \in r.todo :
       Become(r, [r EXCEPT !.dest = {d}, !.todo = @ \ {d}, !.pc = "duplicate"])
  /\ UNCHANGED <<captures, saved, started, traffic>>

(* Each route of the loop asks for the limit again. *)
RunLimit(r) ==
  /\ r.pc = "limit"
  /\ \E d \in r.todo :
       Become(r, IF CanForward(r)
                 THEN [r EXCEPT !.dest = {d}, !.todo = @ \ {d}, !.pc = "duplicate"]
                 ELSE [r EXCEPT !.dest = {d}, !.todo = @ \ {d}, !.pc = "record",
                                !.status = "SKIPPED"])
  /\ UNCHANGED <<captures, saved, started, traffic>>

(* Wrong: no look at what was sent before. *)
RunDuplicate_None(r) ==
  /\ r.pc = "duplicate"
  /\ Become(r, [r EXCEPT !.pc = "send"])
  /\ UNCHANGED <<captures, saved, started, traffic>>

(* alreadySent looks for status SENT; the invite link was fetched before.   *)
RunDuplicate(r) ==
  /\ r.pc = "duplicate"
  /\ Become(r, IF r.dest \subseteq SentBefore(r.msg)
               THEN [r EXCEPT !.pc = "record", !.status = "SKIPPED_ALREADY_SENT"]
               ELSE [r EXCEPT !.pc = "send"])
  /\ UNCHANGED <<captures, saved, started, traffic>>

(* The status of a delivery; an image that cannot be downloaded is sent as  *)
(* text.                                                                    *)
SendResult(r) ==
  CASE r.style = "rewritten"     -> {"SENT", "SENT_TEXT_FALLBACK"}
    [] r.style = "textFallback"  -> {"SENT_TEXT_FALLBACK"}
    [] r.style = "mediaFallback" -> {"SENT_MEDIA_FALLBACK"}

(* sendMessage, after the random delay of an automatic run. *)
RunSend(r) ==
  /\ r.pc = "send"
  /\ \E d \in r.dest, status \in SendResult(r) :
       /\ delivered' = delivered \cup {<<r.msg, d>>}
       /\ autoSends' = [autoSends EXCEPT ![<<r.msg, d>>] =
                          IF r.mode = "auto" THEN @ + 1 ELSE @]
       /\ Become(r, [r EXCEPT !.status = status, !.pc = "record"])
  /\ sendsToday' = IF sendsToday > DailyLimit THEN sendsToday ELSE sendsToday + 1
  /\ UNCHANGED <<captures, saved, started, rows, today, freeToday>>

(* Wrong: an error of sendMessage is taken for a delivery. *)
RunSendFails_Sent(r) ==
  /\ r.pc = "send"
  /\ Become(r, [r EXCEPT !.status = "SENT", !.pc = "record"])
  /\ UNCHANGED <<captures, saved, started, traffic>>

RunSendFails(r) ==
  /\ r.pc = "send"
  /\ Become(r, [r EXCEPT !.status = "FAILED", !.pc = "record"])
  /\ UNCHANGED <<captures, saved, started, traffic>>

NextRoute(r) ==
  IF r.todo = {}
  THEN Finish(r)
  ELSE Become(r, [r EXCEPT !.dest = {}, !.status = "", !.pc = "limit"])

CountsAs(r) == IF r.status \in Counted THEN 1 ELSE 0

(* Wrong: the usage counter is taken back. *)
RunRecord_Down(r) ==
  /\ r.pc = "record"
  /\ rows' = rows \cup {<<r.msg, d, r.status>> :
                          d \in IF r.status \in Sent THEN r.dest ELSE {}}
  /\ today' = today - CountsAs(r)
  /\ freeToday' = freeToday + (IF r.plan = "FREE" THEN CountsAs(r) ELSE 0)
  /\ NextRoute(r)
  /\ UNCHANGED <<captures, saved, started, history>>

(* forwardedMessage.create *)
RunRecord(r) ==
  /\ r.pc = "record"
  /\ rows' = rows \cup {<<r.msg, d, r.status>> :
                          d \in IF r.status \in Sent THEN r.dest ELSE {}}
  /\ today' = today + CountsAs(r)
  /\ freeToday' = freeToday + (IF r.plan = "FREE" THEN CountsAs(r) ELSE 0)
  /\ NextRoute(r)
  /\ UNCHANGED <<captures, saved, started, history>>

(* The row of a delivery cannot be written: the catch writes FAILED. *)
RunRecordFails(r) ==
  /\ r.pc = "record" /\ r.status \in Sent
  /\ Become(r, [r EXCEPT !.status = "FAILED"])
  /\ UNCHANGED <<captures, saved, started, traffic>>

(* Any other await throws. *)
RunAborts(r) ==
  /\ r.pc # "send"
  /\ r.pc = "record" => r.status \notin Sent
  /\ Finish(r)
  /\ UNCHANGED <<captures, saved, started, traffic>>

RunStep(r) ==
  \/ RunLoad(r) \/ RunRoutes(r) \/ RunGate(r) \/ RunPrepare(r) \/ RunSkipAll(r)
  \/ RunLimit(r) \/ RunDuplicate(r) \/ RunSend(r)
  \/ RunSendFails(r) \/ RunRecord(r) \/ RunRecordFails(r) \/ RunAborts(r)

----------------------------------------------------------------------------
(* The rest of the system. *)

DayEnds ==
  /\ today > 0 \/ sendsToday > 0
  /\ today' = 0 /\ freeToday' = 0 /\ sendsToday' = 0
  /\ UNCHANGED <<captures, saved, runs, started, rows, delivered, autoSends>>

(* The process stops: its handlers and runs are gone. *)
Crash ==
  /\ captures # {} \/ runs # {}
  /\ captures' = {} /\ runs' = {}
  /\ UNCHANGED <<saved, started, traffic>>

Next ==
  \/ \E m \in Message, links \in BOOLEAN : Arrive(m, links)
  \/ \E c \in captures : CaptureStep(c)
  \/ \E m \in Message : ForwardManually(m)
  \/ \E r \in runs : RunStep(r)
  \/ DayEnds \/ Crash

Spec == Init /\ [][Next]_vars

----------------------------------------------------------------------------
(* Properties. *)

(* A captured message is sent to a destination automatically at most once,  *)
(* also when WhatsApp delivers it again, to two handlers at a time, and     *)
(* whatever failed in between.                                              *)
AutoOnce == \A m \in Message, d \in Dest : autoSends[<<m, d>>] <= 1

(* A row says "sent" only of a message WhatsApp accepted for that group.    *)
SentIsDelivered == \A x \in rows : <<x[1], x[2]>> \in delivered

(* Runs of a FREE user that check the limit at the same time may each pass  *)
(* it, but every run checks again for every destination: the day's count    *)
(* exceeds the limit by less than the number of runs.                       *)
LimitOverrun == freeToday <= DailyLimit - 1 + MaxRuns

(* forwardMessageById never sends to a group that had a SENT row of the     *)
(* message when the run began, whatever else runs.                          *)
NoResend ==
  \A r \in runs : r.pc = "send" => r.dest \cap r.before = {}

(* The FREE plan's limit bounds the messages a user may send in a day when  *)
(* runs do not overlap.                                                     *)
DailyLimitHolds == sendsToday <= DailyLimit
=============================================================================
