----------------------- MODULE MessageForwardingProofs -----------------------
(***************************************************************************)
(* Proofs about MessageForwarding for any messages, destinations, plans,   *)
(* limits and numbers of runs and handlers.                                *)
(***************************************************************************)
EXTENDS MessageForwarding, FiniteSetTheorems, TLAPS

USE ForwardingAssumption DEF ForwardingAssumption

----------------------------------------------------------------------------
(* Types. *)

LEMMA InitTypeOK == Init => TypeOK
  BY DEF Init, TypeOK

(* The run that Start adds. *)
Fresh(m, mode) ==
  [id |-> started + 1, msg |-> m, mode |-> mode, plan |-> "",
   style |-> "rewritten", todo |-> {}, before |-> {}, dest |-> {},
   status |-> "", pc |-> "load"]

(* A started run has the type of a run. *)
LEMMA StartType ==
  ASSUME TypeOK, NEW m \in Message, NEW mode \in Mode, Start(m, mode, runs)
  PROVE  runs' \subseteq Run /\ started' \in 0 .. MaxRuns
<1>1. started + 1 \in Nat /\ started' \in 0 .. MaxRuns
  <2>1. started \in 0 .. MaxRuns /\ started < MaxRuns /\ started' = started + 1
    BY DEF Start, TypeOK
  <2> QED
    BY <2>1
<1>2. Fresh(m, mode) \in Run
  BY <1>1 DEF Fresh, Run, Mode
<1> QED
  BY <1>1, <1>2 DEF Start, TypeOK, Fresh

LEMMA CaptureType ==
  ASSUME TypeOK, NEW c \in captures, CaptureStep(c)
  PROVE  TypeOK'
<1> USE DEF TypeOK, Capture
<1>1. CASE CaptureCreate(c)
  <2>1. runs' \subseteq Run /\ started' \in 0 .. MaxRuns
    BY <1>1, StartType DEF CaptureCreate, Mode
  <2> QED
    BY <1>1, <2>1 DEF CaptureCreate, Content, traffic, history
<1>2. CASE CaptureDuplicate(c)
  BY <1>2 DEF CaptureDuplicate, traffic, history
<1>3. CASE CaptureBackfill(c)
  BY <1>3 DEF CaptureBackfill, traffic, history
<1>4. CASE CaptureFails(c)
  BY <1>4 DEF CaptureFails, traffic, history
<1> QED
  BY <1>1, <1>2, <1>3, <1>4 DEF CaptureStep

LEMMA RunType ==
  ASSUME TypeOK, NEW r \in runs, RunStep(r)
  PROVE  TypeOK'
<1>r. r \in Run
  BY DEF TypeOK
<1> USE DEF TypeOK, Become, Finish, traffic, history
<1>1. CASE RunLoad(r)
  <2>1. \A plan \in Plans : [r EXCEPT !.plan = plan, !.pc = "routes"] \in Run
    BY <1>r DEF Run
  <2> QED
    BY <1>1, <2>1 DEF RunLoad
<1>2. CASE RunRoutes(r)
  <2>1. \A dests \in SUBSET Dest :
          [r EXCEPT !.todo = dests, !.before = SentBefore(r.msg), !.pc = "gate"] \in Run
    BY <1>r DEF Run, SentBefore
  <2> QED
    BY <1>2, <2>1 DEF RunRoutes
<1>3. CASE RunGate(r) \/ RunPrepare(r) \/ RunSkipAll(r)
  <2>1. /\ [r EXCEPT !.pc = "prepare"] \in Run
        /\ [r EXCEPT !.pc = "skipAll"] \in Run
        /\ \A style \in {"rewritten", "textFallback", "mediaFallback"} :
              [r EXCEPT !.style = style, !.pc = "limit"] \in Run
    BY <1>r DEF Run
  <2> QED
    BY <1>3, <2>1 DEF RunGate, RunPrepare, RunSkipAll
<1>4. CASE RunLimit(r)
  <2>1. \A d \in r.todo :
          [r EXCEPT !.dest = {d}, !.todo = @ \ {d}, !.pc = "duplicate"] \in Run
    <3> SUFFICES ASSUME NEW d \in r.todo
                 PROVE  [r EXCEPT !.dest = {d}, !.todo = @ \ {d}, !.pc = "duplicate"] \in Run
      OBVIOUS
    <3>1. {d} \in SUBSET Dest /\ r.todo \ {d} \in SUBSET Dest
      BY <1>r DEF Run
    <3> QED
      BY <1>r, <3>1 DEF Run
  <2>2. \A d \in r.todo :
          [r EXCEPT !.dest = {d}, !.todo = @ \ {d}, !.pc = "record",
                    !.status = "SKIPPED"] \in Run
    <3> SUFFICES ASSUME NEW d \in r.todo
                 PROVE  [r EXCEPT !.dest = {d}, !.todo = @ \ {d}, !.pc = "record",
                                  !.status = "SKIPPED"] \in Run
      OBVIOUS
    <3>1. {d} \in SUBSET Dest /\ r.todo \ {d} \in SUBSET Dest
      BY <1>r DEF Run
    <3> QED
      BY <1>r, <3>1 DEF Run, Status
  <2> QED
    BY <1>4, <2>1, <2>2 DEF RunLimit
<1>5. CASE RunDuplicate(r)
  <2>1. /\ [r EXCEPT !.pc = "record", !.status = "SKIPPED_ALREADY_SENT"] \in Run
        /\ [r EXCEPT !.pc = "send"] \in Run
    BY <1>r DEF Run, Status
  <2> QED
    BY <1>5, <2>1 DEF RunDuplicate
<1>6. CASE RunSend(r)
  <2> PICK d \in r.dest, status \in SendResult(r) :
        /\ delivered' = delivered \cup {<<r.msg, d>>}
        /\ autoSends' = [autoSends EXCEPT ![<<r.msg, d>>] =
                           IF r.mode = "auto" THEN @ + 1 ELSE @]
        /\ runs' = (runs \ {r}) \cup {[r EXCEPT !.status = status, !.pc = "record"]}
    BY <1>6 DEF RunSend
  <2>1. d \in Dest /\ r.msg \in Message
    BY <1>r DEF Run
  <2>2. status \in Sent
    BY <1>r DEF SendResult, Sent, Run
  <2>3. [r EXCEPT !.status = status, !.pc = "record"] \in Run
    BY <1>r, <2>2 DEF Run, Status
  <2>4. delivered' \subseteq Message \X Dest
    BY <2>1
  <2>5. autoSends' \in [Message \X Dest -> Nat]
    BY <2>1
  <2>6. sendsToday' \in 0 .. DailyLimit + 1
    BY <1>6, ForwardingAssumption DEF RunSend
  <2> QED
    BY <1>6, <2>3, <2>4, <2>5, <2>6 DEF RunSend
<1>7. CASE RunSendFails(r)
  BY <1>7, <1>r DEF RunSendFails, Run, Status
<1>8. CASE RunRecord(r)
  <2>1. rows' \subseteq Message \X Dest \X Sent
    <3>1. r.msg \in Message /\ r.dest \subseteq Dest
      BY <1>r DEF Run
    <3>2. \A x \in rows' : x \in rows \/ (/\ r.status \in Sent
                                         /\ \E d \in r.dest : x = <<r.msg, d, r.status>>)
      BY <1>8 DEF RunRecord
    <3> QED
      BY <3>1, <3>2
  <2>2. today' \in Nat /\ freeToday' \in 0 .. today'
    BY <1>8 DEF RunRecord, CountsAs
  <2>3. [r EXCEPT !.dest = {}, !.status = "", !.pc = "limit"] \in Run
    BY <1>r DEF Run
  <2>4. runs' \subseteq Run
    BY <1>8, <2>3 DEF RunRecord, NextRoute
  <2> QED
    BY <1>8, <2>1, <2>2, <2>4 DEF RunRecord
<1>9. CASE RunRecordFails(r)
  BY <1>9, <1>r DEF RunRecordFails, Run, Status
<1>10. CASE RunAborts(r)
  BY <1>10 DEF RunAborts
<1> QED
  BY <1>1, <1>2, <1>3, <1>4, <1>5, <1>6, <1>7, <1>8, <1>9, <1>10 DEF RunStep

LEMMA TypeStep == TypeOK /\ [Next]_vars => TypeOK'
<1> SUFFICES ASSUME TypeOK, [Next]_vars PROVE TypeOK'
  OBVIOUS
<1>1. ASSUME NEW m \in Message, NEW links \in BOOLEAN, Arrive(m, links) PROVE TypeOK'
  BY <1>1 DEF Arrive, TypeOK, Capture, traffic, history
<1>2. ASSUME NEW c \in captures, CaptureStep(c) PROVE TypeOK'
  BY <1>2, CaptureType
<1>3. ASSUME NEW m \in Message, ForwardManually(m) PROVE TypeOK'
  <2>1. runs' \subseteq Run /\ started' \in 0 .. MaxRuns
    BY <1>3, StartType DEF ForwardManually, Mode
  <2> QED
    BY <1>3, <2>1 DEF ForwardManually, TypeOK, traffic, history
<1>4. ASSUME NEW r \in runs, RunStep(r) PROVE TypeOK'
  BY <1>4, RunType
<1>5. CASE DayEnds
  BY <1>5 DEF DayEnds, TypeOK
<1>6. CASE Crash
  BY <1>6 DEF Crash, TypeOK, traffic, history
<1>7. CASE UNCHANGED vars
  BY <1>7 DEF vars, TypeOK
<1> QED
  BY <1>1, <1>2, <1>3, <1>4, <1>5, <1>6, <1>7 DEF Next

(* Type correctness of the message rows, the runs and the counters. *)
THEOREM ForwardingTypes == Spec => []TypeOK
<1> QED
  BY InitTypeOK, TypeStep, PTL DEF Spec

----------------------------------------------------------------------------
(* The inductive invariant. *)

(* A run keeps its number, and no two runs have the same. *)
RunsNumbered ==
  /\ \A r \in runs : r.id \in 1 .. started
  /\ \A r, s \in runs : r.id = s.id => r = s

(* Past the limit check a run works on one destination of its list. *)
OneTarget(r) ==
  r.pc \in {"duplicate", "send", "record"} =>
    \E d \in Dest : r.dest = {d} /\ d \notin r.todo

(* What a run is about to record as sent was delivered. *)
DeliveryRecorded(r) ==
  r.pc = "record" /\ r.status \in Sent => \A d \in r.dest : <<r.msg, d>> \in delivered

(* Rows are never removed. *)
BeforeIsSent(r) == r.before \subseteq SentBefore(r.msg)

SendsNew(r) == r.pc = "send" => r.dest \cap r.before = {}

(* The destinations a run may still send to. *)
Ahead(r) ==
  IF r.pc \in {"load", "routes"} THEN Dest
  ELSE r.todo \cup IF r.pc \in {"duplicate", "send"} THEN r.dest ELSE {}

AheadUnsent(r) == r.mode = "auto" => \A d \in Ahead(r) : autoSends[<<r.msg, d>>] = 0

RunOK(r) ==
  OneTarget(r) /\ DeliveryRecorded(r) /\ BeforeIsSent(r) /\ SendsNew(r) /\ AheadUnsent(r)

EachRunOK == \A r \in runs : RunOK(r)

(* The row of a message is created once, so one automatic run is started. *)
AutoRunsAlone ==
  \A r, s \in runs : r.mode = "auto" /\ s.mode = "auto" /\ r.msg = s.msg => r = s

(* Nothing happens to a message before its row exists. *)
Untouched ==
  \A m \in Message : saved[m] = "none" =>
    (\A d \in Dest : autoSends[<<m, d>>] = 0) /\ \A r \in runs : r.msg # m

(* The FREE runs past the limit check whose row is not written yet. *)
Charged(r) ==
  /\ r.plan = "FREE"
  /\ r.pc \in {"duplicate", "send"} \/ (r.pc = "record" /\ r.status \in Counted)

PastLimit == {r.id : r \in {q \in runs : Charged(q)}}

OverrunBound == freeToday + Cardinality(PastLimit) <= DailyLimit - 1 + MaxRuns

IInv ==
  /\ TypeOK
  /\ RunsNumbered /\ EachRunOK /\ SentIsDelivered
  /\ AutoRunsAlone /\ Untouched /\ AutoOnce
  /\ OverrunBound

----------------------------------------------------------------------------
(* Lemmas about the steps. *)

(* A step of a run replaces it by one of the same number, message and mode, *)
(* or ends it.                                                              *)
Kept(s, r) == s.id = r.id /\ s.msg = r.msg /\ s.mode = r.mode

Others(r) == runs \ {r}

Shape(r) ==
  /\ \A s \in runs' : s \in Others(r) \/ Kept(s, r)
  /\ \A s, t \in runs' : s \in Others(r) \/ t \in Others(r) \/ s = t

LEMMA RunShape ==
  ASSUME TypeOK, NEW r \in runs, RunStep(r)
  PROVE  UNCHANGED <<captures, saved, started>> /\ Shape(r)
<1>r. r \in Run
  BY DEF TypeOK
<1> USE <1>r DEF Shape, Others, Kept, Become, Finish, Run
<1>1. CASE RunLoad(r)
  <2>1. CASE runs' = runs \ {r}
    BY <1>1, <2>1 DEF RunLoad
  <2>2. CASE runs' # runs \ {r}
    <3> PICK plan \in Plans :
          runs' = (runs \ {r}) \cup {[r EXCEPT !.plan = plan, !.pc = "routes"]}
      BY <1>1, <2>2 DEF RunLoad
    <3> QED
      BY <1>1 DEF RunLoad
  <2> QED
    BY <2>1, <2>2
<1>2. CASE RunRoutes(r)
  <2>1. CASE runs' = runs \ {r}
    BY <1>2, <2>1 DEF RunRoutes
  <2>2. CASE runs' # runs \ {r}
    <3> PICK dests \in SUBSET Dest :
          runs' = (runs \ {r}) \cup
            {[r EXCEPT !.todo = dests, !.before = SentBefore(r.msg), !.pc = "gate"]}
      BY <1>2, <2>2 DEF RunRoutes
    <3> QED
      BY <1>2 DEF RunRoutes
  <2> QED
    BY <2>1, <2>2
<1>3. CASE RunGate(r)
  BY <1>3 DEF RunGate
<1>4. CASE RunPrepare(r)
  BY <1>4 DEF RunPrepare
<1>5. CASE RunSkipAll(r)
  BY <1>5 DEF RunSkipAll
<1>6. CASE RunLimit(r)
  BY <1>6 DEF RunLimit
<1>7. CASE RunDuplicate(r)
  BY <1>7 DEF RunDuplicate
<1>8. CASE RunSend(r)
  <2> PICK status \in SendResult(r) :
        runs' = (runs \ {r}) \cup {[r EXCEPT !.status = status, !.pc = "record"]}
    BY <1>8 DEF RunSend
  <2> QED
    BY <1>8 DEF RunSend
<1>9. CASE RunSendFails(r)
  BY <1>9 DEF RunSendFails
<1>10. CASE RunRecord(r)
  <2>1. \/ runs' = runs \ {r}
        \/ runs' = (runs \ {r}) \cup
             {[r EXCEPT !.dest = {}, !.status = "", !.pc = "limit"]}
    BY <1>10 DEF RunRecord, NextRoute
  <2>2. UNCHANGED <<captures, saved, started>>
    BY <1>10 DEF RunRecord
  <2>3. CASE runs' = runs \ {r}
    BY <2>2, <2>3
  <2>4. CASE runs' = (runs \ {r}) \cup
                       {[r EXCEPT !.dest = {}, !.status = "", !.pc = "limit"]}
    BY <2>2, <2>4
  <2> QED
    BY <2>1, <2>3, <2>4
<1>11. CASE RunRecordFails(r)
  BY <1>11 DEF RunRecordFails
<1>12. CASE RunAborts(r)
  BY <1>12 DEF RunAborts
<1> QED
  BY <1>1, <1>2, <1>3, <1>4, <1>5, <1>6, <1>7, <1>8, <1>9, <1>10, <1>11, <1>12 DEF RunStep

(* At most MaxRuns runs are past the limit check at a time. *)
LEMMA PastLimitBound ==
  TypeOK /\ RunsNumbered =>
    IsFiniteSet(PastLimit) /\ Cardinality(PastLimit) \in 0 .. MaxRuns
<1> SUFFICES ASSUME TypeOK, RunsNumbered
             PROVE  IsFiniteSet(PastLimit) /\ Cardinality(PastLimit) \in 0 .. MaxRuns
  OBVIOUS
<1>1. PastLimit \in SUBSET (1 .. MaxRuns)
  BY DEF PastLimit, RunsNumbered, TypeOK
<1>2. IsFiniteSet(1 .. MaxRuns) /\ Cardinality(1 .. MaxRuns) = MaxRuns
  BY FS_Interval
<1>3. IsFiniteSet(PastLimit) /\ Cardinality(PastLimit) <= MaxRuns
  BY <1>1, <1>2, FS_Subset
<1> QED
  BY <1>3, FS_CardinalityType

(* Steps that leave the runs past the limit check and the day's count alone. *)
LEMMA BoundKept ==
  ASSUME TypeOK, RunsNumbered, OverrunBound, TypeOK', freeToday' = freeToday,
         PastLimit' \subseteq PastLimit
  PROVE  OverrunBound'
<1>1. IsFiniteSet(PastLimit) /\ Cardinality(PastLimit) \in 0 .. MaxRuns
  BY PastLimitBound
<1>2. Cardinality(PastLimit') <= Cardinality(PastLimit) /\ Cardinality(PastLimit') \in Nat
  BY <1>1, FS_Subset, FS_CardinalityType
<1> QED
  BY <1>1, <1>2 DEF OverrunBound, TypeOK

LEMMA InitInv == Init => IInv
<1> SUFFICES ASSUME Init PROVE IInv
  OBVIOUS
<1>1. PastLimit = {}
  BY DEF PastLimit, Init
<1>2. OverrunBound
  BY <1>1, FS_EmptySet DEF OverrunBound, Init
<1> QED
  BY <1>2, InitTypeOK
  DEF Init, IInv, RunsNumbered, EachRunOK, SentIsDelivered, AutoRunsAlone, Untouched,
      AutoOnce

(* The conjuncts that a new run or a new row of a message can disturb. *)
LEMMA StartInv ==
  ASSUME IInv, TypeOK', NEW m \in Message, NEW mode \in Mode, Start(m, mode, runs),
         UNCHANGED traffic, saved'[m] # "none",
         \A n \in Message : saved[n] # "none" => saved'[n] # "none",
         mode = "auto" => saved[m] = "none"
  PROVE  IInv'
<1>1. started' = started + 1 /\ started \in Nat
  <2>1. started \in 0 .. MaxRuns
    BY DEF IInv, TypeOK
  <2>2. started' = started + 1
    BY DEF Start
  <2> QED
    BY <2>1, <2>2
<1>2. PICK new :
        /\ runs' = runs \cup {new}
        /\ new.id = started + 1 /\ new.msg = m /\ new.mode = mode /\ new.plan = ""
        /\ new.before = {} /\ new.pc = "load"
  <2>1. runs' = runs \cup {Fresh(m, mode)}
    BY DEF Start, Fresh
  <2>2. LET new == Fresh(m, mode) IN
          /\ new.id = started + 1 /\ new.msg = m /\ new.mode = mode /\ new.plan = ""
          /\ new.before = {} /\ new.pc = "load"
    BY DEF Fresh
  <2> QED
    BY <2>1, <2>2
<1>3. UNCHANGED <<rows, today, freeToday, delivered, autoSends, sendsToday>>
  BY DEF traffic, history
<1>4. RunsNumbered'
  <2>1. \A r \in runs : r.id \in 1 .. started
    BY DEF RunsNumbered, IInv
  <2>2. \A r \in runs : r.id # started + 1 /\ r.id \in 1 .. started'
    <3> SUFFICES ASSUME NEW r \in runs
                 PROVE  r.id # started + 1 /\ r.id \in 1 .. started'
      OBVIOUS
    <3>1. r.id \in 1 .. started
      BY <2>1
    <3>2. started \in Nat /\ started' = started + 1
      BY <1>1
    <3> QED
      BY <3>1, <3>2
  <2>3. new.id \in 1 .. started'
    <3>1. started \in Nat /\ new.id = started + 1 /\ started' = started + 1
      BY <1>1, <1>2
    <3> QED
      BY <3>1
  <2>4. \A r \in runs' : r.id \in 1 .. started'
    BY <1>2, <2>2, <2>3
  <2>5. \A r \in runs : r.id # new.id
    BY <1>2, <2>2
  <2>6. \A r, s \in runs' : r.id = s.id => r = s
    BY <1>2, <2>5 DEF RunsNumbered, IInv
  <2> QED
    BY <2>4, <2>6 DEF RunsNumbered
<1>5. SentIsDelivered' /\ AutoOnce'
  BY <1>3 DEF SentIsDelivered, AutoOnce, IInv
<1>6. EachRunOK'
  <2>1. \A r \in runs : RunOK(r)'
    BY <1>3 DEF IInv, EachRunOK, RunOK, OneTarget, DeliveryRecorded, BeforeIsSent,
                SendsNew, AheadUnsent, Ahead, SentBefore
  <2>2. mode = "auto" => \A d \in Dest : autoSends[<<m, d>>] = 0
    BY DEF Untouched, IInv
  <2>3. RunOK(new)'
    BY <1>2, <1>3, <2>2
    DEF RunOK, OneTarget, DeliveryRecorded, BeforeIsSent, SendsNew, AheadUnsent, Ahead
  <2> QED
    BY <1>2, <2>1, <2>3 DEF EachRunOK
<1>7. AutoRunsAlone'
  <2>1. mode = "auto" => \A r \in runs : r.msg # m
    BY DEF Untouched, IInv
  <2> QED
    BY <1>1, <1>2, <2>1 DEF AutoRunsAlone, IInv
<1>8. Untouched'
  BY <1>1, <1>2, <1>3 DEF Untouched, IInv
<1>9. OverrunBound'
  <2>1. PastLimit' \subseteq PastLimit
    BY <1>1, <1>2 DEF PastLimit, Charged
  <2> QED
    BY <1>3, <2>1, BoundKept DEF IInv
<1> QED
  BY <1>4, <1>5, <1>6, <1>7, <1>8, <1>9 DEF IInv

(* Steps that only take runs away, or leave them alone. *)
LEMMA FewerRuns ==
  ASSUME IInv, TypeOK', runs' \subseteq runs, UNCHANGED <<rows, delivered, autoSends>>,
         started' = started, freeToday' \in {0, freeToday},
         \A n \in Message : saved[n] # "none" => saved'[n] # "none"
  PROVE  IInv'
<1>1. RunsNumbered' /\ AutoRunsAlone' /\ Untouched'
  BY DEF IInv, RunsNumbered, AutoRunsAlone, Untouched
<1>2. SentIsDelivered' /\ AutoOnce'
  BY DEF IInv, SentIsDelivered, AutoOnce
<1>3. EachRunOK'
  BY DEF IInv, EachRunOK, RunOK, OneTarget, DeliveryRecorded, BeforeIsSent,
         SendsNew, AheadUnsent, Ahead, SentBefore
<1>4. OverrunBound'
  <2>1. PastLimit' \subseteq PastLimit
    BY DEF PastLimit, Charged
  <2>2. CASE freeToday' = freeToday
    BY <2>1, <2>2, BoundKept DEF IInv
  <2>3. CASE freeToday' = 0
    <3>1. Cardinality(PastLimit)' \in 0 .. MaxRuns
      <4>1. IsFiniteSet(PastLimit) /\ Cardinality(PastLimit) \in 0 .. MaxRuns
        BY PastLimitBound DEF IInv
      <4> QED
        BY <4>1, <2>1, FS_Subset, FS_CardinalityType
    <3> QED
      BY <2>3, <3>1 DEF OverrunBound
  <2> QED
    BY <2>2, <2>3
<1> QED
  BY <1>1, <1>2, <1>3, <1>4 DEF IInv

(* The conjuncts about all runs follow from the shape of a step. *)
LEMMA ShapeKeeps ==
  ASSUME IInv, TypeOK', NEW r \in runs, RunStep(r),
         UNCHANGED autoSends \/ saved[r.msg] # "none",
         \A m \in Message, d \in Dest :
           m # r.msg => autoSends'[<<m, d>>] = autoSends[<<m, d>>]
  PROVE  RunsNumbered' /\ AutoRunsAlone' /\ Untouched'
<1>1. UNCHANGED <<captures, saved, started>> /\ Shape(r)
  BY RunShape DEF IInv
<1>2. RunsNumbered'
  BY <1>1 DEF IInv, RunsNumbered, Shape, Others, Kept
<1>3. AutoRunsAlone'
  BY <1>1 DEF IInv, AutoRunsAlone, Shape, Others, Kept
<1>4. Untouched'
  BY <1>1 DEF IInv, Untouched, Shape, Others, Kept
<1> QED
  BY <1>2, <1>3, <1>4

(* A step that leaves the history alone keeps the invariant when the run it *)
(* leaves behind is in order.                                               *)
LEMMA QuietStep ==
  ASSUME IInv, TypeOK', NEW r \in runs, RunStep(r), UNCHANGED traffic,
         \A s \in runs' : s \in Others(r) \/ RunOK(s),
         OverrunBound'
  PROVE  IInv'
<1>1. UNCHANGED <<rows, today, freeToday, delivered, autoSends, sendsToday>>
  BY DEF traffic, history
<1>2. RunsNumbered' /\ AutoRunsAlone' /\ Untouched'
  BY <1>1, ShapeKeeps
<1>3. \A s \in runs' : RunOK(s)
  BY DEF Others, IInv, EachRunOK
<1>4. EachRunOK'
  BY <1>1, <1>3 DEF EachRunOK, RunOK, OneTarget, DeliveryRecorded, BeforeIsSent,
                    SendsNew, AheadUnsent, Ahead, SentBefore
<1>5. SentIsDelivered' /\ AutoOnce'
  BY <1>1 DEF SentIsDelivered, AutoOnce, IInv
<1> QED
  BY <1>2, <1>4, <1>5 DEF IInv

(* A run that was not charged before its step is not charged after it: the  *)
(* runs past the limit check become no more.                                *)
LEMMA NotCharged ==
  ASSUME IInv, TypeOK', NEW r \in runs, RunStep(r), UNCHANGED freeToday,
         \A s \in runs' : s \in Others(r) \/ (Charged(s) => Charged(r))
  PROVE  OverrunBound'
<1>1. Shape(r)
  BY RunShape DEF IInv
<1>2. \A s \in runs' : Charged(s) => \E q \in runs : Charged(q) /\ q.id = s.id
  BY <1>1 DEF Shape, Others, Kept
<1>3. PastLimit' \subseteq PastLimit
  BY <1>2 DEF PastLimit, Charged
<1> QED
  BY <1>3, BoundKept DEF IInv

LEMMA PrepareInv ==
  ASSUME IInv, TypeOK', NEW r \in runs, RunStep(r),
         RunLoad(r) \/ RunRoutes(r) \/ RunGate(r) \/ RunPrepare(r) \/ RunSkipAll(r)
  PROVE  IInv'
<1>r. r \in Run /\ RunOK(r) /\ Shape(r)
  BY RunShape DEF IInv, TypeOK, EachRunOK
<1> USE <1>r DEF Run, Become, Finish, Others
<1>1. UNCHANGED traffic
  BY DEF RunLoad, RunRoutes, RunGate, RunPrepare, RunSkipAll
<1>2. ASSUME NEW s \in runs', s \notin Others(r)
      PROVE  /\ s.pc \in {"routes", "gate", "prepare", "skipAll", "limit"}
             /\ BeforeIsSent(s) /\ AheadUnsent(s)
  <2>1. /\ s.msg = r.msg /\ s.mode = r.mode
        /\ \/ s.pc = "routes" /\ s.before = r.before /\ r.pc = "load"
           \/ /\ s.pc = "gate" /\ s.before = SentBefore(r.msg) /\ r.pc = "routes"
              /\ s.todo \subseteq Dest
           \/ /\ s.pc \in {"prepare", "skipAll", "limit"} /\ s.before = r.before
              /\ s.todo = r.todo /\ r.pc \in {"gate", "prepare"}
    <3>1. CASE RunLoad(r)
      <4> PICK plan \in Plans : s = [r EXCEPT !.plan = plan, !.pc = "routes"]
        BY <1>2, <3>1 DEF RunLoad
      <4> QED
        BY <3>1 DEF RunLoad
    <3>2. CASE RunRoutes(r)
      <4> PICK dests \in SUBSET Dest :
            s = [r EXCEPT !.todo = dests, !.before = SentBefore(r.msg), !.pc = "gate"]
        BY <1>2, <3>2 DEF RunRoutes
      <4> QED
        BY <3>2 DEF RunRoutes
    <3>3. CASE RunGate(r)
      BY <1>2, <3>3 DEF RunGate
    <3>4. CASE RunPrepare(r)
      <4>1. CASE s = [r EXCEPT !.pc = "skipAll"]
        BY <3>4, <4>1 DEF RunPrepare
      <4>2. CASE s # [r EXCEPT !.pc = "skipAll"]
        <5> PICK style \in {"rewritten", "textFallback", "mediaFallback"} :
              s = [r EXCEPT !.style = style, !.pc = "limit"]
          BY <1>2, <3>4, <4>2 DEF RunPrepare
        <5> QED
          BY <3>4 DEF RunPrepare
      <4> QED
        BY <4>1, <4>2
    <3>5. CASE RunSkipAll(r)
      BY <1>2, <3>5 DEF RunSkipAll
    <3> QED
      BY <3>1, <3>2, <3>3, <3>4, <3>5
  <2>2. Ahead(s) \subseteq Ahead(r)
    BY <2>1 DEF Ahead
  <2> QED
    BY <2>1, <2>2 DEF RunOK, BeforeIsSent, AheadUnsent
<1>3. \A s \in runs' : s \in Others(r) \/ (RunOK(s) /\ ~Charged(s))
  BY <1>2 DEF RunOK, OneTarget, DeliveryRecorded, BeforeIsSent, SendsNew, AheadUnsent,
              Charged
<1>4. OverrunBound'
  BY <1>1, <1>3, NotCharged DEF traffic
<1> QED
  BY <1>1, <1>3, <1>4, QuietStep

LEMMA LimitInv ==
  ASSUME IInv, TypeOK', NEW r \in runs, RunStep(r), RunLimit(r)
  PROVE  IInv'
<1>r. r \in Run /\ RunOK(r) /\ Shape(r)
  BY RunShape DEF IInv, TypeOK, EachRunOK
<1>1. PICK d \in r.todo :
        Become(r, IF CanForward(r)
                  THEN [r EXCEPT !.dest = {d}, !.todo = @ \ {d}, !.pc = "duplicate"]
                  ELSE [r EXCEPT !.dest = {d}, !.todo = @ \ {d}, !.pc = "record",
                                 !.status = "SKIPPED"])
  BY DEF RunLimit
<1>2. UNCHANGED traffic /\ r.pc = "limit"
  BY DEF RunLimit
<1>3. ASSUME NEW s \in runs', s \notin Others(r)
      PROVE  RunOK(s) /\ (Charged(s) => CanForward(r) /\ r.plan = "FREE")
  <2>1. /\ s.dest = {d} /\ s.todo = r.todo \ {d} /\ s.before = r.before
        /\ s.msg = r.msg /\ s.mode = r.mode /\ s.plan = r.plan
        /\ \/ CanForward(r) /\ s.pc = "duplicate"
           \/ s.pc = "record" /\ s.status = "SKIPPED"
    BY <1>r, <1>1, <1>3 DEF Become, Others, Run
  <2>2. d \in Dest /\ Ahead(s) \subseteq Ahead(r)
    BY <1>r, <1>2, <2>1 DEF Ahead, Run
  <2> QED
    BY <1>r, <2>1, <2>2 DEF RunOK, OneTarget, DeliveryRecorded, BeforeIsSent, SendsNew,
                            AheadUnsent, Charged, Sent, Counted
<1>4. OverrunBound'
  <2>1. CASE CanForward(r) /\ r.plan = "FREE"
    <3>1. today < DailyLimit
      BY <2>1 DEF CanForward
    <3>2. freeToday' = freeToday /\ freeToday \in 0 .. today /\ today \in Nat
      BY <1>2 DEF traffic, IInv, TypeOK
    <3>3. RunsNumbered'
      BY <1>2, ShapeKeeps DEF traffic, history
    <3>4. TypeOK' /\ RunsNumbered' =>
            (IsFiniteSet(PastLimit) /\ Cardinality(PastLimit) \in 0 .. MaxRuns)'
      BY PastLimitBound, PTL
    <3> QED
      BY <3>1, <3>2, <3>3, <3>4 DEF OverrunBound
  <2>2. CASE ~(CanForward(r) /\ r.plan = "FREE")
    BY <1>2, <1>3, <2>2, NotCharged DEF traffic
  <2> QED
    BY <2>1, <2>2
<1> QED
  BY <1>2, <1>3, <1>4, QuietStep

LEMMA DuplicateInv ==
  ASSUME IInv, TypeOK', NEW r \in runs, RunStep(r), RunDuplicate(r)
  PROVE  IInv'
<1>r. r \in Run /\ RunOK(r) /\ Shape(r)
  BY RunShape DEF IInv, TypeOK, EachRunOK
<1>1. UNCHANGED traffic /\ r.pc = "duplicate"
  BY DEF RunDuplicate
<1>2. ASSUME NEW s \in runs', s \notin Others(r)
      PROVE  RunOK(s) /\ (Charged(s) => Charged(r))
  <2>1. /\ s.dest = r.dest /\ s.todo = r.todo /\ s.before = r.before
        /\ s.msg = r.msg /\ s.mode = r.mode /\ s.plan = r.plan
        /\ \/ s.pc = "send" /\ ~(r.dest \subseteq SentBefore(r.msg))
           \/ s.pc = "record" /\ s.status = "SKIPPED_ALREADY_SENT"
    BY <1>r, <1>2 DEF RunDuplicate, Become, Others, Run
  <2>2. Ahead(s) \subseteq Ahead(r)
    BY <1>1, <2>1 DEF Ahead
  <2>3. PICK d \in Dest : r.dest = {d} /\ d \notin r.todo
    BY <1>r, <1>1 DEF RunOK, OneTarget
  <2>4. SendsNew(s)
    BY <1>r, <2>1, <2>3 DEF RunOK, BeforeIsSent, SendsNew
  <2> QED
    BY <1>r, <1>1, <2>1, <2>2, <2>3, <2>4
    DEF RunOK, OneTarget, DeliveryRecorded, BeforeIsSent, AheadUnsent, Charged, Sent, Counted
<1>3. OverrunBound'
  BY <1>1, <1>2, NotCharged DEF traffic
<1> QED
  BY <1>1, <1>2, <1>3, QuietStep

LEMMA SendInv ==
  ASSUME IInv, TypeOK', NEW r \in runs, RunStep(r), RunSend(r)
  PROVE  IInv'
<1>r. r \in Run /\ RunOK(r) /\ Shape(r)
  BY RunShape DEF IInv, TypeOK, EachRunOK
<1>1. PICK d \in r.dest, status \in SendResult(r) :
        /\ delivered' = delivered \cup {<<r.msg, d>>}
        /\ autoSends' = [autoSends EXCEPT ![<<r.msg, d>>] =
                           IF r.mode = "auto" THEN @ + 1 ELSE @]
        /\ Become(r, [r EXCEPT !.status = status, !.pc = "record"])
  BY DEF RunSend
<1>2. UNCHANGED <<captures, saved, started, rows, today, freeToday>> /\ r.pc = "send"
  BY DEF RunSend
<1>3. r.msg \in Message /\ r.dest = {d} /\ d \in Dest /\ d \notin r.todo
  BY <1>r, <1>2 DEF RunOK, OneTarget, Run
<1>4. autoSends \in [Message \X Dest -> Nat]
  BY DEF IInv, TypeOK
<1>5. \A m \in Message, e \in Dest :
        /\ <<m, e>> # <<r.msg, d>> \/ r.mode # "auto" =>
             autoSends'[<<m, e>>] = autoSends[<<m, e>>]
        /\ r.mode = "auto" => autoSends[<<r.msg, d>>] = 0 /\ autoSends'[<<r.msg, d>>] = 1
  <2>1. r.mode = "auto" => autoSends[<<r.msg, d>>] = 0
    BY <1>r, <1>2, <1>3 DEF RunOK, AheadUnsent, Ahead
  <2>2. <<r.msg, d>> \in Message \X Dest
    BY <1>3
  <2> QED
    BY <1>1, <1>4, <2>1, <2>2
<1>6. saved[r.msg] # "none"
  BY <1>3 DEF IInv, Untouched
<1>7. RunsNumbered' /\ AutoRunsAlone' /\ Untouched'
  BY <1>5, <1>6, ShapeKeeps
<1>8. SentIsDelivered' /\ AutoOnce'
  BY <1>1, <1>2, <1>5 DEF IInv, SentIsDelivered, AutoOnce
<1>9. EachRunOK'
  <2>1. ASSUME NEW s \in runs', s \in Others(r) PROVE RunOK(s)'
    <3>1. RunOK(s) /\ s \in runs /\ s # r /\ s \in Run
      BY <2>1 DEF Others, IInv, EachRunOK, TypeOK
    <3>2. s.mode = "auto" /\ r.mode = "auto" => s.msg # r.msg
      BY <3>1 DEF IInv, AutoRunsAlone
    <3>3. AheadUnsent(s)'
      <4>1. s.msg \in Message /\ Ahead(s) \subseteq Dest
        BY <3>1 DEF Ahead, Run
      <4> QED
        BY <1>5, <3>1, <3>2, <4>1 DEF RunOK, AheadUnsent, Ahead
    <3> QED
      BY <1>1, <1>2, <3>1, <3>3
      DEF RunOK, OneTarget, DeliveryRecorded, BeforeIsSent, SendsNew, SentBefore
  <2>2. ASSUME NEW s \in runs', s \notin Others(r) PROVE RunOK(s)'
    <3>1. /\ s.dest = {d} /\ s.todo = r.todo /\ s.before = r.before
          /\ s.msg = r.msg /\ s.mode = r.mode /\ s.pc = "record"
      BY <1>r, <1>1, <1>3, <2>2 DEF Become, Others, Run
    <3>2. AheadUnsent(s)'
      <4>1. r.todo \subseteq Dest /\ r.todo \subseteq Ahead(r)
        BY <1>r, <1>2 DEF Run, Ahead
      <4> QED
        BY <1>r, <1>3, <1>5, <3>1, <4>1 DEF RunOK, AheadUnsent, Ahead
    <3> QED
      BY <1>r, <1>1, <1>2, <1>3, <3>1, <3>2
      DEF RunOK, OneTarget, DeliveryRecorded, BeforeIsSent, SendsNew, SentBefore
  <2> QED
    BY <2>1, <2>2 DEF EachRunOK
<1>10. OverrunBound'
  <2>1. Charged(r) \/ r.plan # "FREE"
    BY <1>2 DEF Charged
  <2>2. \A s \in runs' : s \in Others(r) \/ s.plan = r.plan
    BY <1>r, <1>1 DEF Become, Others, Run
  <2> QED
    BY <1>2, <2>1, <2>2, NotCharged DEF Charged
<1> QED
  BY <1>7, <1>8, <1>9, <1>10 DEF IInv

(* A failed send or row leaves a FAILED row to write. *)
LEMMA FailInv ==
  ASSUME IInv, TypeOK', NEW r \in runs, RunStep(r), RunSendFails(r) \/ RunRecordFails(r)
  PROVE  IInv'
<1>r. r \in Run /\ RunOK(r)
  BY DEF IInv, TypeOK, EachRunOK
<1>1. UNCHANGED traffic /\ r.pc \in {"send", "record"}
  BY DEF RunSendFails, RunRecordFails
<1>2. \A s \in runs' : s \in Others(r) \/
        (/\ s.dest = r.dest /\ s.todo = r.todo /\ s.before = r.before
         /\ s.msg = r.msg /\ s.mode = r.mode /\ s.pc = "record" /\ s.status = "FAILED")
  <2>1. CASE RunSendFails(r)
    BY <1>r, <2>1 DEF RunSendFails, Become, Others, Run
  <2>2. CASE RunRecordFails(r)
    BY <1>r, <2>2 DEF RunRecordFails, Become, Others, Run
  <2> QED
    BY <2>1, <2>2
<1>3. \A s \in runs' : s \in Others(r) \/ (RunOK(s) /\ ~Charged(s))
  BY <1>r, <1>1, <1>2
  DEF RunOK, OneTarget, DeliveryRecorded, BeforeIsSent, SendsNew, AheadUnsent, Ahead,
      Charged, Sent, Counted
<1>4. OverrunBound'
  BY <1>1, <1>3, NotCharged DEF traffic
<1> QED
  BY <1>1, <1>3, <1>4, QuietStep

LEMMA RecordInv ==
  ASSUME IInv, TypeOK', NEW r \in runs, RunStep(r), RunRecord(r)
  PROVE  IInv'
<1>r. r \in Run /\ RunOK(r) /\ Shape(r)
  BY RunShape DEF IInv, TypeOK, EachRunOK
<1>1. /\ rows' = rows \cup {<<r.msg, d, r.status>> :
                              d \in IF r.status \in Sent THEN r.dest ELSE {}}
      /\ freeToday' = freeToday + (IF r.plan = "FREE" THEN CountsAs(r) ELSE 0)
      /\ UNCHANGED <<captures, saved, started, delivered, autoSends, sendsToday>>
      /\ r.pc = "record"
  BY DEF RunRecord, history
<1>2. \A s \in runs' : s \in Others(r) \/
        (/\ s.dest = {} /\ s.todo = r.todo /\ s.before = r.before
         /\ s.msg = r.msg /\ s.mode = r.mode /\ s.pc = "limit")
  <2>1. \/ runs' = runs \ {r}
        \/ runs' = (runs \ {r}) \cup
             {[r EXCEPT !.dest = {}, !.status = "", !.pc = "limit"]}
    BY DEF RunRecord, NextRoute, Become, Finish
  <2>2. CASE runs' = runs \ {r}
    BY <2>2 DEF Others
  <2>3. CASE runs' = (runs \ {r}) \cup
                       {[r EXCEPT !.dest = {}, !.status = "", !.pc = "limit"]}
    BY <1>r, <2>3 DEF Others, Run
  <2> QED
    BY <2>1, <2>2, <2>3
<1>3. RunsNumbered' /\ AutoRunsAlone' /\ Untouched'
  BY <1>1, ShapeKeeps
<1>4. AutoOnce'
  BY <1>1 DEF IInv, AutoOnce
<1>5. SentIsDelivered'
  <2>1. ASSUME NEW x \in rows' PROVE <<x[1], x[2]>> \in delivered
    <3>1. CASE x \in rows
      BY <3>1 DEF IInv, SentIsDelivered
    <3>2. CASE x \notin rows
      <4> PICK d \in r.dest : r.status \in Sent /\ x = <<r.msg, d, r.status>>
        BY <1>1, <2>1, <3>2
      <4> QED
        BY <1>r, <1>1 DEF RunOK, DeliveryRecorded
    <3> QED
      BY <3>1, <3>2
  <2> QED
    BY <1>1, <2>1 DEF SentIsDelivered
<1>6. EachRunOK'
  <2>1. \A m \in Message : SentBefore(m) \subseteq SentBefore(m)'
    BY <1>1 DEF SentBefore
  <2>2. ASSUME NEW s \in runs', s \in Others(r) PROVE RunOK(s)'
    <3>1. RunOK(s) /\ s.msg \in Message
      BY <2>2 DEF Others, IInv, EachRunOK, TypeOK, Run
    <3> QED
      BY <1>1, <2>1, <3>1 DEF RunOK, OneTarget, DeliveryRecorded, BeforeIsSent,
                              SendsNew, AheadUnsent, Ahead
  <2>3. ASSUME NEW s \in runs', s \notin Others(r) PROVE RunOK(s)'
    <3>1. r.msg \in Message
      BY <1>r DEF Run
    <3> QED
      BY <1>r, <1>1, <1>2, <2>1, <2>3, <3>1
      DEF RunOK, OneTarget, DeliveryRecorded, BeforeIsSent, SendsNew, AheadUnsent, Ahead
  <2> QED
    BY <2>2, <2>3 DEF EachRunOK
<1>7. OverrunBound'
  <2>1. CASE ~Charged(r)
    <3>1. freeToday' = freeToday
      BY <1>1, <2>1 DEF Charged, CountsAs, IInv, TypeOK
    <3> QED
      BY <1>2, <3>1, NotCharged DEF Charged
  <2>2. CASE Charged(r)
    <3>1. freeToday' = freeToday + 1 /\ freeToday \in Nat
      BY <1>1, <2>2 DEF Charged, CountsAs, IInv, TypeOK
    <3>2. PastLimit' \subseteq PastLimit \ {r.id} /\ r.id \in PastLimit
      <4>1. \A s \in runs' : Charged(s) => s \in runs /\ s # r
        BY <1>2 DEF Others, Charged
      <4> QED
        BY <2>2, <4>1 DEF PastLimit, IInv, RunsNumbered, Charged
    <3>3. IsFiniteSet(PastLimit) /\ Cardinality(PastLimit) \in 0 .. MaxRuns
      BY PastLimitBound DEF IInv
    <3>4. /\ IsFiniteSet(PastLimit \ {r.id})
          /\ Cardinality(PastLimit \ {r.id}) = Cardinality(PastLimit) - 1
      BY <3>2, <3>3, FS_RemoveElement
    <3>5. /\ Cardinality(PastLimit') \in Nat
          /\ Cardinality(PastLimit') <= Cardinality(PastLimit \ {r.id})
      BY <3>2, <3>4, FS_Subset, FS_CardinalityType
    <3> QED
      BY <3>1, <3>3, <3>4, <3>5 DEF IInv, OverrunBound
  <2> QED
    BY <2>1, <2>2
<1> QED
  BY <1>3, <1>4, <1>5, <1>6, <1>7 DEF IInv

LEMMA InvStep == IInv /\ [Next]_vars => IInv'
<1> SUFFICES ASSUME IInv, [Next]_vars PROVE IInv'
  OBVIOUS
<1>t. TypeOK'
  BY TypeStep DEF IInv
<1>1. ASSUME NEW m \in Message, NEW links \in BOOLEAN, Arrive(m, links) PROVE IInv'
  BY <1>1, <1>t, FewerRuns DEF Arrive, traffic, history
<1>2. ASSUME NEW c \in captures, CaptureStep(c) PROVE IInv'
  <2>c. c \in Capture /\ saved \in [Message -> {"none", "plain", "linked"}]
    BY DEF IInv, TypeOK
  <2>1. CASE CaptureCreate(c)
    <3>1. /\ c.msg \in Message /\ saved[c.msg] = "none"
          /\ saved' = [saved EXCEPT ![c.msg] = Content(c)]
          /\ UNCHANGED traffic
      BY <2>1, <2>c DEF CaptureCreate, Capture
    <3>2. /\ saved'[c.msg] # "none"
          /\ \A n \in Message : saved[n] # "none" => saved'[n] # "none"
      BY <2>c, <3>1 DEF Content
    <3>3. CASE c.links
      <4>1. Start(c.msg, "auto", runs)
        BY <2>1, <3>3 DEF CaptureCreate
      <4> QED
        BY <1>t, <3>1, <3>2, <4>1, StartInv DEF Mode
    <3>4. CASE ~c.links
      BY <1>t, <2>1, <3>1, <3>2, <3>4, FewerRuns DEF CaptureCreate, traffic, history
    <3> QED
      BY <3>3, <3>4
  <2>2. CASE CaptureDuplicate(c) \/ CaptureFails(c)
    BY <1>t, <2>2, FewerRuns DEF CaptureDuplicate, CaptureFails, traffic, history
  <2>3. CASE CaptureBackfill(c)
    <3>1. \A n \in Message : saved[n] # "none" => saved'[n] # "none"
      BY <2>3, <2>c DEF CaptureBackfill
    <3> QED
      BY <1>t, <2>3, <3>1, FewerRuns DEF CaptureBackfill, traffic, history
  <2> QED
    BY <1>2, <2>1, <2>2, <2>3 DEF CaptureStep
<1>3. ASSUME NEW m \in Message, ForwardManually(m) PROVE IInv'
  BY <1>3, <1>t, StartInv DEF ForwardManually, Mode
<1>4. ASSUME NEW r \in runs, RunStep(r) PROVE IInv'
  <2>1. CASE RunLoad(r) \/ RunRoutes(r) \/ RunGate(r) \/ RunPrepare(r) \/ RunSkipAll(r)
    BY <1>4, <1>t, <2>1, PrepareInv
  <2>2. CASE RunLimit(r)
    BY <1>4, <1>t, <2>2, LimitInv
  <2>3. CASE RunDuplicate(r)
    BY <1>4, <1>t, <2>3, DuplicateInv
  <2>4. CASE RunSend(r)
    BY <1>4, <1>t, <2>4, SendInv
  <2>5. CASE RunSendFails(r) \/ RunRecordFails(r)
    BY <1>4, <1>t, <2>5, FailInv
  <2>6. CASE RunRecord(r)
    BY <1>4, <1>t, <2>6, RecordInv
  <2>7. CASE RunAborts(r)
    BY <1>t, <2>7, FewerRuns DEF RunAborts, Finish, traffic, history
  <2> QED
    BY <1>4, <2>1, <2>2, <2>3, <2>4, <2>5, <2>6, <2>7 DEF RunStep
<1>5. CASE DayEnds
  BY <1>5, <1>t, FewerRuns DEF DayEnds
<1>6. CASE Crash
  BY <1>6, <1>t, FewerRuns DEF Crash, traffic, history
<1>7. CASE UNCHANGED vars
  BY <1>7, <1>t, FewerRuns DEF vars
<1> QED
  BY <1>1, <1>2, <1>3, <1>4, <1>5, <1>6, <1>7 DEF Next

LEMMA Invariance == Spec => []IInv
<1> QED
  BY InitInv, InvStep, PTL DEF Spec

----------------------------------------------------------------------------
(* Theorems. *)

(* However often WhatsApp delivers a message, whatever handlers and runs    *)
(* overlap and whatever fails: recordIncomingGroupMessage and the forward   *)
(* it starts send the message to each destination at most once.             *)
THEOREM ForwardingAutoOnce == Spec => []AutoOnce
<1>1. IInv => AutoOnce
  BY DEF IInv
<1> QED
  BY <1>1, Invariance, PTL

(* A ForwardedMessage row with a status of success is only written for a    *)
(* message WhatsApp accepted.                                               *)
THEOREM ForwardingSentIsDelivered == Spec => []SentIsDelivered
<1>1. IInv => SentIsDelivered
  BY DEF IInv
<1> QED
  BY <1>1, Invariance, PTL

(* A run that is about to send has looked at alreadySent: the destination   *)
(* had no SENT row of the message when the run began.                       *)
THEOREM ForwardingNoResend == Spec => []NoResend
<1>1. IInv => NoResend
  BY DEF IInv, EachRunOK, RunOK, SendsNew, NoResend
<1> QED
  BY <1>1, Invariance, PTL

(* Overlapping runs exceed the FREE plan's daily limit by less than their   *)
(* number, because each asks again before every destination.                *)
THEOREM ForwardingLimitOverrun == Spec => []LimitOverrun
<1>1. IInv => LimitOverrun
  <2> SUFFICES ASSUME IInv PROVE LimitOverrun
    OBVIOUS
  <2>1. Cardinality(PastLimit) \in 0 .. MaxRuns
    BY PastLimitBound DEF IInv
  <2>2. freeToday \in Nat
    BY DEF IInv, TypeOK
  <2> QED
    BY <2>1, <2>2 DEF IInv, OverrunBound, LimitOverrun
<1> QED
  BY <1>1, Invariance, PTL
=============================================================================
