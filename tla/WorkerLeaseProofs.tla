-------------------------- MODULE WorkerLeaseProofs --------------------------
(***************************************************************************)
(* Proofs about WorkerLease for any number of processes, sessions, tokens  *)
(* and requests: the inductive invariant IInv, exclusive ownership, the    *)
(* two step properties, and the refinement of SessionLease.                *)
(***************************************************************************)
EXTENDS WorkerLease, TLAPS

USE LeaseAssumption DEF NoToken, Token

LEMMA TypeStep == TypeOK /\ [Next]_vars => TypeOK'
<1> SUFFICES ASSUME TypeOK, [Next]_vars PROVE TypeOK'
  OBVIOUS
<1> USE DEF TypeOK, Row, Call
<1>1. ASSUME NEW p \in Proc, NEW s \in Session, Acquire(p, s) PROVE TypeOK'
  BY <1>1 DEF Acquire, Send
<1>2. ASSUME NEW p \in Proc, NEW s \in Session, NEW t \in Token,
             Renew(p, s, t) \/ Release(p, s, t)
      PROVE TypeOK'
  <2>1. calls' \subseteq Call
    BY <1>2 DEF Renew, Release, Send
  <2>2. held' \subseteq held /\ UNCHANGED <<now, row, issued, up, spent>>
    BY <1>2 DEF Renew, Release, Drop
  <2> QED
    BY <2>1, <2>2
<1>3. ASSUME NEW c \in calls, CallStep(c) PROVE TypeOK'
  <2>1. CASE AcquireApply(c)
    BY <2>1 DEF AcquireApply, Retoken, InFlight
  <2>2. CASE RenewApply(c) \/ RenewAnswerLost(c)
    BY <2>2 DEF RenewApply, RenewAnswerLost, Drop, End
  <2>3. CASE ReleaseApply(c)
    BY <2>3 DEF ReleaseApply, Retoken, End
  <2>4. CASE AcquireReturn(c)
    BY <2>4 DEF AcquireReturn, End
  <2>5. CASE AcquireRefused(c) \/ AcquireThrows(c) \/ ReleaseRefused(c)
    BY <2>5 DEF AcquireRefused, AcquireThrows, ReleaseRefused, End
  <2>6. CASE RenewRefused(c) \/ CallFails(c)
    BY <2>6 DEF RenewRefused, CallFails, End, Drop
  <2> QED
    BY <1>3, <2>1, <2>2, <2>3, <2>4, <2>5, <2>6 DEF CallStep
<1>4. ASSUME NEW s \in Session, Delete(s) PROVE TypeOK'
  BY <1>4 DEF Delete
<1>5. ASSUME NEW p \in Proc, Crash(p) \/ Restart(p) PROVE TypeOK'
  BY <1>5 DEF Crash, Restart, Orphaned
<1>6. CASE Tick
  BY <1>6 DEF Tick
<1>7. CASE UNCHANGED vars
  BY <1>7 DEF vars
<1> QED
  BY <1>1, <1>2, <1>3, <1>4, <1>5, <1>6, <1>7 DEF Next

LEMMA InitInv == Init => IInv
  BY DEF Init, IInv, TypeOK, Row, Drawn, Fresh, Private, HeldOnce, RowTokens, GivenBack

LEMMA InvStep == IInv /\ [Next]_vars => IInv'
<1> SUFFICES ASSUME IInv, [Next]_vars PROVE IInv'
  OBVIOUS
<1> USE DEF IInv, Drawn, Fresh, Private, HeldOnce, RowTokens, GivenBack, InFlight
<1>t. TypeOK'
  BY TypeStep
<1> USE DEF TypeOK, Row, Call
<1>1. ASSUME NEW p \in Proc, NEW s \in Session, Acquire(p, s) PROVE IInv'
  BY <1>1, <1>t DEF Acquire, Send
<1>2. ASSUME NEW p \in Proc, NEW s \in Session, NEW t \in Token, Renew(p, s, t)
      PROVE IInv'
  BY <1>2, <1>t DEF Renew, Send
<1>3. ASSUME NEW p \in Proc, NEW s \in Session, NEW t \in Token, Release(p, s, t)
      PROVE IInv'
  BY <1>3, <1>t DEF Release, Send, Drop
<1>4. ASSUME NEW c \in calls, CallStep(c) PROVE IInv'
  <2>1. CASE AcquireApply(c)
    <3> USE <2>1 DEF AcquireApply
    <3>1. /\ \A s \in Session \ {c.session} : row'[s] = row[s]
          /\ row'[c.session].token = c.token
          /\ row'[c.session].worker = WorkerOf[c.proc]
          /\ WorkerOf[c.proc] # NoWorker
          /\ spent' = spent \cup ({row[c.session].token} \ {NoToken})
          /\ UNCHANGED <<now, issued, held>>
      BY DEF Retoken
    <3>2. \A d \in calls' :
            \/ d \in calls /\ d # c
            \/ d.op = "acquire" /\ d.phase = "granted" /\ d.token = c.token /\ d.at = c.at
               /\ d = [c EXCEPT !.phase = "granted"]
      OBVIOUS
    <3>3. \A d \in calls : d # c => d.token # c.token
      OBVIOUS
    <3>4. Drawn' /\ HeldOnce' /\ GivenBack'
      BY <3>1, <3>2
    <3>5. Fresh' /\ Private'
      BY <3>1, <3>2, <3>3
    <3>6. RowTokens'
      <4>1. c.token # NoToken /\ c.token \notin spent'
            /\ \A s \in Session : row[s].token # c.token
        BY <3>1
      <4>2. \A s \in Session \ {c.session} : row'[s].token \notin spent'
        BY <3>1
      <4>3. \A s \in Session \ {c.session} :
              row'[s].token = row[s].token /\ row'[s].worker = row[s].worker
              /\ row'[s].expires = row[s].expires
        BY <3>1
      <4> HIDE <2>1 DEF AcquireApply
      <4> QED
        BY <3>1, <4>1, <4>2, <4>3
    <3> QED
      BY <3>4, <3>5, <3>6, <1>t
  <2>2. CASE RenewApply(c) \/ RenewAnswerLost(c)
    <3>1. /\ row[c.session].worker # NoWorker
          /\ row' = [row EXCEPT ![c.session].expires = c.at + LeaseMs]
      BY <2>2 DEF RenewApply, RenewAnswerLost, Renewable
    <3>2. \A s \in Session : /\ row'[s].token = row[s].token
                             /\ row'[s].worker = row[s].worker
                             /\ s # c.session => row'[s] = row[s]
      BY <3>1
    <3>3. /\ calls' \subseteq calls /\ held' \subseteq held
          /\ spent' = spent /\ issued' = issued /\ now' = now
      BY <2>2 DEF RenewApply, RenewAnswerLost, Drop, End
    <3>4. RowTokens'
      <4>1. \A s \in Session : row'[s].token \notin spent'
        BY <3>2, <3>3
      <4>2. \A s \in Session : row'[s].token = NoToken <=> row'[s].worker = NoWorker
        BY <3>2
      <4>3. \A s \in Session : row'[s].worker = NoWorker => row'[s].expires = 0
        BY <3>1, <3>2
      <4>4. \A s, r \in Session :
              row'[s].token = row'[r].token /\ row'[s].token # NoToken => s = r
        BY <3>2
      <4> QED
        BY ONLY <4>1, <4>2, <4>3, <4>4 DEF RowTokens
    <3>5. Drawn' /\ Fresh'
      BY <3>2, <3>3
    <3>6. Private' /\ HeldOnce' /\ GivenBack'
      BY <3>3
    <3> QED
      BY ONLY <3>4, <3>5, <3>6, <1>t DEF IInv
  <2>3. CASE ReleaseApply(c)
    <3>1. /\ row'[c.session].token = NoToken /\ row'[c.session].worker = NoWorker
          /\ row'[c.session].expires = 0
          /\ \A s \in Session \ {c.session} : row'[s] = row[s]
          /\ spent' = spent \cup ({row[c.session].token} \ {NoToken})
      BY <2>3 DEF ReleaseApply, Retoken
    <3>2. /\ calls' \subseteq calls /\ row[c.session].token = c.token
          /\ held' = held /\ issued' = issued /\ now' = now
      BY <2>3 DEF ReleaseApply, Releasable, End
    <3>3. RowTokens'
      BY <3>1
    <3>4. Drawn' /\ Fresh'
      BY <2>3, <3>1, <3>2 DEF ReleaseApply
    <3>5. Private' /\ HeldOnce' /\ GivenBack'
      BY <3>2
    <3> QED
      BY ONLY <3>3, <3>4, <3>5, <1>t DEF IInv
  <2>4. CASE AcquireReturn(c)
    <3>1. /\ c.phase = "granted" /\ calls' = calls \ {c}
          /\ held' = held \cup {<<c.proc, c.session, c.token>>}
          /\ row' = row /\ issued' = issued /\ spent' = spent /\ now' = now
      BY <2>4 DEF AcquireReturn, End
    <3>2. c.token <= issued /\ \A h \in held : h[3] # c.token
      BY <3>1
    <3>3. \A d \in calls' : d \in calls /\ d.token # c.token
      BY <3>1
    <3>4. \A h \in held' : h \in held \/ h = <<c.proc, c.session, c.token>>
      BY <3>1
    <3>5. Drawn' /\ RowTokens'
      BY <3>1, <3>2, <3>4
    <3>6. Fresh' /\ Private' /\ GivenBack'
      BY <3>1, <3>3, <3>4
    <3>7. HeldOnce'
      BY <3>2, <3>4
    <3> QED
      BY ONLY <3>5, <3>6, <3>7, <1>t DEF IInv
  <2>5. CASE \/ AcquireRefused(c) \/ AcquireThrows(c) \/ ReleaseRefused(c)
             \/ RenewRefused(c) \/ CallFails(c)
    <3>1. /\ calls' \subseteq calls /\ held' \subseteq held
          /\ row' = row /\ issued' = issued /\ spent' = spent /\ now' = now
      BY <2>5 DEF AcquireRefused, AcquireThrows, ReleaseRefused, RenewRefused,
                  CallFails, End, Drop
    <3>2. Drawn' /\ Fresh' /\ RowTokens'
      BY <3>1
    <3>3. Private' /\ HeldOnce' /\ GivenBack'
      BY <3>1
    <3> QED
      BY ONLY <3>2, <3>3, <1>t DEF IInv
  <2> QED
    BY <1>4, <2>1, <2>2, <2>3, <2>4, <2>5 DEF CallStep
<1>5. ASSUME NEW s \in Session, Delete(s) PROVE IInv'
  BY <1>5, <1>t DEF Delete
<1>6. ASSUME NEW p \in Proc, Crash(p) PROVE IInv'
  BY <1>6, <1>t DEF Crash, Orphaned
<1>7. ASSUME NEW p \in Proc, Restart(p) PROVE IInv'
  BY <1>7, <1>t DEF Restart
<1>8. CASE Tick
  BY <1>8, <1>t DEF Tick
<1>9. CASE UNCHANGED vars
  BY <1>9 DEF vars
<1> QED
  BY <1>1, <1>2, <1>3, <1>4, <1>5, <1>6, <1>7, <1>8, <1>9 DEF Next

(* The inductive invariant holds in every reachable state. *)
THEOREM Invariance == Spec => []IInv
  BY InitInv, InvStep, PTL DEF Spec

(* Every state of the lease service has the declared types. *)
THEOREM TypeCorrect == Spec => []TypeOK
  BY Invariance, PTL DEF IInv

(* At most one process passes assertLeaseOwner for a session: the token of  *)
(* the row is kept by one process only.                                     *)
THEOREM ExclusiveOwner == Spec => []UniqueOwner
<1>1. IInv => UniqueOwner
  BY DEF IInv, HeldOnce, UniqueOwner, OwnsLease
<1> QED
  BY <1>1, Invariance, PTL

----------------------------------------------------------------------------
(* What a step may do to a row. *)

LEMMA RowStep ==
  ASSUME IInv, Next, NEW s \in Session
  PROVE  \/ row'[s].token = row[s].token /\ row'[s].worker = row[s].worker
         \/ \E c \in calls : /\ AcquireApply(c) \/ ReleaseApply(c)
                             /\ c.session = s
<1> USE DEF IInv, TypeOK, Row, Call
<1>1. CASE \E c \in calls : CallStep(c)
  <2>1. PICK c \in calls : CallStep(c)
    BY <1>1
  <2>2. CASE AcquireApply(c) \/ ReleaseApply(c)
    BY <2>2 DEF AcquireApply, ReleaseApply, Retoken
  <2>3. CASE RenewApply(c) \/ RenewAnswerLost(c)
    BY <2>3 DEF RenewApply, RenewAnswerLost
  <2>4. CASE ~(\/ AcquireApply(c) \/ ReleaseApply(c)
               \/ RenewApply(c) \/ RenewAnswerLost(c))
    BY <2>1, <2>4 DEF CallStep, AcquireRefused, AcquireReturn, AcquireThrows,
                      RenewRefused, ReleaseRefused, CallFails
  <2> QED
    BY <2>2, <2>3, <2>4
<1>2. CASE \E r \in Session : Delete(r)
  BY <1>2 DEF Delete
<1>3. CASE ~(\/ \E c \in calls : CallStep(c)
             \/ \E r \in Session : Delete(r))
  BY <1>3 DEF Next, Acquire, Renew, Release, Crash, Restart, Tick
<1> QED
  BY <1>1, <1>2, <1>3

(* A session moves to another worker only when its lease is over.           *)
THEOREM LeaseNotStolen == Spec => NoTheft
<1> DEFINE Step == \A s \in Session :
      row[s].worker # NoWorker /\ row'[s].worker \notin {NoWorker, row[s].worker}
        => row[s].expires <= now
<1>1. IInv /\ [Next]_vars => [Step]_vars
  <2> SUFFICES ASSUME IInv, Next, NEW s \in Session,
                      row[s].worker # NoWorker,
                      row'[s].worker \notin {NoWorker, row[s].worker}
               PROVE  row[s].expires <= now
    OBVIOUS
  <2>1. PICK c \in calls : (AcquireApply(c) \/ ReleaseApply(c)) /\ c.session = s
    BY RowStep
  <2>2. CASE AcquireApply(c)
    <3>1. c.at <= now /\ c.at \in Nat /\ now \in Nat /\ row[s].expires \in Nat
      BY DEF IInv, Drawn, TypeOK, Call, Row
    <3>2. row'[s].worker = WorkerOf[c.proc]
      BY <2>1, <2>2 DEF AcquireApply, Retoken, IInv, TypeOK, Row, Call
    <3> QED
      BY <2>1, <2>2, <3>1, <3>2 DEF AcquireApply, MayAcquire
  <2>3. CASE ReleaseApply(c)
    BY <2>1, <2>3 DEF ReleaseApply, Retoken, IInv, TypeOK, Row, Call
  <2> QED
    BY <2>1, <2>2, <2>3
<1> QED
  BY <1>1, Invariance, PTL DEF Spec, NoTheft

(* A lease is freed only when no process keeps its token.                   *)
THEOREM LeaseNotReleasedUnderHolder == Spec => NoSilentRelease
<1> DEFINE Step == \A s \in Session :
      row[s].token # NoToken /\ row'[s].token = NoToken
        => \A h \in held : h[3] # row[s].token
<1>1. IInv /\ [Next]_vars => [Step]_vars
  <2> SUFFICES ASSUME IInv, Next, NEW s \in Session,
                      row[s].token # NoToken, row'[s].token = NoToken
               PROVE  \A h \in held : h[3] # row[s].token
    OBVIOUS
  <2>1. PICK c \in calls : (AcquireApply(c) \/ ReleaseApply(c)) /\ c.session = s
    BY RowStep
  <2>2. CASE AcquireApply(c)
    BY <2>1, <2>2 DEF AcquireApply, Retoken, IInv, TypeOK, Row, Call
  <2>3. CASE ReleaseApply(c)
    BY <2>1, <2>3 DEF ReleaseApply, Releasable, InFlight, IInv, GivenBack
  <2> QED
    BY <2>1, <2>2, <2>3
<1> QED
  BY <1>1, Invariance, PTL DEF Spec, NoSilentRelease

----------------------------------------------------------------------------
(* Refinement. *)

LEMMA RefinementInit == Init => SL!Init
<1> SUFFICES ASSUME Init PROVE SL!Init
  OBVIOUS
<1>1. \A s \in Session : ~(row[s].expires > now)
  BY DEF Init
<1> QED
  BY <1>1 DEF Init, SL!Init

LEMMA RefinementStep == IInv /\ [Next]_vars => [SL!Next]_(SL!vars)
<1> SUFFICES ASSUME IInv, [Next]_vars PROVE SL!Next \/ UNCHANGED SL!vars
  OBVIOUS
<1> DEFINE Valid == [s \in Session |-> row[s].expires > now /\ ~row[s].deleted]
           Same  == /\ spent' = spent
                    /\ \A s \in Session : /\ row'[s].worker = row[s].worker
                                          /\ row'[s].token = row[s].token
<1> USE DEF IInv, TypeOK, Row, Call
<1>1. ASSUME Same, \A s \in Session : Valid'[s] => Valid[s]
      PROVE  SL!Next
  <2>1. Valid' = [s \in Session |->
                   Valid[s] /\ s \notin {r \in Session : ~Valid'[r]}]
    BY <1>1
  <2>2. SL!Lapse
    BY <1>1, <2>1 DEF SL!Lapse
  <2> QED
    BY <2>2 DEF SL!Next
<1>2. ASSUME UNCHANGED <<row, now, spent>> PROVE SL!Next
  BY <1>1, <1>2
<1>3. ASSUME NEW c \in calls, AcquireApply(c) PROVE SL!Next
  <2>1. SL!Take(c.session, WorkerOf[c.proc], c.token)
    <3>1. c.at <= now
      BY DEF Drawn
    <3>2. \/ ~(row[c.session].expires > now)
          \/ row[c.session].worker = WorkerOf[c.proc]
      <4>1. \/ row[c.session].worker = NoWorker
            \/ row[c.session].expires <= c.at
            \/ row[c.session].worker = WorkerOf[c.proc]
        BY <1>3 DEF AcquireApply, MayAcquire
      <4>2. row[c.session].worker = NoWorker => row[c.session].expires = 0
        BY DEF RowTokens
      <4>3. c.at \in Nat /\ now \in Nat /\ row[c.session].expires \in Nat
        OBVIOUS
      <4> QED
        BY <4>1, <4>2, <4>3, <3>1
    <3>3. c.token \notin spent /\ \A r \in Session : row[r].token # c.token
      BY <1>3 DEF AcquireApply, Fresh
    <3>4. /\ \A r \in Session : r # c.session => row'[r] = row[r]
          /\ row'[c.session].worker = WorkerOf[c.proc]
          /\ row'[c.session].token = c.token
          /\ spent' = spent \cup ({row[c.session].token} \ {NoToken})
          /\ now' = now
      BY <1>3 DEF AcquireApply, Retoken
    <3> QED
      BY <3>2, <3>3, <3>4 DEF SL!Take, SL!Archived
  <2> QED
    BY <2>1 DEF SL!Next
<1>4. ASSUME NEW c \in calls, RenewApply(c) \/ RenewAnswerLost(c) PROVE SL!Next
  <2>1. SL!Extend(c.session)
    <3>1. /\ \A r \in Session : r # c.session => row'[r] = row[r]
          /\ row'[c.session].worker = row[c.session].worker
          /\ row'[c.session].token = row[c.session].token
          /\ row[c.session].token # NoToken
          /\ UNCHANGED <<now, spent>>
      BY <1>4 DEF RenewApply, RenewAnswerLost, Renewable
    <3>2. Valid' = [Valid EXCEPT ![c.session] = Valid'[c.session]]
      BY <3>1
    <3>3. Valid'[c.session] \in BOOLEAN
      OBVIOUS
    <3>4. /\ [s \in Session |-> row[s].worker]' = [s \in Session |-> row[s].worker]
          /\ [s \in Session |-> row[s].token]' = [s \in Session |-> row[s].token]
      BY <3>1
    <3> QED
      BY <3>1, <3>2, <3>3, <3>4 DEF SL!Extend
  <2> QED
    BY <2>1 DEF SL!Next
<1>5. ASSUME NEW c \in calls, ReleaseApply(c) PROVE SL!Next
  <2>1. SL!GiveBack(c.session)
    BY <1>5 DEF ReleaseApply, Releasable, Retoken, SL!GiveBack, SL!Archived
  <2> QED
    BY <2>1 DEF SL!Next
<1>6. ASSUME NEW s \in Session, Delete(s) PROVE SL!Next
  BY <1>1, <1>6 DEF Delete
<1>7. CASE Tick
  BY <1>1, <1>7 DEF Tick
<1>8. ASSUME NEW c \in calls, CallStep(c) PROVE SL!Next
  <2>1. CASE ~(\/ AcquireApply(c) \/ RenewApply(c) \/ RenewAnswerLost(c)
               \/ ReleaseApply(c))
    <3>1. UNCHANGED <<row, now, spent>>
      BY <1>8, <2>1
         DEF CallStep, AcquireRefused, AcquireReturn, AcquireThrows,
             RenewRefused, ReleaseRefused, CallFails
    <3> QED
      BY <3>1, <1>2
  <2>2. CASE AcquireApply(c)
    BY <2>2, <1>3
  <2>3. CASE RenewApply(c) \/ RenewAnswerLost(c)
    BY <2>3, <1>4
  <2>4. CASE ReleaseApply(c)
    BY <2>4, <1>5
  <2> QED
    BY <2>1, <2>2, <2>3, <2>4
<1>9. CASE \/ \E p \in Proc, s \in Session : Acquire(p, s)
           \/ \E p \in Proc, s \in Session, t \in Token :
                Renew(p, s, t) \/ Release(p, s, t)
           \/ \E p \in Proc : Crash(p) \/ Restart(p)
  BY <1>2, <1>9 DEF Acquire, Renew, Release, Crash, Restart
<1>10. CASE UNCHANGED vars
  BY <1>10 DEF vars, SL!vars
<1> QED
  BY <1>6, <1>7, <1>8, <1>9, <1>10 DEF Next

(* The lease service implements SessionLease: whatever the processes,       *)
(* requests, crashes and clock do to the columns is a step of the exclusive *)
(* lease.                                                                   *)
THEOREM Refinement == Spec => ImplementsLease
  BY RefinementInit, RefinementStep, Invariance, PTL
     DEF Spec, ImplementsLease, SL!Spec
=============================================================================
