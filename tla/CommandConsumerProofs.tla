------------------------ MODULE CommandConsumerProofs ------------------------
(***************************************************************************)
(* TLAPS proofs about CommandConsumer, for every group, log and bound.     *)
(* The inductive invariant has three parts beside TypeOK: where a member   *)
(* stands in its batch (PlaceOK), what a dedupe row means (DedupeOK) and   *)
(* where the partition's owner stands (OwnerAhead).                        *)
(***************************************************************************)
EXTENDS CommandConsumer, TLAPS

\* A member that works on a record is inside its batch, and pauses only while
\* it has attempts left.
PlaceOK ==
  \A c \in Member :
    /\ pc[c] \in {"insert", "run", "undo", "backoff", "dlt"} => pos[c] <= end[c]
    /\ pc[c] = "backoff" => attempt[c] < MaxRetries

Working(c) == pc[c] \in {"run", "undo"}

\* A dedupe row stands for a handler that succeeded or that one member works
\* on; the retention job's victims are excepted.
DedupeOK ==
  /\ \A e \in Event \ pruned : applied[e] <= 1 /\ (applied[e] > 0 => e \in processed)
  /\ \A c \in Member : Working(c) =>
       Id(c) \in processed /\ (Id(c) \notin pruned => applied[Id(c)] = 0)
  /\ \A c, d \in Member : Working(c) /\ Working(d) /\ c # d => Id(c) # Id(d)

\* The owner never stands before the committed offset.
OwnerAhead == committed <= pos[owner]

IInv == TypeOK /\ PlaceOK /\ DedupeOK /\ OwnerAhead

\* The log is a sequence: its length is a number and its elements are events.
LEMMA LogFacts ==
  /\ Len(Log) \in Nat
  /\ DOMAIN Log = 1 .. Len(Log)
  /\ \A i \in 1 .. Len(Log) : Log[i] \in Event
BY ConsumerAssumption DEF ConsumerAssumption, Event

\* A member that works on a record works on an event of the log.
LEMMA AtEvent ==
  ASSUME TypeOK, PlaceOK, NEW c \in Member,
         pc[c] \in {"insert", "run", "undo", "backoff", "dlt"}
  PROVE  /\ pos[c] \in 1 .. Len(Log)
         /\ pos[c] \in Nat /\ end[c] \in Nat /\ pos[c] <= end[c] /\ end[c] <= Len(Log)
         /\ Id(c) \in Event
BY LogFacts DEF TypeOK, PlaceOK, Id

\* What the end of a dispatch does to the member's place.
LEMMA ReturnPlace ==
  ASSUME TypeOK, PlaceOK, NEW c \in Member, Return(c),
         pc[c] \in {"insert", "run", "undo", "backoff", "dlt"}
  PROVE  /\ pc' \in [Member -> {"poll", "insert", "run", "undo", "backoff", "dlt",
                                "commit", "stopped"}]
         /\ pos' \in [Member -> 1 .. Len(Log) + 1]
         /\ end' \in [Member -> 0 .. Len(Log)]
         /\ attempt' \in [Member -> 0 .. MaxRetries]
         /\ cancelled' \in [Member -> BOOLEAN]
         /\ PlaceOK'
         /\ ~Working(c)'
         /\ \A d \in Member \ {c} : pc'[d] = pc[d] /\ pos'[d] = pos[d]
         /\ pos'[c] = pos[c] + 1
<1>1. pos[c] \in 1 .. Len(Log) /\ Len(Log) \in Nat /\ end[c] \in Nat /\ MaxRetries \in Nat
  BY AtEvent, LogFacts, ConsumerAssumption DEF ConsumerAssumption
<1>2. /\ pos' = [pos EXCEPT ![c] = pos[c] + 1]
      /\ attempt' = [attempt EXCEPT ![c] = 0]
      /\ end' = end /\ cancelled' = cancelled
      /\ pc' = [pc EXCEPT ![c] = IF pos[c] + 1 > end[c] THEN "commit"
                                 ELSE IF Log[pos[c] + 1] \in Invalid THEN "dlt" ELSE "insert"]
  BY DEF Return, Arrive, Goto
<1> QED
  BY <1>1, <1>2, SMTT(30) DEF TypeOK, PlaceOK, Working

\* What a failed attempt does to the member's place.
LEMMA RetryPlace ==
  ASSUME TypeOK, PlaceOK, NEW c \in Member, Retry(c), pc[c] \in {"insert", "undo"}
  PROVE  /\ pc' \in [Member -> {"poll", "insert", "run", "undo", "backoff", "dlt",
                                "commit", "stopped"}]
         /\ PlaceOK'
         /\ ~Working(c)'
         /\ \A d \in Member \ {c} : pc'[d] = pc[d]
         /\ pos' = pos /\ end' = end /\ attempt' = attempt /\ cancelled' = cancelled
<1>1. /\ pc' = [pc EXCEPT ![c] = IF attempt[c] = MaxRetries THEN "dlt" ELSE "backoff"]
      /\ pos' = pos /\ end' = end /\ attempt' = attempt /\ cancelled' = cancelled
  BY DEF Retry, Goto, place
<1>2. pc'[c] \in {"dlt", "backoff"} /\ \A d \in Member \ {c} : pc'[d] = pc[d]
  BY <1>1 DEF TypeOK
<1>3. ~Working(c)'
  BY <1>2 DEF Working
<1>4. pc' \in [Member -> {"poll", "insert", "run", "undo", "backoff", "dlt",
                         "commit", "stopped"}]
  BY <1>1 DEF TypeOK
<1>5. PlaceOK'
  <2>1. pos[c] <= end[c] /\ attempt[c] \in 0 .. MaxRetries /\ MaxRetries \in Nat
    BY ConsumerAssumption DEF TypeOK, PlaceOK, ConsumerAssumption
  <2>2. pc'[c] = "backoff" => attempt[c] # MaxRetries
    BY <1>1 DEF TypeOK
  <2>3. pc'[c] = "backoff" => attempt[c] < MaxRetries
    BY <2>1, <2>2
  <2>4. QED
    BY <1>1, <1>2, <2>1, <2>3 DEF PlaceOK
<1>6. QED
  BY <1>1, <1>2, <1>3, <1>4, <1>5

\* A step counts at most one failure.
LEMMA FaultCounted ==
  ASSUME TypeOK, NEW kind, UNCHANGED failures \/ Fault(kind)
  PROVE  faults' \in 0 .. MaxFaults /\ lossy' \in BOOLEAN
<1>1. faults' \in 0 .. MaxFaults
  BY ConsumerAssumption, SMTT(30) DEF failures, Fault, TypeOK, ConsumerAssumption
<1>2. lossy' \in BOOLEAN
  BY Zenon DEF failures, Fault, TypeOK
<1> QED
  BY <1>1, <1>2

\* A call that takes ctx counts at most one failure.
LEMMA CallFaults ==
  ASSUME TypeOK, NEW c \in Member, NEW kind,
         CallFails(c, kind) \/ CallWorks(c) \/ Fault(kind)
  PROVE  faults' \in 0 .. MaxFaults /\ lossy' \in BOOLEAN
<1>1. UNCHANGED failures \/ Fault(kind)
  BY Zenon DEF CallFails, CallWorks
<1> QED
  BY <1>1, FaultCounted

-----------------------------------------------------------------------------
(* Type correctness, with the members' places *)

\* Every step keeps the types and the places.
LEMMA TypeStep ==
  ASSUME TypeOK, PlaceOK, [Next]_vars
  PROVE  TypeOK' /\ PlaceOK'
<1> USE DEF group, place, effects, failures
<1>0. /\ Len(Log) \in Nat /\ DOMAIN Log = 1 .. Len(Log) /\ MaxRetries \in Nat /\ MaxBatch \in Nat
      /\ MaxFaults \in Nat
  BY LogFacts, ConsumerAssumption DEF ConsumerAssumption
<1>1. ASSUME NEW c \in Member, Poll(c) PROVE TypeOK' /\ PlaceOK'
  <2>1. PICK n \in 1 .. MaxBatch :
          /\ pos[c] + n - 1 <= Len(Log)
          /\ end' = [end EXCEPT ![c] = pos[c] + n - 1]
    BY <1>1 DEF Poll
  <2> QED
    BY <1>0, <1>1, <2>1, SMTT(30) DEF Poll, Goto, TypeOK, PlaceOK
<1>2. ASSUME NEW c \in Member, Insert(c) PROVE TypeOK' /\ PlaceOK'
  <2>1. Id(c) \in Event /\ faults' \in 0 .. MaxFaults /\ lossy' \in BOOLEAN
    BY <1>2, AtEvent, CallFaults DEF Insert
  <2>2. CASE Id(c) \in processed
    BY <1>2, <2>1, <2>2, ReturnPlace DEF Insert, TypeOK
  <2>3. CASE Id(c) \notin processed
    <3>1. Goto(c, "run") /\ UNCHANGED place
      BY <1>2, <2>3 DEF Insert
    <3> QED
      BY <1>2, <2>1, <3>1 DEF Insert, Goto, TypeOK, PlaceOK
  <2> QED
    BY <2>2, <2>3
<1>3. ASSUME NEW c \in Member, InsertFails(c) PROVE TypeOK' /\ PlaceOK'
  <2>1. Id(c) \in Event /\ faults' \in 0 .. MaxFaults /\ lossy' \in BOOLEAN
    BY <1>3, AtEvent, CallFaults DEF InsertFails
  <2> QED
    BY <1>3, <2>1, RetryPlace DEF InsertFails, TypeOK
<1>4. ASSUME NEW c \in Member, Handle(c) PROVE TypeOK' /\ PlaceOK'
  <2>1. Id(c) \in Event
    BY <1>4, AtEvent DEF Handle
  <2>2. applied' \in [Event -> Nat]
    BY <1>4, <2>1 DEF Handle, TypeOK
  <2> QED
    BY <1>4, <2>2, ReturnPlace DEF Handle, TypeOK
<1>5. ASSUME NEW c \in Member, HandlerFails(c) PROVE TypeOK' /\ PlaceOK'
  <2>1. faults' \in 0 .. MaxFaults /\ lossy' \in BOOLEAN
    BY <1>5, CallFaults DEF HandlerFails
  <2>2. pc[c] = "run" /\ pc' = [pc EXCEPT ![c] = "undo"]
    BY <1>5 DEF HandlerFails, Goto
  <2>3. UNCHANGED <<group, place, effects>>
    BY <1>5 DEF HandlerFails
  <2> QED
    BY <2>1, <2>2, <2>3 DEF TypeOK, PlaceOK
<1>6. ASSUME NEW c \in Member, Undo(c) \/ UndoFails(c) PROVE TypeOK' /\ PlaceOK'
  <2>1. faults' \in 0 .. MaxFaults /\ lossy' \in BOOLEAN /\ Retry(c) /\ pc[c] = "undo"
    BY <1>6, CallFaults DEF Undo, UndoFails
  <2> QED
    BY <1>6, <2>1, RetryPlace DEF Undo, UndoFails, TypeOK
<1>7. ASSUME NEW c \in Member, TryAgain(c) PROVE TypeOK' /\ PlaceOK'
  BY <1>0, <1>7, SMTT(30) DEF TryAgain, Goto, TypeOK, PlaceOK
<1>8. ASSUME NEW c \in Member, GiveUp(c) PROVE TypeOK' /\ PlaceOK'
  BY <1>8, ReturnPlace DEF GiveUp, TypeOK
<1>9. ASSUME NEW c \in Member, ToDLT(c) \/ ToDLTFails(c) PROVE TypeOK' /\ PlaceOK'
  <2>1. faults' \in 0 .. MaxFaults /\ lossy' \in BOOLEAN /\ Return(c) /\ pc[c] = "dlt"
    BY <1>9, CallFaults DEF ToDLT, ToDLTFails
  <2>2. pos[c] \in DOMAIN Log
    BY <1>0, <2>1, AtEvent
  <2> QED
    BY <1>9, <2>1, <2>2, ReturnPlace DEF ToDLT, ToDLTFails, TypeOK
<1>10. ASSUME NEW c \in Member, Commit(c) \/ CommitFails(c) PROVE TypeOK' /\ PlaceOK'
  <2>1. faults' \in 0 .. MaxFaults /\ lossy' \in BOOLEAN
    BY <1>10, CallFaults DEF Commit, CommitFails
  <2>2. pc' = [pc EXCEPT ![c] = "poll"] /\ committed' \in {pos[c], committed}
    BY <1>10 DEF Commit, CommitFails, Goto
  <2>3. UNCHANGED <<owner, pos, end, attempt, cancelled, effects>>
    BY <1>10 DEF Commit, CommitFails
  <2> QED
    BY <2>1, <2>2, <2>3 DEF TypeOK, PlaceOK
<1>11. ASSUME NEW c \in Member, Stop(c) PROVE TypeOK' /\ PlaceOK'
  BY <1>11 DEF Stop, Goto, TypeOK, PlaceOK
<1>12. ASSUME NEW c \in Member, Restart(c) PROVE TypeOK' /\ PlaceOK'
  BY <1>0, <1>12, SMTT(30) DEF Restart, Goto, TypeOK, PlaceOK
<1>13. ASSUME NEW c \in Member, Assign(c) PROVE TypeOK' /\ PlaceOK'
  <2>1. faults' \in 0 .. MaxFaults /\ lossy' \in BOOLEAN
    BY <1>13, FaultCounted DEF Assign
  <2> QED
    BY <1>13, <2>1 DEF Assign, TypeOK, PlaceOK
<1>14. ASSUME NEW c \in Member, Cancel(c) \/ Crash(c) PROVE TypeOK' /\ PlaceOK'
  <2>1. faults' \in 0 .. MaxFaults /\ lossy' \in BOOLEAN
    BY <1>14, CallFaults DEF Cancel, Crash
  <2> QED
    BY <1>14, <2>1 DEF Cancel, Crash, Goto, TypeOK, PlaceOK
<1>15. ASSUME NEW e \in Event, CleanupOnce(e) PROVE TypeOK' /\ PlaceOK'
  <2>1. faults' \in 0 .. MaxFaults /\ lossy' \in BOOLEAN
    BY <1>15, FaultCounted DEF CleanupOnce
  <2> QED
    BY <1>15, <2>1 DEF CleanupOnce, TypeOK, PlaceOK
<1>16. CASE UNCHANGED vars
  BY <1>16 DEF vars, TypeOK, PlaceOK
<1> QED
  BY <1>1, <1>2, <1>3, <1>4, <1>5, <1>6, <1>7, <1>8, <1>9, <1>10, <1>11, <1>12,
     <1>13, <1>14, <1>15, <1>16 DEF Next, Step

-----------------------------------------------------------------------------
(* Dedupe rows *)

\* Steps that start no handler and take back no row.
LEMMA DedupeFrame ==
  ASSUME DedupeOK,
         processed \subseteq processed', applied' = applied, pruned' = pruned,
         \A d \in Member : Working(d)' => Working(d) /\ pos'[d] = pos[d]
  PROVE  DedupeOK'
<1>1. \A d \in Member : Working(d)' => Id(d)' = Id(d)
  BY DEF Id
<1> QED
  BY <1>1 DEF DedupeOK

\* Every step keeps the meaning of the dedupe rows.
LEMMA DedupeStep ==
  ASSUME TypeOK, PlaceOK, DedupeOK, [Next]_vars
  PROVE  DedupeOK'
<1> USE DEF group, place, effects, failures
<1>1. ASSUME NEW c \in Member, Insert(c) PROVE DedupeOK'
  <2>1. CASE Id(c) \in processed
    <3>1. Return(c) /\ processed' = processed /\ pc[c] = "insert"
      BY <1>1, <2>1 DEF Insert
    <3>2. \A d \in Member : Working(d)' => Working(d) /\ pos'[d] = pos[d]
      BY <3>1, ReturnPlace DEF Working
    <3> QED
      BY <1>1, <3>1, <3>2, DedupeFrame DEF Insert
  <2>2. CASE Id(c) \notin processed
    <3>1. /\ pc' = [pc EXCEPT ![c] = "run"] /\ pos' = pos
          /\ processed' = processed \cup {Id(c)}
          /\ applied' = applied /\ pruned' = pruned
      BY <1>1, <2>2 DEF Insert, Goto
    <3>2. Id(c) \in Event
      BY <1>1, AtEvent DEF Insert
    <3>3. \A d \in Member : Id(d)' = Id(d)
      BY <3>1 DEF Id
    <3>4. Id(c) \notin pruned => applied[Id(c)] = 0
      BY <2>2, <3>2 DEF DedupeOK, TypeOK
    <3>5. \A d \in Member \ {c} : Working(d)' => Working(d) /\ Id(d) # Id(c)
      BY <2>2, <3>1 DEF Working, DedupeOK, TypeOK
    <3> QED
      BY <3>1, <3>3, <3>4, <3>5 DEF DedupeOK
  <2> QED
    BY <2>1, <2>2
<1>2. ASSUME NEW c \in Member, Handle(c) PROVE DedupeOK'
  <2>1. Working(c) /\ Return(c) /\ Id(c) \in Event
    BY <1>2, AtEvent DEF Handle, Working
  <2>2. /\ ~Working(c)'
        /\ \A d \in Member \ {c} : Working(d)' => Working(d) /\ Id(d)' = Id(d)
    BY <1>2, <2>1, ReturnPlace DEF Handle, Working, Id
  <2>3. /\ applied' = [applied EXCEPT ![Id(c)] = @ + 1]
        /\ processed' = processed /\ pruned' = pruned
    BY <1>2 DEF Handle
  <2>4. Id(c) \in processed /\ (Id(c) \notin pruned => applied[Id(c)] = 0)
    BY <2>1 DEF DedupeOK
  <2>5. \A d \in Member \ {c} : Working(d)' => applied'[Id(d)] = applied[Id(d)]
    BY <2>1, <2>2, <2>3 DEF DedupeOK, TypeOK
  <2>6. \A e \in Event \ pruned : applied'[e] <= 1 /\ (applied'[e] > 0 => e \in processed)
    BY <2>1, <2>3, <2>4 DEF DedupeOK, TypeOK
  <2> QED
    BY <2>2, <2>3, <2>5, <2>6 DEF DedupeOK
<1>3. ASSUME NEW c \in Member, Undo(c) PROVE DedupeOK'
  <2>1. Working(c) /\ Retry(c) /\ pc[c] = "undo" /\ Id(c) \in Event
    BY <1>3, AtEvent DEF Undo, Working
  <2>2. /\ ~Working(c)'
        /\ \A d \in Member \ {c} : Working(d)' => Working(d) /\ Id(d)' = Id(d)
    BY <2>1, RetryPlace DEF Working, Id
  <2>3. processed' = processed \ {Id(c)} /\ applied' = applied /\ pruned' = pruned
    BY <1>3 DEF Undo
  <2>4. Id(c) \notin pruned => applied[Id(c)] = 0
    BY <2>1 DEF DedupeOK
  <2>5. \A d \in Member \ {c} : Working(d)' => Id(d) # Id(c)
    BY <2>1, <2>2 DEF DedupeOK
  <2>6. \A e \in Event \ pruned : applied[e] > 0 => e \in processed'
    BY <2>3, <2>4 DEF DedupeOK
  <2> QED
    BY <2>2, <2>3, <2>5, <2>6 DEF DedupeOK
<1>4. ASSUME NEW e \in Event, CleanupOnce(e) PROVE DedupeOK'
  <2>1. /\ processed' = processed \ {e} /\ pruned' = pruned \cup {e}
        /\ applied' = applied /\ pc' = pc /\ pos' = pos
    BY <1>4 DEF CleanupOnce
  <2>2. \A d \in Member : Working(d) => Id(d) # e
    BY <1>4 DEF CleanupOnce, Working
  <2>3. \A d \in Member : (Working(d)' <=> Working(d)) /\ Id(d)' = Id(d)
    BY <2>1 DEF Working, Id
  <2> QED
    BY <2>1, <2>2, <2>3 DEF DedupeOK
<1>5. ASSUME NEW c \in Member,
             \/ InsertFails(c) \/ UndoFails(c)
      PROVE  DedupeOK'
  <2>1. /\ Retry(c) /\ pc[c] \in {"insert", "undo"}
        /\ processed \subseteq processed' /\ applied' = applied /\ pruned' = pruned
    BY <1>5 DEF InsertFails, UndoFails
  <2>2. \A d \in Member : Working(d)' => Working(d) /\ pos'[d] = pos[d]
    BY <2>1, RetryPlace DEF Working
  <2> QED
    BY <2>1, <2>2, DedupeFrame
<1>6. ASSUME NEW c \in Member,
             \/ GiveUp(c) \/ ToDLT(c) \/ ToDLTFails(c)
      PROVE  DedupeOK'
  <2>1. /\ Return(c) /\ pc[c] \in {"backoff", "dlt"}
        /\ processed' = processed /\ applied' = applied /\ pruned' = pruned
    BY <1>6 DEF GiveUp, ToDLT, ToDLTFails
  <2>2. \A d \in Member : Working(d)' => Working(d) /\ pos'[d] = pos[d]
    BY <2>1, ReturnPlace DEF Working
  <2> QED
    BY <2>1, <2>2, DedupeFrame
<1>7. ASSUME NEW c \in Member,
             \/ Poll(c) \/ HandlerFails(c) \/ TryAgain(c) \/ Commit(c)
             \/ CommitFails(c) \/ Stop(c) \/ Restart(c) \/ Assign(c) \/ Cancel(c) \/ Crash(c)
      PROVE  DedupeOK'
  <2>1. processed' = processed /\ applied' = applied /\ pruned' = pruned
    BY <1>7 DEF Poll, HandlerFails, TryAgain, Commit, CommitFails, Stop, Restart, Assign,
                Cancel, Crash
  <2>2. \A d \in Member : Working(d)' => Working(d) /\ pos'[d] = pos[d]
    BY <1>7 DEF Poll, HandlerFails, TryAgain, Commit, CommitFails, Stop, Restart, Assign,
                Cancel, Crash, Goto, Working, TypeOK
  <2> QED
    BY <2>1, <2>2, DedupeFrame
<1>8. CASE UNCHANGED vars
  BY <1>8, DedupeFrame DEF vars, Working
<1> QED
  BY <1>1, <1>2, <1>3, <1>4, <1>5, <1>6, <1>7, <1>8 DEF Next, Step

-----------------------------------------------------------------------------
(* The committed offset *)

\* The owner is never behind the committed offset, and no step takes the
\* offset back.
LEMMA OwnerStep ==
  ASSUME TypeOK, PlaceOK, OwnerAhead, [Next]_vars
  PROVE  OwnerAhead' /\ committed' >= committed
<1> USE DEF group, place, effects, failures
<1>0. /\ Len(Log) \in Nat /\ committed \in Nat /\ owner \in Member
      /\ pos \in [Member -> 1 .. Len(Log) + 1] /\ committed <= pos[owner]
  BY LogFacts DEF TypeOK, OwnerAhead
<1>1. ASSUME NEW c \in Member, Return(c), UNCHANGED group,
             pc[c] \in {"insert", "run", "undo", "backoff", "dlt"}
      PROVE  OwnerAhead' /\ committed' >= committed
  <2>1. pos'[c] = pos[c] + 1 /\ \A d \in Member \ {c} : pos'[d] = pos[d]
    BY <1>1, ReturnPlace
  <2>2. committed' = committed /\ owner' = owner
    BY <1>1
  <2>3. pos[owner] <= pos'[owner] /\ pos[owner] \in Nat /\ pos'[owner] \in Nat
    BY <1>0, <1>1, <2>1
  <2> QED
    BY <1>0, <2>2, <2>3 DEF OwnerAhead
<1>2. ASSUME UNCHANGED <<group, pos>>
      PROVE  OwnerAhead' /\ committed' >= committed
  BY <1>0, <1>2 DEF OwnerAhead
<1>3. ASSUME NEW c \in Member, Commit(c)
      PROVE  OwnerAhead' /\ committed' >= committed
  BY <1>0, <1>3 DEF Commit, OwnerAhead
<1>4. ASSUME NEW c \in Member, Restart(c) \/ Assign(c)
      PROVE  OwnerAhead' /\ committed' >= committed
  BY <1>0, <1>4 DEF Restart, Assign, OwnerAhead
<1>5. ASSUME NEW c \in Member, Insert(c)
      PROVE  OwnerAhead' /\ committed' >= committed
  <2>1. UNCHANGED group /\ pc[c] = "insert" /\ (Return(c) \/ UNCHANGED pos)
    BY <1>5 DEF Insert
  <2> QED
    BY <1>1, <1>2, <2>1
<1>6. ASSUME NEW c \in Member, Handle(c) \/ GiveUp(c) \/ ToDLT(c) \/ ToDLTFails(c)
      PROVE  OwnerAhead' /\ committed' >= committed
  <2>1. Return(c) /\ UNCHANGED group /\ pc[c] \in {"run", "backoff", "dlt"}
    BY <1>6 DEF Handle, GiveUp, ToDLT, ToDLTFails
  <2> QED
    BY <1>1, <2>1
<1>7. ASSUME NEW c \in Member,
             \/ Poll(c) \/ InsertFails(c) \/ HandlerFails(c) \/ Undo(c) \/ UndoFails(c)
             \/ TryAgain(c) \/ CommitFails(c) \/ Stop(c) \/ Cancel(c) \/ Crash(c)
      PROVE  OwnerAhead' /\ committed' >= committed
  <2>1. UNCHANGED <<group, pos>>
    BY <1>7 DEF Poll, InsertFails, HandlerFails, Undo, UndoFails, TryAgain, CommitFails,
                Stop, Cancel, Crash, Retry
  <2> QED
    BY <1>2, <2>1
<1>8. ASSUME NEW e \in Event, CleanupOnce(e)
      PROVE  OwnerAhead' /\ committed' >= committed
  BY <1>2, <1>8 DEF CleanupOnce
<1>9. CASE UNCHANGED vars
  BY <1>2, <1>9 DEF vars
<1> QED
  BY <1>3, <1>4, <1>5, <1>6, <1>7, <1>8, <1>9 DEF Next, Step

-----------------------------------------------------------------------------
(* The theorems *)

\* The initial states satisfy the invariant.
LEMMA InitIInv == Init => IInv
<1> SUFFICES ASSUME Init PROVE IInv
  OBVIOUS
<1>1. TypeOK
  <2>1. lossy \in BOOLEAN
    BY Zenon DEF Init
  <2> QED
    BY <2>1, LogFacts, ConsumerAssumption DEF Init, TypeOK, ConsumerAssumption
<1>2. PlaceOK /\ DedupeOK
  BY DEF Init, PlaceOK, DedupeOK, Working
<1>3. OwnerAhead
  BY DEF Init, OwnerAhead
<1> QED
  BY <1>1, <1>2, <1>3 DEF IInv

\* The invariant holds in every behaviour.
LEMMA Invariance == Spec => []IInv
<1>1. Init => IInv
  BY InitIInv
<1>2. IInv /\ [Next]_vars => IInv'
  BY TypeStep, DedupeStep, OwnerStep DEF IInv
<1> QED
  BY <1>1, <1>2, PTL DEF Spec

\* Type correctness of the consumer group, for every log and every number of
\* members, retries and failures: the attempts stay within maxRetries and no
\* member leaves the log.
THEOREM TypeCorrect == Spec => []TypeOK
<1>1. IInv => TypeOK
  BY DEF IInv
<1> QED
  BY <1>1, Invariance, PTL

\* idempotency.Applier.Apply: until the retention job forgets it, an event's
\* handler succeeds at most once, whatever is redelivered, retried, rebalanced,
\* cancelled or crashes.
THEOREM AppliedAtMostOnce == Spec => []SucceedsAtMostOnce
<1>1. IInv => SucceedsAtMostOnce
  BY DEF IInv, DedupeOK, SucceedsAtMostOnce
<1> QED
  BY <1>1, Invariance, PTL

\* Consumer.Run: the group's committed offset never moves back.
THEOREM OffsetsMoveForward == Spec => OffsetMovesForward
<1>1. IInv /\ [Next]_vars => [committed' >= committed]_vars
  BY OwnerStep DEF IInv
<1> QED
  BY <1>1, Invariance, PTL DEF Spec, OffsetMovesForward
=============================================================================
