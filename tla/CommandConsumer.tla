--------------------------- MODULE CommandConsumer ---------------------------
(***************************************************************************)
(* The Kafka command consumer: Consumer.Run / dispatch / toDLT             *)
(* (internal/platform/messaging/kafka/consumer.go) with the handler        *)
(* startKafka wires into it, idempotency.Applier.Apply around the          *)
(* inventory command handler.  The members of one consumer group share a   *)
(* partition; a member that loses it goes on with the batch it has polled. *)
(*                                                                         *)
(* Faults names the failures a configuration allows: "handler", "insert",  *)
(* "undo" (Apply's DELETE), "dlt", "commit", "rebalance", "crash",         *)
(* "cancel" (the signal of a graceful shutdown) and "prune".               *)
(***************************************************************************)
EXTENDS Naturals, Sequences, FiniteSets

CONSTANTS
  Member,      \* consumer processes of the group
  Log,         \* the event ids of the partition's records, in order
  Invalid,     \* ids whose envelope does not validate
  MaxBatch,    \* most records a poll returns
  MaxRetries,  \* Consumer.maxRetries
  Faults,
  MaxFaults    \* bound: failures

Event == {Log[i] : i \in DOMAIN Log}

ASSUME ConsumerAssumption ==
  /\ Member # {}
  /\ Log \in Seq(Event)
  /\ Invalid \subseteq Event
  /\ MaxBatch \in Nat \ {0} /\ MaxRetries \in Nat /\ MaxFaults \in Nat

VARIABLES
  committed,   \* the group's committed offset: records below it are done
  owner,       \* the member the partition is assigned to
  pc, pos,     \* each member's place, and the record it is at
  end,         \* the last record of its batch
  attempt,
  cancelled,   \* ctx is done
  processed,   \* processed_events of the group
  applied,     \* how often the handler of an event returned nil
  dlt,         \* records on the dead-letter topic
  pruned,      \* events whose row the retention job removed
  faults,
  lossy        \* history: a failure that may lose an event has happened

group   == <<committed, owner>>
place   == <<pos, end, attempt, cancelled>>
effects == <<processed, applied, dlt, pruned>>
failures == <<faults, lossy>>
vars    == <<group, pc, place, effects, failures>>

TypeOK ==
  /\ committed \in 1 .. Len(Log) + 1
  /\ owner \in Member
  /\ pc \in [Member -> {"poll", "insert", "run", "undo", "backoff", "dlt",
                        "commit", "stopped"}]
  /\ pos \in [Member -> 1 .. Len(Log) + 1]
  /\ end \in [Member -> 0 .. Len(Log)]
  /\ attempt \in [Member -> 0 .. MaxRetries]
  /\ cancelled \in [Member -> BOOLEAN]
  /\ processed \subseteq Event
  /\ applied \in [Event -> Nat]
  /\ dlt \subseteq DOMAIN Log
  /\ pruned \subseteq Event
  /\ faults \in 0 .. MaxFaults
  /\ lossy \in BOOLEAN

Init ==
  /\ committed = 1
  /\ owner \in Member
  /\ pc = [c \in Member |-> "poll"]
  /\ pos = [c \in Member |-> 1]
  /\ end = [c \in Member |-> 0]
  /\ attempt = [c \in Member |-> 0]
  /\ cancelled = [c \in Member |-> FALSE]
  /\ processed = {}
  /\ applied = [e \in Event |-> 0]
  /\ dlt = {}
  /\ pruned = {}
  /\ faults = 0 /\ lossy = FALSE

\* Failures after which an event may be neither applied nor on the dead-letter
\* topic: its dedupe row stays, or its record is dropped.
Lossy == {"insert", "undo", "dlt", "crash", "cancel", "prune"}

\* A failure of this kind happens now.
Fault(kind) ==
  /\ kind \in Faults
  /\ faults < MaxFaults /\ faults' = faults + 1
  /\ lossy' = (lossy \/ kind \in Lossy)

\* A call that takes ctx fails: always once ctx is done, by a fault otherwise.
CallFails(c, kind) == (cancelled[c] /\ UNCHANGED failures) \/ (~cancelled[c] /\ Fault(kind))
CallWorks(c) == ~cancelled[c] /\ UNCHANGED failures

Id(c) == Log[pos[c]]

Goto(c, l) == pc' = [pc EXCEPT ![c] = l]

\* Where dispatch of a record starts, or the commit after the last one.
Arrive(c, i) ==
  /\ pos' = [pos EXCEPT ![c] = i]
  /\ attempt' = [attempt EXCEPT ![c] = 0]
  /\ Goto(c, IF i > end[c] THEN "commit" ELSE IF Log[i] \in Invalid THEN "dlt" ELSE "insert")

\* dispatch returns; EachRecord goes on.
Return(c) == Arrive(c, pos[c] + 1) /\ UNCHANGED <<end, cancelled>>

\* Apply returned an error: another attempt after a pause, or the DLT.
Retry(c) ==
  /\ Goto(c, IF attempt[c] = MaxRetries THEN "dlt" ELSE "backoff")
  /\ UNCHANGED <<place>>

-----------------------------------------------------------------------------

\* PollFetches returns the next records of the partition.
Poll(c) ==
  /\ pc[c] = "poll" /\ ~cancelled[c]
  /\ owner = c
  /\ \E n \in 1 .. MaxBatch :
       /\ pos[c] + n - 1 <= Len(Log)
       /\ end' = [end EXCEPT ![c] = pos[c] + n - 1]
  /\ Goto(c, IF Id(c) \in Invalid THEN "dlt" ELSE "insert")
  /\ UNCHANGED <<group, pos, attempt, cancelled, effects, failures>>

\* Mutant: Apply does not look at the number of rows it inserted.
InsertUnchecked(c) ==
  /\ pc[c] = "insert"
  /\ CallWorks(c)
  /\ processed' = processed \cup {Id(c)}
  /\ Goto(c, "run")
  /\ UNCHANGED <<group, place, applied, dlt, pruned>>

\* INSERT ... ON CONFLICT DO NOTHING: no row inserted, nothing to do.
Insert(c) ==
  /\ pc[c] = "insert"
  /\ CallWorks(c)
  /\ processed' = processed \cup {Id(c)}
  /\ IF Id(c) \in processed
       THEN Return(c)
       ELSE Goto(c, "run") /\ UNCHANGED <<place>>
  /\ UNCHANGED <<group, applied, dlt, pruned>>

\* The INSERT fails, or works and its reply is lost.
InsertFails(c) ==
  /\ pc[c] = "insert"
  /\ CallFails(c, "insert")
  /\ processed' \in {processed, IF cancelled[c] THEN processed ELSE processed \cup {Id(c)}}
  /\ Retry(c)
  /\ UNCHANGED <<group, applied, dlt, pruned>>

\* fn: the inventory command handler, which looks up the product and produces.
Handle(c) ==
  /\ pc[c] = "run"
  /\ applied' = [applied EXCEPT ![Id(c)] = @ + 1]
  /\ Return(c)
  /\ UNCHANGED <<group, processed, dlt, pruned, failures>>

HandlerFails(c) ==
  /\ pc[c] = "run"
  /\ CallFails(c, "handler")
  /\ Goto(c, "undo")
  /\ UNCHANGED <<group, place, effects>>

\* Mutant: a failed handler keeps its dedupe row.
KeepRow(c) ==
  /\ pc[c] = "undo"
  /\ CallWorks(c)
  /\ Retry(c)
  /\ UNCHANGED <<group, effects>>

\* The DELETE that takes the dedupe row back.
Undo(c) ==
  /\ pc[c] = "undo"
  /\ CallWorks(c)
  /\ processed' = processed \ {Id(c)}
  /\ Retry(c)
  /\ UNCHANGED <<group, applied, dlt, pruned>>

\* It fails and is only logged.
UndoFails(c) ==
  /\ pc[c] = "undo"
  /\ CallFails(c, "undo")
  /\ Retry(c)
  /\ UNCHANGED <<group, effects>>

\* time.After(backoff)
TryAgain(c) ==
  /\ pc[c] = "backoff"
  /\ attempt' = [attempt EXCEPT ![c] = @ + 1]
  /\ Goto(c, "insert")
  /\ UNCHANGED <<group, pos, end, cancelled, effects, failures>>

\* parent.Done(): dispatch gives up on the record.
GiveUp(c) ==
  /\ pc[c] = "backoff" /\ cancelled[c]
  /\ Return(c)
  /\ UNCHANGED <<group, effects, failures>>

ToDLT(c) ==
  /\ pc[c] = "dlt"
  /\ CallWorks(c)
  /\ dlt' = dlt \cup {pos[c]}
  /\ Return(c)
  /\ UNCHANGED <<group, processed, applied, pruned>>

\* toDLT fails and is only logged.
ToDLTFails(c) ==
  /\ pc[c] = "dlt"
  /\ CallFails(c, "dlt")
  /\ Return(c)
  /\ UNCHANGED <<group, effects>>

\* Mutant: the broker accepts the commit of a member without the partition.
CommitByAnyone(c) ==
  /\ pc[c] = "commit"
  /\ CallWorks(c)
  /\ committed' = pos[c]
  /\ Goto(c, "poll")
  /\ UNCHANGED <<owner, place, effects>>

\* CommitUncommittedOffsets: only the partition's owner has something to commit.
Commit(c) ==
  /\ pc[c] = "commit"
  /\ CallWorks(c)
  /\ committed' = IF owner = c THEN pos[c] ELSE committed
  /\ Goto(c, "poll")
  /\ UNCHANGED <<owner, place, effects>>

CommitFails(c) ==
  /\ pc[c] = "commit"
  /\ CallFails(c, "commit")
  /\ Goto(c, "poll")
  /\ UNCHANGED <<group, place, effects>>

\* PollFetches reports the cancellation: Run returns.
Stop(c) ==
  /\ pc[c] = "poll" /\ cancelled[c]
  /\ Goto(c, "stopped")
  /\ UNCHANGED <<group, place, effects, failures>>

-----------------------------------------------------------------------------

\* The group assigns the partition; its new owner starts at the committed
\* offset, at its next poll.
Assign(c) ==
  /\ pc[c] = "poll" /\ ~cancelled[c]
  /\ owner # c \/ pos[c] # committed
  /\ \/ pc[owner] = "stopped" /\ UNCHANGED failures
     \/ Fault("rebalance")
  /\ owner' = c
  /\ pos' = [pos EXCEPT ![c] = committed]
  /\ UNCHANGED <<committed, pc, end, attempt, cancelled, effects>>

Cancel(c) ==
  /\ pc[c] # "stopped" /\ ~cancelled[c]
  /\ Fault("cancel")
  /\ cancelled' = [cancelled EXCEPT ![c] = TRUE]
  /\ UNCHANGED <<group, pc, pos, end, attempt, effects>>

Crash(c) ==
  /\ pc[c] # "stopped"
  /\ Fault("crash")
  /\ Goto(c, "stopped")
  /\ UNCHANGED <<group, place, effects>>

\* The process is started again and joins the group.
Restart(c) ==
  /\ pc[c] = "stopped"
  /\ Goto(c, "poll")
  /\ pos' = [pos EXCEPT ![c] = committed]
  /\ end' = [end EXCEPT ![c] = 0]
  /\ attempt' = [attempt EXCEPT ![c] = 0]
  /\ cancelled' = [cancelled EXCEPT ![c] = FALSE]
  /\ UNCHANGED <<group, effects, failures>>

\* CleanupOnce, a retention window after the row was written: no member is
\* still handling that delivery.
CleanupOnce(e) ==
  /\ e \in processed
  /\ \A c \in Member : pc[c] \in {"run", "undo"} => Id(c) # e
  /\ Fault("prune")
  /\ processed' = processed \ {e}
  /\ pruned' = pruned \cup {e}
  /\ UNCHANGED <<group, pc, place, applied, dlt>>

Step(c) ==
  \/ Poll(c) \/ Insert(c) \/ InsertFails(c) \/ Handle(c) \/ HandlerFails(c)
  \/ Undo(c) \/ UndoFails(c) \/ TryAgain(c) \/ GiveUp(c)
  \/ ToDLT(c) \/ ToDLTFails(c) \/ Commit(c) \/ CommitFails(c) \/ Stop(c)
  \/ Restart(c)

Next ==
  \/ \E c \in Member : Step(c) \/ Assign(c) \/ Cancel(c) \/ Crash(c)
  \/ \E e \in Event : CleanupOnce(e)

Spec == Init /\ [][Next]_vars

\* Processes run, are restarted after they stop, and the group assigns the
\* partition of a stopped member to a running one.
FairSpec ==
  /\ Spec
  /\ \A c \in Member : WF_vars(Step(c)) /\ WF_vars(pc[owner] = "stopped" /\ Assign(c))

-----------------------------------------------------------------------------
(* Properties *)

\* An event's handler succeeds at most once in the group, for every mix of
\* redelivery, rebalance, crash, retry and duplicate record, until the
\* retention job forgets the event (idempotency.go 89, docs/messaging.md 86).
SucceedsAtMostOnce == \A e \in Event \ pruned : applied[e] <= 1

\* The committed offset never moves back, although a member that has lost the
\* partition goes on with its batch and commits after it (consumer.go 143-149).
OffsetMovesForward == [][committed' >= committed]_vars

\* The event was applied, or one of its records is on the dead-letter topic.
Handled(e) == applied[e] > 0 \/ \E j \in dlt : Log[j] = e

\* A record whose offset is committed is handled in the end, by this delivery,
\* another delivery of its event or the dead-letter topic, through failing
\* handlers and commits and rebalances: the offset is committed only after
\* dispatch (consumer.go 143-147), and a member that finds another's dedupe row
\* may rely on that member (idempotency.go 107).  The failures named in Lossy
\* are excepted.
CommittedGetsHandled ==
  \A i \in DOMAIN Log : (committed > i) ~> (Handled(Log[i]) \/ lossy)
=============================================================================
