---------------------------- MODULE AmqpPublisher ----------------------------
(***************************************************************************)
(* One publishing loop: InventoryQueue.Publish* (transport_queue.go) send  *)
(* on an unbuffered channel to amqp.Publish / publishSession (queue.go),   *)
(* which publishes one message at a time to an exchange and waits for the  *)
(* broker's confirmation.  A select takes any of its ready cases.          *)
(***************************************************************************)
EXTENDS AmqpSession, Sequences, SequencesExt

CONSTANT Msg   \* the messages the service publishes

VARIABLES
  send,       \* the PublishInventory call for each message
  taken,      \* messages received from the channel, in order
  reading,    \* reading = messages (TRUE) or nil
  pending,    \* the one-slot channel of the session
  body,       \* the message the next confirmation is taken for (<<>> or <<m>>)
  confirms,   \* the session's confirm channel was not closed by Confirm's error
  confirm,    \* its buffer
  inflight,   \* published in this session, not yet answered by the broker
  late,       \* the same of sessions that are over
  broker,     \* messages the exchange received, in order
  spanOk,     \* messages whose producer span ended Ok
  failed      \* messages whose Publish returned an error

slots == <<reading, pending, body, confirms, confirm>>
wire  == <<inflight, late, broker>>
vars  == <<sessionVars, send, taken, slots, wire, spanOk, failed>>

Init ==
  /\ SessionInit
  /\ send = [m \in Msg |-> "idle"]
  /\ taken = <<>>
  /\ reading = TRUE /\ pending = <<>> /\ body = <<>>
  /\ confirms = TRUE /\ confirm = <<>>
  /\ inflight = <<>> /\ late = {} /\ broker = <<>>
  /\ spanOk = {} /\ failed = {}

TypeOK ==
  /\ SessionTypeOK
  /\ send \in [Msg -> {"idle", "blocked", "sent"}]
  /\ taken \in Seq(Msg) /\ broker \in Seq(Msg)
  /\ reading \in BOOLEAN /\ confirms \in BOOLEAN
  /\ \A q \in {pending, body, inflight} : q \in Seq(Msg) /\ Len(q) <= 1
  /\ confirm \in Seq({"ack", "nack"}) /\ Len(confirm) <= 1
  /\ late \subseteq Msg /\ spanOk \subseteq Msg /\ failed \subseteq Msg

\* PublishInventory / PublishReservation: encode, then block on the channel.
PublishInventory(m) ==
  /\ send[m] = "idle"
  /\ send' = [send EXCEPT ![m] = "blocked"]
  /\ UNCHANGED <<sessionVars, taken, slots, wire, spanOk, failed>>

\* publishSession starts: fresh channels, publisher confirms requested.
Open ==
  /\ HandOver
  /\ reading' = TRUE /\ pending' = <<>> /\ body' = <<>>
  /\ confirms' = (conn = "up") /\ confirm' = <<>>
  /\ UNCHANGED <<send, taken, wire, spanOk, failed>>

\* Mutant: the next message is read before the confirmation.
ReadAhead(m) ==
  /\ loop = "open" /\ reading
  /\ send[m] = "blocked"
  /\ send' = [send EXCEPT ![m] = "sent"]
  /\ taken' = Append(taken, m)
  /\ body' = <<m>> /\ pending' = Append(pending, m)
  /\ UNCHANGED <<sessionVars, reading, confirms, confirm, wire, spanOk,
                 failed>>

\* case body, running = <-reading
Read(m) ==
  /\ loop = "open" /\ reading
  /\ send[m] = "blocked"
  /\ send' = [send EXCEPT ![m] = "sent"]
  /\ taken' = Append(taken, m)
  /\ body' = <<m>> /\ pending' = <<m>>
  /\ reading' = FALSE
  /\ UNCHANGED <<sessionVars, confirms, confirm, wire, spanOk, failed>>

\* case body = <-pending: Publish writes to the socket.
PublishOk ==
  /\ loop = "open" /\ pending # <<>>
  /\ conn # "down"
  /\ body' = pending /\ pending' = <<>>
  /\ inflight' = pending
  /\ UNCHANGED <<sessionVars, send, taken, reading, confirms, confirm, late, broker,
                 spanOk, failed>>

\* What was written to a connection that is given up may still arrive.
LeaveSession ==
  /\ Leave
  /\ late' = late \cup ToSet(inflight)
  /\ inflight' = <<>>

\* Publish returns an error: the message goes to the pending channel of the
\* session that is being left, and the session is closed.
PublishError ==
  /\ loop = "open" /\ pending # <<>>
  /\ conn # "up"
  /\ body' = pending
  /\ failed' = failed \cup ToSet(pending)
  /\ LeaveSession
  /\ UNCHANGED <<send, taken, reading, pending, confirms, confirm, broker, spanOk>>

\* Mutant: after a nack the next message is not read.
ConfirmedStuck ==
  /\ loop = "open" /\ confirm # <<>>
  /\ spanOk' = IF confirm = <<"ack">> THEN spanOk \cup ToSet(body) ELSE spanOk
  /\ confirm' = <<>>
  /\ reading' = (confirm = <<"ack">>)
  /\ UNCHANGED <<sessionVars, send, taken, pending, body, confirms, wire, failed>>

\* case confirmed, ok := <-confirm; a nacked message is logged and dropped.
Confirmed ==
  /\ loop = "open" /\ confirm # <<>>
  /\ spanOk' = IF confirm = <<"ack">> THEN spanOk \cup ToSet(body) ELSE spanOk
  /\ confirm' = <<>>
  /\ reading' = TRUE
  /\ UNCHANGED <<sessionVars, send, taken, pending, body, confirms, wire, failed>>

\* Mutant: a message without a confirmation is handed back to the channel.
ConfirmClosedResends ==
  /\ loop = "open" /\ confirm = <<>>
  /\ conn = "down" \/ ~confirms
  /\ LeaveSession
  /\ send' = [m \in Msg |-> IF m \in ToSet(body) \ spanOk THEN "blocked" ELSE send[m]]
  /\ UNCHANGED <<taken, slots, broker, spanOk, failed>>

\* The confirm channel is closed: the session is over, whatever was in flight.
ConfirmClosed ==
  /\ loop = "open" /\ confirm = <<>>
  /\ conn = "down" \/ ~confirms
  /\ LeaveSession
  /\ UNCHANGED <<send, taken, slots, broker, spanOk, failed>>

\* The broker takes or refuses the message and says so.
BrokerAnswers ==
  /\ inflight # <<>> /\ conn = "up"
  /\ inflight' = <<>>
  /\ \/ broker' = broker \o inflight /\ confirm' = <<"ack">>
     \/ broker' = broker /\ confirm' = <<"nack">>
  /\ UNCHANGED <<sessionVars, send, taken, reading, pending, body, confirms, late,
                 spanOk, failed>>

\* It takes a message of a lost connection, or never sees it.
BrokerLate(m) ==
  /\ m \in late
  /\ late' = late \ {m}
  /\ broker' \in {broker, Append(broker, m)}
  /\ UNCHANGED <<sessionVars, send, taken, slots, inflight, spanOk, failed>>

Keep == UNCHANGED <<send, taken, slots, wire, spanOk, failed>>

Step ==
  \/ SessionStep /\ Keep
  \/ Open
  \/ \E m \in Msg : Read(m) \/ BrokerLate(m)
  \/ PublishOk \/ PublishError \/ Confirmed \/ ConfirmClosed
  \/ BrokerAnswers

Next ==
  \/ \E m \in Msg : PublishInventory(m)
  \/ Step
  \/ SessionFault /\ Keep

Spec == Init /\ [][Next]_vars

\* Goroutines, the library and the broker make progress.  Failed dials and
\* broken connections are finitely many, so the loop comes to rest.
FairSpec == Spec /\ WF_vars(Step)

-----------------------------------------------------------------------------
(* Properties *)

\* No message reaches the exchange twice, across broken connections, lost
\* confirmations and new sessions (publishSession never hands a message it
\* has published to a later session).
AtMostOnce == IsInjective(broker)

\* A producer span that ended Ok is the span of a message the exchange has,
\* and such messages are there in the order the service sent them: the next
\* message is read only after the answer to the last one (queue.go 343-345),
\* so a confirmation is never taken for another message (288-294).
ConfirmedInOrder ==
  \A i, j \in DOMAIN taken :
    i <= j /\ {taken[i], taken[j]} \subseteq spanOk =>
      \E a, b \in DOMAIN broker :
        a <= b /\ broker[a] = taken[i] /\ broker[b] = taken[j]

\* A publishing request never hangs for good while the process is up: the
\* send on the unbuffered channel (transport_queue.go 98, 107) is received
\* once the broker can be reached again, unless the process is told to stop.
SendsComplete ==
  \A m \in Msg : (send[m] = "blocked") ~> (send[m] = "sent" \/ ctxDone)

\* "The goroutine exits when ctx is cancelled" (queue.go 163).
FactoryExits == ctxDone ~> (factory = "closed")
=============================================================================
