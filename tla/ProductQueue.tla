---------------------------- MODULE ProductQueue ----------------------------
(***************************************************************************)
(* The inbound product queue (ProductQueue in transport_queue.go): a       *)
(* Subscribe loop over its own reconnecting session hands each delivery to *)
(* one handler goroutine over an unbuffered channel and acknowledges it    *)
(* then; the handler creates the product or sends the message to the dead- *)
(* letter exchange through the publishing loop of AmqpPublisher.           *)
(*                                                                         *)
(* Msg are the deliveries (amqp.Message values): a message of the queue    *)
(* that comes again is a delivery of its own.                              *)
(***************************************************************************)
EXTENDS AmqpPublisher, Events

CONSTANTS
  Inbound   \* the messages on the product queue, in order: a sequence of Raw

ASSUME QueueAssumption == Msg \subseteq Nat /\ Inbound \in Seq(Raw)

VARIABLES
  subFactory, subLoop, subConn,   \* the session of the Subscribe loop
  queue,      \* indexes into Inbound that the broker holds for delivery
  of,         \* of[d]: what d is a delivery of (0: d is not used yet)
  cur,        \* the delivery the loop has (<<>> or <<d>>) ...
  acking,     \* ... and whether it is past the channel send
  handler,    \* the delivery the handler goroutine has
  created,    \* messages for which CreateProduct succeeded
  handled,    \* messages the handler has received
  beating,    \* the heartbeat goroutines of the two loops that run
  last        \* lastSessionAt: never set, fresh, or older than the limit

Sub == INSTANCE AmqpSession WITH
  factory <- subFactory, loop <- subLoop, conn <- subConn

subVars  == <<subFactory, subLoop, subConn>>
consumer == <<queue, of, cur, acking, handler, created, handled>>
ready    == <<beating, last>>
pubVars  == <<factory, loop, conn, send, taken, slots, wire, spanOk, failed>>
qVars    == <<vars, subVars, consumer, ready>>

QInit ==
  /\ Init
  /\ subFactory = "offer" /\ subLoop = "range" /\ subConn = "none"
  /\ queue = [i \in DOMAIN Inbound |-> i]
  /\ of = [d \in Msg |-> 0]
  /\ cur = <<>> /\ acking = FALSE /\ handler = <<>>
  /\ created = {} /\ handled = {}
  /\ beating = {} /\ last = "never"

\* sessionOK and startSessionHeartbeat: until it is stopped, the heartbeat of
\* a session refreshes lastSessionAt long before it is stale.
SessionOK(who) == beating' = beating \cup {who} /\ last' = "fresh"

\* Mutant: the heartbeat goroutine outlives its session.
StopHeartbeatLate(who) == UNCHANGED ready

\* The deferred stopHeartbeat
StopHeartbeat(who) == beating' = beating \ {who} /\ UNCHANGED last

\* amqpSessionStaleAfter passes and no heartbeat runs.
Age ==
  /\ beating = {} /\ last = "fresh"
  /\ last' = "stale"
  /\ UNCHANGED <<vars, subVars, consumer, beating>>

\* pingFromLastSession
Ping == last = "fresh"

-----------------------------------------------------------------------------
(* subscribeSession *)

\* A session arrives and Consume succeeds.
SubOpen ==
  /\ Sub!HandOver
  /\ subConn = "up"
  /\ SessionOK("sub")
  /\ UNCHANGED <<pubVars, consumer>>

\* Consume fails, because the connection is gone already or the broker refuses
\* the queue: Subscribe returns for good.
ConsumeFails ==
  /\ subFactory = "handing" /\ subLoop = "waiting"
  /\ \/ subConn # "up" /\ UNCHANGED faults
     \/ Fault
  /\ subFactory' = "offer" /\ subLoop' = "exited"
  /\ UNCHANGED <<ctxDone, subConn, pubVars, consumer, ready>>

\* A delivery comes off the deliveries channel; deliveries are numbered.
Deliver(d) ==
  /\ subLoop = "open" /\ subConn = "up"
  /\ cur = <<>> /\ queue # <<>>
  /\ of[d] = 0 /\ \A c \in Msg : c < d => of[c] # 0
  /\ of' = [of EXCEPT ![d] = Head(queue)]
  /\ queue' = Tail(queue)
  /\ cur' = <<d>> /\ acking' = FALSE
  /\ UNCHANGED <<vars, subVars, handler, created, handled, ready>>

\* messages <- Message{...}: the handler goroutine is at its receive.
HandToHandler ==
  /\ subLoop = "open" /\ cur # <<>> /\ ~acking
  /\ handler = <<>>
  /\ handler' = cur /\ acking' = TRUE
  /\ handled' = handled \cup {of[cur[1]]}
  /\ UNCHANGED <<vars, subVars, queue, of, cur, created, ready>>

\* Mutant: the delivery is acknowledged as soon as it is received.
AckFirst ==
  /\ subLoop = "open" /\ cur # <<>>
  /\ cur' = <<>> /\ acking' = FALSE
  /\ queue' = IF subConn = "up" THEN queue ELSE <<of[cur[1]]>> \o queue
  /\ UNCHANGED <<vars, subVars, of, handler, created, handled, ready>>

\* sub.Ack.  Without it the broker delivers the message again; an error is
\* only logged.
Ack ==
  /\ subLoop = "open" /\ cur # <<>> /\ acking
  /\ cur' = <<>> /\ acking' = FALSE
  /\ queue' = IF subConn = "up" THEN queue ELSE <<of[cur[1]]>> \o queue
  /\ UNCHANGED <<vars, subVars, of, handler, created, handled, ready>>

\* The deliveries channel is closed.
SubLeave ==
  /\ subLoop = "open" /\ cur = <<>> /\ subConn = "down"
  /\ Sub!Leave
  /\ StopHeartbeat("sub")
  /\ UNCHANGED <<pubVars, consumer>>

-----------------------------------------------------------------------------
(* handleProductMessage *)

Content(d) == Inbound[of[d]]

\* Validated, of the right type and decoded
IsProduct(d) == Validate(Content(d)) /\ Content(d).type = "product_created"

\* The handler is at work on d, not waiting for the dead-letter loop.
Working(d) == handler = <<d>> /\ send[d] = "idle"

HandleProduct(d) ==
  /\ Working(d) /\ IsProduct(d)
  /\ created' = created \cup {of[d]}
  /\ handler' = <<>>
  /\ UNCHANGED <<vars, subVars, queue, of, cur, acking, handled, ready>>

\* sendToDlt, or `p.productDlt <- msg` when CreateProduct failed: blocks on
\* the unbuffered channel of the dead-letter loop.
SendToDlt(d) ==
  /\ Working(d)
  /\ \/ ~IsProduct(d) /\ UNCHANGED faults
     \/ IsProduct(d) /\ Fault
  /\ send' = [send EXCEPT ![d] = "blocked"]
  /\ UNCHANGED <<ctxDone, factory, loop, conn, taken, slots, wire, spanOk, failed,
                 subVars, consumer, ready>>

\* Mutant: the handler goroutine never comes back from the dead-letter send.
DltTakenStays(d) ==
  /\ handler = <<d>> /\ send[d] = "sent"
  /\ UNCHANGED qVars

\* The dead-letter loop has taken it.
DltTaken(d) ==
  /\ handler = <<d>> /\ send[d] = "sent"
  /\ handler' = <<>>
  /\ UNCHANGED <<vars, subVars, queue, of, cur, acking, created, handled, ready>>

-----------------------------------------------------------------------------
(* The dead-letter publishing loop, with its heartbeat *)

DltStep ==
  /\ Step
  /\ \/ loop' = "open" /\ loop # "open" /\ SessionOK("dlt")
     \/ loop' # "open" /\ loop = "open" /\ StopHeartbeat("dlt")
     \/ (loop' = "open") = (loop = "open") /\ UNCHANGED ready
  /\ UNCHANGED <<subVars, consumer>>

SubStep ==
  \/ Sub!SessionStep /\ UNCHANGED <<pubVars, consumer, ready>>
  \/ SubOpen \/ ConsumeFails \/ \E d \in Msg : Deliver(d)
  \/ HandToHandler \/ Ack \/ SubLeave

HandlerStep == \E d \in Msg : HandleProduct(d) \/ DltTaken(d) \/ SendToDlt(d)

QNext ==
  \/ DltStep \/ SubStep \/ HandlerStep \/ Age
  \/ SessionFault /\ Keep /\ UNCHANGED <<subVars, consumer, ready>>
  \/ (Sub!DialFails \/ Sub!ConnBreaks) /\ UNCHANGED <<pubVars, consumer, ready>>

\* The goroutines run, the library notices lost connections, time passes.
QSpec ==
  /\ QInit /\ [][QNext]_qVars
  /\ WF_qVars(DltStep) /\ WF_qVars(SubStep)
  /\ WF_qVars(HandlerStep) /\ WF_qVars(Age)

-----------------------------------------------------------------------------
(* Properties *)

Owned(i) == i \in ToSet(queue) \/ \E d \in ToSet(cur) : of[d] = i

\* No product message is lost before a handler has it: while the broker or the
\* loop does not hold it, the handler has received it, whatever happens to the
\* connection around the hand-over and the acknowledgement (queue.go 444-448).
HandledBeforeForgotten == \A i \in DOMAIN Inbound : Owned(i) \/ i \in handled

\* Every message on the queue gets to the handler and ends as a product or in
\* the hands of the dead-letter loop, although the handler, the Subscribe loop
\* and the dead-letter loop wait for each other over unbuffered channels,
\* unless the process is told to stop or Subscribe gave up after a failed
\* Consume (transport_queue.go 139-155, 199-240, queue.go 416-420).
MessagesSettle ==
  \A i \in DOMAIN Inbound :
    <>(\/ i \in created \/ \E d \in Msg : of[d] = i /\ send[d] = "sent"
       \/ ctxDone \/ subLoop = "exited")

\* "Ping reports ready only while at least one loop is holding a session"
\* (transport_queue.go 115-117): without sessions it turns unready in the end.
ReadyTracksSessions ==
  (loop # "open" /\ subLoop # "open") ~>
     (~Ping \/ loop = "open" \/ subLoop = "open")
=============================================================================
