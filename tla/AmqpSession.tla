----------------------------- MODULE AmqpSession -----------------------------
(***************************************************************************)
(* The reconnecting AMQP session of internal/platform/messaging/amqp: the  *)
(* goroutine of redialWith (the factory) and the loop that ranges over its *)
(* `sessions` channel (Publish or Subscribe, in a module that extends this *)
(* one).  Both channels are unbuffered, so a send and its receive are one  *)
(* step.  A session lives from its dial until its loop goes back to range. *)
(***************************************************************************)
EXTENDS Naturals

CONSTANTS
  MayCancel,   \* whether the process may be told to shut down
  MaxFaults    \* bound: failed dials and broken connections

ASSUME SessionAssumption == MayCancel \in BOOLEAN /\ MaxFaults \in Nat

VARIABLES
  ctxDone,   \* ctx is cancelled
  factory,   \* the redialWith goroutine
  loop,      \* the loop: ranging, waiting for `<-session`, in a session, gone
  conn,      \* the current connection: broken until the library notices
  faults

sessionVars == <<ctxDone, factory, loop, conn, faults>>

Fault == faults < MaxFaults /\ faults' = faults + 1

SessionInit ==
  /\ ctxDone = FALSE
  /\ factory = "offer"
  /\ loop = "range"
  /\ conn = "none"
  /\ faults = 0

SessionTypeOK ==
  /\ ctxDone \in BOOLEAN
  /\ factory \in {"offer", "dialing", "backoff", "handing", "closed"}
  /\ loop \in {"range", "waiting", "open", "exited"}
  /\ conn \in {"none", "up", "broken", "down"}
  /\ faults \in 0 .. MaxFaults

Cancel ==
  /\ MayCancel /\ ~ctxDone
  /\ ctxDone' = TRUE
  /\ UNCHANGED <<factory, loop, conn, faults>>

\* `sessions <- sess` meets `range sessions`.
Offer ==
  /\ factory = "offer" /\ loop = "range"
  /\ factory' = "dialing"
  /\ loop' = "waiting"
  /\ UNCHANGED <<ctxDone, conn, faults>>

\* dialUntilSuccess.  The dialer does not look at ctx.
DialOk ==
  /\ factory = "dialing"
  /\ factory' = "handing"
  /\ conn' = "up"
  /\ UNCHANGED <<ctxDone, loop, faults>>

DialFails ==
  /\ factory = "dialing"
  /\ Fault
  /\ factory' = "backoff"
  /\ UNCHANGED <<ctxDone, loop, conn>>

DialAgain ==
  /\ factory = "backoff"
  /\ factory' = "dialing"
  /\ UNCHANGED <<ctxDone, loop, conn, faults>>

\* Mutant: the offer does not select on ctx.Done().
FactoryStopsLate ==
  /\ ctxDone
  /\ factory \in {"backoff", "handing"}
  /\ factory' = "closed"
  /\ UNCHANGED <<ctxDone, loop, conn, faults>>

\* <-ctx.Done() in one of the three selects: `sessions` is closed, sess is not.
FactoryStops ==
  /\ ctxDone
  /\ factory \in {"offer", "backoff", "handing"}
  /\ factory' = "closed"
  /\ UNCHANGED <<ctxDone, loop, conn, faults>>

\* The range over the closed `sessions` ends.
RangeEnds ==
  /\ loop = "range" /\ factory = "closed"
  /\ loop' = "exited"
  /\ UNCHANGED <<ctxDone, factory, conn, faults>>

\* The broker or the network drops the connection ...
ConnBreaks ==
  /\ conn = "up"
  /\ Fault
  /\ conn' = "broken"
  /\ UNCHANGED <<ctxDone, factory, loop>>

\* ... and the library finds out and closes the session's channels.
ConnDown ==
  /\ conn = "broken"
  /\ conn' = "down"
  /\ UNCHANGED <<ctxDone, factory, loop, faults>>

\* `sess <- s` meets `<-session`; the extending module adds its own part.
HandOver ==
  /\ factory = "handing" /\ loop = "waiting"
  /\ factory' = "offer"
  /\ loop' = "open"
  /\ UNCHANGED <<ctxDone, conn, faults>>

\* The loop leaves its session for the next one.
Leave ==
  /\ loop' = "range"
  /\ conn' = "none"
  /\ UNCHANGED <<ctxDone, factory, faults>>

\* The steps of the goroutine and the library that the scheduler must run.
SessionStep ==
  Offer \/ DialOk \/ DialAgain \/ FactoryStops \/ RangeEnds \/ ConnDown

SessionFault == Cancel \/ DialFails \/ ConnBreaks
=============================================================================
