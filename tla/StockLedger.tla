----------------------------- MODULE StockLedger -----------------------------
(***************************************************************************)
(* What the inventory service promises: products, free stock and, for each *)
(* product, a queue of reservations.  Every operation is one atomic step,  *)
(* whatever SQL statements, row locks and transactions it takes.           *)
(*                                                                         *)
(* Reservations are stamped by the clocks of several replicas.  One waits  *)
(* for those that were in the queue before it and have an earlier stamp.   *)
(***************************************************************************)
EXTENDS Integers, Functions

CONSTANTS
  Sku, ReqId, Time,
  MaxInt       \* the largest quantity the tables can hold

VARIABLES
  known,   \* the products that exist
  free,    \* units in stock and not reserved
  queue,   \* per product: its reservations
  time,    \* per reservation: its stamp
  ahead,   \* per reservation: those it waits for
  asked, held,   \* per reservation: units requested, units set aside
  made     \* per production request: units it brought in (0: not applied)

vars == <<known, free, queue, time, ahead, asked, held, made>>

Init ==
  /\ known \subseteq Sku
  /\ free = [s \in Sku |-> 0]
  /\ queue = [s \in Sku |-> {}]
  /\ time = [r \in ReqId |-> 0]
  /\ ahead = [r \in ReqId |-> {}]
  /\ asked = [r \in ReqId |-> 0]
  /\ held = [r \in ReqId |-> 0]
  /\ made = [r \in ReqId |-> 0]

\* A product is created once, without stock.
Create(s) ==
  /\ s \notin known
  /\ known' = known \cup {s}
  /\ UNCHANGED <<free, queue, time, ahead, asked, held, made>>

\* A production request is applied once.
Produce(s, r, q) ==
  /\ s \in known
  /\ made[r] = 0 /\ free[s] + q <= MaxInt
  /\ made' = [made EXCEPT ![r] = q]
  /\ free' = [free EXCEPT ![s] = @ + q]
  /\ UNCHANGED <<known, queue, time, ahead, asked, held>>

\* A reservation is taken once, and goes behind those stamped earlier.
Reserve(s, r, q, t) ==
  /\ s \in known
  /\ asked[r] = 0
  /\ asked' = [asked EXCEPT ![r] = q]
  /\ queue' = [queue EXCEPT ![s] = @ \cup {r}]
  /\ time' = [time EXCEPT ![r] = t]
  /\ ahead' = [ahead EXCEPT ![r] = {x \in queue[s] : time[x] < t}]
  /\ UNCHANGED <<known, free, held, made>>

\* Who gets what of the free stock of s: nobody more than asked for, nobody
\* while one that is ahead lacks something, and a part of what is lacking only
\* if that is all there is.  A fill that stops early serves fewer.
Fair(s, share) ==
  /\ \A r \in ReqId : /\ share[r] > 0 => r \in queue[s]
                      /\ held[r] + share[r] <= asked[r]
  /\ \A r \in ReqId : share[r] > 0 =>
       \A x \in ahead[r] : held[x] + share[x] = asked[x]
  /\ \A r \in ReqId : share[r] > 0 /\ held[r] + share[r] < asked[r] =>
       SumFunction(share) = free[s]

\* Free stock is set aside for the queue of s.
Fill(s) ==
  \E share \in [ReqId -> 0 .. free[s]] :
    /\ SumFunction(share) <= free[s]
    /\ Fair(s, share)
    /\ free' = [free EXCEPT ![s] = @ - SumFunction(share)]
    /\ held' = [r \in ReqId |-> held[r] + share[r]]
    /\ UNCHANGED <<known, queue, time, ahead, asked, made>>

Next ==
  \E s \in Sku :
    \/ Create(s)
    \/ \E r \in ReqId, q \in 1 .. MaxInt :
         Produce(s, r, q) \/ \E t \in Time : Reserve(s, r, q, t)
    \/ Fill(s)

Spec == Init /\ [][Next]_vars
=============================================================================
