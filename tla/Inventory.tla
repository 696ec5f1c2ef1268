------------------------------ MODULE Inventory ------------------------------
(***************************************************************************)
(* The inventory service (internal/inventory/service.go) over Postgres     *)
(* (internal/inventory/repository.go): CreateProduct, Produce, Reserve and *)
(* FillReserves as run by concurrent requests.                             *)
(*                                                                         *)
(* A step is one SQL statement, one commit or one publication.  Postgres   *)
(* runs at READ COMMITTED: a statement outside FOR UPDATE reads what is    *)
(* committed, a statement that locks a row waits for its holder and then   *)
(* sees the newest committed version.  A transaction's own writes live in  *)
(* the process's local variables until its commit installs them.           *)
(*                                                                         *)
(* GetProductInventory ... FOR UPDATE locks the product row and then its   *)
(* product_inventory row.  Nothing locks the second without holding the    *)
(* first in a conflicting mode, so one lock per product stands for both.   *)
(***************************************************************************)
EXTENDS Integers, FiniteSets, Functions

CONSTANTS
  Proc,             \* concurrent requests (goroutines, on any replica)
  Sku,
  ReqId,            \* client-chosen request ids
  Qty,              \* quantities clients ask for
  Time,             \* what the clock of a replica may show
  MaxInt,           \* largest value of a Postgres INTEGER column
  FillLimit,        \* the LIMIT of FillReserves (100 in the code)
  Creators,         \* the processes that may run CreateProduct
  InitialProducts,  \* products created before the model starts
  MaxCalls,         \* bound: service calls made
  MaxFaults         \* bound: injected failures

ASSUME ConstantsAssumption ==
  /\ Sku # {} /\ ReqId # {}
  /\ Qty \subseteq Int
  /\ Time \subseteq Nat
  /\ MaxInt \in Nat
  /\ FillLimit \in Nat \ {0}
  /\ Creators \subseteq Proc
  /\ InitialProducts \subseteq Sku
  /\ MaxCalls \in Nat
  /\ MaxFaults \in Nat

VARIABLES
  \* committed tables
  products,      \* skus with a products and a product_inventory row
  available,     \* product_inventory.available
  events,        \* production_events by request_id
  reservations,  \* reservations by request_id
  ahead,         \* history: the earlier reservations each one found
  locks,         \* row locks: <<table, key, process, mode>>
  \* one service call per process
  pc, req,
  avail,         \* the local productInventory.Available
  todo,          \* rows of the GetReservations snapshot not yet locked
  rows,          \* openReservations still to be visited by the loop
  got,           \* quantity added to each reservation in the open tx
  stamp,         \* the local res.Created
  told,          \* reserved quantities handed to queue and notifiers, by row
  \* history, read by no action
  produced,      \* units added by committed Produce transactions
  granted,       \* units handed out by committed FillReserves transactions
  given,         \* units handed out in the open transaction
  missed,        \* skus for which a due FillReserves did not run to the end
  calls, faults

db     == <<products, available, events, reservations, ahead>>
local  == <<avail, todo, rows, got, given, stamp>>
ledger == <<produced, granted>>
vars   == <<db, locks, pc, req, local, told, ledger, missed, calls, faults>>

Table  == {"product", "event", "reservation"}
Mode   == {"KeyShare", "NoKeyUpdate", "Update"}
State  == {"None", "Open", "Closed"}          \* None: there is no such row
TxPc   == {"c_update", "c_insert", "c_commit",
           "p_event", "p_fk", "p_lock", "p_commit",
           "r_lock", "r_find", "r_insert", "r_commit",
           "f_row", "f_loop"}
Pc     == TxPc \cup {"idle", "p_pub", "f_begin"}

AnySku == CHOOSE s \in Sku : TRUE
NoRes  == [sku |-> AnySku, state |-> "None", requested |-> 0,
           reserved |-> 0, created |-> 0]
NoReq  == [sku |-> AnySku, rid |-> CHOOSE r \in ReqId : TRUE, qty |-> 0]
NoEvt  == [sku |-> AnySku, qty |-> 0]         \* qty 0: there is no such row

Min2(a, b) == IF a < b THEN a ELSE b

-----------------------------------------------------------------------------
(* Row locks. *)

\* Postgres' conflict table for the modes this program takes.
Conflict(m, n) ==
  m = "Update" \/ n = "Update" \/ (m = "NoKeyUpdate" /\ n = "NoKeyUpdate")

Free(p, table, key, mode) ==
  \A q \in Proc \ {p}, m \in Mode :
     <<table, key, q, m>> \in locks => ~Conflict(mode, m)

Acquire(p, table, key, mode) ==
  /\ Free(p, table, key, mode)
  /\ locks' = locks \cup {<<table, key, p, mode>>}

Released(p) == {l \in locks : l[3] # p}

\* Mutant: no ORDER BY.
AnyOf(r, S) == r \in S

\* ORDER BY created: the reservation a row scan or the fill loop visits next.
Oldest(r, S) ==
  r \in S /\ \A q \in S : reservations[r].created <= reservations[q].created

\* LIMIT: the GetReservations of FillReserves has all the rows it may return.
ScanDone(p) == todo[p] = {} \/ Cardinality(rows[p]) = FillLimit

\* The row lock the statement at pc[p] asks for.
Awaits(p, table, key, mode) ==
  \/ /\ table = "product" /\ key = req[p].sku /\ key \in products
     /\ \/ pc[p] = "c_update" /\ mode = "NoKeyUpdate"
        \/ pc[p] = "p_fk"     /\ mode = "KeyShare"
        \/ pc[p] \in {"p_lock", "r_lock"} /\ mode = "Update"
        \/ pc[p] = "f_row" /\ ScanDone(p) /\ mode = "Update"
  \/ /\ table = "product" /\ key = req[p].sku
     /\ pc[p] = "c_insert" /\ mode = "Update"
  \/ /\ table = "event" /\ key = req[p].rid
     /\ pc[p] = "p_event" /\ mode = "Update"
  \/ /\ table = "reservation" /\ mode = "Update"
     /\ \/ pc[p] \in {"r_find", "r_insert"} /\ key = req[p].rid
        \/ pc[p] = "f_row" /\ ~ScanDone(p) /\ Oldest(key, todo[p])

WaitsFor(p, q) ==
  \E l \in locks, mode \in Mode :
    /\ l[3] = q /\ p # q
    /\ Awaits(p, l[1], l[2], mode)
    /\ Conflict(mode, l[4])

\* p is on a cycle of the waits-for graph.
InDeadlock(p) ==
  /\ \E q \in Proc : WaitsFor(p, q)
  /\ \E n \in 2 .. Cardinality(Proc) : \E ring \in [1..n -> Proc] :
       /\ ring[1] = p
       /\ \A i \in 1..n : WaitsFor(ring[i], ring[IF i = n THEN 1 ELSE i + 1])

-----------------------------------------------------------------------------
(* How a call advances, and how it ends. *)

Goto(p, l) == pc' = [pc EXCEPT ![p] = l]

ClearLocal(p) ==
  /\ avail' = [avail EXCEPT ![p] = 0]
  /\ todo'  = [todo EXCEPT ![p] = {}]
  /\ rows'  = [rows EXCEPT ![p] = {}]
  /\ got'   = [got EXCEPT ![p] = [r \in ReqId |-> 0]]
  /\ given' = [given EXCEPT ![p] = 0]
  /\ stamp' = [stamp EXCEPT ![p] = 0]

\* The call returns; whatever transaction was open is over.
Return(p) ==
  /\ Goto(p, "idle")
  /\ locks' = Released(p)
  /\ ClearLocal(p)
  /\ req' = [req EXCEPT ![p] = NoReq]
  /\ UNCHANGED calls

\* A committed Produce or Reserve owes its sku a FillReserves.
FillDue(p) == pc[p] \in {"p_pub", "f_begin", "f_row", "f_loop"}

\* The call returns an error: its open transaction is rolled back.
Fail(p) ==
  /\ Return(p)
  /\ missed' = IF FillDue(p) THEN missed \cup {req[p].sku} ELSE missed
  /\ UNCHANGED <<db, told, ledger>>

-----------------------------------------------------------------------------
(* CreateProduct *)

\* Mutant: the answer of GetProduct is ignored.
CreateProductUnchecked(p, s) ==
  /\ p \in Creators
  /\ calls' = calls + 1
  /\ Goto(p, "c_update")
  /\ req' = [req EXCEPT ![p] = [sku |-> s, rid |-> NoReq.rid, qty |-> 0]]
  /\ UNCHANGED <<db, locks, local, told, ledger, missed, faults>>

\* GetProduct outside any transaction; an existing product ends the call.
CreateProduct(p, s) ==
  /\ p \in Creators
  /\ calls' = calls + 1
  /\ IF s \in products
       THEN UNCHANGED <<pc, req>>
       ELSE /\ Goto(p, "c_update")
            /\ req' = [req EXCEPT ![p] = [sku |-> s, rid |-> NoReq.rid, qty |-> 0]]
  /\ UNCHANGED <<db, locks, local, told, ledger, missed, faults>>

\* SaveProduct's UPDATE: it finds the row if somebody created it meanwhile.
CreateUpdate(p) ==
  /\ pc[p] = "c_update"
  /\ IF req[p].sku \in products
       THEN /\ Acquire(p, "product", req[p].sku, "NoKeyUpdate")
            /\ Goto(p, "c_commit")
       ELSE /\ Goto(p, "c_insert")
            /\ UNCHANGED locks
  /\ UNCHANGED <<db, req, local, told, ledger, missed, calls, faults>>

\* SaveProduct's INSERT: waits for an uncommitted row with the same key and
\* fails on a committed one.
CreateInsert(p) ==
  /\ pc[p] = "c_insert"
  /\ Free(p, "product", req[p].sku, "Update")
  /\ \/ /\ req[p].sku \in products
        /\ Fail(p)
     \/ /\ req[p].sku \notin products
        /\ Acquire(p, "product", req[p].sku, "Update")
        /\ Goto(p, "c_commit")
        /\ UNCHANGED <<db, req, local, told, ledger, missed, calls>>
  /\ UNCHANGED faults

\* SaveProductInventory with available = 0, then Commit.
CreateCommit(p) ==
  /\ pc[p] = "c_commit"
  /\ products' = products \cup {req[p].sku}
  /\ available' = [available EXCEPT ![req[p].sku] = 0]
  /\ Return(p)
  /\ UNCHANGED <<events, reservations, ahead, told, ledger, missed, faults>>

-----------------------------------------------------------------------------
(* Produce *)

\* Validation, then GetProductionEventByRequestID outside any transaction.
\* The product comes from a lookup of the caller, so its row exists.
Produce(p, s, r, q) ==
  /\ s \in products
  /\ calls' = calls + 1
  /\ IF q < 1 \/ events[r].qty # 0
       THEN UNCHANGED <<pc, req>>
       ELSE /\ Goto(p, "p_event")
            /\ req' = [req EXCEPT ![p] = [sku |-> s, rid |-> r, qty |-> q]]
  /\ UNCHANGED <<db, locks, local, told, ledger, missed, faults>>

\* Mutant: no UNIQUE constraint on production_events.request_id.
ProduceEventNotUnique(p) ==
  /\ pc[p] = "p_event"
  /\ Acquire(p, "event", req[p].rid, "Update")
  /\ Goto(p, "p_fk")
  /\ UNCHANGED <<db, req, local, told, ledger, missed, calls, faults>>

\* SaveProductionEvent: request_id is UNIQUE, quantity an INTEGER.
ProduceEvent(p) ==
  /\ pc[p] = "p_event"
  /\ Free(p, "event", req[p].rid, "Update")
  /\ \/ /\ events[req[p].rid].qty # 0 \/ req[p].qty > MaxInt
        /\ Fail(p)
     \/ /\ events[req[p].rid].qty = 0 /\ req[p].qty <= MaxInt
        /\ Acquire(p, "event", req[p].rid, "Update")
        /\ Goto(p, "p_fk")
        /\ UNCHANGED <<db, req, local, told, ledger, missed, calls>>
  /\ UNCHANGED faults

\* The foreign key of the inserted event locks the product row.
ProduceForeignKey(p) ==
  /\ pc[p] = "p_fk"
  /\ Acquire(p, "product", req[p].sku, "KeyShare")
  /\ Goto(p, "p_lock")
  /\ UNCHANGED <<db, req, local, told, ledger, missed, calls, faults>>

\* Mutant: GetProductInventory without FOR UPDATE.
ProduceReadUnlocked(p) ==
  /\ pc[p] = "p_lock"
  /\ avail' = [avail EXCEPT ![p] = available[req[p].sku]]
  /\ Goto(p, "p_commit")
  /\ UNCHANGED <<db, locks, req, todo, rows, got, given, stamp, told, ledger, missed,
                 calls, faults>>

\* GetProductInventory ... FOR UPDATE
ProduceLock(p) ==
  /\ pc[p] = "p_lock"
  /\ Acquire(p, "product", req[p].sku, "Update")
  /\ avail' = [avail EXCEPT ![p] = available[req[p].sku]]
  /\ Goto(p, "p_commit")
  /\ UNCHANGED <<db, req, todo, rows, got, given, stamp, told, ledger, missed, calls,
                 faults>>

\* What the production transaction installs.
ProduceTx(p) ==
  LET s == req[p].sku IN
  /\ pc[p] = "p_commit"
  /\ avail[p] + req[p].qty <= MaxInt
  /\ events' = [events EXCEPT ![req[p].rid] = [sku |-> s, qty |-> req[p].qty]]
  /\ available' = [available EXCEPT ![s] = avail[p] + req[p].qty]
  /\ produced' = [produced EXCEPT ![s] = @ + req[p].qty]
  /\ UNCHANGED <<products, reservations, ahead, granted, told>>

\* SaveProductInventory and Commit; the new value is published next.
ProduceCommit(p) ==
  /\ ProduceTx(p)
  /\ avail' = [avail EXCEPT ![p] = @ + req[p].qty]
  /\ locks' = Released(p)
  /\ Goto(p, "p_pub")
  /\ UNCHANGED <<req, todo, rows, got, given, stamp, missed, calls, faults>>

\* SaveProductInventory fails: the sum does not fit the INTEGER column.
ProduceOverflow(p) ==
  /\ pc[p] = "p_commit"
  /\ avail[p] + req[p].qty > MaxInt
  /\ Fail(p)
  /\ UNCHANGED faults

\* publishInventory, after the commit and outside every lock
ProducePublish(p) ==
  /\ pc[p] = "p_pub"
  /\ avail' = [avail EXCEPT ![p] = 0]
  /\ Goto(p, "f_begin")
  /\ UNCHANGED <<db, locks, req, todo, rows, got, given, stamp, told, ledger, missed,
                 calls, faults>>

-----------------------------------------------------------------------------
(* Reserve *)

\* validateReservationRequest, then BeginTransaction
Reserve(p, s, r, q) ==
  /\ calls' = calls + 1
  /\ IF q < 1
       THEN UNCHANGED <<pc, req>>
       ELSE /\ Goto(p, "r_lock")
            /\ req' = [req EXCEPT ![p] = [sku |-> s, rid |-> r, qty |-> q]]
  /\ UNCHANGED <<db, locks, local, told, ledger, missed, faults>>

\* GetProduct ... FOR UPDATE; an unknown product is an error.
ReserveLock(p) ==
  /\ pc[p] = "r_lock"
  /\ \/ /\ req[p].sku \notin products
        /\ Fail(p)
     \/ /\ req[p].sku \in products
        /\ Acquire(p, "product", req[p].sku, "Update")
        /\ Goto(p, "r_find")
        /\ UNCHANGED <<db, req, local, told, ledger, missed, calls>>
  /\ UNCHANGED faults

\* GetReservationByRequestID ... FOR UPDATE; an existing reservation is
\* returned after a rollback, and no fill follows.  A new one is stamped with
\* time.Now(): whatever the clock of this replica shows.
ReserveFind(p) ==
  /\ pc[p] = "r_find"
  /\ \/ /\ reservations[req[p].rid].state # "None"
        /\ Free(p, "reservation", req[p].rid, "Update")
        /\ Return(p)
     \/ /\ reservations[req[p].rid].state = "None"
        /\ \E t \in Time : stamp' = [stamp EXCEPT ![p] = t]
        /\ Goto(p, "r_insert")
        /\ UNCHANGED <<locks, req, avail, todo, rows, got, given, calls>>
  /\ UNCHANGED <<db, told, ledger, missed, faults>>

\* SaveReservation: request_id is UNIQUE over all products.
ReserveInsert(p) ==
  /\ pc[p] = "r_insert"
  /\ Free(p, "reservation", req[p].rid, "Update")
  /\ \/ /\ reservations[req[p].rid].state # "None" \/ req[p].qty > MaxInt
        /\ Fail(p)
     \/ /\ reservations[req[p].rid].state = "None" /\ req[p].qty <= MaxInt
        /\ Acquire(p, "reservation", req[p].rid, "Update")
        /\ Goto(p, "r_commit")
        /\ UNCHANGED <<db, req, local, told, ledger, missed, calls>>
  /\ UNCHANGED faults

\* The reservations of a product
Queue(s) == {r \in ReqId : reservations[r].sku = s /\ reservations[r].state # "None"}

\* What the reserve transaction installs.  Reservations of a product come in one
\* after the other, because its row is locked, but their stamps come from the
\* clocks of different replicas.  History: the earlier ones it finds.
ReserveTx(p) ==
  /\ pc[p] = "r_commit"
  /\ reservations' = [reservations EXCEPT ![req[p].rid] =
       [sku |-> req[p].sku, state |-> "Open", requested |-> req[p].qty,
        reserved |-> 0, created |-> stamp[p]]]
  /\ ahead' = [ahead EXCEPT ![req[p].rid] =
       {x \in Queue(req[p].sku) : reservations[x].created < stamp[p]}]
  /\ UNCHANGED <<products, available, events, told, ledger>>

\* Mutant: a new reservation waits for the next production.
ReserveCommitNoFill(p) ==
  /\ ReserveTx(p)
  /\ Return(p)
  /\ UNCHANGED <<missed, faults>>

ReserveCommit(p) ==
  /\ ReserveTx(p)
  /\ locks' = Released(p)
  /\ Goto(p, "f_begin")
  /\ UNCHANGED <<req, local, missed, calls, faults>>

-----------------------------------------------------------------------------
(* FillReserves, called by Produce and Reserve after their commit *)

\* The snapshot of SELECT ... WHERE sku AND state = Open.
FillBegin(p) ==
  /\ pc[p] = "f_begin"
  /\ todo' = [todo EXCEPT ![p] =
       {r \in ReqId : /\ reservations[r].sku = req[p].sku
                      /\ reservations[r].state = "Open"}]
  /\ Goto(p, "f_row")
  /\ UNCHANGED <<db, locks, req, avail, rows, got, given, stamp, told, ledger, missed,
                 calls, faults>>

\* FOR UPDATE locks the rows one by one in ORDER BY order, re-checks each on
\* its newest version and drops it if it is no longer Open.
FillLockRow(p) ==
  /\ pc[p] = "f_row"
  /\ ~ScanDone(p)
  /\ \E r \in todo[p] :
       /\ Oldest(r, todo[p])
       /\ Acquire(p, "reservation", r, "Update")
       /\ todo' = [todo EXCEPT ![p] = @ \ {r}]
       /\ rows' = [rows EXCEPT ![p] =
            IF reservations[r].state = "Open" THEN @ \cup {r} ELSE @]
  /\ UNCHANGED <<db, pc, req, avail, got, given, stamp, told, ledger, missed, calls,
                 faults>>

\* Mutant: the fill reads the inventory without FOR UPDATE.
FillReadUnlocked(p) ==
  /\ pc[p] = "f_row"
  /\ ScanDone(p)
  /\ avail' = [avail EXCEPT ![p] = available[req[p].sku]]
  /\ todo' = [todo EXCEPT ![p] = {}]
  /\ Goto(p, "f_loop")
  /\ UNCHANGED <<db, locks, req, rows, got, given, stamp, told, ledger, missed, calls,
                 faults>>

\* GetProductInventory ... FOR UPDATE, once the rows are locked
FillReadInventory(p) ==
  /\ pc[p] = "f_row"
  /\ ScanDone(p)
  /\ Acquire(p, "product", req[p].sku, "Update")
  /\ avail' = [avail EXCEPT ![p] = available[req[p].sku]]
  /\ missed' = IF todo[p] # {} THEN missed \cup {req[p].sku} ELSE missed
  /\ todo' = [todo EXCEPT ![p] = {}]
  /\ Goto(p, "f_loop")
  /\ UNCHANGED <<db, req, rows, got, given, stamp, told, ledger, calls, faults>>

\* Mutant: reserveAmount is not capped by the stock.
ReserveAmountUncapped(p, r) ==
  reservations[r].requested - reservations[r].reserved

\* reserveAmount of one loop iteration
ReserveAmount(p, r) ==
  Min2(reservations[r].requested - reservations[r].reserved, avail[p])

\* Mutant: the reservation is published as it was read.
FillOnePublishesOld(p) ==
  /\ pc[p] = "f_loop"
  /\ avail[p] # 0
  /\ \E r \in rows[p] : LET n == ReserveAmount(p, r) IN
       /\ Oldest(r, rows[p])
       /\ avail' = [avail EXCEPT ![p] = @ - n]
       /\ got'   = [got EXCEPT ![p][r] = n]
       /\ given' = [given EXCEPT ![p] = @ + n]
       /\ rows'  = [rows EXCEPT ![p] = @ \ {r}]
       /\ told'  = [told EXCEPT ![r] = @ \cup {reservations[r].reserved}]
  /\ UNCHANGED <<db, locks, pc, req, todo, stamp, ledger, missed, calls, faults>>

\* One iteration.  Both rows are written in the transaction, where nobody else
\* sees them; then, before it commits, the reservation is handed to the
\* publishing loop and to a goroutine that notifies subscribers.  Neither keeps
\* the order of hand-overs, so told is a set.
FillOne(p) ==
  /\ pc[p] = "f_loop"
  /\ avail[p] # 0
  /\ \E r \in rows[p] : LET n == ReserveAmount(p, r) IN
       /\ Oldest(r, rows[p])
       /\ avail' = [avail EXCEPT ![p] = @ - n]
       /\ got'   = [got EXCEPT ![p][r] = n]
       /\ given' = [given EXCEPT ![p] = @ + n]
       /\ rows'  = [rows EXCEPT ![p] = @ \ {r}]
       /\ told'  = [told EXCEPT ![r] = @ \cup {reservations[r].reserved + n}]
  /\ UNCHANGED <<db, locks, pc, req, todo, stamp, ledger, missed, calls, faults>>

\* Mutant: a reservation that got all it asked for stays Open.
FilledStaysOpen(row, n) ==
  [sku |-> row.sku, requested |-> row.requested, created |-> row.created,
   reserved |-> row.reserved + n, state |-> row.state]

\* UpdateReservation's new row
Filled(row, n) ==
  [sku |-> row.sku, requested |-> row.requested, created |-> row.created,
   reserved |-> row.reserved + n,
   state |-> IF row.reserved + n = row.requested THEN "Closed" ELSE row.state]

\* Mutant: the reservations are saved, the inventory is not.
FillCommitKeepsStock(p) ==
  /\ pc[p] = "f_loop"
  /\ rows[p] = {} \/ avail[p] = 0
  /\ reservations' = [r \in ReqId |->
       IF got[p][r] > 0 THEN Filled(reservations[r], got[p][r])
                        ELSE reservations[r]]
  /\ granted' = [granted EXCEPT ![req[p].sku] = @ + given[p]]
  /\ Return(p)
  /\ UNCHANGED <<products, available, events, ahead, produced, told, missed,
                 faults>>

\* The loop is over or has run out of stock: Commit.
FillCommit(p) ==
  LET s == req[p].sku IN
  /\ pc[p] = "f_loop"
  /\ rows[p] = {} \/ avail[p] = 0
  /\ reservations' = [r \in ReqId |->
       IF got[p][r] > 0 THEN Filled(reservations[r], got[p][r])
                        ELSE reservations[r]]
  /\ available' = [available EXCEPT ![s] = avail[p]]
  /\ granted' = [granted EXCEPT ![s] = @ + given[p]]
  /\ Return(p)
  /\ UNCHANGED <<products, events, ahead, produced, told, missed, faults>>

-----------------------------------------------------------------------------
(* Failures *)

\* Mutant: the victim of a deadlock starts its transaction again at once.
DeadlockVictimRetries(p) ==
  /\ InDeadlock(p)
  /\ Goto(p, CASE pc[p] \in {"p_event", "p_fk", "p_lock"} -> "p_event"
              [] pc[p] \in {"r_lock", "r_find", "r_insert"} -> "r_lock"
              [] OTHER -> "f_begin")
  /\ locks' = Released(p)
  /\ ClearLocal(p)
  /\ UNCHANGED <<db, req, told, ledger, missed, calls, faults>>

\* Postgres aborts one transaction of a cycle of waiters.
DeadlockVictim(p) ==
  /\ InDeadlock(p)
  /\ Fail(p)
  /\ UNCHANGED faults

Fault == faults < MaxFaults /\ faults' = faults + 1

\* A statement, BeginTransaction, Commit or publication fails, the request's
\* context ends, or the process crashes: nothing of the open transaction stays.
Abort(p) ==
  /\ pc[p] # "idle"
  /\ Fault
  /\ Fail(p)

\* The commit takes effect but its reply is lost: the call returns an error.
CommitReplyLost(p) ==
  /\ Fault
  /\ ProduceTx(p) \/ ReserveTx(p)
  /\ missed' = missed \cup {req[p].sku}
  /\ Return(p)

-----------------------------------------------------------------------------

Init ==
  /\ products = InitialProducts
  /\ available = [s \in Sku |-> 0]
  /\ events = [r \in ReqId |-> NoEvt]
  /\ reservations = [r \in ReqId |-> NoRes]
  /\ ahead = [r \in ReqId |-> {}]
  /\ locks = {}
  /\ pc = [p \in Proc |-> "idle"]
  /\ req = [p \in Proc |-> NoReq]
  /\ avail = [p \in Proc |-> 0]
  /\ todo = [p \in Proc |-> {}]
  /\ rows = [p \in Proc |-> {}]
  /\ got = [p \in Proc |-> [r \in ReqId |-> 0]]
  /\ given = [p \in Proc |-> 0]
  /\ stamp = [p \in Proc |-> 0]
  /\ told = [r \in ReqId |-> {}]
  /\ produced = [s \in Sku |-> 0]
  /\ granted = [s \in Sku |-> 0]
  /\ missed = {}
  /\ calls = 0
  /\ faults = 0

Call(p) ==
  /\ pc[p] = "idle"
  /\ calls < MaxCalls
  /\ \E s \in Sku :
       \/ CreateProduct(p, s)
       \/ \E r \in ReqId, q \in Qty : Produce(p, s, r, q) \/ Reserve(p, s, r, q)

Step(p) ==
  \/ CreateUpdate(p) \/ CreateInsert(p) \/ CreateCommit(p)
  \/ ProduceEvent(p) \/ ProduceForeignKey(p) \/ ProduceLock(p)
  \/ ProduceCommit(p) \/ ProduceOverflow(p) \/ ProducePublish(p)
  \/ ReserveLock(p) \/ ReserveFind(p) \/ ReserveInsert(p) \/ ReserveCommit(p)
  \/ FillBegin(p) \/ FillLockRow(p) \/ FillReadInventory(p)
  \/ FillOne(p) \/ FillCommit(p)

Failure(p) == Abort(p) \/ CommitReplyLost(p)

AllIdle == \A p \in Proc : pc[p] = "idle"

\* The bound on calls is used up and every call has returned.
Done == AllIdle /\ calls = MaxCalls /\ UNCHANGED vars

Next ==
  \/ \E p \in Proc : Call(p) \/ Step(p) \/ DeadlockVictim(p) \/ Failure(p)
  \/ Done

Spec == Init /\ [][Next]_vars

\* The scheduler runs every request, and Postgres resolves every deadlock.
FairSpec ==
  /\ Spec
  /\ \A p \in Proc : WF_vars(Step(p)) /\ WF_vars(DeadlockVictim(p))
-----------------------------------------------------------------------------
(* Properties *)

Reservation == [sku : Sku, state : State, requested : Nat, reserved : Nat,
                created : Nat]

\* The types of the tables, the locks and the local variables of the calls.
TypeOK ==
  /\ products \subseteq Sku
  /\ available \in [Sku -> Nat]
  /\ events \in [ReqId -> [sku : Sku, qty : Nat]]
  /\ reservations \in [ReqId -> Reservation]
  /\ ahead \in [ReqId -> SUBSET ReqId]
  /\ locks \subseteq Table \X (Sku \cup ReqId) \X Proc \X Mode
  /\ pc \in [Proc -> Pc]
  /\ req \in [Proc -> [sku : Sku, rid : ReqId, qty : Nat]]
  /\ avail \in [Proc -> Nat]
  /\ todo \in [Proc -> SUBSET ReqId]
  /\ rows \in [Proc -> SUBSET ReqId]
  /\ got \in [Proc -> [ReqId -> Nat]]
  /\ given \in [Proc -> Nat]
  /\ stamp \in [Proc -> Nat]
  /\ told \in [ReqId -> SUBSET Nat]
  /\ produced \in [Sku -> Nat]
  /\ granted \in [Sku -> Nat]
  /\ missed \subseteq Sku
  /\ calls \in Nat
  /\ faults \in Nat

\* No update of product_inventory.available is ever lost: what the row holds
\* plus what committed fills handed out is what committed productions added
\* (service.go Produce 195-205 and FillReserves 469-547 read, change and write
\* the row in separate statements, under FOR UPDATE).
NoLostUpdate == \A s \in Sku : available[s] + granted[s] = produced[s]

\* Only one process creates products, so no two CreateProduct calls race.
SingleCreator == \A p, q \in Creators : p = q

\* What keeps NoLostUpdate true with a single creator: a product being created
\* is not there yet, a product being written is, and one that is not there has
\* no stock.
CreationIsFresh ==
  /\ \A p \in Proc : pc[p] \in {"c_update", "c_insert", "c_commit"} =>
       p \in Creators /\ req[p].sku \notin products
  /\ \A p \in Proc : pc[p] \in {"p_event", "p_fk", "p_lock", "p_commit", "p_pub",
                               "r_find", "r_insert", "r_commit",
                               "f_begin", "f_row", "f_loop"} =>
       req[p].sku \in products
  /\ \A s \in Sku \ products : produced[s] = 0 /\ granted[s] = 0

\* A reservation never holds more than was asked for, and it is Closed exactly
\* when it holds all of it (FillReserves 498-507).
ReservationsSound ==
  \A r \in ReqId :
    LET row == reservations[r] IN
    /\ row.reserved <= row.requested
    /\ row.state = "Closed" <=> (row.reserved = row.requested /\ row.requested > 0)
    /\ row.state = "None" <=> row.requested = 0

\* First come, first served, as far as the clocks of the replicas allow: stock
\* goes to a reservation only after every one is complete that was there when it
\* came in and has an earlier stamp.  A reservation stamped by a slow clock may
\* pass others, but no interleaving of reservations and fills makes two change
\* places whose stamps agree with the order they came in (ORDER BY created in
\* repository.go 256, over the snapshot and the row locks of FillReserves).
FillOrder ==
  \A r \in ReqId : reservations[r].reserved > 0 =>
    \A x \in ahead[r] : reservations[x].state = "Closed"

\* When nothing is in flight, a product does not have both free stock and an
\* open reservation, unless a fill that was due failed or met the LIMIT: the
\* calls of FillReserves after Produce (214) and Reserve (285) suffice,
\* however the two interleave.
NoStrandedStock ==
  AllIdle => \A s \in Sku \ missed : available[s] > 0 =>
               \A r \in ReqId : ~(reservations[r].sku = s /\ reservations[r].state = "Open")

Holds(p, table, key, mode) == <<table, key, p, mode>> \in locks

\* No two processes hold conflicting locks on a row.
LocksExclusive ==
  \A table \in Table, key \in Sku \cup ReqId, p, q \in Proc, m, n \in Mode :
    p # q /\ Holds(p, table, key, m) /\ Holds(q, table, key, n) => ~Conflict(m, n)

\* What a call in flight has locked, and that its local copies are current.
CallConsistent(p) ==
  LET s == req[p].sku
      x == req[p].rid
  IN
  /\ pc[p] \in {"p_event", "p_fk", "p_lock", "p_commit",
                "r_lock", "r_find", "r_insert", "r_commit"} => req[p].qty > 0
  /\ pc[p] \in {"p_fk", "p_lock", "p_commit"} =>
       Holds(p, "event", x, "Update") /\ events[x].qty = 0
  /\ pc[p] = "r_commit" =>
       Holds(p, "reservation", x, "Update") /\ reservations[x].state = "None"
  /\ pc[p] = "c_commit" =>
       Holds(p, "product", s, "Update") \/ Holds(p, "product", s, "NoKeyUpdate")
  /\ pc[p] \in {"p_commit", "f_loop"} => Holds(p, "product", s, "Update")
  /\ pc[p] = "p_commit" => avail[p] = available[s]
  /\ pc[p] = "f_loop" => avail[p] + given[p] = available[s]
  /\ pc[p] \notin {"f_row", "f_loop"} => rows[p] = {}
  /\ pc[p] # "f_loop" => given[p] = 0 /\ \A r \in ReqId : got[p][r] = 0
  /\ \A r \in rows[p] :
       /\ Holds(p, "reservation", r, "Update")
       /\ reservations[r].state = "Open" /\ got[p][r] = 0
  /\ \A r \in ReqId : got[p][r] > 0 =>
       /\ Holds(p, "reservation", r, "Update")
       /\ reservations[r].state = "Open"
       /\ reservations[r].reserved + got[p][r] <= reservations[r].requested

\* Two-phase locking works: no two calls hold conflicting locks, and what a
\* call has read under a lock (available, the open reservations, the absence
\* of its request id) is still what the tables hold when it writes.
LocksProtectReads == LocksExclusive /\ \A p \in Proc : CallConsistent(p)

\* Committed rows only move forward: an event never changes, a reservation
\* keeps its product, quantity and place in the queue, never gives stock back
\* and never reopens (UpdateReservation is the only update, repository.go 209).
RowsMoveForward ==
  [][/\ \A r \in ReqId : events[r].qty # 0 => events'[r] = events[r]
     /\ \A r \in ReqId : reservations[r].state # "None" =>
          /\ reservations'[r].sku = reservations[r].sku
          /\ reservations'[r].requested = reservations[r].requested
          /\ reservations'[r].created = reservations[r].created
          /\ reservations'[r].reserved >= reservations[r].reserved
          /\ reservations[r].state = "Closed" => reservations'[r].state = "Closed"
    ]_vars

\* No stock is handed out in silence: the quantity a reservation holds has been
\* handed to the queue and to the notifiers, whatever failed around it, because
\* FillReserves publishes before it commits (service.go 536-549).
CommittedFillsPublished ==
  \A r \in ReqId : reservations[r].reserved > 0 => reservations[r].reserved \in told[r]

\* Creating a product that exists writes nothing (the "product already exists"
\* case of TestCreateProduct wants no SaveProduct and no SaveProductInventory).
ExistingProductUntouched ==
  [][\A p \in Proc : CreateCommit(p) => req[p].sku \notin products]_vars

\* What a reservation holds, and what a production event brought in, of s
HeldOf(s) == [r \in ReqId |-> IF reservations[r].sku = s THEN reservations[r].reserved ELSE 0]
MadeOf(s) == [r \in ReqId |-> IF events[r].sku = s THEN events[r].qty ELSE 0]

\* Units are conserved across the three tables: what a product has available
\* plus what its reservations hold is what its production events brought in,
\* so no request_id is applied twice and no unit is handed out twice
\* (service.go Produce 191-205 and FillReserves 494-547).
StockConserved ==
  \A s \in Sku : available[s] + SumFunction(HeldOf(s)) = SumFunction(MadeOf(s))

Ledger == INSTANCE StockLedger WITH
  known <- products,
  free  <- available,
  queue <- [s \in Sku |-> Queue(s)],
  time  <- [r \in ReqId |-> reservations[r].created],
  asked <- [r \in ReqId |-> reservations[r].requested],
  held  <- [r \in ReqId |-> reservations[r].reserved],
  made  <- [r \in ReqId |-> events[r].qty]

\* The service is a ledger with atomic operations that serves reservations in
\* the order of their stamps: the statements, row locks, deadlocks, aborts and
\* lost commit replies of concurrent calls show nothing but whole operations of
\* StockLedger.  A fill that works on a stale list of reservations, meets its
\* LIMIT or fails just serves less of the queue, never out of turn among those
\* it could know (service.go 96-290, 447-552).
ImplementsLedger == Ledger!Spec

\* Every service call returns: waiting for row locks never lasts for ever,
\* because every cycle of waiters loses a member.
CallsReturn == \A p \in Proc : (pc[p] # "idle") ~> (pc[p] = "idle")
=============================================================================
