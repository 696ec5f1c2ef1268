--------------------------- MODULE InventoryProofs ---------------------------
(***************************************************************************)
(* Proofs about Inventory, for every number of requests, products, request *)
(* ids and quantities: its invariants, that it implements StockLedger, and *)
(* that units are conserved.                                               *)
(***************************************************************************)
EXTENDS Inventory, FiniteSetTheorems, TLAPS

IInv == TypeOK /\ LocksProtectReads /\ ReservationsSound

\* The placeholders for "no request" have the types of their variables.
LEMMA NoReqType == NoReq \in [sku : Sku, rid : ReqId, qty : Nat] /\ AnySku \in Sku
  BY ConstantsAssumption DEF NoReq, AnySku

\* The initial states satisfy the invariant.
LEMMA InitIInv == Init => IInv
  <1> SUFFICES ASSUME Init PROVE IInv
    OBVIOUS
  <1> USE ConstantsAssumption, NoReqType DEF Init
  <1>1. TypeOK
    BY DEF TypeOK, NoRes, NoEvt, Reservation, State, Pc
  <1>2. LocksProtectReads
    BY DEF LocksProtectReads, LocksExclusive, CallConsistent, Holds
  <1>3. ReservationsSound
    BY DEF ReservationsSound, NoRes
  <1>4. QED
    BY <1>1, <1>2, <1>3 DEF IInv

\* Taking a lock that is free and letting all of a process's locks go keep
\* the locks exclusive.
LEMMA AcquireExclusive ==
  ASSUME TypeOK, LocksExclusive,
         NEW p \in Proc, NEW table \in Table, NEW key \in Sku \cup ReqId,
         NEW mode \in Mode, Acquire(p, table, key, mode)
  PROVE  /\ LocksExclusive'
         /\ locks' \subseteq Table \X (Sku \cup ReqId) \X Proc \X Mode
  BY DEF LocksExclusive, Acquire, Free, Holds, Conflict, TypeOK

\* A commit or rollback lets its own locks go and no one else's.
LEMMA ReleaseExclusive ==
  ASSUME TypeOK, LocksExclusive, NEW p \in Proc, locks' = Released(p)
  PROVE  /\ LocksExclusive'
         /\ locks' \subseteq Table \X (Sku \cup ReqId) \X Proc \X Mode
         /\ \A q \in Proc \ {p}, table \in Table, key \in Sku \cup ReqId, m \in Mode :
              Holds(q, table, key, m) => Holds(q, table, key, m)'
  BY DEF LocksExclusive, Released, Holds, TypeOK

\* A call does not notice a step that leaves its local variables, its locks and
\* the tables alone.
LEMMA Frame ==
  ASSUME IInv, NEW q \in Proc,
         pc'[q] = pc[q], req'[q] = req[q], avail'[q] = avail[q],
         rows'[q] = rows[q], got'[q] = got[q], given'[q] = given[q],
         UNCHANGED <<available, events, reservations>>,
         \A table \in Table, key \in Sku \cup ReqId, m \in Mode :
           Holds(q, table, key, m) => Holds(q, table, key, m)'
  PROVE  CallConsistent(q)'
  BY DEF IInv, TypeOK, LocksProtectReads, CallConsistent, Table, Mode

\* A call that has not reached the fill advances to a statement whose locks it
\* holds.
LEMMA Advance ==
  ASSUME IInv, NEW p \in Proc, pc[p] \notin {"f_row", "f_loop"},
         pc'[p] \in {"c_insert", "c_commit", "p_fk", "r_find", "r_insert", "r_commit"},
         UNCHANGED <<req, rows, got, given, events, reservations>>,
         pc'[p] \notin {"c_insert", "c_commit"} => req[p].qty > 0,
         pc'[p] = "p_fk" =>
           Holds(p, "event", req[p].rid, "Update")' /\ events[req[p].rid].qty = 0,
         pc'[p] = "r_commit" =>
           /\ Holds(p, "reservation", req[p].rid, "Update")'
           /\ reservations[req[p].rid].state = "None",
         pc'[p] = "c_commit" =>
           \/ Holds(p, "product", req[p].sku, "Update")'
           \/ Holds(p, "product", req[p].sku, "NoKeyUpdate")'
  PROVE  CallConsistent(p)'
  <1>1. rows[p] = {} /\ given[p] = 0 /\ \A r \in ReqId : got[p][r] = 0
    BY DEF IInv, LocksProtectReads, CallConsistent
  <1>2. QED
    BY <1>1 DEF CallConsistent, Holds

\* A failed call leaves the tables alone and keeps the invariant.
LEMMA FailIInv ==
  ASSUME IInv, NEW p \in Proc, Fail(p), faults' \in Nat
  PROVE  IInv'
  <1> USE DEF Fail, Return, ClearLocal, Goto, db, ledger
  <1>1. LocksExclusive' /\ locks' \subseteq Table \X (Sku \cup ReqId) \X Proc \X Mode
    BY ReleaseExclusive DEF IInv, LocksProtectReads
  <1>2. TypeOK'
    BY <1>1, NoReqType DEF IInv, TypeOK, Pc
  <1>3. ASSUME NEW q \in Proc PROVE CallConsistent(q)'
    <2>1. CASE q = p
      BY <2>1 DEF IInv, TypeOK, CallConsistent
    <2>2. CASE q # p
      BY <2>2, ReleaseExclusive, Frame DEF IInv, TypeOK, LocksProtectReads
    <2>3. QED BY <2>1, <2>2
  <1>4. ReservationsSound'
    BY DEF IInv, ReservationsSound
  <1>5. QED
    BY <1>1, <1>2, <1>3, <1>4 DEF IInv, LocksProtectReads

\* So does a call that returns without having written anything.
LEMMA ReturnIInv ==
  ASSUME IInv, NEW p \in Proc, Return(p), UNCHANGED <<db, told, ledger, missed, faults>>
  PROVE  IInv'
  <1> USE DEF Return, ClearLocal, Goto, db, ledger
  <1>1. LocksExclusive' /\ locks' \subseteq Table \X (Sku \cup ReqId) \X Proc \X Mode
    BY ReleaseExclusive DEF IInv, LocksProtectReads
  <1>2. TypeOK'
    BY <1>1, NoReqType DEF IInv, TypeOK, Pc
  <1>3. ASSUME NEW q \in Proc PROVE CallConsistent(q)'
    <2>1. CASE q = p
      BY <2>1 DEF IInv, TypeOK, CallConsistent
    <2>2. CASE q # p
      BY <2>2, ReleaseExclusive, Frame DEF IInv, TypeOK, LocksProtectReads
    <2>3. QED BY <2>1, <2>2
  <1>4. ReservationsSound'
    BY DEF IInv, ReservationsSound
  <1>5. QED
    BY <1>1, <1>2, <1>3, <1>4 DEF IInv, LocksProtectReads

\* The first step of a call reads, and takes no lock.
LEMMA CallIInv ==
  ASSUME IInv, NEW p \in Proc, Call(p)
  PROVE  IInv'
  <1> USE DEF Goto, db, local, ledger
  <1> DEFINE Begun(l, s, r, n) ==
        /\ pc' = [pc EXCEPT ![p] = l]
        /\ req' = [req EXCEPT ![p] = [sku |-> s, rid |-> r, qty |-> n]]
        /\ l # "c_update" => n > 0
  <1> DEFINE Outcome ==
        \/ UNCHANGED <<pc, req>>
        \/ \E l \in {"c_update", "p_event", "r_lock"}, s \in Sku, r \in ReqId, n \in Nat :
             Begun(l, s, r, n)
  <1>a. /\ pc[p] = "idle" /\ calls' = calls + 1
        /\ UNCHANGED <<db, locks, local, told, ledger, missed, faults>>
    BY DEF Call, CreateProduct, Produce, Reserve
  <1>b. Outcome
    <2>1. ASSUME NEW s \in Sku, CreateProduct(p, s) PROVE Outcome
      BY <2>1, NoReqType DEF CreateProduct
    <2>2. ASSUME NEW s \in Sku, NEW r \in ReqId, NEW n \in Qty, Produce(p, s, r, n)
          PROVE  Outcome
      BY <2>2, ConstantsAssumption DEF Produce
    <2>3. ASSUME NEW s \in Sku, NEW r \in ReqId, NEW n \in Qty, Reserve(p, s, r, n)
          PROVE  Outcome
      BY <2>3, ConstantsAssumption DEF Reserve
    <2>4. QED BY <2>1, <2>2, <2>3 DEF Call
  <1>1. LocksExclusive'
    BY <1>a DEF IInv, LocksProtectReads, LocksExclusive, Holds
  <1>2. TypeOK'
    <2>1. pc' \in [Proc -> Pc] /\ req' \in [Proc -> [sku : Sku, rid : ReqId, qty : Nat]]
      <3>1. CASE UNCHANGED <<pc, req>>
        BY <3>1 DEF IInv, TypeOK
      <3>2. ASSUME NEW l \in {"c_update", "p_event", "r_lock"}, NEW s \in Sku,
                   NEW r \in ReqId, NEW n \in Nat, Begun(l, s, r, n)
            PROVE  /\ pc' \in [Proc -> Pc]
                   /\ req' \in [Proc -> [sku : Sku, rid : ReqId, qty : Nat]]
        BY <3>2 DEF IInv, TypeOK, Pc, TxPc
      <3>3. QED BY <1>b, <3>1, <3>2
    <2>2. QED
      BY <1>a, <2>1 DEF IInv, TypeOK
  <1>3. ASSUME NEW q \in Proc PROVE CallConsistent(q)'
    <2>1. CASE q = p
      <3>1. CallConsistent(p)
        BY DEF IInv, LocksProtectReads
      <3>2. CASE UNCHANGED <<pc, req>>
        BY <1>a, <2>1, <3>1, <3>2 DEF CallConsistent, Holds
      <3>3. ASSUME NEW l \in {"c_update", "p_event", "r_lock"}, NEW s \in Sku,
                   NEW r \in ReqId, NEW n \in Nat, Begun(l, s, r, n)
            PROVE  CallConsistent(p)'
        BY <1>a, <3>1, <3>3 DEF IInv, TypeOK, CallConsistent, Holds
      <3>4. QED
        BY <1>b, <2>1, <3>2, <3>3
    <2>2. CASE q # p
      BY <1>a, <1>b, <2>2, Frame DEF IInv, TypeOK, Holds
    <2>3. QED BY <2>1, <2>2
  <1>4. ReservationsSound'
    BY <1>a DEF IInv, ReservationsSound
  <1>5. QED
    BY <1>1, <1>2, <1>3, <1>4 DEF IInv, LocksProtectReads

\* Locking the product on behalf of the foreign key.
LEMMA ProduceForeignKeyIInv ==
  ASSUME IInv, NEW p \in Proc, ProduceForeignKey(p)
  PROVE  IInv'
  <1> USE DEF ProduceForeignKey, Goto, db, local, ledger
  <1>1. LocksExclusive' /\ locks' \subseteq Table \X (Sku \cup ReqId) \X Proc \X Mode
    BY AcquireExclusive DEF IInv, LocksProtectReads, TypeOK, Table, Mode
  <1>2. TypeOK'
    BY <1>1, ConstantsAssumption DEF IInv, TypeOK, Pc, TxPc, Acquire
  <1>3. ASSUME NEW q \in Proc PROVE CallConsistent(q)'
    <2>1. CASE q = p
      BY <2>1, ZenonT(30) DEF IInv, TypeOK, LocksProtectReads, CallConsistent, Holds, Acquire
    <2>2. CASE q # p
      BY <2>2, Frame DEF IInv, TypeOK, Holds, Acquire
    <2>3. QED BY <2>1, <2>2
  <1>4. ReservationsSound'
    BY DEF IInv, ReservationsSound
  <1>5. QED
    BY <1>1, <1>2, <1>3, <1>4 DEF IInv, LocksProtectReads

\* Reading the inventory row FOR UPDATE makes the local copy current.
LEMMA ProduceLockIInv ==
  ASSUME IInv, NEW p \in Proc, ProduceLock(p)
  PROVE  IInv'
  <1> USE DEF ProduceLock, Goto, db, local, ledger
  <1>1. LocksExclusive' /\ locks' \subseteq Table \X (Sku \cup ReqId) \X Proc \X Mode
    BY AcquireExclusive DEF IInv, LocksProtectReads, TypeOK, Table, Mode
  <1>2. TypeOK'
    BY <1>1, ConstantsAssumption DEF IInv, TypeOK, Pc, TxPc, Acquire
  <1>3. ASSUME NEW q \in Proc PROVE CallConsistent(q)'
    <2>1. CASE q = p
      BY <2>1, ZenonT(30) DEF IInv, TypeOK, LocksProtectReads, CallConsistent, Holds, Acquire
    <2>2. CASE q # p
      BY <2>2, Frame DEF IInv, TypeOK, Holds, Acquire
    <2>3. QED BY <2>1, <2>2
  <1>4. ReservationsSound'
    BY DEF IInv, ReservationsSound
  <1>5. QED
    BY <1>1, <1>2, <1>3, <1>4 DEF IInv, LocksProtectReads

\* Publishing touches no table.
LEMMA ProducePublishIInv ==
  ASSUME IInv, NEW p \in Proc, ProducePublish(p)
  PROVE  IInv'
  <1> USE DEF ProducePublish, Goto, db, local, ledger
  <1>1. LocksExclusive'
    BY DEF IInv, LocksProtectReads, LocksExclusive, Holds
  <1>2. TypeOK'
    BY ConstantsAssumption DEF IInv, TypeOK, Pc, TxPc
  <1>3. ASSUME NEW q \in Proc PROVE CallConsistent(q)'
    <2>1. CASE q = p
      BY <2>1, ZenonT(30) DEF IInv, TypeOK, LocksProtectReads, CallConsistent, Holds, Acquire
    <2>2. CASE q # p
      BY <2>2, Frame DEF IInv, TypeOK, Holds, Acquire
    <2>3. QED BY <2>1, <2>2
  <1>4. ReservationsSound'
    BY DEF IInv, ReservationsSound
  <1>5. QED
    BY <1>1, <1>2, <1>3, <1>4 DEF IInv, LocksProtectReads

\* The snapshot of the open reservations.
LEMMA FillBeginIInv ==
  ASSUME IInv, NEW p \in Proc, FillBegin(p)
  PROVE  IInv'
  <1> USE DEF FillBegin, Goto, db, local, ledger
  <1>1. LocksExclusive'
    BY DEF IInv, LocksProtectReads, LocksExclusive, Holds
  <1>2. TypeOK'
    BY ConstantsAssumption DEF IInv, TypeOK, Pc, TxPc
  <1>3. ASSUME NEW q \in Proc PROVE CallConsistent(q)'
    <2>1. CASE q = p
      BY <2>1 DEF IInv, TypeOK, LocksProtectReads, CallConsistent, Holds, Acquire
    <2>2. CASE q # p
      BY <2>2, Frame DEF IInv, TypeOK, Holds, Acquire
    <2>3. QED BY <2>1, <2>2
  <1>4. ReservationsSound'
    BY DEF IInv, ReservationsSound
  <1>5. QED
    BY <1>1, <1>2, <1>3, <1>4 DEF IInv, LocksProtectReads

\* A row joins the list only locked and still Open.
LEMMA FillLockRowIInv ==
  ASSUME IInv, NEW p \in Proc, FillLockRow(p)
  PROVE  IInv'
  <1> USE DEF FillLockRow, Goto, db, local, ledger
  <1>1. LocksExclusive' /\ locks' \subseteq Table \X (Sku \cup ReqId) \X Proc \X Mode
    BY AcquireExclusive DEF IInv, LocksProtectReads, TypeOK, Table, Mode
  <1>2. TypeOK'
    BY <1>1, ConstantsAssumption DEF IInv, TypeOK, Pc, TxPc, Acquire
  <1>3. ASSUME NEW q \in Proc PROVE CallConsistent(q)'
    <2>1. CASE q = p
      <3>1. CallConsistent(p)
        BY DEF IInv, LocksProtectReads
      <3>2. \A x \in rows'[p] : /\ Holds(p, "reservation", x, "Update")'
                               /\ reservations'[x].state = "Open" /\ got'[p][x] = 0
        BY <3>1 DEF IInv, TypeOK, CallConsistent, Holds, Acquire
      <3>3. QED
        BY <2>1, <3>1, <3>2 DEF CallConsistent, Holds, Acquire
    <2>2. CASE q # p
      BY <2>2, Frame DEF IInv, TypeOK, Holds, Acquire
    <2>3. QED BY <2>1, <2>2
  <1>4. ReservationsSound'
    BY DEF IInv, ReservationsSound
  <1>5. QED
    BY <1>1, <1>2, <1>3, <1>4 DEF IInv, LocksProtectReads

\* Reading the inventory row for the fill loop.
LEMMA FillReadInventoryIInv ==
  ASSUME IInv, NEW p \in Proc, FillReadInventory(p)
  PROVE  IInv'
  <1> USE DEF FillReadInventory, Goto, db, local, ledger
  <1>1. LocksExclusive' /\ locks' \subseteq Table \X (Sku \cup ReqId) \X Proc \X Mode
    BY AcquireExclusive DEF IInv, LocksProtectReads, TypeOK, Table, Mode
  <1>2. TypeOK'
    BY <1>1, ConstantsAssumption DEF IInv, TypeOK, Pc, TxPc, Acquire
  <1>3. ASSUME NEW q \in Proc PROVE CallConsistent(q)'
    <2>1. CASE q = p
      <3>1. CallConsistent(p)
        BY DEF IInv, LocksProtectReads
      <3>2. avail'[p] + given'[p] = available'[req'[p].sku]
        BY <3>1 DEF IInv, TypeOK, CallConsistent
      <3>3. Holds(p, "product", req[p].sku, "Update")'
        BY DEF Holds, Acquire
      <3>4. pc'[p] = "f_loop"
        BY DEF IInv, TypeOK
      <3>5. QED
        BY <2>1, <3>1, <3>2, <3>3, <3>4 DEF CallConsistent, Holds, Acquire
    <2>2. CASE q # p
      BY <2>2, Frame DEF IInv, TypeOK, Holds, Acquire
    <2>3. QED BY <2>1, <2>2
  <1>4. ReservationsSound'
    BY DEF IInv, ReservationsSound
  <1>5. QED
    BY <1>1, <1>2, <1>3, <1>4 DEF IInv, LocksProtectReads

\* One iteration moves units from the local stock to a locked reservation.
LEMMA FillOneIInv ==
  ASSUME IInv, NEW p \in Proc, FillOne(p)
  PROVE  IInv'
  <1> PICK r \in rows[p] :
        /\ avail' = [avail EXCEPT ![p] = @ - ReserveAmount(p, r)]
        /\ got'   = [got EXCEPT ![p][r] = ReserveAmount(p, r)]
        /\ given' = [given EXCEPT ![p] = @ + ReserveAmount(p, r)]
        /\ rows'  = [rows EXCEPT ![p] = @ \ {r}]
        /\ told'  = [told EXCEPT ![r] = @ \cup {reservations[r].reserved + ReserveAmount(p, r)}]
    BY DEF FillOne
  <1> DEFINE n == ReserveAmount(p, r)
  <1>u. pc[p] = "f_loop" /\ UNCHANGED <<db, locks, pc, req, todo, stamp, ledger, missed, calls, faults>>
    BY DEF FillOne
  <1>r. r \in ReqId /\ reservations[r] \in Reservation
    BY DEF IInv, TypeOK
  <1>n. /\ n \in Nat /\ n <= avail[p]
        /\ reservations[r].reserved + n <= reservations[r].requested
    BY <1>r DEF IInv, TypeOK, ReserveAmount, Min2, ReservationsSound, Reservation
  <1> HIDE DEF n
  <1> USE <1>u DEF db, ledger, n
  <1>1. LocksExclusive'
    BY DEF IInv, LocksProtectReads, LocksExclusive, Holds
  <1>2. TypeOK'
    <2>1. reservations[r].reserved + n \in Nat /\ avail[p] - n \in Nat
      BY <1>n, <1>r DEF IInv, TypeOK, Reservation
    <2>4. /\ avail' \in [Proc -> Nat] /\ given' \in [Proc -> Nat]
          /\ got' \in [Proc -> [ReqId -> Nat]] /\ rows' \in [Proc -> SUBSET ReqId]
          /\ told' \in [ReqId -> SUBSET Nat]
      BY <1>n, <1>r, <2>1 DEF IInv, TypeOK
    <2>5. QED
      BY <2>4 DEF IInv, TypeOK
  <1>3. ASSUME NEW q \in Proc PROVE CallConsistent(q)'
    <2>1. CASE q = p
      <3> USE <2>1
      <3>1. CallConsistent(p)
        BY DEF IInv, LocksProtectReads
      <3>2. avail'[p] + given'[p] = available'[req'[p].sku]
        BY <1>n, <3>1 DEF IInv, TypeOK, CallConsistent
      <3>3. \A x \in rows'[p] : /\ Holds(p, "reservation", x, "Update")'
                               /\ reservations'[x].state = "Open" /\ got'[p][x] = 0
        BY <3>1, <1>r DEF IInv, TypeOK, CallConsistent, Holds
      <3>4. \A x \in ReqId : got'[p][x] > 0 =>
              /\ Holds(p, "reservation", x, "Update")'
              /\ reservations'[x].state = "Open"
              /\ reservations'[x].reserved + got'[p][x] <= reservations'[x].requested
        BY <3>1, <1>r, <1>n DEF IInv, TypeOK, CallConsistent, Holds
      <3>5. QED
        BY <3>1, <3>2, <3>3, <3>4 DEF CallConsistent, Holds
    <2>2. CASE q # p
      BY <2>2, Frame DEF IInv, TypeOK, Holds
    <2>3. QED BY <2>1, <2>2
  <1>4. ReservationsSound'
    BY DEF IInv, ReservationsSound
  <1>5. QED
    BY <1>1, <1>2, <1>3, <1>4 DEF IInv, LocksProtectReads

\* SaveProduct's UPDATE, which locks the row if it finds one.
LEMMA CreateUpdateIInv ==
  ASSUME IInv, NEW p \in Proc, CreateUpdate(p)
  PROVE  IInv'
  <1> USE DEF CreateUpdate, Goto, db, local, ledger
  <1>1. LocksExclusive' /\ locks' \subseteq Table \X (Sku \cup ReqId) \X Proc \X Mode
    <2>1. CASE req[p].sku \in products
      BY <2>1, AcquireExclusive DEF IInv, LocksProtectReads, TypeOK, Table, Mode
    <2>2. CASE req[p].sku \notin products
      BY <2>2 DEF IInv, LocksProtectReads, LocksExclusive, Holds, TypeOK
    <2>3. QED BY <2>1, <2>2
  <1>2. TypeOK'
    BY <1>1 DEF IInv, TypeOK, Pc, TxPc
  <1>3. ASSUME NEW q \in Proc PROVE CallConsistent(q)'
    <2>1. CASE q = p
      <3>1. pc[p] \in {"p_event", "r_lock", "r_find", "r_insert"} => req[p].qty > 0
        BY DEF IInv, LocksProtectReads, CallConsistent
      <3>2. QED
        BY <2>1, <3>1, Advance DEF IInv, TypeOK, Holds, Acquire
    <2>2. CASE q # p
      BY <2>2, Frame DEF IInv, TypeOK, Holds, Acquire
    <2>3. QED BY <2>1, <2>2
  <1>4. ReservationsSound'
    BY DEF IInv, ReservationsSound
  <1>5. QED
    BY <1>1, <1>2, <1>3, <1>4 DEF IInv, LocksProtectReads

\* SaveProduct's INSERT: fails, or holds the new key.
LEMMA CreateInsertIInv ==
  ASSUME IInv, NEW p \in Proc, CreateInsert(p)
  PROVE  IInv'
  <1>0. CASE Fail(p)
    BY <1>0, FailIInv DEF CreateInsert, IInv, TypeOK
  <1> SUFFICES ASSUME ~Fail(p) PROVE IInv'
    BY <1>0
  <1> USE DEF CreateInsert, Goto, db, local, ledger
  <1>1. LocksExclusive' /\ locks' \subseteq Table \X (Sku \cup ReqId) \X Proc \X Mode
    BY AcquireExclusive DEF IInv, LocksProtectReads, TypeOK, Table, Mode
  <1>2. TypeOK'
    BY <1>1 DEF IInv, TypeOK, Pc, TxPc
  <1>3. ASSUME NEW q \in Proc PROVE CallConsistent(q)'
    <2>1. CASE q = p
      <3>1. pc[p] \in {"p_event", "r_lock", "r_find", "r_insert"} => req[p].qty > 0
        BY DEF IInv, LocksProtectReads, CallConsistent
      <3>2. QED
        BY <2>1, <3>1, Advance DEF IInv, TypeOK, Holds, Acquire
    <2>2. CASE q # p
      BY <2>2, Frame DEF IInv, TypeOK, Holds, Acquire
    <2>3. QED BY <2>1, <2>2
  <1>4. ReservationsSound'
    BY DEF IInv, ReservationsSound
  <1>5. QED
    BY <1>1, <1>2, <1>3, <1>4 DEF IInv, LocksProtectReads

\* SaveProductionEvent: fails, or holds a request id no event has.
LEMMA ProduceEventIInv ==
  ASSUME IInv, NEW p \in Proc, ProduceEvent(p)
  PROVE  IInv'
  <1>0. CASE Fail(p)
    BY <1>0, FailIInv DEF ProduceEvent, IInv, TypeOK
  <1> SUFFICES ASSUME ~Fail(p) PROVE IInv'
    BY <1>0
  <1> USE DEF ProduceEvent, Goto, db, local, ledger
  <1>1. LocksExclusive' /\ locks' \subseteq Table \X (Sku \cup ReqId) \X Proc \X Mode
    BY AcquireExclusive DEF IInv, LocksProtectReads, TypeOK, Table, Mode
  <1>2. TypeOK'
    BY <1>1 DEF IInv, TypeOK, Pc, TxPc
  <1>3. ASSUME NEW q \in Proc PROVE CallConsistent(q)'
    <2>1. CASE q = p
      <3>1. pc[p] \in {"p_event", "r_lock", "r_find", "r_insert"} => req[p].qty > 0
        BY DEF IInv, LocksProtectReads, CallConsistent
      <3>2. QED
        BY <2>1, <3>1, Advance DEF IInv, TypeOK, Holds, Acquire
    <2>2. CASE q # p
      BY <2>2, Frame DEF IInv, TypeOK, Holds, Acquire
    <2>3. QED BY <2>1, <2>2
  <1>4. ReservationsSound'
    BY DEF IInv, ReservationsSound
  <1>5. QED
    BY <1>1, <1>2, <1>3, <1>4 DEF IInv, LocksProtectReads

\* GetProduct ... FOR UPDATE: fails, or holds the product.
LEMMA ReserveLockIInv ==
  ASSUME IInv, NEW p \in Proc, ReserveLock(p)
  PROVE  IInv'
  <1>0. CASE Fail(p)
    BY <1>0, FailIInv DEF ReserveLock, IInv, TypeOK
  <1> SUFFICES ASSUME ~Fail(p) PROVE IInv'
    BY <1>0
  <1> USE DEF ReserveLock, Goto, db, local, ledger
  <1>1. LocksExclusive' /\ locks' \subseteq Table \X (Sku \cup ReqId) \X Proc \X Mode
    BY AcquireExclusive DEF IInv, LocksProtectReads, TypeOK, Table, Mode
  <1>2. TypeOK'
    BY <1>1 DEF IInv, TypeOK, Pc, TxPc
  <1>3. ASSUME NEW q \in Proc PROVE CallConsistent(q)'
    <2>1. CASE q = p
      <3>1. pc[p] \in {"p_event", "r_lock", "r_find", "r_insert"} => req[p].qty > 0
        BY DEF IInv, LocksProtectReads, CallConsistent
      <3>2. QED
        BY <2>1, <3>1, Advance DEF IInv, TypeOK, Holds, Acquire
    <2>2. CASE q # p
      BY <2>2, Frame DEF IInv, TypeOK, Holds, Acquire
    <2>3. QED BY <2>1, <2>2
  <1>4. ReservationsSound'
    BY DEF IInv, ReservationsSound
  <1>5. QED
    BY <1>1, <1>2, <1>3, <1>4 DEF IInv, LocksProtectReads

\* SaveReservation: fails, or holds a request id no reservation has.
LEMMA ReserveInsertIInv ==
  ASSUME IInv, NEW p \in Proc, ReserveInsert(p)
  PROVE  IInv'
  <1>0. CASE Fail(p)
    BY <1>0, FailIInv DEF ReserveInsert, IInv, TypeOK
  <1> SUFFICES ASSUME ~Fail(p) PROVE IInv'
    BY <1>0
  <1> USE DEF ReserveInsert, Goto, db, local, ledger
  <1>1. LocksExclusive' /\ locks' \subseteq Table \X (Sku \cup ReqId) \X Proc \X Mode
    BY AcquireExclusive DEF IInv, LocksProtectReads, TypeOK, Table, Mode
  <1>2. TypeOK'
    BY <1>1 DEF IInv, TypeOK, Pc, TxPc
  <1>3. ASSUME NEW q \in Proc PROVE CallConsistent(q)'
    <2>1. CASE q = p
      <3>1. pc[p] \in {"p_event", "r_lock", "r_find", "r_insert"} => req[p].qty > 0
        BY DEF IInv, LocksProtectReads, CallConsistent
      <3>2. QED
        BY <2>1, <3>1, Advance DEF IInv, TypeOK, Holds, Acquire
    <2>2. CASE q # p
      BY <2>2, Frame DEF IInv, TypeOK, Holds, Acquire
    <2>3. QED BY <2>1, <2>2
  <1>4. ReservationsSound'
    BY DEF IInv, ReservationsSound
  <1>5. QED
    BY <1>1, <1>2, <1>3, <1>4 DEF IInv, LocksProtectReads

\* GetReservationByRequestID: the call ends on a reservation it finds.
LEMMA ReserveFindIInv ==
  ASSUME IInv, NEW p \in Proc, ReserveFind(p)
  PROVE  IInv'
  <1>0. CASE Return(p)
    BY <1>0, ReturnIInv DEF ReserveFind
  <1> SUFFICES ASSUME ~Return(p) PROVE IInv'
    BY <1>0
  <1> USE DEF ReserveFind, Goto, db, local, ledger
  <1>1. LocksExclusive'
    BY DEF IInv, LocksProtectReads, LocksExclusive, Holds
  <1>2. TypeOK'
    BY ConstantsAssumption DEF IInv, TypeOK, Pc, TxPc
  <1>3. ASSUME NEW q \in Proc PROVE CallConsistent(q)'
    <2>1. CASE q = p
      <3>1. pc[p] \in {"p_event", "r_lock", "r_find", "r_insert"} => req[p].qty > 0
        BY DEF IInv, LocksProtectReads, CallConsistent
      <3>2. QED
        BY <2>1, <3>1, Advance DEF IInv, TypeOK, Holds
    <2>2. CASE q # p
      BY <2>2, Frame DEF IInv, TypeOK, Holds
    <2>3. QED BY <2>1, <2>2
  <1>4. ReservationsSound'
    BY DEF IInv, ReservationsSound
  <1>5. QED
    BY <1>1, <1>2, <1>3, <1>4 DEF IInv, LocksProtectReads

\* A commit changes only rows its process has locked, so no other call's copies
\* go stale.
LEMMA CommitFrame ==
  ASSUME IInv, NEW p \in Proc, NEW q \in Proc, q # p,
         pc'[q] = pc[q], req'[q] = req[q], avail'[q] = avail[q],
         rows'[q] = rows[q], got'[q] = got[q], given'[q] = given[q],
         locks' = Released(p),
         \A s \in Sku : available'[s] # available[s] =>
           Holds(p, "product", s, "Update") \/ Holds(p, "product", s, "NoKeyUpdate"),
         \A r \in ReqId : events'[r] # events[r] => Holds(p, "event", r, "Update"),
         \A r \in ReqId : reservations'[r] # reservations[r] =>
           Holds(p, "reservation", r, "Update")
  PROVE  CallConsistent(q)'
  <1>1. \A s \in Sku : Holds(q, "product", s, "Update") => available'[s] = available[s]
    BY DEF IInv, LocksProtectReads, LocksExclusive, Conflict, Table, Mode
  <1>2. \A r \in ReqId : Holds(q, "event", r, "Update") => events'[r] = events[r]
    BY DEF IInv, LocksProtectReads, LocksExclusive, Conflict, Table, Mode
  <1>3. \A r \in ReqId : Holds(q, "reservation", r, "Update") =>
                          reservations'[r] = reservations[r]
    BY DEF IInv, LocksProtectReads, LocksExclusive, Conflict, Table, Mode
  <1>4. \A table \in Table, key \in Sku \cup ReqId, m \in Mode :
          Holds(q, table, key, m) => Holds(q, table, key, m)'
    BY ReleaseExclusive DEF IInv, LocksProtectReads
  <1>5. CallConsistent(q) /\ req[q].sku \in Sku /\ req[q].rid \in ReqId /\ rows[q] \subseteq ReqId
    BY DEF IInv, LocksProtectReads, TypeOK
  <1>6. QED
    BY <1>1, <1>2, <1>3, <1>4, <1>5 DEF CallConsistent, Table, Mode

\* A call that is not filling has nothing locked that matters.
LEMMA AtRest ==
  ASSUME NEW p \in Proc,
         pc'[p] \in {"idle", "p_pub", "f_begin"}, rows'[p] = {}, given'[p] = 0,
         \A r \in ReqId : got'[p][r] = 0
  PROVE  CallConsistent(p)'
  BY DEF CallConsistent

\* CreateProduct's commit resets a row whose lock it holds, so no other call
\* has a copy of it.
LEMMA CreateCommitIInv ==
  ASSUME IInv, NEW p \in Proc, CreateCommit(p)
  PROVE  IInv'
  <1> USE DEF CreateCommit, Return, ClearLocal, Goto, ledger
  <1>0. CallConsistent(p)
    BY DEF IInv, LocksProtectReads
  <1>1. LocksExclusive' /\ locks' \subseteq Table \X (Sku \cup ReqId) \X Proc \X Mode
    BY ReleaseExclusive DEF IInv, LocksProtectReads
  <1>2. TypeOK'
    BY <1>1, NoReqType DEF IInv, TypeOK, Pc
  <1>3. ASSUME NEW q \in Proc PROVE CallConsistent(q)'
    <2>1. CASE q = p
      BY <2>1, AtRest DEF IInv, TypeOK
    <2>2. CASE q # p
      BY <1>0, <2>2, CommitFrame DEF IInv, TypeOK, CallConsistent
    <2>3. QED BY <2>1, <2>2
  <1>4. ReservationsSound'
    BY DEF IInv, ReservationsSound
  <1>5. QED
    BY <1>1, <1>2, <1>3, <1>4 DEF IInv, LocksProtectReads

\* The production transaction, whatever becomes of the call that ran it.
LEMMA ProduceTxIInv ==
  ASSUME IInv, NEW p \in Proc, ProduceTx(p), ProduceCommit(p) \/ CommitReplyLost(p)
  PROVE  IInv'
  <1> USE DEF ProduceTx, ProduceCommit, CommitReplyLost, Return, ClearLocal, Goto, ledger, Fault
  <1>0. CallConsistent(p)
    BY DEF IInv, LocksProtectReads
  <1>l. locks' = Released(p)
    OBVIOUS
  <1>1. LocksExclusive' /\ locks' \subseteq Table \X (Sku \cup ReqId) \X Proc \X Mode
    BY <1>l, ReleaseExclusive DEF IInv, LocksProtectReads
  <1>t. /\ products' = products /\ reservations' = reservations /\ ahead' = ahead
        /\ available' \in [Sku -> Nat] /\ events' \in [ReqId -> [sku : Sku, qty : Nat]]
        /\ produced' \in [Sku -> Nat] /\ granted' = granted
    BY DEF IInv, TypeOK
  <1>2. TypeOK'
    <2>1. CASE ProduceCommit(p)
      BY <2>1, <1>1, <1>t DEF IInv, TypeOK, Pc
    <2>2. CASE CommitReplyLost(p)
      BY <2>2, <1>1, <1>t, NoReqType DEF IInv, TypeOK, Pc
    <2>3. QED BY <2>1, <2>2
  <1>3. ASSUME NEW q \in Proc PROVE CallConsistent(q)'
    <2>1. CASE q = p
      <3>1. rows[p] = {} /\ given[p] = 0 /\ \A r \in ReqId : got[p][r] = 0
        BY <1>0 DEF CallConsistent
      <3>2. rows'[p] = {} /\ given'[p] = 0 /\ \A r \in ReqId : got'[p][r] = 0
        BY <3>1 DEF IInv, TypeOK
      <3>3. pc'[p] \in {"idle", "p_pub"}
        BY DEF IInv, TypeOK
      <3>4. QED BY <2>1, <3>2, <3>3, AtRest
    <2>2. CASE q # p
      <3>1. Holds(p, "product", req[p].sku, "Update") /\ Holds(p, "event", req[p].rid, "Update")
        BY <1>0 DEF CallConsistent
      <3>2. QED
        BY <1>l, <1>t, <3>1, <2>2, CommitFrame DEF IInv, TypeOK
    <2>3. QED BY <2>1, <2>2
  <1>4. ReservationsSound'
    BY <1>t DEF IInv, ReservationsSound
  <1>5. QED
    BY <1>1, <1>2, <1>3, <1>4 DEF IInv, LocksProtectReads

\* The reserve transaction, whatever becomes of the call that ran it.
LEMMA ReserveTxIInv ==
  ASSUME IInv, NEW p \in Proc, ReserveTx(p), ReserveCommit(p) \/ CommitReplyLost(p)
  PROVE  IInv'
  <1> USE DEF ReserveTx, ReserveCommit, CommitReplyLost, Return, ClearLocal, Goto,
              local, ledger, Fault
  <1>0. CallConsistent(p)
    BY DEF IInv, LocksProtectReads
  <1>l. locks' = Released(p)
    OBVIOUS
  <1>1. LocksExclusive' /\ locks' \subseteq Table \X (Sku \cup ReqId) \X Proc \X Mode
    BY <1>l, ReleaseExclusive DEF IInv, LocksProtectReads
  <1>t. /\ UNCHANGED <<products, available, events, produced, granted>>
        /\ reservations' \in [ReqId -> Reservation] /\ ahead' \in [ReqId -> SUBSET ReqId]
    BY DEF IInv, TypeOK, Reservation, State, Queue
  <1>2. TypeOK'
    <2>1. CASE ReserveCommit(p)
      BY <2>1, <1>1, <1>t DEF IInv, TypeOK, Pc
    <2>2. CASE CommitReplyLost(p)
      BY <2>2, <1>1, <1>t, NoReqType DEF IInv, TypeOK, Pc
    <2>3. QED BY <2>1, <2>2
  <1>3. ASSUME NEW q \in Proc PROVE CallConsistent(q)'
    <2>1. CASE q = p
      <3>1. rows[p] = {} /\ given[p] = 0 /\ \A r \in ReqId : got[p][r] = 0
        BY <1>0 DEF CallConsistent
      <3>2. rows'[p] = {} /\ given'[p] = 0 /\ \A r \in ReqId : got'[p][r] = 0
        BY <3>1 DEF IInv, TypeOK
      <3>3. pc'[p] \in {"idle", "f_begin"}
        BY DEF IInv, TypeOK
      <3>4. QED BY <2>1, <3>2, <3>3, AtRest
    <2>2. CASE q # p
      <3>1. Holds(p, "reservation", req[p].rid, "Update")
        BY <1>0 DEF CallConsistent
      <3>2. \A r \in ReqId : reservations'[r] # reservations[r] => r = req[p].rid
        BY DEF IInv, TypeOK
      <3>3. QED
        BY <1>l, <1>t, <3>1, <3>2, <2>2, CommitFrame DEF IInv, TypeOK
    <2>3. QED BY <2>1, <2>2
  <1>4. ReservationsSound'
    <2>1. req[p].qty > 0 /\ req[p].qty \in Nat
      BY <1>0 DEF IInv, TypeOK, CallConsistent
    <2>2. QED
      BY <2>1 DEF IInv, TypeOK, ReservationsSound
  <1>5. QED
    BY <1>1, <1>2, <1>3, <1>4 DEF IInv, LocksProtectReads

\* The commit of the fill installs what the loop handed out.
LEMMA FillCommitIInv ==
  ASSUME IInv, NEW p \in Proc, FillCommit(p)
  PROVE  IInv'
  <1> USE DEF FillCommit, Return, ClearLocal, Goto
  <1>0. CallConsistent(p)
    BY DEF IInv, LocksProtectReads
  <1>1. LocksExclusive' /\ locks' \subseteq Table \X (Sku \cup ReqId) \X Proc \X Mode
    BY ReleaseExclusive DEF IInv, LocksProtectReads
  <1>r. ASSUME NEW r \in ReqId
        PROVE  /\ reservations'[r] \in Reservation
               /\ reservations'[r] # reservations[r] => Holds(p, "reservation", r, "Update")
               /\ reservations'[r].reserved <= reservations'[r].requested
               /\ reservations'[r].state = "Closed" <=>
                    /\ reservations'[r].reserved = reservations'[r].requested
                    /\ reservations'[r].requested > 0
               /\ reservations'[r].state = "None" <=> reservations'[r].requested = 0
    <2>0. /\ reservations[r] \in Reservation /\ got[p][r] \in Nat
          /\ reservations[r].reserved <= reservations[r].requested
          /\ reservations[r].state = "Closed" <=>
               (reservations[r].reserved = reservations[r].requested /\ reservations[r].requested > 0)
          /\ reservations[r].state = "None" <=> reservations[r].requested = 0
      BY DEF IInv, TypeOK, ReservationsSound
    <2>1. CASE ~(got[p][r] > 0)
      BY <2>0, <2>1
    <2>2. CASE got[p][r] > 0
      <3>1. /\ Holds(p, "reservation", r, "Update") /\ reservations[r].state = "Open"
            /\ reservations[r].reserved + got[p][r] <= reservations[r].requested
        BY <1>0, <2>2 DEF CallConsistent
      <3>2. reservations'[r] = Filled(reservations[r], got[p][r])
        BY <2>2
      <3>3. QED
        BY <2>0, <2>2, <3>1, <3>2 DEF Filled, Reservation, State
    <2>3. QED BY <2>1, <2>2
  <1>t. reservations' \in [ReqId -> Reservation]
    BY <1>r
  <1>2. TypeOK'
    BY <1>1, <1>t, NoReqType DEF IInv, TypeOK, Pc
  <1>3. ASSUME NEW q \in Proc PROVE CallConsistent(q)'
    <2>1. CASE q = p
      BY <2>1, AtRest DEF IInv, TypeOK
    <2>2. CASE q # p
      <3>1. Holds(p, "product", req[p].sku, "Update")
        BY <1>0 DEF CallConsistent
      <3>2. \A s \in Sku : available'[s] # available[s] => s = req[p].sku
        BY DEF IInv, TypeOK
      <3>3. QED
        BY <1>r, <3>1, <3>2, <2>2, CommitFrame DEF IInv, TypeOK
    <2>3. QED BY <2>1, <2>2
  <1>4. ReservationsSound'
    BY <1>r DEF ReservationsSound
  <1>5. QED
    BY <1>1, <1>2, <1>3, <1>4 DEF IInv, LocksProtectReads

\* Every step keeps the invariant.
LEMMA NextIInv == IInv /\ [Next]_vars => IInv'
  <1> SUFFICES ASSUME IInv, [Next]_vars PROVE IInv'
    OBVIOUS
  <1>1. ASSUME NEW p \in Proc, Call(p) PROVE IInv'
    BY <1>1, CallIInv
  <1>2. ASSUME NEW p \in Proc, Step(p) PROVE IInv'
    <2>1. CASE ProduceOverflow(p)
      BY <2>1, FailIInv DEF ProduceOverflow, IInv, TypeOK
    <2>2. CASE ProduceCommit(p)
      BY <2>2, ProduceTxIInv DEF ProduceCommit
    <2>3. CASE ReserveCommit(p)
      BY <2>3, ReserveTxIInv DEF ReserveCommit
    <2>4. QED
      BY <1>2, <2>1, <2>2, <2>3, CreateUpdateIInv, CreateInsertIInv, CreateCommitIInv,
         ProduceEventIInv, ProduceForeignKeyIInv, ProduceLockIInv, ProducePublishIInv,
         ReserveLockIInv, ReserveFindIInv, ReserveInsertIInv, FillBeginIInv,
         FillLockRowIInv, FillReadInventoryIInv, FillOneIInv, FillCommitIInv DEF Step
  <1>3. ASSUME NEW p \in Proc, DeadlockVictim(p) PROVE IInv'
    BY <1>3, FailIInv DEF DeadlockVictim, IInv, TypeOK
  <1>4. ASSUME NEW p \in Proc, Failure(p) PROVE IInv'
    <2>1. CASE Abort(p)
      BY <2>1, FailIInv DEF Abort, Fault, IInv, TypeOK
    <2>2. CASE CommitReplyLost(p)
      BY <2>2, ProduceTxIInv, ReserveTxIInv DEF CommitReplyLost
    <2>3. QED BY <1>4, <2>1, <2>2 DEF Failure
  <1>5. CASE UNCHANGED vars
    <2> USE <1>5 DEF vars, db, local, ledger
    <2>1. TypeOK' /\ ReservationsSound'
      BY DEF IInv, TypeOK, ReservationsSound
    <2>2. LocksProtectReads'
      BY DEF IInv, LocksProtectReads, LocksExclusive, CallConsistent, Holds
    <2>3. QED BY <2>1, <2>2 DEF IInv
  <1>6. QED
    BY <1>1, <1>2, <1>3, <1>4, <1>5 DEF Next, Done

\* Every reachable state is well typed: in particular no stock and no local
\* copy of it is ever negative (the types of service.go and repository.go).
THEOREM TypeCorrect == Spec => []TypeOK
  BY InitIInv, NextIInv, PTL DEF Spec, IInv

\* What a call read under a lock is current when it writes, for every number of
\* concurrent calls (Produce 195-205, Reserve 253-281, FillReserves 464-547).
THEOREM LockingIsSound == Spec => []LocksProtectReads
  BY InitIInv, NextIInv, PTL DEF Spec, IInv

\* No reservation is over-filled, and Closed means complete (FillReserves
\* 498-507 with UpdateReservation).
THEOREM ReservationsStaySound == Spec => []ReservationsSound
  BY InitIInv, NextIInv, PTL DEF Spec, IInv

-----------------------------------------------------------------------------
(* No lost update, when no two creations of a product race. *)

LedgerInv == NoLostUpdate /\ CreationIsFresh

\* A step that installs nothing keeps the ledger: only where a call stands can
\* change, and it may enter a write only for a product that exists.
LEMMA LedgerFrame ==
  ASSUME LedgerInv, TypeOK, NEW p \in Proc,
         UNCHANGED <<products, available, produced, granted>>,
         \A q \in Proc \ {p} : pc'[q] = pc[q] /\ req'[q] = req[q],
         \/ pc'[p] \in {"idle", "r_lock"}
         \/ /\ pc'[p] \in {"c_update", "c_insert", "c_commit"}
            /\ p \in Creators /\ req'[p].sku \notin products
         \/ pc'[p] \notin {"c_update", "c_insert", "c_commit"} /\ req'[p].sku \in products
  PROVE  LedgerInv'
  <1>1. NoLostUpdate'
    BY DEF LedgerInv, NoLostUpdate
  <1>2. CreationIsFresh'
    BY DEF LedgerInv, CreationIsFresh
  <1>3. QED BY <1>1, <1>2 DEF LedgerInv

\* A failing call leaves the ledger alone.
LEMMA FailLedger ==
  ASSUME LedgerInv, TypeOK, NEW p \in Proc, Fail(p) \/ (Return(p) /\ UNCHANGED <<db, ledger>>)
  PROVE  LedgerInv'
  BY LedgerFrame DEF Fail, Return, Goto, db, ledger, TypeOK

\* The steps before the first statement of a transaction leave it alone.
LEMMA CallLedger ==
  ASSUME LedgerInv, TypeOK, NEW p \in Proc, Call(p)
  PROVE  LedgerInv'
  <1> USE DEF Goto, db, ledger
  <1>1. ASSUME NEW s \in Sku, CreateProduct(p, s) PROVE LedgerInv'
    <2>1. /\ pc'[p] \in {"idle", "c_update"} /\ p \in Creators
          /\ pc'[p] = "c_update" => req'[p].sku = s /\ s \notin products
      BY <1>1 DEF CreateProduct, TypeOK, Call
    <2>2. QED
      BY <1>1, <2>1, LedgerFrame DEF CreateProduct, TypeOK
  <1>2. ASSUME NEW s \in Sku, NEW r \in ReqId, NEW n \in Qty, Produce(p, s, r, n)
        PROVE  LedgerInv'
    <2>1. \/ pc'[p] = "idle"
          \/ pc'[p] = "p_event" /\ req'[p].sku \in products
      BY <1>2 DEF Produce, TypeOK, Call
    <2>2. /\ UNCHANGED <<products, available, produced, granted>>
          /\ \A q \in Proc \ {p} : pc'[q] = pc[q] /\ req'[q] = req[q]
      BY <1>2 DEF Produce, TypeOK
    <2>3. QED
      BY <2>1, <2>2, LedgerFrame
  <1>3. ASSUME NEW s \in Sku, NEW r \in ReqId, NEW n \in Qty, Reserve(p, s, r, n)
        PROVE  LedgerInv'
    <2>1. pc'[p] \in {"idle", "r_lock"}
      BY <1>3 DEF Reserve, TypeOK, Call
    <2>2. QED
      BY <1>3, <2>1, LedgerFrame DEF Reserve, TypeOK
  <1>4. QED BY <1>1, <1>2, <1>3 DEF Call

\* The statements before a commit.
LEMMA StatementLedger ==
  ASSUME LedgerInv, TypeOK, SingleCreator, NEW p \in Proc,
         \/ CreateUpdate(p) \/ CreateInsert(p)
         \/ ProduceEvent(p) \/ ProduceForeignKey(p) \/ ProduceLock(p) \/ ProducePublish(p)
         \/ ReserveLock(p) \/ ReserveFind(p) \/ ReserveInsert(p)
         \/ FillBegin(p) \/ FillLockRow(p) \/ FillReadInventory(p) \/ FillOne(p)
  PROVE  LedgerInv'
  <1> USE LedgerFrame, FailLedger DEF Goto, db, ledger, local, TypeOK, LedgerInv, CreationIsFresh
  <1>1. CASE CreateUpdate(p) BY <1>1 DEF CreateUpdate
  <1>2. CASE CreateInsert(p) BY <1>2 DEF CreateInsert
  <1>3. CASE ProduceEvent(p) BY <1>3 DEF ProduceEvent
  <1>4. CASE ProduceForeignKey(p) BY <1>4 DEF ProduceForeignKey
  <1>5. CASE ProduceLock(p) BY <1>5 DEF ProduceLock
  <1>6. CASE ProducePublish(p) BY <1>6 DEF ProducePublish
  <1>7. CASE ReserveLock(p) BY <1>7 DEF ReserveLock
  <1>8. CASE ReserveFind(p) BY <1>8 DEF ReserveFind
  <1>9. CASE ReserveInsert(p) BY <1>9 DEF ReserveInsert
  <1>10. CASE FillBegin(p) BY <1>10 DEF FillBegin
  <1>11. CASE FillLockRow(p) BY <1>11 DEF FillLockRow
  <1>12. CASE FillReadInventory(p) BY <1>12 DEF FillReadInventory
  <1>13. CASE FillOne(p) BY <1>13 DEF FillOne
  <1>14. QED
    BY <1>1, <1>2, <1>3, <1>4, <1>5, <1>6, <1>7, <1>8, <1>9, <1>10, <1>11, <1>12, <1>13

\* A creation starts the row at zero, which is what a product that was not
\* there already had.
LEMMA CreateCommitLedger ==
  ASSUME LedgerInv, IInv, SingleCreator, NEW p \in Proc, CreateCommit(p)
  PROVE  LedgerInv'
  <1> USE DEF CreateCommit, Return, Goto, ledger
  <1>1. p \in Creators /\ req[p].sku \in Sku \ products
    BY DEF IInv, TypeOK, LedgerInv, CreationIsFresh
  <1>2. available[req[p].sku] = 0
    BY <1>1 DEF IInv, TypeOK, LedgerInv, NoLostUpdate, CreationIsFresh
  <1>3. available' = available
    BY <1>1, <1>2 DEF IInv, TypeOK
  <1>4. NoLostUpdate'
    BY <1>3 DEF LedgerInv, NoLostUpdate
  <1>5. \A q \in Proc \ {p} : pc[q] \notin {"c_update", "c_insert", "c_commit"}
    BY <1>1 DEF LedgerInv, CreationIsFresh, SingleCreator
  <1>6. CreationIsFresh'
    BY <1>5 DEF LedgerInv, CreationIsFresh, IInv, TypeOK
  <1>7. QED BY <1>4, <1>6 DEF LedgerInv

\* A production adds the same amount to the row and to the ledger, because the
\* copy it adds to is the row.
LEMMA ProduceTxLedger ==
  ASSUME LedgerInv, IInv, NEW p \in Proc, ProduceTx(p),
         (pc' = [pc EXCEPT ![p] = "p_pub"] /\ req' = req) \/ Return(p)
  PROVE  LedgerInv'
  <1> USE DEF ProduceTx, Return, Goto
  <1>0. /\ avail[p] = available[req[p].sku] /\ req[p].sku \in Sku /\ req[p].qty \in Nat
        /\ req[p].sku \in products
    BY DEF IInv, TypeOK, LocksProtectReads, CallConsistent, LedgerInv, CreationIsFresh
  <1>1. NoLostUpdate'
    BY <1>0 DEF IInv, TypeOK, LedgerInv, NoLostUpdate
  <1>2. CreationIsFresh'
    <2>1. \A s \in Sku \ products : produced'[s] = 0 /\ granted'[s] = 0
      BY <1>0 DEF IInv, TypeOK, LedgerInv, CreationIsFresh
    <2>2. CASE pc' = [pc EXCEPT ![p] = "p_pub"] /\ req' = req
      BY <1>0, <2>1, <2>2 DEF IInv, TypeOK, LedgerInv, CreationIsFresh
    <2>3. CASE Return(p)
      BY <1>0, <2>1, <2>3 DEF IInv, TypeOK, LedgerInv, CreationIsFresh
    <2>4. QED BY <2>2, <2>3
  <1>3. QED BY <1>1, <1>2 DEF LedgerInv

\* A fill takes from the row what it enters in the ledger.
LEMMA FillCommitLedger ==
  ASSUME LedgerInv, IInv, NEW p \in Proc, FillCommit(p)
  PROVE  LedgerInv'
  <1> USE DEF FillCommit, Return, Goto
  <1>0. /\ avail[p] + given[p] = available[req[p].sku] /\ req[p].sku \in Sku
        /\ req[p].sku \in products /\ avail[p] \in Nat /\ given[p] \in Nat
    BY DEF IInv, TypeOK, LocksProtectReads, CallConsistent, LedgerInv, CreationIsFresh
  <1>1. NoLostUpdate'
    BY <1>0 DEF IInv, TypeOK, LedgerInv, NoLostUpdate
  <1>2. CreationIsFresh'
    <2>1. \A s \in Sku \ products : produced'[s] = 0 /\ granted'[s] = 0
      BY <1>0 DEF IInv, TypeOK, LedgerInv, CreationIsFresh
    <2>2. QED
      BY <1>0, <2>1 DEF IInv, TypeOK, LedgerInv, CreationIsFresh
  <1>3. QED BY <1>1, <1>2 DEF LedgerInv

\* A reservation enters the queue without touching stock.
LEMMA ReserveTxLedger ==
  ASSUME LedgerInv, IInv, NEW p \in Proc, ReserveTx(p),
         (pc' = [pc EXCEPT ![p] = "f_begin"] /\ req' = req) \/ Return(p)
  PROVE  LedgerInv'
  <1>1. req[p].sku \in products
    BY DEF ReserveTx, LedgerInv, CreationIsFresh
  <1>2. QED
    BY <1>1, LedgerFrame DEF ReserveTx, Return, Goto, ledger, IInv, TypeOK

\* Every step keeps the ledger, with a single creator of products.
LEMMA NextLedger ==
  ASSUME SingleCreator, IInv, LedgerInv, [Next]_vars
  PROVE  LedgerInv'
  <1>0. TypeOK
    BY DEF IInv
  <1>1. ASSUME NEW p \in Proc, Call(p) PROVE LedgerInv'
    BY <1>0, <1>1, CallLedger
  <1>2. ASSUME NEW p \in Proc, Step(p) PROVE LedgerInv'
    <2>1. CASE ProduceOverflow(p)
      BY <1>0, <2>1, FailLedger DEF ProduceOverflow
    <2>2. CASE ProduceCommit(p)
      BY <2>2, ProduceTxLedger DEF ProduceCommit, Goto
    <2>3. CASE ReserveCommit(p)
      BY <2>3, ReserveTxLedger DEF ReserveCommit, Goto
    <2>4. QED
      BY <1>0, <1>2, <2>1, <2>2, <2>3, StatementLedger, CreateCommitLedger, FillCommitLedger
         DEF Step
  <1>3. ASSUME NEW p \in Proc, DeadlockVictim(p) PROVE LedgerInv'
    BY <1>0, <1>3, FailLedger DEF DeadlockVictim
  <1>4. ASSUME NEW p \in Proc, Failure(p) PROVE LedgerInv'
    <2>1. CASE Abort(p)
      BY <1>0, <2>1, FailLedger DEF Abort
    <2>2. CASE CommitReplyLost(p)
      BY <2>2, ProduceTxLedger, ReserveTxLedger DEF CommitReplyLost
    <2>3. QED BY <1>4, <2>1, <2>2 DEF Failure
  <1>5. CASE UNCHANGED vars
    BY <1>5 DEF vars, db, ledger, LedgerInv, NoLostUpdate, CreationIsFresh
  <1>6. QED
    BY <1>1, <1>2, <1>3, <1>4, <1>5 DEF Next, Done

\* With a single creator no committed change of a product's stock is ever lost
\* or applied twice, whatever calls run concurrently and whichever of them fail
\* (Produce 195-205, FillReserves 469-547, CreateProduct 103-134).
THEOREM StockIsNeverLost ==
  ASSUME SingleCreator PROVE Spec => []NoLostUpdate
  <1>1. Init => LedgerInv
    BY ConstantsAssumption DEF Init, LedgerInv, NoLostUpdate, CreationIsFresh
  <1>2. IInv /\ LedgerInv /\ [Next]_vars => LedgerInv'
    BY NextLedger
  <1>3. QED
    BY <1>1, <1>2, InitIInv, NextIInv, PTL DEF Spec, LedgerInv

-----------------------------------------------------------------------------
(* Committed rows only move forward. *)

Forward ==
  /\ \A r \in ReqId : events[r].qty # 0 => events'[r] = events[r]
  /\ \A r \in ReqId : reservations[r].state # "None" =>
       /\ reservations'[r].sku = reservations[r].sku
       /\ reservations'[r].requested = reservations[r].requested
       /\ reservations'[r].created = reservations[r].created
       /\ reservations'[r].reserved >= reservations[r].reserved
       /\ reservations[r].state = "Closed" => reservations'[r].state = "Closed"

\* Rows that do not change move forward.
LEMMA UnchangedForward ==
  ASSUME TypeOK, UNCHANGED <<events, reservations>>
  PROVE  Forward
  BY DEF Forward, TypeOK, Reservation

\* Produce's commit writes an event that was not there.
LEMMA ProduceTxForward ==
  ASSUME IInv, NEW p \in Proc, ProduceTx(p)
  PROVE  Forward
  <1>1. events[req[p].rid].qty = 0
    BY DEF IInv, LocksProtectReads, CallConsistent, ProduceTx
  <1>2. QED
    BY <1>1 DEF ProduceTx, Forward, IInv, TypeOK, Reservation

\* Reserve's commit writes a reservation that was not there.
LEMMA ReserveTxForward ==
  ASSUME IInv, NEW p \in Proc, ReserveTx(p)
  PROVE  Forward
  <1>1. reservations[req[p].rid].state = "None"
    BY DEF IInv, LocksProtectReads, CallConsistent, ReserveTx
  <1>2. QED
    BY <1>1 DEF ReserveTx, Forward, IInv, TypeOK, Reservation

\* A fill's commit only adds stock to open reservations.
LEMMA FillCommitForward ==
  ASSUME IInv, NEW p \in Proc, FillCommit(p)
  PROVE  Forward
  <1>1. ASSUME NEW r \in ReqId, got[p][r] > 0
        PROVE  /\ reservations'[r] = Filled(reservations[r], got[p][r])
               /\ reservations[r].state = "Open"
    BY <1>1 DEF IInv, LocksProtectReads, CallConsistent, FillCommit
  <1>2. ASSUME NEW r \in ReqId, ~(got[p][r] > 0)
        PROVE  reservations'[r] = reservations[r]
    BY <1>2 DEF FillCommit
  <1>3. \A r \in ReqId : reservations[r] \in Reservation /\ got[p][r] \in Nat
    BY DEF IInv, TypeOK
  <1>4. events' = events
    BY DEF FillCommit
  <1>5. ASSUME NEW r \in ReqId
        PROVE  /\ reservations'[r].sku = reservations[r].sku
               /\ reservations'[r].requested = reservations[r].requested
               /\ reservations'[r].created = reservations[r].created
               /\ reservations'[r].reserved >= reservations[r].reserved
               /\ reservations[r].state = "Closed" => reservations'[r].state = "Closed"
    <2>1. CASE got[p][r] > 0
      <3>1. reservations'[r] = Filled(reservations[r], got[p][r]) /\ reservations[r].state = "Open"
        BY <1>1, <2>1
      <3>2. reservations[r].reserved \in Nat /\ got[p][r] \in Nat
        BY <1>3 DEF Reservation
      <3>3. reservations'[r].reserved = reservations[r].reserved + got[p][r]
        BY <3>1 DEF Filled
      <3>4. QED
        BY <3>1, <3>2, <3>3 DEF Filled
    <2>2. CASE ~(got[p][r] > 0)
      BY <1>2, <1>3, <2>2 DEF Reservation
    <2>3. QED BY <2>1, <2>2
  <1>6. QED
    BY <1>4, <1>5 DEF Forward

\* Every step of every call moves the rows forward.
LEMMA NextForward ==
  ASSUME IInv, Next
  PROVE  Forward
  <1> USE DEF db
  <1>0. TypeOK
    BY DEF IInv
  <1>1. ASSUME NEW p \in Proc, Call(p) PROVE Forward
    BY <1>0, <1>1, UnchangedForward DEF Call, CreateProduct, Produce, Reserve
  <1>2. ASSUME NEW p \in Proc, Fail(p) PROVE Forward
    BY <1>0, <1>2, UnchangedForward DEF Fail
  <1>3. ASSUME NEW p \in Proc, Step(p) PROVE Forward
    <2>1. CASE ProduceCommit(p)
      BY <2>1, ProduceTxForward DEF ProduceCommit
    <2>2. CASE ReserveCommit(p)
      BY <2>2, ReserveTxForward DEF ReserveCommit
    <2>3. CASE FillCommit(p)
      BY <2>3, FillCommitForward
    <2>4. CASE CreateUpdate(p) \/ CreateInsert(p) \/ CreateCommit(p)
      BY <1>0, <1>2, <2>4, UnchangedForward DEF CreateUpdate, CreateInsert, CreateCommit
    <2>5. CASE ProduceEvent(p) \/ ProduceForeignKey(p) \/ ProduceLock(p)
                 \/ ProduceOverflow(p) \/ ProducePublish(p)
      BY <1>0, <1>2, <2>5, UnchangedForward
         DEF ProduceEvent, ProduceForeignKey, ProduceLock, ProduceOverflow, ProducePublish
    <2>6. CASE ReserveLock(p) \/ ReserveFind(p) \/ ReserveInsert(p)
      BY <1>0, <1>2, <2>6, UnchangedForward DEF ReserveLock, ReserveFind, ReserveInsert
    <2>7. CASE FillBegin(p) \/ FillLockRow(p) \/ FillReadInventory(p) \/ FillOne(p)
      BY <1>0, <2>7, UnchangedForward
         DEF FillBegin, FillLockRow, FillReadInventory, FillOne
    <2>8. QED
      BY <1>3, <2>1, <2>2, <2>3, <2>4, <2>5, <2>6, <2>7 DEF Step
  <1>4. ASSUME NEW p \in Proc, DeadlockVictim(p) PROVE Forward
    BY <1>2, <1>4 DEF DeadlockVictim
  <1>5. ASSUME NEW p \in Proc, Failure(p) PROVE Forward
    BY <1>2, <1>5, ProduceTxForward, ReserveTxForward DEF Failure, Abort, CommitReplyLost
  <1>6. CASE Done
    BY <1>0, <1>6, UnchangedForward DEF Done, vars
  <1>7. QED
    BY <1>1, <1>3, <1>4, <1>5, <1>6 DEF Next

\* No step of any call takes back what was committed: events are immutable and
\* reservations only gain stock (UpdateReservation, repository.go 205-217).
THEOREM CommittedRowsMoveForward == Spec => RowsMoveForward
  <1>1. IInv /\ [Next]_vars => [Forward]_vars
    BY NextForward
  <1>2. QED
    BY <1>1, InitIInv, NextIInv, PTL DEF Spec, RowsMoveForward, Forward

-----------------------------------------------------------------------------
(* The queue of reservations: who is served first, what is published about a *)
(* reservation, and that stock does not stay beside an open one.             *)

\* The reservations a fill still has before it, and those it has given stock to.
Listed(p) == todo[p] \cup rows[p]
Served(p) == {r \in ReqId : got[p][r] > 0}
Complete(p, r) ==
  r \in Served(p) /\ reservations[r].reserved + got[p][r] = reservations[r].requested

\* q is still open and r waits for it.
Earlier(q, r) == q \in ahead[r] /\ reservations[q].state = "Open"

\* A fill goes through the queue of its product from the front: nothing it has
\* listed or served is behind an open reservation it does not know of, and
\* nothing is served while one it waits for lacks stock.
FillInOrder(p) ==
  /\ \A r \in Listed(p) \cup Served(p) :
       reservations[r].sku = req[p].sku /\ reservations[r].state # "None"
  /\ \A r \in rows[p], q \in todo[p] : reservations[r].created <= reservations[q].created
  /\ \A r \in Served(p), q \in Listed(p) :
       reservations[r].created <= reservations[q].created
  /\ \A r \in Served(p), q \in ReqId : Earlier(q, r) => Complete(p, q)
  /\ pc[p] = "f_row" \/ avail[p] # 0 =>
       \A r \in Listed(p), q \in ReqId : Earlier(q, r) => q \in Listed(p) \/ Complete(p, q)
  /\ \A r \in Served(p) : Complete(p, r) \/ avail[p] = 0

\* A reservation waits for some that were there before it, with earlier stamps.
AheadInv ==
  \A r \in ReqId :
    /\ reservations[r].state = "None" => ahead[r] = {}
    /\ \A x \in ahead[r] : /\ x \in ReqId /\ reservations[x].state # "None"
                          /\ reservations[x].sku = reservations[r].sku
                          /\ reservations[x].created < reservations[r].created

QueueInv ==
  /\ FillOrder
  /\ AheadInv
  /\ \A p \in Proc : pc[p] \in {"f_row", "f_loop"} => FillInOrder(p)

\* What a reservation holds has been published, and so has what a running fill
\* is about to commit.
PublishInv ==
  \A r \in ReqId :
    /\ reservations[r].reserved > 0 => reservations[r].reserved \in told[r]
    /\ \A p \in Proc : pc[p] = "f_loop" /\ r \in Served(p) =>
         reservations[r].reserved + got[p][r] \in told[r]

\* p's call is going to fill r, or to leave no stock.
Covers(p, r) ==
  /\ req[p].sku = reservations[r].sku
  /\ \/ pc[p] \in {"p_pub", "f_begin"}
     \/ pc[p] = "f_row" /\ r \in Listed(p)
     \/ pc[p] = "f_loop" /\ (avail[p] = 0 \/ r \in rows[p] \/ Complete(p, r))

\* Free stock beside an open reservation is some running call's business.
StockInv ==
  \A r \in ReqId :
    /\ reservations[r].state = "Open"
    /\ available[reservations[r].sku] > 0
    /\ reservations[r].sku \notin missed
    => \E p \in Proc : Covers(p, r)

FillInv == QueueInv /\ PublishInv /\ StockInv

\* At the start there are no reservations and no calls.
LEMMA InitFillInv == Init => FillInv
  BY DEF Init, NoRes, FillInv, QueueInv, AheadInv, PublishInv, StockInv, FillOrder

\* A step that leaves the local variables of q's call alone.
Elsewhere(q) ==
  /\ pc'[q] = pc[q] /\ req'[q] = req[q] /\ avail'[q] = avail[q]
  /\ todo'[q] = todo[q] /\ rows'[q] = rows[q] /\ got'[q] = got[q]

\* A fill that is not the one moving keeps its order, whatever is committed
\* meanwhile: rows move forward, those it has served are locked by it, and no
\* reservation it knows of waits for a new one, whatever its stamp.
LEMMA OtherFill ==
  ASSUME IInv, IInv', QueueInv, Forward, NEW q \in Proc, Elsewhere(q),
         pc[q] \in {"f_row", "f_loop"},
         \A r \in Served(q) : reservations'[r] = reservations[r],
         \A r \in ReqId : reservations[r].state # "None" => ahead'[r] = ahead[r]
  PROVE  FillInOrder(q)'
  <1> USE DEF Elsewhere
  <1>1. FillInOrder(q)
    BY DEF QueueInv
  <1>2. /\ Listed(q)' = Listed(q) /\ Served(q)' = Served(q)
        /\ Listed(q) \subseteq ReqId /\ Served(q) \subseteq ReqId
        /\ rows[q] \subseteq Listed(q) /\ todo[q] \subseteq Listed(q)
    BY DEF Listed, Served, IInv, TypeOK
  <1>3. \A r \in Listed(q) \cup Served(q) :
          /\ reservations[r].sku = req[q].sku /\ reservations[r].state # "None"
          /\ reservations'[r].sku = reservations[r].sku
          /\ reservations'[r].created = reservations[r].created
          /\ ahead'[r] = ahead[r] /\ reservations'[r].state # "None"
    BY <1>1, <1>2 DEF FillInOrder, Forward, IInv, TypeOK, Reservation, ReservationsSound
  <1>4. \A r \in Listed(q) \cup Served(q), x \in ReqId : Earlier(x, r)' => Earlier(x, r)
    <2> TAKE r \in Listed(q) \cup Served(q), x \in ReqId
    <2> HAVE Earlier(x, r)'
    <2>1. /\ reservations'[x].state = "Open" /\ x \in ahead[r] /\ r \in ReqId
      BY <1>2, <1>3 DEF Earlier
    <2>2. reservations[x].state # "None"
      BY <2>1 DEF QueueInv, AheadInv
    <2>3. reservations[x].state = "Open"
      BY <2>1, <2>2 DEF Forward, IInv, TypeOK, Reservation, State
    <2>4. QED
      BY <2>1, <2>3 DEF Earlier
  <1>5. \A r \in ReqId : Complete(q, r) => Complete(q, r)'
    BY <1>2 DEF Complete
  <1>6. pc'[q] = pc[q] /\ avail'[q] = avail[q] /\ rows'[q] = rows[q] /\ todo'[q] = todo[q]
        /\ req'[q] = req[q]
    OBVIOUS
  <1>7. QED
    BY <1>1, <1>2, <1>3, <1>4, <1>5, <1>6 DEF FillInOrder

\* A step that changes no reservation and is not part of a fill: a call starts,
\* runs a statement before its fill, creates or produces, or fails.  A fill that
\* is given up is on record in missed, and only a production adds stock.
Aside(p) ==
  /\ UNCHANGED <<reservations, ahead, told>>
  /\ missed \subseteq missed'
  /\ \A q \in Proc \ {p} : Elsewhere(q)
  /\ pc'[p] \notin {"f_row", "f_loop"}
  /\ FillDue(p) => \/ req[p].sku \in missed'
                   \/ /\ pc[p] \notin {"f_row", "f_loop"}
                      /\ pc'[p] = "f_begin" /\ req'[p] = req[p]
  /\ \A s \in Sku : available'[s] > available[s] =>
       s \in missed' \/ (pc'[p] = "p_pub" /\ req'[p].sku = s)

\* Such a step disturbs nothing about the queue.
LEMMA AsideFill ==
  ASSUME IInv, IInv', Forward, FillInv, NEW p \in Proc, Aside(p)
  PROVE  FillInv'
  <1> USE DEF Aside
  <1>0. reservations' = reservations /\ ahead' = ahead /\ told' = told
    OBVIOUS
  <1>1. QueueInv'
    <2>1. ASSUME NEW q \in Proc, pc'[q] \in {"f_row", "f_loop"} PROVE FillInOrder(q)'
      BY <1>0, <2>1, OtherFill DEF FillInv, Elsewhere
    <2>2. FillOrder' /\ AheadInv'
      BY <1>0 DEF FillInv, QueueInv, FillOrder, AheadInv
    <2>3. QED BY <2>1, <2>2 DEF QueueInv
  <1>2. PublishInv'
    BY <1>0 DEF FillInv, PublishInv, Elsewhere, Served
  <1>3. StockInv'
    <2>1. SUFFICES ASSUME NEW r \in ReqId, reservations[r].state = "Open",
                          available'[reservations[r].sku] > 0, reservations[r].sku \notin missed'
                   PROVE  \E q \in Proc : Covers(q, r)'
      BY <1>0 DEF StockInv
    <2>2. reservations[r].sku \in Sku
      BY DEF IInv, TypeOK, Reservation
    <2>3. CASE available'[reservations[r].sku] > available[reservations[r].sku]
      BY <1>0, <2>1, <2>2, <2>3 DEF Covers
    <2>4. CASE ~(available'[reservations[r].sku] > available[reservations[r].sku])
      <3>1. available[reservations[r].sku] > 0
        BY <2>1, <2>2, <2>4 DEF IInv, TypeOK
      <3>2. PICK q \in Proc : Covers(q, r)
        BY <2>1, <3>1 DEF FillInv, StockInv
      <3>3. CASE q = p
        BY <1>0, <2>1, <3>2, <3>3 DEF Covers, FillDue
      <3>4. CASE q # p
        BY <1>0, <3>2, <3>4 DEF Covers, Elsewhere, Listed, Complete, Served
      <3>5. QED BY <3>3, <3>4
    <2>5. QED BY <2>3, <2>4
  <1>4. QED BY <1>1, <1>2, <1>3 DEF FillInv

\* A step of p's fill before its commit: the other calls see nothing of it.
LEMMA LocalFill ==
  ASSUME IInv, IInv', Forward, QueueInv, NEW p \in Proc,
         UNCHANGED <<reservations, ahead>>,
         \A q \in Proc \ {p} : Elsewhere(q),
         FillInOrder(p)'
  PROVE  QueueInv'
  <1>1. ASSUME NEW q \in Proc \ {p}, pc'[q] \in {"f_row", "f_loop"} PROVE FillInOrder(q)'
    BY <1>1, OtherFill DEF Elsewhere
  <1>2. FillOrder' /\ AheadInv'
    BY DEF QueueInv, FillOrder, AheadInv
  <1>3. QED BY <1>1, <1>2 DEF QueueInv

\* The snapshot has every open reservation of the product.
LEMMA FillBeginFill ==
  ASSUME IInv, IInv', Forward, FillInv, NEW p \in Proc, FillBegin(p)
  PROVE  FillInv'
  <1> USE DEF FillBegin, Goto, db
  <1>0. /\ \A q \in Proc \ {p} : Elsewhere(q)
        /\ UNCHANGED <<reservations, ahead, told, missed, available, rows, got, avail, req>>
        /\ pc'[p] = "f_row"
        /\ todo'[p] = {r \in ReqId : /\ reservations[r].sku = req[p].sku
                                     /\ reservations[r].state = "Open"}
    BY DEF Elsewhere, IInv, TypeOK
  <1>1. rows[p] = {} /\ \A r \in ReqId : got[p][r] = 0
    BY DEF IInv, LocksProtectReads, CallConsistent
  <1>2. Served(p)' = {} /\ Listed(p)' = todo'[p] /\ rows'[p] = {}
    BY <1>0, <1>1 DEF Served, Listed
  <1>3. FillInOrder(p)'
    BY <1>0, <1>2 DEF FillInOrder, Earlier, FillInv, QueueInv, AheadInv
  <1>4. QueueInv'
    BY <1>0, <1>3, LocalFill DEF FillInv
  <1>5. PublishInv'
    BY <1>0 DEF FillInv, PublishInv, Elsewhere, Served
  <1>6. StockInv'
    <2>1. ASSUME NEW r \in ReqId, NEW q \in Proc, reservations[r].state = "Open", Covers(q, r)
          PROVE  Covers(q, r)'
      <3>1. CASE q = p
        BY <1>0, <1>2, <2>1, <3>1 DEF Covers
      <3>2. CASE q # p
        BY <1>0, <2>1, <3>2 DEF Covers, Elsewhere, Listed, Complete, Served
      <3>3. QED BY <3>1, <3>2
    <2>2. QED
      BY <1>0, <2>1 DEF FillInv, StockInv
  <1>7. QED BY <1>4, <1>5, <1>6 DEF FillInv

\* The oldest listed row moves from the snapshot to the locked rows, or is no
\* longer open.
LEMMA FillLockRowFill ==
  ASSUME IInv, IInv', Forward, FillInv, NEW p \in Proc, FillLockRow(p)
  PROVE  FillInv'
  <1> USE DEF FillLockRow, db
  <1>0. /\ \A q \in Proc \ {p} : Elsewhere(q)
        /\ UNCHANGED <<reservations, ahead, told, missed, available, pc, got, avail, req>>
        /\ pc[p] = "f_row"
    BY DEF Elsewhere, IInv, TypeOK
  <1>1. PICK r \in todo[p] :
          /\ Oldest(r, todo[p])
          /\ todo'[p] = todo[p] \ {r}
          /\ rows'[p] = IF reservations[r].state = "Open" THEN rows[p] \cup {r} ELSE rows[p]
    BY DEF IInv, TypeOK
  <1>2. /\ Served(p)' = Served(p) /\ Served(p) = {} /\ todo[p] \subseteq ReqId
        /\ rows[p] \subseteq ReqId
        /\ Listed(p)' \subseteq Listed(p)
        /\ \A q \in Listed(p) : reservations[q].state = "Open" => q \in Listed(p)'
    <2>1. \A q \in ReqId : got[p][q] = 0
      BY <1>0 DEF IInv, LocksProtectReads, CallConsistent
    <2>2. Served(p) = {} /\ Served(p)' = {}
      BY <1>0, <2>1 DEF Served
    <2>3. todo[p] \subseteq ReqId /\ rows[p] \subseteq ReqId
      BY DEF IInv, TypeOK
    <2>4. QED BY <1>1, <2>2, <2>3 DEF Listed
  <1>3. FillInOrder(p)
    BY <1>0 DEF FillInv, QueueInv
  <1>4. FillInOrder(p)'
    <2>1. \A x \in rows'[p], y \in todo'[p] : reservations[x].created <= reservations[y].created
      BY <1>1, <1>3 DEF FillInOrder, Oldest
    <2>2. \A x \in Listed(p)' : reservations[x].sku = req[p].sku /\ reservations[x].state # "None"
      BY <1>2, <1>3 DEF FillInOrder
    <2>3. \A x \in Listed(p)', y \in ReqId : Earlier(y, x) => y \in Listed(p)'
      BY <1>0, <1>2, <1>3 DEF FillInOrder, Earlier, Complete
    <2>4. QED
      BY <1>0, <1>2, <2>1, <2>2, <2>3 DEF FillInOrder, Earlier
  <1>5. QueueInv'
    BY <1>0, <1>4, LocalFill DEF FillInv
  <1>6. PublishInv'
    BY <1>0 DEF FillInv, PublishInv, Elsewhere, Served
  <1>7. StockInv'
    <2>1. ASSUME NEW x \in ReqId, NEW q \in Proc, reservations[x].state = "Open", Covers(q, x)
          PROVE  Covers(q, x)'
      <3>1. CASE q = p
        BY <1>0, <1>2, <2>1, <3>1 DEF Covers
      <3>2. CASE q # p
        BY <1>0, <2>1, <3>2 DEF Covers, Elsewhere, Listed, Complete, Served
      <3>3. QED BY <3>1, <3>2
    <2>2. QED
      BY <1>0, <2>1 DEF FillInv, StockInv
  <1>8. QED BY <1>5, <1>6, <1>7 DEF FillInv

\* The rows past the LIMIT are dropped and the product is on record in missed.
LEMMA FillReadInventoryFill ==
  ASSUME IInv, IInv', Forward, FillInv, NEW p \in Proc, FillReadInventory(p)
  PROVE  FillInv'
  <1> USE DEF FillReadInventory, Goto, db
  <1>0. /\ \A q \in Proc \ {p} : Elsewhere(q)
        /\ UNCHANGED <<reservations, ahead, told, available, rows, got, req>>
        /\ pc[p] = "f_row" /\ pc'[p] = "f_loop" /\ todo'[p] = {}
        /\ missed \subseteq missed' /\ (todo[p] # {} => req[p].sku \in missed')
    BY DEF Elsewhere, IInv, TypeOK
  <1>1. \A r \in ReqId : got[p][r] = 0
    BY <1>0 DEF IInv, LocksProtectReads, CallConsistent
  <1>2. /\ Served(p)' = {} /\ Served(p) = {} /\ Listed(p)' = rows[p] /\ rows'[p] = rows[p]
        /\ Listed(p) = todo[p] \cup rows[p] /\ rows[p] \subseteq ReqId
    BY <1>0, <1>1 DEF Served, Listed, IInv, TypeOK
  <1>3. FillInOrder(p)
    BY <1>0 DEF FillInv, QueueInv
  <1>4. FillInOrder(p)'
    <2>1. \A x \in rows[p], y \in ReqId : Earlier(y, x) => y \in rows[p]
      <3> SUFFICES ASSUME NEW x \in rows[p], NEW y \in ReqId, Earlier(y, x) PROVE y \in rows[p]
        OBVIOUS
      <3>1. y \in todo[p] \cup rows[p]
        BY <1>0, <1>2, <1>3 DEF FillInOrder, Complete
      <3>2. y \in todo[p] => reservations[x].created <= reservations[y].created
        BY <1>3 DEF FillInOrder
      <3>3. QED
        BY <1>2, <3>1, <3>2 DEF Earlier, FillInv, QueueInv, AheadInv, IInv, TypeOK, Reservation
    <2>2. QED
      BY <1>0, <1>2, <1>3, <2>1 DEF FillInOrder, Earlier
  <1>5. QueueInv'
    BY <1>0, <1>4, LocalFill DEF FillInv
  <1>6. PublishInv'
    <2>1. \A r \in ReqId, q \in Proc :
            /\ pc[q] = "f_loop" /\ r \in Served(q) <=> pc'[q] = "f_loop" /\ r \in Served(q)'
            /\ got'[q][r] = got[q][r]
      BY <1>0, <1>2 DEF Elsewhere, Served
    <2>2. QED BY <1>0, <2>1 DEF FillInv, PublishInv
  <1>7. StockInv'
    <2>1. ASSUME NEW x \in ReqId, NEW q \in Proc, reservations[x].sku \notin missed', Covers(q, x)
          PROVE  Covers(q, x)'
      <3>1. CASE q = p
        BY <1>0, <1>2, <2>1, <3>1 DEF Covers
      <3>2. CASE q # p
        BY <1>0, <2>1, <3>2 DEF Covers, Elsewhere, Listed, Complete, Served
      <3>3. QED BY <3>1, <3>2
    <2>2. QED
      BY <1>0, <2>1 DEF FillInv, StockInv
  <1>8. QED BY <1>5, <1>6, <1>7 DEF FillInv

\* One iteration serves the first reservation in line: it completes it or runs
\* out of stock.
LEMMA FillOneFill ==
  ASSUME IInv, IInv', Forward, FillInv, NEW p \in Proc, FillOne(p)
  PROVE  FillInv'
  <1> USE DEF db
  <1>0. /\ \A q \in Proc \ {p} : Elsewhere(q)
        /\ UNCHANGED <<reservations, ahead, missed, available, pc, req, todo>>
        /\ pc[p] = "f_loop" /\ avail[p] # 0
    BY DEF FillOne, Elsewhere, IInv, TypeOK
  <1>1. PICK r \in rows[p] :
          /\ Oldest(r, rows[p])
          /\ avail' = [avail EXCEPT ![p] = @ - ReserveAmount(p, r)]
          /\ got' = [got EXCEPT ![p][r] = ReserveAmount(p, r)]
          /\ rows' = [rows EXCEPT ![p] = @ \ {r}]
          /\ told' = [told EXCEPT ![r] = @ \cup {reservations[r].reserved + ReserveAmount(p, r)}]
    BY DEF FillOne
  <1>t. /\ r \in ReqId /\ rows[p] \subseteq ReqId /\ todo[p] \subseteq ReqId
        /\ avail[p] \in Nat /\ got[p] \in [ReqId -> Nat]
        /\ reservations[r].requested \in Nat /\ reservations[r].reserved \in Nat
        /\ reservations[r].reserved < reservations[r].requested
        /\ reservations[r].state = "Open" /\ got[p][r] = 0
    <2>1. /\ r \in ReqId /\ rows[p] \subseteq ReqId /\ todo[p] \subseteq ReqId
          /\ avail[p] \in Nat /\ got[p] \in [ReqId -> Nat] /\ reservations[r] \in Reservation
      BY DEF IInv, TypeOK
    <2>2. reservations[r].state = "Open" /\ got[p][r] = 0
      BY DEF IInv, LocksProtectReads, CallConsistent
    <2>3. reservations[r].requested \in Nat /\ reservations[r].reserved \in Nat
      BY <2>1 DEF Reservation
    <2>4. /\ reservations[r].reserved <= reservations[r].requested
          /\ reservations[r].requested # 0
          /\ ~(reservations[r].reserved = reservations[r].requested /\ reservations[r].requested > 0)
      BY <2>1, <2>2 DEF IInv, ReservationsSound
    <2>5. QED
      BY <2>1, <2>2, <2>3, <2>4
  <1>2. /\ ReserveAmount(p, r) \in Nat \ {0}
        /\ \/ ReserveAmount(p, r) = avail[p]
           \/ reservations[r].reserved + ReserveAmount(p, r) = reservations[r].requested
    BY <1>0, <1>t DEF ReserveAmount, Min2
  <1>3. /\ Served(p)' = Served(p) \cup {r} /\ r \notin Served(p)
        /\ Listed(p)' \subseteq Listed(p) /\ Listed(p) \subseteq Listed(p)' \cup {r}
        /\ rows'[p] = rows[p] \ {r} /\ todo'[p] = todo[p]
        /\ rows[p] \subseteq Listed(p) /\ todo[p] \subseteq Listed(p)
        /\ \A q \in ReqId \ {r} : got'[p][q] = got[p][q]
        /\ got'[p][r] = ReserveAmount(p, r)
        /\ avail'[p] = 0 \/ reservations[r].reserved + got'[p][r] = reservations[r].requested
        /\ Served(p) \subseteq ReqId /\ Listed(p) \subseteq ReqId
    <2>1. /\ rows'[p] = rows[p] \ {r} /\ todo'[p] = todo[p]
          /\ avail'[p] = avail[p] - ReserveAmount(p, r)
          /\ got'[p] = [got[p] EXCEPT ![r] = ReserveAmount(p, r)]
      BY <1>0, <1>1 DEF IInv, TypeOK
    <2>2. /\ \A q \in ReqId \ {r} : got'[p][q] = got[p][q]
          /\ got'[p][r] = ReserveAmount(p, r)
      BY <1>t, <2>1
    <2>3. Served(p)' = Served(p) \cup {r} /\ r \notin Served(p)
      BY <1>t, <1>2, <2>2 DEF Served
    <2>4. avail'[p] = 0 \/ reservations[r].reserved + got'[p][r] = reservations[r].requested
      BY <1>t, <1>2, <2>1, <2>2
    <2>5. QED
      BY <1>t, <2>1, <2>2, <2>3, <2>4 DEF Listed, Served
  <1>4. FillInOrder(p)
    BY <1>0 DEF FillInv, QueueInv
  <1>c. /\ \A q \in ReqId : Complete(p, q) => Complete(p, q)'
        /\ avail'[p] # 0 => Complete(p, r)'
    BY <1>0, <1>t, <1>3 DEF Complete
  <1>f. \A q \in Listed(p) : reservations[r].created <= reservations[q].created
    BY <1>1, <1>4 DEF Oldest, FillInOrder, Listed
  <1>5. FillInOrder(p)'
    <2>1. \A x \in Listed(p)' \cup Served(p)' :
            reservations[x].sku = req[p].sku /\ reservations[x].state # "None"
      BY <1>3, <1>4 DEF FillInOrder
    <2>2. \A x \in rows'[p], y \in todo'[p] : reservations[x].created <= reservations[y].created
      BY <1>3, <1>4 DEF FillInOrder
    <2>3. \A x \in Served(p)', y \in Listed(p)' :
            reservations[x].created <= reservations[y].created
      BY <1>3, <1>4, <1>f DEF FillInOrder
    <2>4. \A x \in Listed(p), y \in ReqId : Earlier(y, x) => y \in Listed(p) \/ Complete(p, y)
      BY <1>0, <1>4 DEF FillInOrder
    <2>5. \A y \in ReqId : Earlier(y, r) => Complete(p, y)
      <3> SUFFICES ASSUME NEW y \in ReqId, Earlier(y, r), y \in Listed(p) PROVE FALSE
        BY <1>3, <2>4
      <3>1. reservations[r].created <= reservations[y].created
        BY <1>f
      <3>2. QED BY <1>t, <3>1 DEF Earlier, FillInv, QueueInv, AheadInv, IInv, TypeOK, Reservation
    <2>6. \A x \in Served(p)', y \in ReqId : Earlier(y, x) => Complete(p, y)'
      BY <1>3, <1>4, <1>c, <2>5 DEF FillInOrder
    <2>7. avail'[p] # 0 => \A x \in Listed(p)', y \in ReqId :
                             Earlier(y, x) => y \in Listed(p)' \/ Complete(p, y)'
      BY <1>3, <1>c, <2>4
    <2>8. pc'[p] = "f_loop" /\ req'[p] = req[p] /\ \A x, y \in ReqId : Earlier(y, x)' <=> Earlier(y, x)
      BY <1>0 DEF Earlier
    <2>a. \A x \in Served(p)' : Complete(p, x)' \/ avail'[p] = 0
      BY <1>0, <1>3, <1>4, <1>c DEF FillInOrder
    <2>9. QED
      BY <1>0, <1>3, <2>1, <2>2, <2>3, <2>6, <2>7, <2>8, <2>a, <1>t DEF FillInOrder
  <1>6. QueueInv'
    BY <1>0, <1>5, LocalFill DEF FillInv
  <1>7. PublishInv'
    <2>1. SUFFICES ASSUME NEW x \in ReqId
                   PROVE  /\ reservations[x].reserved > 0 => reservations[x].reserved \in told'[x]
                          /\ \A q \in Proc : pc[q] = "f_loop" /\ x \in Served(q)' =>
                               reservations[x].reserved + got'[q][x] \in told'[x]
      BY <1>0 DEF PublishInv
    <2>2. told[x] \subseteq told'[x]
      BY <1>1 DEF IInv, TypeOK
    <2>3. reservations[r].reserved + got'[p][r] \in told'[r]
      BY <1>1, <1>3, <1>t DEF IInv, TypeOK
    <2>4. ASSUME NEW q \in Proc, q # p \/ x # r
          PROVE  got'[q][x] = got[q][x] /\ (x \in Served(q) <=> x \in Served(q)')
      BY <1>0, <1>3, <2>4 DEF Elsewhere, Served
    <2>5. QED BY <2>2, <2>3, <2>4 DEF FillInv, PublishInv
  <1>8. StockInv'
    <2>1. ASSUME NEW x \in ReqId, NEW q \in Proc, Covers(q, x)
          PROVE  Covers(q, x)'
      <3>1. CASE q = p
        <4>1. pc'[p] = "f_loop" /\ req'[p].sku = reservations'[x].sku
          BY <1>0, <2>1, <3>1 DEF Covers
        <4>2. avail'[p] = 0 \/ x \in rows'[p] \/ Complete(p, x)'
          BY <1>0, <1>3, <1>c, <2>1, <3>1 DEF Covers
        <4>3. QED BY <3>1, <4>1, <4>2 DEF Covers
      <3>2. CASE q # p
        BY <1>0, <2>1, <3>2 DEF Covers, Elsewhere, Listed, Complete, Served
      <3>3. QED BY <3>1, <3>2
    <2>2. QED
      BY <1>0, <2>1 DEF FillInv, StockInv
  <1>9. QED BY <1>6, <1>7, <1>8 DEF FillInv

\* A new reservation has no stock and nobody waits for it, and a fill is coming,
\* unless the reply of its commit is lost.
LEMMA ReserveTxFill ==
  ASSUME IInv, IInv', Forward, FillInv, NEW p \in Proc, ReserveTx(p),
         ReserveCommit(p) \/ CommitReplyLost(p)
  PROVE  FillInv'
  <1> DEFINE x == req[p].rid
  <1>0. /\ \A q \in Proc \ {p} : Elsewhere(q)
        /\ UNCHANGED <<available, told>> /\ missed \subseteq missed'
        /\ pc[p] = "r_commit"
        /\ pc'[p] \notin {"f_row", "f_loop"}
        /\ req[p].sku \in missed' \/ (pc'[p] = "f_begin" /\ req'[p] = req[p])
    BY DEF ReserveTx, ReserveCommit, CommitReplyLost, Return, ClearLocal, Goto, local,
           Elsewhere, IInv, TypeOK
  <1>1. x \in ReqId /\ reservations[x].state = "None" /\ reservations[x].reserved = 0
    BY <1>0 DEF IInv, LocksProtectReads, CallConsistent, TypeOK, ReservationsSound, Reservation
  <1>2. /\ reservations'[x].sku = req[p].sku /\ reservations'[x].state = "Open"
        /\ reservations'[x].reserved = 0 /\ reservations'[x].created = stamp[p]
        /\ ahead'[x] = {r \in Queue(req[p].sku) : reservations[r].created < stamp[p]}
        /\ \A r \in ReqId \ {x} : reservations'[r] = reservations[r] /\ ahead'[r] = ahead[r]
    BY <1>1 DEF ReserveTx, IInv, TypeOK
  <1>3. QueueInv'
    <2>1. AheadInv'
      <3> SUFFICES ASSUME NEW r \in ReqId
                   PROVE  /\ reservations'[r].state = "None" => ahead'[r] = {}
                          /\ \A y \in ahead'[r] :
                               /\ y \in ReqId /\ reservations'[y].state # "None"
                               /\ reservations'[y].sku = reservations'[r].sku
                               /\ reservations'[y].created < reservations'[r].created
        BY DEF AheadInv
      <3>1. CASE r = x
        BY <1>1, <1>2, <3>1 DEF Queue
      <3>2. CASE r # x
        BY <1>1, <1>2, <3>2 DEF FillInv, QueueInv, AheadInv
      <3>3. QED BY <3>1, <3>2
    <2>3. FillOrder'
      <3> SUFFICES ASSUME NEW r \in ReqId, NEW y \in ahead'[r], reservations'[r].reserved > 0
                   PROVE  reservations'[y].state = "Closed"
        BY DEF FillOrder
      <3>1. r # x
        BY <1>2
      <3>2. y \in ahead[r] /\ y # x /\ y \in ReqId
        BY <1>1, <1>2, <3>1 DEF FillInv, QueueInv, AheadInv
      <3>3. QED
        BY <1>2, <3>1, <3>2 DEF FillInv, QueueInv, FillOrder
    <2>4. ASSUME NEW q \in Proc, pc'[q] \in {"f_row", "f_loop"} PROVE FillInOrder(q)'
      <3>1. q # p /\ pc[q] \in {"f_row", "f_loop"} /\ Elsewhere(q)
        BY <1>0, <2>4 DEF Elsewhere
      <3>2. x \notin Served(q)
        BY <1>1, <3>1 DEF FillInv, QueueInv, FillInOrder
      <3>3. \A r \in Served(q) : r \in ReqId \ {x}
        BY <3>2 DEF Served
      <3>4. QED
        BY <1>1, <1>2, <3>1, <3>3, OtherFill DEF FillInv
    <2>5. QED BY <2>1, <2>3, <2>4 DEF QueueInv
  <1>4. PublishInv'
    <2>1. \A r \in ReqId, q \in Proc :
            /\ pc[q] = "f_loop" /\ r \in Served(q) <=> pc'[q] = "f_loop" /\ r \in Served(q)'
            /\ pc[q] = "f_loop" => got'[q][r] = got[q][r]
      BY <1>0 DEF Elsewhere, Served
    <2>2. \A q \in Proc : pc[q] = "f_loop" => x \notin Served(q)
      BY <1>1 DEF FillInv, QueueInv, FillInOrder
    <2>3. SUFFICES ASSUME NEW r \in ReqId
                   PROVE  /\ reservations'[r].reserved > 0 => reservations'[r].reserved \in told[r]
                          /\ \A q \in Proc : pc'[q] = "f_loop" /\ r \in Served(q)' =>
                               reservations'[r].reserved + got'[q][r] \in told[r]
      BY <1>0 DEF PublishInv
    <2>4. CASE r = x
      BY <1>2, <2>1, <2>2, <2>4
    <2>5. CASE r # x
      BY <1>2, <2>1, <2>5 DEF FillInv, PublishInv
    <2>6. QED BY <2>4, <2>5
  <1>5. StockInv'
    <2>1. SUFFICES ASSUME NEW r \in ReqId, reservations'[r].state = "Open",
                          available[reservations'[r].sku] > 0,
                          reservations'[r].sku \notin missed'
                   PROVE  \E q \in Proc : Covers(q, r)'
      BY <1>0 DEF StockInv
    <2>2. CASE r = x
      BY <1>0, <1>2, <2>1, <2>2 DEF Covers
    <2>3. CASE r # x
      <3>1. PICK q \in Proc : Covers(q, r)
        BY <1>0, <1>2, <2>1, <2>3 DEF FillInv, StockInv
      <3>2. q # p
        BY <1>0, <3>1 DEF Covers
      <3>3. Covers(q, r)'
        BY <1>0, <1>2, <2>3, <3>1, <3>2 DEF Covers, Elsewhere, Listed, Complete, Served
      <3>4. QED BY <3>3
    <2>4. QED BY <2>2, <2>3
  <1>6. QED BY <1>3, <1>4, <1>5 DEF FillInv

\* What a fill commits is in order and is what it published, and it leaves
\* either no stock or nothing open that it knew of.
LEMMA FillCommitFill ==
  ASSUME IInv, IInv', Forward, FillInv, NEW p \in Proc, FillCommit(p)
  PROVE  FillInv'
  <1>0. /\ \A q \in Proc \ {p} : Elsewhere(q)
        /\ UNCHANGED <<ahead, told, missed>>
        /\ pc[p] = "f_loop" /\ pc'[p] = "idle"
        /\ rows[p] = {} \/ avail[p] = 0
        /\ req[p].sku \in Sku
        /\ available'[req[p].sku] = avail[p] /\ avail[p] \in Nat
        /\ \A s \in Sku \ {req[p].sku} : available'[s] = available[s]
    BY DEF FillCommit, Return, ClearLocal, Goto, Elsewhere, IInv, TypeOK
  <1>1. FillInOrder(p)
    BY <1>0 DEF FillInv, QueueInv
  <1>t. \A r \in ReqId : /\ reservations[r] \in Reservation /\ got[p][r] \in Nat
                         /\ reservations[r].reserved \in Nat /\ reservations[r].requested \in Nat
                         /\ reservations[r].created \in Nat
                         /\ r \in Served(p) <=> got[p][r] > 0
    BY DEF IInv, TypeOK, Reservation, Served
  <1>2. /\ \A r \in Served(p) : /\ reservations'[r] = Filled(reservations[r], got[p][r])
                                /\ reservations[r].state = "Open"
                                /\ Holds(p, "reservation", r, "Update")
        /\ \A r \in ReqId \ Served(p) : reservations'[r] = reservations[r]
    BY <1>t DEF FillCommit, Served, IInv, LocksProtectReads, CallConsistent
  <1>3. \A r \in ReqId : /\ reservations'[r].sku = reservations[r].sku
                         /\ reservations'[r].created = reservations[r].created
                         /\ reservations'[r].state = "None" <=> reservations[r].state = "None"
                         /\ reservations[r].state = "Closed" => reservations'[r].state = "Closed"
                         /\ Complete(p, r) => reservations'[r].state = "Closed"
                         /\ r \in Served(p) =>
                              reservations'[r].reserved = reservations[r].reserved + got[p][r]
    <2> TAKE r \in ReqId
    <2>1. CASE r \in Served(p)
      <3>1. reservations'[r] = Filled(reservations[r], got[p][r]) /\ reservations[r].state = "Open"
        BY <1>2, <2>1
      <3>2. QED BY <3>1, <1>t DEF Filled, Complete
    <2>2. CASE r \notin Served(p)
      BY <1>2, <2>2 DEF Complete
    <2>3. QED BY <2>1, <2>2
  <1>4. \A q \in Proc \ {p} : pc[q] \in {"f_row", "f_loop"} => Served(q) \cap Served(p) = {}
    <2> SUFFICES ASSUME NEW q \in Proc \ {p}, NEW r \in Served(q), r \in Served(p) PROVE FALSE
      OBVIOUS
    <2>1. Holds(q, "reservation", r, "Update") /\ r \in ReqId
      BY DEF Served, IInv, LocksProtectReads, CallConsistent
    <2>2. Holds(p, "reservation", r, "Update")
      BY <1>2
    <2>3. QED
      BY <2>1, <2>2 DEF IInv, LocksProtectReads, LocksExclusive, Conflict, Table, Mode
  <1>5. QueueInv'
    <2>1. AheadInv'
      BY <1>0, <1>3 DEF FillInv, QueueInv, AheadInv
    <2>2. FillOrder'
      <3> SUFFICES ASSUME NEW r \in ReqId, NEW y \in ahead[r], reservations'[r].reserved > 0
                   PROVE  reservations'[y].state = "Closed"
        BY <1>0 DEF FillOrder
      <3>0. y \in ReqId /\ reservations[y].state # "None"
        BY DEF FillInv, QueueInv, AheadInv
      <3>1. CASE r \in Served(p)
        <4>1. CASE reservations[y].state = "Open"
          BY <1>1, <1>3, <3>0, <3>1, <4>1 DEF FillInOrder, Earlier
        <4>2. CASE reservations[y].state = "Closed"
          BY <1>3, <3>0, <4>2
        <4>3. QED BY <3>0, <4>1, <4>2, <1>t DEF Reservation, State
      <3>2. CASE r \notin Served(p)
        BY <1>2, <1>3, <3>0, <3>2 DEF FillInv, QueueInv, FillOrder
      <3>3. QED BY <3>1, <3>2
    <2>3. ASSUME NEW q \in Proc, pc'[q] \in {"f_row", "f_loop"} PROVE FillInOrder(q)'
      <3>1. q # p /\ pc[q] \in {"f_row", "f_loop"} /\ Elsewhere(q)
        BY <1>0, <2>3 DEF Elsewhere
      <3>2. \A r \in Served(q) : r \in ReqId \ Served(p)
        BY <1>4, <3>1 DEF Served
      <3>3. QED
        BY <1>0, <1>2, <1>3, <3>1, <3>2, OtherFill DEF FillInv
    <2>4. QED BY <2>1, <2>2, <2>3 DEF QueueInv
  <1>6. PublishInv'
    <2>1. SUFFICES ASSUME NEW r \in ReqId
                   PROVE  /\ reservations'[r].reserved > 0 => reservations'[r].reserved \in told[r]
                          /\ \A q \in Proc : pc'[q] = "f_loop" /\ r \in Served(q)' =>
                               reservations'[r].reserved + got'[q][r] \in told[r]
      BY <1>0 DEF PublishInv
    <2>2. \A q \in Proc \ {p} :
            /\ pc[q] = "f_loop" /\ r \in Served(q) <=> pc'[q] = "f_loop" /\ r \in Served(q)'
            /\ got'[q][r] = got[q][r]
      BY <1>0 DEF Elsewhere, Served
    <2>3. CASE r \in Served(p)
      BY <1>0, <1>3, <1>4, <2>2, <2>3 DEF FillInv, PublishInv
    <2>4. CASE r \notin Served(p)
      BY <1>0, <1>2, <2>2, <2>4 DEF FillInv, PublishInv
    <2>5. QED BY <2>3, <2>4
  <1>7. StockInv'
    <2>1. SUFFICES ASSUME NEW r \in ReqId, reservations'[r].state = "Open",
                          available'[reservations[r].sku] > 0,
                          reservations[r].sku \notin missed
                   PROVE  \E q \in Proc : Covers(q, r)'
      BY <1>0, <1>3 DEF StockInv
    <2>2. reservations[r].state = "Open" /\ ~Complete(p, r)
      BY <1>2, <1>3, <1>t, <2>1
    <2>3. available[reservations[r].sku] > 0
      <3>1. avail[p] + given[p] = available[req[p].sku] /\ given[p] \in Nat
        BY <1>0 DEF IInv, TypeOK, LocksProtectReads, CallConsistent
      <3>2. reservations[r].sku \in Sku
        BY <1>t DEF Reservation
      <3>3. QED BY <1>0, <2>1, <3>1, <3>2
    <2>4. PICK q \in Proc : Covers(q, r)
      BY <2>1, <2>2, <2>3 DEF FillInv, StockInv
    <2>5. q # p
      BY <1>0, <2>1, <2>2, <2>4 DEF Covers
    <2>6. pc[q] = "f_loop" => reservations'[r] = reservations[r]
      <3>1. pc[q] = "f_loop" => req[q].sku # req[p].sku
        BY <1>0, <2>5 DEF IInv, TypeOK, LocksProtectReads, LocksExclusive, CallConsistent,
                          Conflict, Table, Mode
      <3>2. r \in Served(p) => reservations[r].sku = req[p].sku
        BY <1>1 DEF FillInOrder
      <3>3. QED BY <1>2, <2>4, <3>1, <3>2 DEF Covers
    <2>7. Covers(q, r)'
      BY <1>0, <1>3, <2>4, <2>5, <2>6 DEF Covers, Elsewhere, Listed, Complete, Served
    <2>8. QED BY <2>7
  <1>8. QED BY <1>5, <1>6, <1>7 DEF FillInv

\* Every step keeps the queue in order, the publications true and the stock owed.
LEMMA NextFillInv ==
  ASSUME IInv, IInv', FillInv, [Next]_vars
  PROVE  FillInv'
  <1>s. CASE UNCHANGED vars
    BY <1>s DEF vars, db, local, FillInv, QueueInv, PublishInv, StockInv, FillOrder,
                AheadInv, FillInOrder, Covers, Earlier, Listed, Served, Complete
  <1> SUFFICES ASSUME Next PROVE FillInv'
    BY <1>s
  <1>0. Forward /\ TypeOK
    BY NextForward DEF IInv
  <1>a. \A p \in Proc : Aside(p) => FillInv'
    BY <1>0, AsideFill
  <1> USE DEF Goto, db, local, Elsewhere
  <1>1. ASSUME NEW p \in Proc, Fail(p) PROVE FillInv'
    <2>1. Aside(p)
      BY <1>0, <1>1 DEF Aside, Fail, Return, ClearLocal, TypeOK
    <2>2. QED BY <1>a, <2>1
  <1>2. ASSUME NEW p \in Proc, Call(p) PROVE FillInv'
    <2>1. Aside(p)
      <3>1. pc[p] = "idle" /\ ~FillDue(p)
        BY <1>2 DEF Call, FillDue
      <3>2. CASE \E s \in Sku : CreateProduct(p, s)
        BY <1>0, <3>1, <3>2 DEF Aside, CreateProduct, TypeOK
      <3>3. CASE \E s \in Sku, r \in ReqId, n \in Qty : Produce(p, s, r, n) \/ Reserve(p, s, r, n)
        BY <1>0, <3>1, <3>3 DEF Aside, Produce, Reserve, TypeOK
      <3>4. QED BY <1>2, <3>2, <3>3 DEF Call
    <2>2. QED BY <1>a, <2>1
  <1>3. ASSUME NEW p \in Proc, Step(p) PROVE FillInv'
    <2>1. CASE CreateUpdate(p) \/ CreateInsert(p)
      <3>1. Aside(p) \/ Fail(p)
        BY <1>0, <2>1 DEF Aside, CreateUpdate, CreateInsert, FillDue, TypeOK
      <3>2. QED BY <1>1, <1>a, <3>1
    <2>2. CASE CreateCommit(p)
      <3>1. Aside(p)
        BY <1>0, <2>2 DEF Aside, CreateCommit, Return, ClearLocal, FillDue, TypeOK
      <3>2. QED BY <1>a, <3>1
    <2>3. CASE ProduceEvent(p) \/ ProduceForeignKey(p) \/ ProduceLock(p) \/ ProduceOverflow(p)
      <3>1. Aside(p) \/ Fail(p)
        BY <1>0, <2>3 DEF Aside, ProduceEvent, ProduceForeignKey, ProduceLock, ProduceOverflow,
                          FillDue, TypeOK
      <3>2. QED BY <1>1, <1>a, <3>1
    <2>4. CASE ProduceCommit(p)
      <3>1. Aside(p)
        BY <1>0, <2>4 DEF Aside, ProduceCommit, ProduceTx, FillDue, TypeOK
      <3>2. QED BY <1>a, <3>1
    <2>5. CASE ProducePublish(p)
      <3>1. Aside(p)
        BY <1>0, <2>5 DEF Aside, ProducePublish, FillDue, TypeOK
      <3>2. QED BY <1>a, <3>1
    <2>6. CASE ReserveLock(p) \/ ReserveFind(p) \/ ReserveInsert(p)
      <3>1. Aside(p) \/ Fail(p)
        BY <1>0, <2>6 DEF Aside, ReserveLock, ReserveFind, ReserveInsert, Return, ClearLocal,
                          FillDue, TypeOK
      <3>2. QED BY <1>1, <1>a, <3>1
    <2>7. CASE ReserveCommit(p)
      BY <1>0, <2>7, ReserveTxFill DEF ReserveCommit
    <2>8. CASE FillBegin(p) \/ FillLockRow(p) \/ FillReadInventory(p) \/ FillOne(p) \/ FillCommit(p)
      BY <1>0, <2>8, FillBeginFill, FillLockRowFill, FillReadInventoryFill, FillOneFill, FillCommitFill
    <2>9. QED
      BY <1>3, <2>1, <2>2, <2>3, <2>4, <2>5, <2>6, <2>7, <2>8 DEF Step
  <1>4. ASSUME NEW p \in Proc, DeadlockVictim(p) \/ Abort(p) PROVE FillInv'
    BY <1>1, <1>4 DEF DeadlockVictim, Abort
  <1>5. ASSUME NEW p \in Proc, CommitReplyLost(p) PROVE FillInv'
    <2>1. CASE ReserveTx(p)
      BY <1>0, <1>5, <2>1, ReserveTxFill
    <2>2. CASE ProduceTx(p)
      <3>1. Aside(p)
        BY <1>0, <1>5, <2>2 DEF Aside, CommitReplyLost, ProduceTx, Return, ClearLocal, FillDue,
                                TypeOK
      <3>2. QED BY <1>a, <3>1
    <2>3. QED BY <1>5, <2>1, <2>2 DEF CommitReplyLost
  <1>6. QED
    BY <1>2, <1>3, <1>4, <1>5, <1>s DEF Next, Failure, Done

\* The three invariants of the queue, for every number of calls and reservations.
LEMMA FillInvAlways == Spec => [](IInv /\ FillInv)
  <1>1. IInv /\ FillInv /\ [Next]_vars => (IInv /\ FillInv)'
    BY NextIInv, NextFillInv
  <1>2. QED
    BY <1>1, InitIInv, InitFillInv, PTL DEF Spec

\* First come, first served, whatever calls interleave and whatever the clocks of
\* the replicas show: stock goes to a reservation only when all those are
\* complete that were there before it and have an earlier stamp (ORDER BY
\* created, repository.go 256; the loop of FillReserves, service.go 489-547).
THEOREM FirstComeFirstServed == Spec => []FillOrder
  BY FillInvAlways, PTL DEF FillInv, QueueInv

\* No stock is handed out in silence: the quantity a reservation holds was
\* handed to the queue and the notifiers before its commit, whatever else fails
\* (service.go 536-549).
THEOREM FillsPublished == Spec => []CommittedFillsPublished
  <1>1. FillInv => CommittedFillsPublished
    BY DEF FillInv, PublishInv, CommittedFillsPublished
  <1>2. QED BY <1>1, FillInvAlways, PTL

\* Once every call has returned, no product has both stock and an open
\* reservation, unless a due fill failed or met the LIMIT (the fills after
\* Produce, service.go 214, and Reserve, 285).
THEOREM StockReachesReservations == Spec => []NoStrandedStock
  <1>1. FillInv => NoStrandedStock
    BY DEF FillInv, StockInv, NoStrandedStock, AllIdle, Covers
  <1>2. QED BY <1>1, FillInvAlways, PTL

-----------------------------------------------------------------------------
(* What a step of one call leaves alone, and what it commits. *)

\* A step of p leaves the calls of the others, and their locks, alone.
Others(p) ==
  \A q \in Proc \ {p} :
    /\ Elsewhere(q) /\ stamp'[q] = stamp[q] /\ given'[q] = given[q]
    /\ \A table \in Table, key \in Sku \cup ReqId, m \in Mode :
         Holds(q, table, key, m) => Holds(q, table, key, m)'

\* One row lock more, or all of p's gone
LEMMA LocksOfOthers ==
  ASSUME TypeOK, NEW p \in Proc,
         \/ locks' = locks
         \/ \E table, key, mode : locks' = locks \cup {<<table, key, p, mode>>}
         \/ locks' = Released(p),
         NEW q \in Proc \ {p}, NEW table \in Table, NEW key \in Sku \cup ReqId, NEW m \in Mode,
         Holds(q, table, key, m)
  PROVE  Holds(q, table, key, m)'
  BY DEF Holds, Released

\* The step of a call that fails, or returns
LEMMA ReturnOthers ==
  ASSUME TypeOK, NEW p \in Proc, Return(p)
  PROVE  Others(p) /\ pc'[p] = "idle"
  <1>1. \A q \in Proc \ {p} : Elsewhere(q) /\ stamp'[q] = stamp[q] /\ given'[q] = given[q]
    BY DEF Return, ClearLocal, Goto, Elsewhere, TypeOK
  <1>2. locks' = Released(p) /\ pc'[p] = "idle"
    BY DEF Return, Goto, TypeOK
  <1>3. QED BY <1>1, <1>2, LocksOfOthers DEF Others

\* Every step is one call's.
LEMMA StepOthers ==
  ASSUME TypeOK, NEW p \in Proc, Call(p) \/ Step(p)
  PROVE  Others(p)
  <1> USE DEF Goto, local
  <1>0. ASSUME \A q \in Proc \ {p} : Elsewhere(q) /\ stamp'[q] = stamp[q] /\ given'[q] = given[q],
               \/ locks' = locks
               \/ \E table, key, mode : locks' = locks \cup {<<table, key, p, mode>>}
               \/ locks' = Released(p)
        PROVE  Others(p)
    BY <1>0, LocksOfOthers DEF Others
  <1>f. ASSUME Fail(p) PROVE Others(p)
    BY <1>f, ReturnOthers DEF Fail
  <1>1. CASE Call(p)
    BY <1>0, <1>1 DEF Call, CreateProduct, Produce, Reserve, Elsewhere, TypeOK
  <1>2. CASE CreateUpdate(p)
    BY <1>0, <1>2 DEF CreateUpdate, Acquire, Elsewhere, TypeOK
  <1>3. CASE CreateInsert(p)
    BY <1>0, <1>f, <1>3 DEF CreateInsert, Acquire, Elsewhere, TypeOK
  <1>4. CASE CreateCommit(p)
    BY <1>4, ReturnOthers DEF CreateCommit
  <1>5. CASE ProduceEvent(p)
    BY <1>0, <1>f, <1>5 DEF ProduceEvent, Acquire, Elsewhere, TypeOK
  <1>6. CASE ProduceForeignKey(p)
    BY <1>0, <1>6 DEF ProduceForeignKey, Acquire, Elsewhere, TypeOK
  <1>7. CASE ProduceLock(p)
    BY <1>0, <1>7 DEF ProduceLock, Acquire, Elsewhere, TypeOK
  <1>8. CASE ProduceCommit(p)
    BY <1>0, <1>8 DEF ProduceCommit, Elsewhere, TypeOK
  <1>9. CASE ProduceOverflow(p)
    BY <1>f, <1>9 DEF ProduceOverflow
  <1>10. CASE ProducePublish(p)
    BY <1>0, <1>10 DEF ProducePublish, Elsewhere, TypeOK
  <1>11. CASE ReserveLock(p)
    BY <1>0, <1>f, <1>11 DEF ReserveLock, Acquire, Elsewhere, TypeOK
  <1>12. CASE ReserveFind(p)
    BY <1>0, <1>12, ReturnOthers DEF ReserveFind, Elsewhere, TypeOK
  <1>13. CASE ReserveInsert(p)
    BY <1>0, <1>f, <1>13 DEF ReserveInsert, Acquire, Elsewhere, TypeOK
  <1>14. CASE ReserveCommit(p)
    BY <1>0, <1>14 DEF ReserveCommit, Elsewhere, TypeOK
  <1>15. CASE FillBegin(p)
    BY <1>0, <1>15 DEF FillBegin, Elsewhere, TypeOK
  <1>16. CASE FillLockRow(p)
    BY <1>0, <1>16 DEF FillLockRow, Acquire, Elsewhere, TypeOK
  <1>17. CASE FillReadInventory(p)
    BY <1>0, <1>17 DEF FillReadInventory, Acquire, Elsewhere, TypeOK
  <1>18. CASE FillOne(p)
    BY <1>0, <1>18 DEF FillOne, Elsewhere, TypeOK
  <1>19. CASE FillCommit(p)
    BY <1>19, ReturnOthers DEF FillCommit
  <1>20. QED
    BY <1>1, <1>2, <1>3, <1>4, <1>5, <1>6, <1>7, <1>8, <1>9, <1>10, <1>11, <1>12, <1>13,
       <1>14, <1>15, <1>16, <1>17, <1>18, <1>19 DEF Step

\* What a step commits, if anything
Commits(p) == CreateCommit(p) \/ ProduceTx(p) \/ ReserveTx(p) \/ FillCommit(p)

\* A step that is no commit leaves the tables alone.
LEMMA TablesKept ==
  ASSUME NEW p \in Proc, Call(p) \/ Step(p) \/ DeadlockVictim(p) \/ Failure(p)
  PROVE  Commits(p) \/ UNCHANGED db
  <1> USE DEF db
  <1>1. CASE Call(p)
    BY <1>1 DEF Call, CreateProduct, Produce, Reserve
  <1>2. CASE Step(p)
    BY <1>2 DEF Step, Commits, CreateUpdate, CreateInsert, ProduceEvent, ProduceForeignKey,
       ProduceLock, ProduceCommit, ProduceOverflow, ProducePublish, ReserveLock, ReserveFind,
       ReserveInsert, ReserveCommit, FillBegin, FillLockRow, FillReadInventory, FillOne, Fail
  <1>3. CASE DeadlockVictim(p) \/ Failure(p)
    BY <1>3 DEF DeadlockVictim, Failure, Abort, CommitReplyLost, Commits, Fail
  <1>4. QED BY <1>1, <1>2, <1>3

\* Failures are one call's step, too.
LEMMA FailureOthers ==
  ASSUME TypeOK, NEW p \in Proc, DeadlockVictim(p) \/ Failure(p)
  PROVE  Others(p) /\ pc'[p] = "idle"
  BY ReturnOthers DEF DeadlockVictim, Failure, Abort, CommitReplyLost, Fail

\* Only these two steps lead into the loop or stay in it.
LEMMA IntoLoop ==
  ASSUME TypeOK, NEW p \in Proc, Call(p) \/ Step(p), pc'[p] = "f_loop"
  PROVE  FillReadInventory(p) \/ (pc[p] = "f_loop" /\ FillOne(p))
  <1> USE DEF Goto, local
  <1>f. ~Fail(p) /\ ~Return(p)
    BY ReturnOthers DEF Fail
  <1>1. ~Call(p)
    BY DEF Call, CreateProduct, Produce, Reserve, TypeOK
  <1>2. ~CreateUpdate(p) /\ ~CreateInsert(p) /\ ~CreateCommit(p)
    BY <1>f DEF CreateUpdate, CreateInsert, CreateCommit, TypeOK
  <1>3. /\ ~ProduceEvent(p) /\ ~ProduceForeignKey(p) /\ ~ProduceLock(p) /\ ~ProduceCommit(p)
        /\ ~ProduceOverflow(p) /\ ~ProducePublish(p)
    BY <1>f DEF ProduceEvent, ProduceForeignKey, ProduceLock, ProduceCommit,
                ProduceOverflow, ProducePublish, TypeOK
  <1>4. ~ReserveLock(p) /\ ~ReserveFind(p) /\ ~ReserveInsert(p) /\ ~ReserveCommit(p)
    BY <1>f DEF ReserveLock, ReserveFind, ReserveInsert, ReserveCommit, TypeOK
  <1>5. ~FillBegin(p) /\ ~FillLockRow(p) /\ ~FillCommit(p)
    BY <1>f DEF FillBegin, FillLockRow, FillCommit, TypeOK
  <1>6. FillOne(p) => pc[p] = "f_loop"
    BY DEF FillOne
  <1>7. QED BY <1>1, <1>2, <1>3, <1>4, <1>5, <1>6 DEF Step

\* A fill's commit leaves the queues as they are.
LEMMA FillKeepsQueues ==
  ASSUME IInv, NEW p \in Proc, FillCommit(p)
  PROVE  /\ \A x \in ReqId :
              /\ reservations'[x].sku = reservations[x].sku
              /\ reservations'[x].requested = reservations[x].requested
              /\ reservations'[x].created = reservations[x].created
              /\ reservations'[x].reserved = reservations[x].reserved + got[p][x]
              /\ reservations'[x].state = "None" <=> reservations[x].state = "None"
         /\ \A t : Queue(t)' = Queue(t)
  <1>1. ASSUME NEW x \in ReqId
        PROVE  /\ reservations'[x].sku = reservations[x].sku
               /\ reservations'[x].requested = reservations[x].requested
               /\ reservations'[x].created = reservations[x].created
               /\ reservations'[x].reserved = reservations[x].reserved + got[p][x]
               /\ reservations'[x].state = "None" <=> reservations[x].state = "None"
    <2>1. reservations[x].reserved \in Nat /\ got[p][x] \in Nat
      BY DEF IInv, TypeOK, Reservation
    <2>2. CASE got[p][x] > 0
      <3>1. reservations[x].state = "Open"
        BY <2>2 DEF IInv, LocksProtectReads, CallConsistent
      <3>2. reservations'[x] = Filled(reservations[x], got[p][x])
        BY <2>2 DEF FillCommit
      <3>3. QED BY <3>1, <3>2 DEF Filled
    <2>3. CASE ~(got[p][x] > 0)
      BY <2>1, <2>3 DEF FillCommit
    <2>4. QED BY <2>2, <2>3
  <1>2. ASSUME NEW t PROVE Queue(t)' = Queue(t)
    BY <1>1 DEF Queue
  <1>3. QED BY <1>1, <1>2

-----------------------------------------------------------------------------
(* Sums over finitely many rows.  SumFunction adds the values one by one, in *)
(* an order of its own that depends on the domain only.                      *)

\* The value that is added last to those of S
Pick(S) == CHOOSE x \in S : TRUE

\* g has the sums of f over all subsets of D.
PartialSums(D, f, g) ==
  g = [S \in SUBSET D |-> IF S = {} THEN 0 ELSE f[Pick(S)] + g[S \ {Pick(S)}]]

\* A set of numbers has a least one.
LEMMA LeastNumber ==
  ASSUME NEW T, T \subseteq Nat, T # {}
  PROVE  \E m \in T : \A k \in T : m <= k
  <1>1. PICK m \in T : \A k \in T : ~(<<k, m>> \in OpToRel(<, Nat))
    BY WFMin, NatLessThanWellFounded, Zenon
  <1>2. \A k \in T : ~(k < m)
    BY <1>1 DEF OpToRel
  <1>3. QED BY <1>2

\* What holds of {} and, with S without its last value, of S, holds of all
\* subsets of a finite set: X is the set of those it holds of.
LEMMA SubsetInduction ==
  ASSUME NEW D, IsFiniteSet(D), NEW X, {} \in X,
         \A S \in SUBSET D : S # {} /\ S \ {Pick(S)} \in X => S \in X
  PROVE  \A S \in SUBSET D : S \in X
  <1> SUFFICES ASSUME \E S \in SUBSET D : S \notin X PROVE FALSE
    OBVIOUS
  <1> DEFINE T == {Cardinality(S) : S \in {V \in SUBSET D : V \notin X}}
  <1>1. \A S \in SUBSET D : IsFiniteSet(S) /\ Cardinality(S) \in Nat
    BY FS_Subset, FS_CardinalityType
  <1>2. T \subseteq Nat /\ T # {}
    BY <1>1
  <1>3. PICK m \in T : \A k \in T : m <= k
    BY <1>2, LeastNumber
  <1>4. PICK S \in SUBSET D : S \notin X /\ Cardinality(S) = m
    BY <1>3
  <1>5. S # {} /\ Pick(S) \in S
    BY <1>4 DEF Pick
  <1>6. S \ {Pick(S)} \in SUBSET D /\ S \ {Pick(S)} \notin X
    BY <1>4, <1>5
  <1>7. Cardinality(S \ {Pick(S)}) = m - 1
    BY <1>1, <1>4, <1>5, FS_RemoveElement
  <1>8. m - 1 \in T
    BY <1>6, <1>7
  <1> HIDE DEF T
  <1>9. m \in Nat /\ m <= m - 1
    BY <1>2, <1>3, <1>8
  <1>10. QED BY <1>9

\* The sums over all subsets of a finite set exist.
LEMMA PartialSumsExist ==
  ASSUME NEW D, IsFiniteSet(D), NEW f \in [D -> Int]
  PROVE  \E g \in [SUBSET D -> Int] : PartialSums(D, f, g)
  <1> DEFINE Eq(g, S) == g[S] = IF S = {} THEN 0 ELSE f[Pick(S)] + g[S \ {Pick(S)}]
             Upto(n) == {g \in [SUBSET D -> Int] :
                           \A S \in SUBSET D : Cardinality(S) <= n => Eq(g, S)}
             T == {n \in Nat : Upto(n) = {}}
  <1>1. \A S \in SUBSET D : IsFiniteSet(S) /\ Cardinality(S) \in Nat
    BY FS_Subset, FS_CardinalityType
  <1>2. ASSUME NEW S \in SUBSET D, S # {}
        PROVE  /\ Pick(S) \in S /\ Pick(S) \in D /\ S \ {Pick(S)} \in SUBSET D
               /\ Cardinality(S \ {Pick(S)}) = Cardinality(S) - 1
    <2>1. Pick(S) \in S
      BY <1>2 DEF Pick
    <2>2. QED BY <1>1, <2>1, FS_RemoveElement
  <1>3. T = {}
    <2> SUFFICES ASSUME T # {} PROVE FALSE
      OBVIOUS
    <2>1. PICK m \in T : \A k \in T : m <= k
      BY LeastNumber
    <2>2. CASE m = 0
      <3> DEFINE z == [S \in SUBSET D |-> 0]
      <3>1. \A S \in SUBSET D : Cardinality(S) <= 0 => S = {}
        BY <1>1, FS_EmptySet
      <3>2. z \in Upto(0)
        BY <3>1
      <3>3. QED BY <2>1, <2>2, <3>2
    <2>3. CASE m # 0
      <3>1. m - 1 \in Nat /\ m - 1 \notin T
        <4> HIDE DEF T
        <4>1. m \in Nat
          BY DEF T
        <4>2. m - 1 \in Nat /\ ~(m <= m - 1)
          BY <2>3, <4>1
        <4>3. QED BY <2>1, <4>2
      <3>2. PICK g \in [SUBSET D -> Int] :
              \A S \in SUBSET D : Cardinality(S) <= m - 1 => Eq(g, S)
        BY <3>1
      <3> DEFINE h == [S \in SUBSET D |-> IF S = {} THEN 0 ELSE f[Pick(S)] + g[S \ {Pick(S)}]]
      <3>3. h \in [SUBSET D -> Int]
        <4>1. ASSUME NEW S \in SUBSET D, S # {} PROVE f[Pick(S)] + g[S \ {Pick(S)}] \in Int
          <5>1. f[Pick(S)] \in Int /\ g[S \ {Pick(S)}] \in Int
            BY <1>2, <4>1
          <5>2. QED BY <5>1
        <4>2. QED BY <4>1
      <3>4. \A S \in SUBSET D : Cardinality(S) <= m - 1 => h[S] = g[S]
        BY <3>2
      <3>5. ASSUME NEW S \in SUBSET D, Cardinality(S) <= m PROVE Eq(h, S)
        <4>1. CASE S = {}
          BY <4>1
        <4>2. CASE S # {}
          <5>1. Cardinality(S \ {Pick(S)}) <= m - 1 /\ S \ {Pick(S)} \in SUBSET D
            <6>1. /\ Cardinality(S \ {Pick(S)}) = Cardinality(S) - 1 /\ S \ {Pick(S)} \in SUBSET D
                  /\ Cardinality(S) \in Nat /\ m \in Nat
              BY <1>1, <1>2, <4>2
            <6>2. QED BY <3>5, <6>1
          <5>2. h[S \ {Pick(S)}] = g[S \ {Pick(S)}]
            BY <3>4, <5>1
          <5>3. QED BY <4>2, <5>2
        <4>3. QED BY <4>1, <4>2
      <3> HIDE DEF h
      <3>6. h \in Upto(m)
        BY <3>3, <3>5
      <3>7. QED BY <2>1, <3>6
    <2>4. QED BY <2>2, <2>3
  <1>4. PICK g \in [SUBSET D -> Int] :
          \A S \in SUBSET D : Cardinality(S) <= Cardinality(D) => Eq(g, S)
    <2>1. Cardinality(D) \in Nat
      BY FS_CardinalityType
    <2>2. Upto(Cardinality(D)) # {}
      BY <1>3, <2>1
    <2>3. QED BY <2>2
  <1>5. \A S \in SUBSET D : Cardinality(S) <= Cardinality(D)
    BY FS_Subset
  <1>6. PartialSums(D, f, g)
    BY <1>4, <1>5 DEF PartialSums
  <1>7. QED BY <1>6

\* SumFunction is the partial sum over the whole domain.
LEMMA SumIsPartial ==
  ASSUME NEW D, IsFiniteSet(D), NEW f \in [D -> Int]
  PROVE  \E g \in [SUBSET D -> Int] : PartialSums(D, f, g) /\ SumFunction(f) = g[D]
  <1>1. PICK h \in [SUBSET D -> Int] : PartialSums(D, f, h)
    BY PartialSumsExist
  <1>2. DOMAIN f = D
    OBVIOUS
  <1>3. PICK g : PartialSums(D, f, g) /\ SumFunction(f) = g[D]
    <2>1. \E g : PartialSums(DOMAIN f, f, g)
      BY <1>1, <1>2
    <2>2. \E g : PartialSums(DOMAIN f, f, g) /\ SumFunction(f) = g[DOMAIN f]
      BY <2>1
         DEF SumFunction, SumFunctionOnSet, FoldFunctionOnSet, MapThenFoldSet, PartialSums, Pick
    <2>3. QED BY <1>2, <2>2
  <1> DEFINE X == {S \in SUBSET D : g[S] = h[S]}
  <1>4. \A S \in SUBSET D :
          /\ g[S] = IF S = {} THEN 0 ELSE f[Pick(S)] + g[S \ {Pick(S)}]
          /\ h[S] = IF S = {} THEN 0 ELSE f[Pick(S)] + h[S \ {Pick(S)}]
    BY <1>1, <1>3, Zenon DEF PartialSums
  <1>5. {} \in X /\ \A S \in SUBSET D : S # {} /\ S \ {Pick(S)} \in X => S \in X
    BY <1>4
  <1> HIDE DEF X
  <1>6. \A S \in SUBSET D : S \in X
    BY <1>5, SubsetInduction
  <1>7. g[D] = h[D]
    BY <1>6 DEF X
  <1>8. QED BY <1>1, <1>3, <1>7

\* A sum is a number.
LEMMA SumType ==
  ASSUME NEW D, IsFiniteSet(D), NEW f \in [D -> Int]
  PROVE  SumFunction(f) \in Int
  <1>1. PICK g \in [SUBSET D -> Int] : SumFunction(f) = g[D]
    BY SumIsPartial
  <1>2. QED BY <1>1

\* The sum of pointwise sums is the sum of the sums.
LEMMA SumAdds ==
  ASSUME NEW D, IsFiniteSet(D), NEW a \in [D -> Int], NEW b \in [D -> Int],
         NEW c \in [D -> Int], \A x \in D : c[x] = a[x] + b[x]
  PROVE  SumFunction(c) = SumFunction(a) + SumFunction(b)
  <1>1. PICK ga \in [SUBSET D -> Int] : PartialSums(D, a, ga) /\ SumFunction(a) = ga[D]
    BY SumIsPartial
  <1>2. PICK gb \in [SUBSET D -> Int] : PartialSums(D, b, gb) /\ SumFunction(b) = gb[D]
    BY SumIsPartial
  <1>3. PICK gc \in [SUBSET D -> Int] : PartialSums(D, c, gc) /\ SumFunction(c) = gc[D]
    BY SumIsPartial
  <1> DEFINE X == {S \in SUBSET D : gc[S] = ga[S] + gb[S]}
  <1>4. \A S \in SUBSET D :
          /\ ga[S] = IF S = {} THEN 0 ELSE a[Pick(S)] + ga[S \ {Pick(S)}]
          /\ gb[S] = IF S = {} THEN 0 ELSE b[Pick(S)] + gb[S \ {Pick(S)}]
          /\ gc[S] = IF S = {} THEN 0 ELSE c[Pick(S)] + gc[S \ {Pick(S)}]
    BY <1>1, <1>2, <1>3, Zenon DEF PartialSums
  <1>5. {} \in X
    <2>1. ga[{}] = 0 /\ gb[{}] = 0 /\ gc[{}] = 0
      BY <1>4
    <2>2. QED BY <2>1
  <1>6. ASSUME NEW S \in SUBSET D, S # {}, S \ {Pick(S)} \in X PROVE S \in X
    <2>1. Pick(S) \in D /\ S \ {Pick(S)} \in SUBSET D
      BY <1>6 DEF Pick
    <2>2. c[Pick(S)] = a[Pick(S)] + b[Pick(S)] /\ a[Pick(S)] \in Int /\ b[Pick(S)] \in Int
      BY <2>1
    <2>3. /\ ga[S \ {Pick(S)}] \in Int /\ gb[S \ {Pick(S)}] \in Int
          /\ gc[S \ {Pick(S)}] = ga[S \ {Pick(S)}] + gb[S \ {Pick(S)}]
      BY <1>6, <2>1
    <2>4. QED BY <1>4, <1>6, <2>2, <2>3
  <1> HIDE DEF X
  <1>7. \A S \in SUBSET D : S \in X
    BY <1>5, <1>6, SubsetInduction
  <1>8. gc[D] = ga[D] + gb[D]
    BY <1>7 DEF X
  <1>9. QED BY <1>1, <1>2, <1>3, <1>8

\* The sum of a function that is 0 but at one place
LEMMA SumOfOne ==
  ASSUME NEW D, IsFiniteSet(D), NEW r \in D, NEW n \in Int
  PROVE  SumFunction([x \in D |-> IF x = r THEN n ELSE 0]) = n
  <1> DEFINE a == [x \in D |-> IF x = r THEN n ELSE 0]
  <1>1. a \in [D -> Int] /\ \A x \in D : a[x] = IF x = r THEN n ELSE 0
    OBVIOUS
  <1> HIDE DEF a
  <1>2. PICK g \in [SUBSET D -> Int] : PartialSums(D, a, g) /\ SumFunction(a) = g[D]
    BY <1>1, SumIsPartial
  <1> DEFINE X == {S \in SUBSET D : g[S] = IF r \in S THEN n ELSE 0}
  <1>3. \A S \in SUBSET D : g[S] = IF S = {} THEN 0 ELSE a[Pick(S)] + g[S \ {Pick(S)}]
    BY <1>2, Zenon DEF PartialSums
  <1>4. {} \in X
    BY <1>3
  <1>5. ASSUME NEW S \in SUBSET D, S # {}, S \ {Pick(S)} \in X PROVE S \in X
    <2>1. Pick(S) \in S /\ Pick(S) \in D /\ S \ {Pick(S)} \in SUBSET D
      BY <1>5 DEF Pick
    <2>2. g[S] = a[Pick(S)] + g[S \ {Pick(S)}]
      BY <1>3, <1>5
    <2>3. g[S \ {Pick(S)}] = IF r \in S \ {Pick(S)} THEN n ELSE 0
      BY <1>5
    <2>4. CASE Pick(S) = r
      <3>1. a[Pick(S)] = n /\ g[S \ {Pick(S)}] = 0
        BY <1>1, <2>1, <2>3, <2>4
      <3>2. QED BY <2>1, <2>2, <2>4, <3>1
    <2>5. CASE Pick(S) # r
      <3>1. a[Pick(S)] = 0 /\ g[S \ {Pick(S)}] = IF r \in S THEN n ELSE 0
        BY <1>1, <2>1, <2>3, <2>5
      <3>2. g[S] = IF r \in S THEN n ELSE 0
        BY <2>2, <3>1
      <3>3. QED BY <3>2
    <2>6. QED BY <2>4, <2>5
  <1> HIDE DEF X
  <1>6. \A S \in SUBSET D : S \in X
    BY <1>4, <1>5, SubsetInduction
  <1>7. g[D] = n
    BY <1>6 DEF X
  <1>8. QED BY <1>2, <1>7 DEF a

\* A function that is 0 everywhere has the sum 0.
LEMMA SumOfZero ==
  ASSUME NEW D, IsFiniteSet(D), NEW a \in [D -> Int], \A x \in D : a[x] = 0
  PROVE  SumFunction(a) = 0
  <1>1. \A x \in D : a[x] = a[x] + a[x]
    OBVIOUS
  <1>2. SumFunction(a) \in Int /\ SumFunction(a) = SumFunction(a) + SumFunction(a)
    BY <1>1, SumType, SumAdds
  <1>3. PICK n \in Int : n = SumFunction(a)
    BY <1>2
  <1>4. n = n + n
    BY <1>2, <1>3
  <1>5. n = 0
    BY <1>4
  <1>6. QED BY <1>3, <1>5

\* One value more or less by n changes the sum by n.
LEMMA SumOfUpdate ==
  ASSUME NEW D, IsFiniteSet(D), NEW a \in [D -> Int], NEW b \in [D -> Int],
         NEW r \in D, NEW n \in Int,
         \A x \in D : b[x] = IF x = r THEN a[x] + n ELSE a[x]
  PROVE  SumFunction(b) = SumFunction(a) + n
  <1> DEFINE d == [x \in D |-> IF x = r THEN n ELSE 0]
  <1>1. d \in [D -> Int] /\ \A x \in D : b[x] = a[x] + d[x]
    OBVIOUS
  <1>2. SumFunction(d) = n
    BY SumOfOne
  <1> HIDE DEF d
  <1>3. QED BY <1>1, <1>2, SumAdds

-----------------------------------------------------------------------------
(* Units are conserved. *)

\* What a fill has handed out in its open transaction is the sum of what its
\* reservations got.
GivenInv ==
  \A p \in Proc : pc[p] = "f_loop" =>
    given[p] = SumFunction(got[p]) /\ \A r \in ReqId : got[p][r] <= given[p]

\* GivenInv is inductive.
LEMMA NextGivenInv ==
  ASSUME IsFiniteSet(ReqId), IInv, GivenInv, [Next]_vars
  PROVE  GivenInv'
  <1>s. CASE UNCHANGED vars
    BY <1>s DEF vars, local, GivenInv
  <1>t. TypeOK
    BY DEF IInv
  <1>1. ASSUME NEW p \in Proc, Call(p) \/ Step(p) \/ DeadlockVictim(p) \/ Failure(p),
               NEW q \in Proc, pc'[q] = "f_loop"
        PROVE  given'[q] = SumFunction(got'[q]) /\ \A r \in ReqId : got'[q][r] <= given'[q]
    <2>1. CASE q # p
      <3>1. Elsewhere(q) /\ given'[q] = given[q]
        BY <1>t, <1>1, <2>1, StepOthers, FailureOthers DEF Others
      <3>2. QED BY <1>1, <3>1 DEF Elsewhere, GivenInv
    <2>2. CASE q = p
      <3>1. FillReadInventory(p) \/ (pc[p] = "f_loop" /\ FillOne(p))
        BY <1>t, <1>1, <2>2, IntoLoop, FailureOthers
      <3>2. CASE FillReadInventory(p)
        <4>1. given'[p] = 0 /\ got'[p] \in [ReqId -> Int] /\ \A r \in ReqId : got'[p][r] = 0
          BY <3>2 DEF FillReadInventory, IInv, TypeOK, LocksProtectReads, CallConsistent
        <4>2. SumFunction(got'[p]) = 0
          BY <4>1, SumOfZero
        <4>3. QED BY <2>2, <4>1, <4>2
      <3>3. CASE pc[p] = "f_loop" /\ FillOne(p)
        <4>1. PICK r \in rows[p], n \in Nat :
                /\ got' = [got EXCEPT ![p][r] = n]
                /\ given' = [given EXCEPT ![p] = given[p] + n]
          <5>1. ASSUME NEW r \in rows[p] PROVE ReserveAmount(p, r) \in Nat
            BY DEF IInv, TypeOK, Reservation, ReservationsSound, ReserveAmount, Min2
          <5>2. QED BY <3>3, <5>1 DEF FillOne
        <4>2. r \in ReqId /\ got[p][r] = 0 /\ got[p] \in [ReqId -> Int]
          BY DEF IInv, TypeOK, LocksProtectReads, CallConsistent
        <4>3. /\ got'[p] \in [ReqId -> Int]
              /\ \A x \in ReqId : got'[p][x] = IF x = r THEN got[p][x] + n ELSE got[p][x]
          BY <4>1, <4>2 DEF IInv, TypeOK
        <4>4. SumFunction(got'[p]) = SumFunction(got[p]) + n
          <5>1. PICK a \in [ReqId -> Int], b \in [ReqId -> Int] : a = got[p] /\ b = got'[p]
            BY <4>2, <4>3
          <5>2. \A x \in ReqId : b[x] = IF x = r THEN a[x] + n ELSE a[x]
            BY <4>3, <5>1
          <5>3. SumFunction(b) = SumFunction(a) + n
            BY <4>2, <5>2, SumOfUpdate
          <5>4. QED BY <5>1, <5>3
        <4>5. given'[p] = given[p] + n /\ given[p] = SumFunction(got[p]) /\ given[p] \in Nat
          BY <3>3, <4>1 DEF GivenInv, IInv, TypeOK
        <4>6. \A x \in ReqId : got[p][x] \in Nat /\ got[p][x] <= given[p]
          BY <3>3 DEF GivenInv, IInv, TypeOK
        <4>7. \A x \in ReqId : got'[p][x] <= given'[p]
          BY <4>2, <4>3, <4>5, <4>6
        <4>8. QED BY <2>2, <4>4, <4>5, <4>7
      <3>4. QED BY <3>1, <3>2, <3>3
    <2>3. QED BY <2>1, <2>2
  <1>2. QED BY <1>s, <1>1 DEF GivenInv, Next, Done

\* The amounts of the rows are numbers.
LEMMA AmountTypes ==
  ASSUME TypeOK, NEW s
  PROVE  HeldOf(s) \in [ReqId -> Int] /\ MadeOf(s) \in [ReqId -> Int]
  BY DEF HeldOf, MadeOf, TypeOK, Reservation

\* Creating a product, with a single creator, changes no amount.
LEMMA CreateConserves ==
  ASSUME IInv, LedgerInv, StockConserved, NEW p \in Proc, CreateCommit(p)
  PROVE  StockConserved'
  <1>1. available[req[p].sku] = 0
    BY DEF CreateCommit, IInv, TypeOK, LedgerInv, CreationIsFresh, NoLostUpdate
  <1>2. UNCHANGED <<available, events, reservations>>
    BY <1>1 DEF CreateCommit, IInv, TypeOK
  <1>3. QED BY <1>2 DEF StockConserved, HeldOf, MadeOf

\* Produce adds its quantity to the stock and to the events.
LEMMA ProduceConserves ==
  ASSUME IsFiniteSet(ReqId), IInv, StockConserved, NEW p \in Proc, ProduceTx(p)
  PROVE  StockConserved'
  <1>p. PICK s \in Sku, r \in ReqId, n \in Nat :
          s = req[p].sku /\ r = req[p].rid /\ n = req[p].qty
    BY DEF IInv, TypeOK
  <1>1. /\ available[s] \in Nat /\ events[r].qty = 0 /\ avail[p] = available[s]
    BY <1>p DEF ProduceTx, IInv, TypeOK, LocksProtectReads, CallConsistent
  <1>2. /\ available' = [available EXCEPT ![s] = available[s] + n]
        /\ events' = [events EXCEPT ![r] = [sku |-> s, qty |-> n]]
        /\ reservations' = reservations
    BY <1>p, <1>1 DEF ProduceTx
  <1>3. \A x \in ReqId : events'[x] = IF x = r THEN [sku |-> s, qty |-> n] ELSE events[x]
    BY <1>2 DEF IInv, TypeOK
  <1>4. ASSUME NEW t \in Sku
        PROVE  available'[t] + SumFunction(HeldOf(t)') = SumFunction(MadeOf(t)')
    <2>1. HeldOf(t)' = HeldOf(t)
      BY <1>2 DEF HeldOf
    <2>2. MadeOf(t) \in [ReqId -> Int] /\ HeldOf(t) \in [ReqId -> Int] /\ available[t] \in Int
      BY AmountTypes DEF IInv, TypeOK
    <2>3. available[t] + SumFunction(HeldOf(t)) = SumFunction(MadeOf(t))
      BY DEF StockConserved
    <2>4. CASE t = s
      <3>1. /\ MadeOf(t)' \in [ReqId -> Int]
            /\ \A x \in ReqId : (MadeOf(t)')[x] = IF x = r THEN MadeOf(t)[x] + n ELSE MadeOf(t)[x]
        <4>1. \A x \in ReqId : events[x].qty \in Nat
          BY DEF IInv, TypeOK
        <4>2. \A x \in ReqId : (MadeOf(t)')[x] = IF x = r THEN n ELSE MadeOf(t)[x]
          BY <1>3, <2>4 DEF MadeOf
        <4>3. MadeOf(t)[r] = 0
          BY <1>1 DEF MadeOf
        <4>4. MadeOf(t)' = [x \in ReqId |-> (MadeOf(t)')[x]]
          BY DEF MadeOf
        <4>5. \A x \in ReqId : (MadeOf(t)')[x] \in Int
          BY <2>2, <4>2
        <4>6. MadeOf(t)[r] + n = n
          BY <4>3
        <4>7. QED BY <4>2, <4>4, <4>5, <4>6
      <3>2. SumFunction(MadeOf(t)') = SumFunction(MadeOf(t)) + n
        <4>1. PICK a \in [ReqId -> Int], b \in [ReqId -> Int] : a = MadeOf(t) /\ b = MadeOf(t)'
          BY <2>2, <3>1
        <4>2. \A x \in ReqId : b[x] = IF x = r THEN a[x] + n ELSE a[x]
          BY <3>1, <4>1
        <4>3. n \in Int
          OBVIOUS
        <4>4. SumFunction(b) = SumFunction(a) + n
          BY <4>2, <4>3, SumOfUpdate
        <4>5. QED BY <4>1, <4>4
      <3>3. SumFunction(HeldOf(t)) \in Int
        BY <2>2, SumType
      <3>4. available'[t] = available[t] + n
        BY <1>2, <2>4 DEF IInv, TypeOK
      <3>5. QED BY <2>1, <2>2, <2>3, <3>2, <3>3, <3>4
    <2>5. CASE t # s
      <3>1. MadeOf(t)' = MadeOf(t)
        BY <1>1, <1>3, <2>5 DEF MadeOf
      <3>2. available'[t] = available[t]
        BY <1>2, <2>5 DEF IInv, TypeOK
      <3>3. QED BY <2>1, <2>3, <3>1, <3>2
    <2>6. QED BY <2>4, <2>5
  <1>5. QED BY <1>4 DEF StockConserved

\* A new reservation holds nothing.
LEMMA ReserveConserves ==
  ASSUME IInv, StockConserved, NEW p \in Proc, ReserveTx(p)
  PROVE  StockConserved'
  <1>p. PICK r \in ReqId : r = req[p].rid
    BY DEF IInv, TypeOK
  <1>1. reservations[r].reserved = 0
    <2>1. reservations[r].state = "None"
      BY <1>p DEF ReserveTx, IInv, LocksProtectReads, CallConsistent
    <2>2. reservations[r].reserved <= 0 /\ reservations[r].reserved \in Nat
      BY <2>1 DEF IInv, ReservationsSound, TypeOK, Reservation
    <2>3. QED BY <2>2
  <1>2. /\ \A x \in ReqId \ {r} : reservations'[x] = reservations[x]
        /\ reservations'[r].reserved = 0 /\ UNCHANGED <<available, events>>
    BY <1>p DEF ReserveTx, IInv, TypeOK
  <1>3. ASSUME NEW t \in Sku PROVE HeldOf(t)' = HeldOf(t) /\ MadeOf(t)' = MadeOf(t)
    BY <1>1, <1>2 DEF HeldOf, MadeOf
  <1>4. QED BY <1>2, <1>3 DEF StockConserved

\* A fill moves what it has given from the stock to the reservations.
LEMMA FillConserves ==
  ASSUME IsFiniteSet(ReqId), IInv, QueueInv, GivenInv, StockConserved,
         NEW p \in Proc, FillCommit(p)
  PROVE  StockConserved'
  <1>p. PICK s \in Sku : s = req[p].sku
    BY DEF IInv, TypeOK
  <1>1. /\ pc[p] = "f_loop" /\ events' = events
        /\ available' = [available EXCEPT ![s] = avail[p]]
    BY <1>p DEF FillCommit
  <1>2. /\ got[p] \in [ReqId -> Int] /\ given[p] = SumFunction(got[p]) /\ given[p] \in Int
        /\ avail[p] \in Int /\ avail[p] + given[p] = available[s]
    BY <1>p, <1>1 DEF GivenInv, IInv, TypeOK, LocksProtectReads, CallConsistent
  <1>3. \A x \in ReqId : /\ reservations'[x].sku = reservations[x].sku
                         /\ reservations'[x].reserved = reservations[x].reserved + got[p][x]
    BY FillKeepsQueues
  <1>4. \A x \in ReqId : got[p][x] # 0 => reservations[x].sku = s
    <2>1. \A x \in ReqId : got[p][x] # 0 => x \in Served(p)
      BY DEF Served, IInv, TypeOK
    <2>2. QED BY <1>p, <1>1, <2>1 DEF QueueInv, FillInOrder
  <1>5. ASSUME NEW t \in Sku
        PROVE  available'[t] + SumFunction(HeldOf(t)') = SumFunction(MadeOf(t)')
    <2>1. MadeOf(t)' = MadeOf(t)
      BY <1>1 DEF MadeOf
    <2>2. MadeOf(t) \in [ReqId -> Int] /\ HeldOf(t) \in [ReqId -> Int] /\ available[t] \in Int
      BY AmountTypes DEF IInv, TypeOK
    <2>3. available[t] + SumFunction(HeldOf(t)) = SumFunction(MadeOf(t))
      BY DEF StockConserved
    <2>r. \A x \in ReqId : reservations[x].reserved \in Int /\ got[p][x] \in Int
      BY DEF IInv, TypeOK, Reservation
    <2>4. CASE t = s
      <3>1. /\ HeldOf(t)' \in [ReqId -> Int]
            /\ \A x \in ReqId : (HeldOf(t)')[x] = HeldOf(t)[x] + got[p][x]
        BY <1>3, <1>4, <2>4, <2>r DEF HeldOf
      <3>2. /\ SumFunction(HeldOf(t)') = SumFunction(HeldOf(t)) + SumFunction(got[p])
            /\ SumFunction(HeldOf(t)) \in Int
        BY <1>2, <2>2, <3>1, SumAdds, SumType
      <3>3. available'[t] = avail[p]
        BY <1>1, <2>4 DEF IInv, TypeOK
      <3>4. QED BY <1>2, <2>1, <2>2, <2>3, <2>4, <3>2, <3>3
    <2>5. CASE t # s
      <3>1. HeldOf(t)' = HeldOf(t)
        BY <1>3, <1>4, <2>5, <2>r DEF HeldOf
      <3>2. available'[t] = available[t]
        BY <1>1, <2>5 DEF IInv, TypeOK
      <3>3. QED BY <2>1, <2>3, <3>1, <3>2
    <2>6. QED BY <2>4, <2>5
  <1>6. QED BY <1>5 DEF StockConserved

\* Units are conserved with a single creator of products, for every number of
\* products, calls and rows: at every moment the stock and what the reservations
\* hold add up to what the production events brought in (Produce, service.go
\* 191-205, and FillReserves, 494-547).
THEOREM UnitsConserved ==
  ASSUME SingleCreator, IsFiniteSet(ReqId) PROVE Spec => []StockConserved
  <1> DEFINE Inv == IInv /\ LedgerInv /\ FillInv /\ GivenInv /\ StockConserved
  <1>1. Init => Inv
    <2>1. Init => LedgerInv
      BY ConstantsAssumption DEF Init, LedgerInv, NoLostUpdate, CreationIsFresh
    <2>2. Init => GivenInv
      BY DEF Init, GivenInv
    <2>3. ASSUME Init PROVE StockConserved
      <3>1. ASSUME NEW s \in Sku
            PROVE  available[s] + SumFunction(HeldOf(s)) = SumFunction(MadeOf(s))
        <4>1. /\ HeldOf(s) \in [ReqId -> Int] /\ \A r \in ReqId : HeldOf(s)[r] = 0
              /\ MadeOf(s) \in [ReqId -> Int] /\ \A r \in ReqId : MadeOf(s)[r] = 0
          BY <2>3 DEF Init, HeldOf, MadeOf, NoRes, NoEvt
        <4>2. SumFunction(HeldOf(s)) = 0 /\ SumFunction(MadeOf(s)) = 0 /\ available[s] = 0
          BY <2>3, <4>1, SumOfZero DEF Init
        <4>3. QED BY <4>2
      <3>2. QED BY <3>1 DEF StockConserved
    <2>4. QED BY <2>1, <2>2, <2>3, InitIInv, InitFillInv
  <1>2. ASSUME Inv, [Next]_vars PROVE StockConserved'
    <2>s. CASE UNCHANGED db
      BY <1>2, <2>s DEF db, StockConserved, HeldOf, MadeOf
    <2>1. ASSUME NEW p \in Proc, Call(p) \/ Step(p) \/ DeadlockVictim(p) \/ Failure(p)
          PROVE  StockConserved'
      BY <1>2, <2>s, <2>1, TablesKept, CreateConserves, ProduceConserves, ReserveConserves,
         FillConserves DEF Commits, FillInv
    <2>2. QED BY <1>2, <2>s, <2>1 DEF Next, Done, vars
  <1>3. Inv /\ [Next]_vars => Inv'
    BY <1>2, NextIInv, NextLedger, NextFillInv, NextGivenInv
  <1>4. QED
    BY <1>1, <1>3, PTL DEF Spec

-----------------------------------------------------------------------------
(* The service implements StockLedger. *)

\* What the commit of Reserve relies on: the reservation has its stamp, and the
\* quantity fits.
ReserveInv ==
  \A p \in Proc :
    /\ pc[p] \in {"r_insert", "r_commit"} => stamp[p] \in Time
    /\ pc[p] = "r_commit" => req[p].qty <= MaxInt

\* What the call of p has on its way to the commit of Reserve
LEMMA ReserveReady ==
  ASSUME TypeOK, ReserveInv, NEW p \in Proc, Call(p) \/ Step(p),
         pc'[p] \in {"r_insert", "r_commit"}
  PROVE  /\ stamp'[p] \in Time
         /\ pc'[p] = "r_commit" => req'[p].qty <= MaxInt
  <1> USE DEF Goto, local
  <1>f. ~Fail(p) /\ ~Return(p)
    BY ReturnOthers DEF Fail
  <1>1. CASE ReserveLock(p)
    BY <1>f, <1>1 DEF ReserveLock, TypeOK
  <1>2. CASE ReserveFind(p)
    BY <1>f, <1>2 DEF ReserveFind, TypeOK
  <1>3. CASE ReserveInsert(p)
    BY <1>f, <1>3 DEF ReserveInsert, ReserveInv, TypeOK
  <1>4. CASE Call(p)
    BY <1>4 DEF Call, CreateProduct, Produce, Reserve, TypeOK
  <1>5. CASE CreateUpdate(p) \/ CreateInsert(p) \/ CreateCommit(p)
    BY <1>f, <1>5 DEF CreateUpdate, CreateInsert, CreateCommit, TypeOK
  <1>6. CASE ProduceEvent(p) \/ ProduceForeignKey(p) \/ ProduceLock(p) \/ ProduceCommit(p)
               \/ ProduceOverflow(p) \/ ProducePublish(p)
    BY <1>f, <1>6 DEF ProduceEvent, ProduceForeignKey, ProduceLock, ProduceCommit,
                      ProduceOverflow, ProducePublish, TypeOK
  <1>7. CASE ReserveCommit(p) \/ FillBegin(p) \/ FillLockRow(p) \/ FillReadInventory(p)
               \/ FillOne(p) \/ FillCommit(p)
    BY <1>f, <1>7 DEF ReserveCommit, FillBegin, FillLockRow, FillReadInventory, FillOne,
                      FillCommit, TypeOK
  <1>8. QED BY <1>1, <1>2, <1>3, <1>4, <1>5, <1>6, <1>7 DEF Step

\* ReserveInv is inductive.
LEMMA NextReserveInv ==
  ASSUME IInv, ReserveInv, [Next]_vars
  PROVE  ReserveInv'
  <1>s. CASE UNCHANGED vars
    BY <1>s DEF vars, local, ReserveInv
  <1>t. TypeOK
    BY DEF IInv
  <1>1. ASSUME NEW p \in Proc, Call(p) \/ Step(p) \/ DeadlockVictim(p) \/ Failure(p),
               NEW q \in Proc, pc'[q] \in {"r_insert", "r_commit"}
        PROVE  stamp'[q] \in Time /\ (pc'[q] = "r_commit" => req'[q].qty <= MaxInt)
    <2>1. CASE q = p
      BY <1>t, <1>1, <2>1, ReserveReady, FailureOthers
    <2>2. CASE q # p
      <3>1. Elsewhere(q) /\ stamp'[q] = stamp[q]
        BY <1>t, <1>1, <2>2, StepOthers, FailureOthers DEF Others
      <3>2. QED BY <1>1, <3>1 DEF ReserveInv, Elsewhere
    <2>3. QED BY <2>1, <2>2
  <1>2. QED BY <1>s, <1>1 DEF ReserveInv, Next, Done

\* Every quantity of the ledger stays when the tables stay.
LEMMA LedgerStill ==
  ASSUME UNCHANGED db
  PROVE  UNCHANGED Ledger!vars
  BY DEF Ledger!vars, Queue, db

\* The commit of CreateProduct is Create.
LEMMA CreateRefines ==
  ASSUME IInv, LedgerInv, NEW p \in Proc, CreateCommit(p)
  PROVE  Ledger!Next
  <1> DEFINE s == req[p].sku
  <1>1. s \in Sku \ products /\ available[s] = 0
    BY DEF CreateCommit, IInv, TypeOK, LedgerInv, CreationIsFresh, NoLostUpdate
  <1>2. available' = available /\ products' = products \cup {s} /\ UNCHANGED <<events, reservations, ahead>>
    BY <1>1 DEF CreateCommit, IInv, TypeOK
  <1> HIDE DEF s
  <1>3. Ledger!Create(s)
    BY <1>1, <1>2 DEF Ledger!Create, Queue
  <1>4. QED BY <1>1, <1>3 DEF Ledger!Next

\* The commit of Produce is Produce.
LEMMA ProduceRefines ==
  ASSUME IInv, LedgerInv, NEW p \in Proc, ProduceTx(p)
  PROVE  Ledger!Next
  <1>p. PICK s \in Sku, r \in ReqId, n \in Nat :
          s = req[p].sku /\ r = req[p].rid /\ n = req[p].qty
    BY DEF IInv, TypeOK
  <1>1. /\ n > 0 /\ available[s] \in Nat /\ MaxInt \in Nat
        /\ s \in products /\ events[r].qty = 0 /\ avail[p] = available[s]
    BY <1>p, ConstantsAssumption
       DEF ProduceTx, IInv, TypeOK, LocksProtectReads, CallConsistent, LedgerInv, CreationIsFresh
  <1>2. /\ available' = [available EXCEPT ![s] = available[s] + n]
        /\ available[s] + n <= MaxInt
        /\ events' = [events EXCEPT ![r] = [sku |-> s, qty |-> n]]
        /\ UNCHANGED <<products, reservations, ahead>>
    BY <1>p, <1>1 DEF ProduceTx
  <1>3. \A x \in ReqId : events'[x].qty = IF x = r THEN n ELSE events[x].qty
    BY <1>2 DEF IInv, TypeOK
  <1>4. Ledger!Produce(s, r, n)
    BY <1>1, <1>2, <1>3 DEF Ledger!Produce, Queue
  <1>5. n \in 1 .. MaxInt
    BY <1>1, <1>2
  <1>6. QED BY <1>4, <1>5 DEF Ledger!Next

\* The commit of Reserve is Reserve.
LEMMA ReserveRefines ==
  ASSUME IInv, LedgerInv, ReserveInv, NEW p \in Proc, ReserveTx(p)
  PROVE  Ledger!Next
  <1>p. PICK s \in Sku, r \in ReqId, n \in Nat, t \in Time :
          s = req[p].sku /\ r = req[p].rid /\ n = req[p].qty /\ t = stamp[p]
    BY DEF IInv, TypeOK, ReserveTx, ReserveInv
  <1>1. /\ n > 0 /\ n <= MaxInt /\ MaxInt \in Nat /\ s \in products
        /\ reservations[r].state = "None" /\ reservations[r].requested = 0
        /\ reservations[r].reserved = 0
    <2>1. reservations[r].state = "None" /\ n > 0 /\ n <= MaxInt /\ s \in products
      BY <1>p DEF ReserveTx, IInv, LocksProtectReads, CallConsistent, LedgerInv, CreationIsFresh,
                  ReserveInv
    <2>2. reservations[r].requested = 0 /\ reservations[r].reserved <= 0
      BY <2>1 DEF IInv, ReservationsSound
    <2>3. reservations[r].reserved \in Nat
      BY DEF IInv, TypeOK, Reservation
    <2>4. QED BY <2>1, <2>2, <2>3, ConstantsAssumption
  <1>2. /\ \A x \in ReqId \ {r} : reservations'[x] = reservations[x]
        /\ reservations'[r].sku = s /\ reservations'[r].state = "Open"
        /\ reservations'[r].requested = n /\ reservations'[r].reserved = 0
        /\ reservations'[r].created = t
        /\ UNCHANGED <<products, available, events>>
    BY <1>p DEF ReserveTx, IInv, TypeOK
  <1>3. ahead' = [ahead EXCEPT ![r] = {x \in Queue(s) : reservations[x].created < t}]
    BY <1>p DEF ReserveTx
  <1>4. \A u \in Sku : Queue(u)' = IF u = s THEN Queue(s) \cup {r} ELSE Queue(u)
    BY <1>1, <1>2 DEF Queue
  <1>5. Ledger!Reserve(s, r, n, t)
    <2>1. [x \in ReqId |-> reservations[x].requested]'
            = [[x \in ReqId |-> reservations[x].requested] EXCEPT ![r] = n]
      BY <1>2
    <2>2. [x \in ReqId |-> reservations[x].reserved]' = [x \in ReqId |-> reservations[x].reserved]
      BY <1>1, <1>2
    <2>3. [u \in Sku |-> Queue(u)]' = [[u \in Sku |-> Queue(u)] EXCEPT ![s] = Queue(s) \cup {r}]
      BY <1>4
    <2>4. [x \in ReqId |-> reservations[x].created]'
            = [[x \in ReqId |-> reservations[x].created] EXCEPT ![r] = t]
      BY <1>2
    <2>5. [x \in ReqId |-> events[x].qty]' = [x \in ReqId |-> events[x].qty]
      BY <1>2
    <2>6. ahead' = [ahead EXCEPT ![r] =
            {x \in [u \in Sku |-> Queue(u)][s] : [y \in ReqId |-> reservations[y].created][x] < t}]
      BY <1>3 DEF Queue
    <2>7. QED
      BY <1>1, <1>2, <2>1, <2>2, <2>3, <2>4, <2>5, <2>6 DEF Ledger!Reserve
  <1>6. n \in 1 .. MaxInt
    BY <1>1
  <1>7. QED BY <1>5, <1>6 DEF Ledger!Next

\* The ledger's sums are the sums of this module.
LEMMA SameSum == \A f : Ledger!SumFunction(f) = SumFunction(f)
  BY DEF SumFunction, SumFunctionOnSet, FoldFunctionOnSet, Ledger!SumFunction,
         Ledger!SumFunctionOnSet, Ledger!FoldFunctionOnSet, MapThenFoldSet,
         Ledger!MapThenFoldSet

\* Who gets what in a fill is fair: nobody more than asked for, nobody before one
\* it waits for, and only the last one served may get a part.
LEMMA FillFair ==
  ASSUME IInv, QueueInv, GivenInv, NEW p \in Proc, pc[p] = "f_loop",
         NEW s \in Sku, s = req[p].sku
  PROVE  Ledger!Fair(s, got[p])
  <1>1. FillInOrder(p) /\ CallConsistent(p) /\ req[p].sku = s
    BY DEF QueueInv, IInv, LocksProtectReads
  <1>2. \A r \in ReqId : /\ got[p][r] \in Nat /\ (r \in Served(p) <=> got[p][r] > 0)
                         /\ reservations[r].reserved \in Nat /\ reservations[r].requested \in Nat
                         /\ reservations[r].reserved <= reservations[r].requested
    BY DEF IInv, TypeOK, Reservation, ReservationsSound, Served
  <1>3. ASSUME NEW r \in ReqId
        PROVE  /\ got[p][r] > 0 => r \in Queue(s)
               /\ reservations[r].reserved + got[p][r] <= reservations[r].requested
    <2>1. CASE got[p][r] > 0
      <3>1. r \in Queue(s)
        BY <1>1, <1>2, <2>1 DEF FillInOrder, Queue
      <3>2. QED BY <1>1, <2>1, <3>1 DEF CallConsistent
    <2>2. CASE ~(got[p][r] > 0)
      BY <1>2, <2>2
    <2>3. QED BY <2>1, <2>2
  <1>4. ASSUME NEW r \in ReqId, got[p][r] > 0, NEW x \in ahead[r]
        PROVE  reservations[x].reserved + got[p][x] = reservations[x].requested /\ x \in ReqId
    <2>1. x \in ReqId /\ reservations[x].state # "None" /\ r \in Served(p)
      BY <1>2, <1>4 DEF QueueInv, AheadInv
    <2>2. CASE reservations[x].state = "Open"
      BY <1>1, <2>1, <2>2 DEF FillInOrder, Earlier, Complete
    <2>3. CASE reservations[x].state # "Open"
      <3>1. reservations[x].state = "Closed"
        BY <2>1, <2>3 DEF IInv, TypeOK, Reservation, State
      <3>2. reservations[x].reserved = reservations[x].requested
        BY <2>1, <3>1 DEF IInv, ReservationsSound
      <3>3. ~(got[p][x] > 0)
        BY <1>1, <2>1, <2>3 DEF CallConsistent
      <3>4. QED BY <1>2, <2>1, <3>2, <3>3
    <2>4. QED BY <2>2, <2>3
  <1>5. ASSUME NEW r \in ReqId, got[p][r] > 0,
               reservations[r].reserved + got[p][r] < reservations[r].requested
        PROVE  Ledger!SumFunction(got[p]) = available[s]
    <2>1. r \in Served(p) /\ ~Complete(p, r)
      BY <1>2, <1>5 DEF Complete
    <2>2. avail[p] = 0 /\ avail[p] + given[p] = available[s] /\ given[p] \in Nat
      BY <1>1, <2>1 DEF FillInOrder, CallConsistent, IInv, TypeOK
    <2>3. QED BY <2>2, SameSum DEF GivenInv
  <1>6. QED BY <1>3, <1>4, <1>5 DEF Ledger!Fair

\* The commit of a fill is Fill.
LEMMA FillRefines ==
  ASSUME IInv, QueueInv, GivenInv, NEW p \in Proc, FillCommit(p)
  PROVE  Ledger!Next
  <1>p. PICK s \in Sku : s = req[p].sku
    BY DEF IInv, TypeOK
  <1>1. /\ pc[p] = "f_loop" /\ UNCHANGED <<products, events, ahead>>
        /\ available' = [available EXCEPT ![s] = avail[p]]
    BY <1>p DEF FillCommit
  <1>2. /\ given[p] \in Nat /\ avail[p] \in Nat /\ available[s] \in Nat
        /\ avail[p] + given[p] = available[s]
        /\ \A r \in ReqId : got[p][r] \in Nat /\ got[p][r] <= given[p]
        /\ got[p] \in [ReqId -> Nat]
    BY <1>p, <1>1 DEF GivenInv, IInv, TypeOK, LocksProtectReads, CallConsistent
  <1>3. Ledger!SumFunction(got[p]) = given[p]
    BY <1>1, SameSum DEF GivenInv
  <1>4. PICK share \in [ReqId -> 0 .. available[s]] : share = got[p]
    <2>1. \A r \in ReqId : got[p][r] \in 0 .. available[s]
      BY <1>2
    <2>2. QED BY <1>2, <2>1
  <1>5. Ledger!Fair(s, share)
    BY <1>p, <1>1, <1>4, FillFair
  <1>6. available' = [available EXCEPT ![s] = available[s] - Ledger!SumFunction(share)]
    <2>1. avail[p] = available[s] - given[p]
      BY <1>2
    <2>2. QED BY <1>1, <1>3, <1>4, <2>1
  <1>7. /\ [r \in ReqId |-> reservations[r].reserved]' =
             [r \in ReqId |-> [x \in ReqId |-> reservations[x].reserved][r] + share[r]]
        /\ UNCHANGED [r \in ReqId |-> reservations[r].requested]
        /\ UNCHANGED [r \in ReqId |-> reservations[r].created]
        /\ UNCHANGED [t \in Sku |-> Queue(t)]
    BY <1>4, FillKeepsQueues
  <1>8. Ledger!SumFunction(share) <= available[s]
    BY <1>2, <1>3, <1>4
  <1>9. UNCHANGED [r \in ReqId |-> events[r].qty]
    BY <1>1
  <1>10. Ledger!Fill(s)
    BY <1>1, <1>5, <1>6, <1>7, <1>8, <1>9 DEF Ledger!Fill
  <1>11. QED BY <1>10 DEF Ledger!Next

\* Every step of the service is a step of the ledger, or none.
LEMMA NextRefines ==
  ASSUME IInv, LedgerInv, QueueInv, ReserveInv, GivenInv, [Next]_vars
  PROVE  Ledger!Next \/ UNCHANGED Ledger!vars
  <1>s. CASE UNCHANGED db
    BY <1>s, LedgerStill
  <1>1. ASSUME NEW p \in Proc, Call(p) \/ Step(p) \/ DeadlockVictim(p) \/ Failure(p)
        PROVE  Ledger!Next \/ UNCHANGED Ledger!vars
    BY <1>s, <1>1, TablesKept, CreateRefines, ProduceRefines, ReserveRefines, FillRefines
       DEF Commits
  <1>2. QED BY <1>s, <1>1 DEF Next, Done, vars

\* The service implements StockLedger when no two calls create the same product
\* at once: whatever the interleaving of statements, the stamps of the replicas'
\* clocks, the lists of reservations that are stale when they are used, the
\* deadlocks, aborts and lost commit replies, the committed tables change by
\* whole operations of a ledger that serves nobody before one it waits for
\* (CreateProduct 96-137, Produce 139-216, Reserve 218-290, FillReserves
\* 447-552).
THEOREM ImplementsStockLedger ==
  ASSUME SingleCreator, IsFiniteSet(ReqId) PROVE Spec => ImplementsLedger
  <1> DEFINE Inv == IInv /\ LedgerInv /\ FillInv /\ ReserveInv /\ GivenInv
  <1>1. Init => Inv
    <2>1. Init => LedgerInv
      BY ConstantsAssumption DEF Init, LedgerInv, NoLostUpdate, CreationIsFresh
    <2>2. Init => ReserveInv /\ GivenInv
      BY DEF Init, ReserveInv, GivenInv
    <2>3. QED BY <2>1, <2>2, InitIInv, InitFillInv
  <1>2. Inv /\ [Next]_vars => Inv'
    BY NextIInv, NextLedger, NextFillInv, NextReserveInv, NextGivenInv DEF FillInv
  <1>3. Init => Ledger!Init
    BY ConstantsAssumption DEF Init, Ledger!Init, Queue, NoRes, NoEvt
  <1>4. Inv /\ [Next]_vars => [Ledger!Next]_(Ledger!vars)
    BY NextRefines DEF FillInv
  <1>5. QED
    BY <1>1, <1>2, <1>3, <1>4, PTL DEF Spec, ImplementsLedger, Ledger!Spec
=============================================================================
