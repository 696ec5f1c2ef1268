---------------------------- MODULE InventoryCache ----------------------------
(***************************************************************************)
(* The read-through cache of GetProductInventory (service.go 333-364)      *)
(* against the writers that invalidate it in publishInventory (568-576).   *)
(* One product.  Produce invalidates after its commit; FillReserves from   *)
(* inside its transaction, before the commit.  The writers' row lock is    *)
(* taken from Inventory: one of them at a time is in its transaction.      *)
(* ProductRead makes this the read of an HTTP request.                     *)
(***************************************************************************)
EXTENDS Naturals

CONSTANTS
  Reader, Producer, Filler,  \* concurrent requests, by what they run
  TTL,                       \* the configured time to live; 0 is not set
  MaxStock,                  \* bound: the largest committed quantity
  MaxFaults                  \* bound: cache errors and rolled back fills

ASSUME CacheAssumption == TTL \in Nat /\ MaxStock \in Nat /\ MaxFaults \in Nat

VARIABLES
  row,       \* committed product_inventory.available
  past,      \* every value it ever had
  lock,      \* a writer holds the row lock
  entry,     \* the cached value, with whether it can expire, or none
  pc,        \* of every request
  val,       \* what it read or is about to commit
  faults

vars == <<row, past, lock, entry, pc, val, faults>>

Request == Reader \cup Producer \cup Filler
NoEntry == [cached |-> FALSE, value |-> 0, expires |-> FALSE]

Init ==
  /\ row = 0 /\ past = {0}
  /\ lock = FALSE
  /\ entry = NoEntry
  /\ pc = [p \in Request |-> "idle"]
  /\ val = [p \in Request |-> 0]
  /\ faults = 0

TypeOK ==
  /\ row \in 0 .. MaxStock /\ past \subseteq 0 .. MaxStock
  /\ lock \in BOOLEAN
  /\ entry \in [cached : BOOLEAN, value : 0 .. MaxStock, expires : BOOLEAN]
  /\ pc \in [Request -> {"idle", "read", "set", "invalidate", "commit"}]
  /\ val \in [Request -> 0 .. MaxStock]
  /\ faults \in 0 .. MaxFaults

Goto(p, l) == pc' = [pc EXCEPT ![p] = l]
Fault == faults < MaxFaults /\ faults' = faults + 1

\* SetCache: a TTL that is not positive falls back to five minutes.
CacheTTL == IF TTL > 0 THEN TTL ELSE 5

-----------------------------------------------------------------------------
(* GetProductInventory *)

\* cache.Get; a hit ends the call.
GetMiss(p) ==
  /\ pc[p] = "idle" /\ ~entry.cached
  /\ Goto(p, "read")
  /\ UNCHANGED <<row, past, lock, entry, val, faults>>

\* A cache error counts as a miss.
GetError(p) ==
  /\ pc[p] = "idle"
  /\ Fault
  /\ Goto(p, "read")
  /\ UNCHANGED <<row, past, lock, entry, val>>

\* The repository, outside any transaction.
Read(p) ==
  /\ pc[p] = "read"
  /\ val' = [val EXCEPT ![p] = row]
  /\ Goto(p, "set")
  /\ UNCHANGED <<row, past, lock, entry, faults>>

\* Mutant: the configured TTL is used as it is; 0 means no expiry.
SetRawTTL(p) ==
  /\ pc[p] = "set"
  /\ entry' = [cached |-> TRUE, value |-> val[p], expires |-> TTL > 0]
  /\ Goto(p, "idle")
  /\ UNCHANGED <<row, past, lock, val, faults>>

\* cache.Set
Set(p) ==
  /\ pc[p] = "set"
  /\ entry' = [cached |-> TRUE, value |-> val[p], expires |-> CacheTTL > 0]
  /\ Goto(p, "idle")
  /\ UNCHANGED <<row, past, lock, val, faults>>

\* It fails and is only logged.
SetFails(p) ==
  /\ pc[p] = "set"
  /\ Fault
  /\ Goto(p, "idle")
  /\ UNCHANGED <<row, past, lock, entry, val>>

Expire ==
  /\ entry.cached /\ entry.expires
  /\ entry' = NoEntry
  /\ UNCHANGED <<row, past, lock, pc, val, faults>>

-----------------------------------------------------------------------------
(* Writers *)

\* The transaction has locked and read the row and computed the new value.
Begin(p) ==
  /\ pc[p] = "idle" /\ ~lock
  /\ lock' = TRUE
  /\ \/ /\ p \in Producer
        /\ \E n \in row + 1 .. MaxStock : val' = [val EXCEPT ![p] = n]
        /\ Goto(p, "commit")
     \/ /\ p \in Filler
        /\ \E n \in 0 .. row - 1 : val' = [val EXCEPT ![p] = n]
        /\ Goto(p, "invalidate")
  /\ UNCHANGED <<row, past, entry, faults>>

Commit(p) ==
  /\ pc[p] = "commit"
  /\ row' = val[p] /\ past' = past \cup {val[p]}
  /\ lock' = FALSE
  /\ Goto(p, IF p \in Producer THEN "invalidate" ELSE "idle")
  /\ UNCHANGED <<entry, val, faults>>

\* Where publishInventory returns to: a producer is done, a filler goes on with
\* the next reservation (which publishes again) or commits.
Published(p) ==
  \/ p \in Producer /\ Goto(p, "idle") /\ UNCHANGED val
  \/ p \in Filler /\ Goto(p, "commit") /\ UNCHANGED val
  \/ /\ p \in Filler /\ val[p] > 0
     /\ Goto(p, "invalidate")
     /\ \E n \in 0 .. val[p] - 1 : val' = [val EXCEPT ![p] = n]

\* Mutant: the writer stores its value instead of dropping the entry.
InvalidateWrites(p) ==
  /\ pc[p] = "invalidate"
  /\ entry' = [cached |-> TRUE, value |-> val[p], expires |-> TRUE]
  /\ Published(p)
  /\ UNCHANGED <<row, past, lock, faults>>

\* publishInventory: s.cache.Delete
Invalidate(p) ==
  /\ pc[p] = "invalidate"
  /\ entry' = NoEntry
  /\ Published(p)
  /\ UNCHANGED <<row, past, lock, faults>>

\* It fails and is only logged.
InvalidateFails(p) ==
  /\ pc[p] = "invalidate"
  /\ Fault
  /\ Published(p)
  /\ UNCHANGED <<row, past, lock, entry>>

\* A fill fails after it has published.
Rollback(p) ==
  /\ p \in Filler /\ pc[p] \in {"invalidate", "commit"}
  /\ Fault
  /\ lock' = FALSE
  /\ Goto(p, "idle")
  /\ UNCHANGED <<row, past, entry, val>>

-----------------------------------------------------------------------------

WriteStep(p) == Commit(p) \/ Invalidate(p) \/ InvalidateFails(p)

-----------------------------------------------------------------------------
(* Properties *)

Stale == entry.cached /\ entry.value # row

\* The cache never shows a quantity the table never had, although fills that
\* are rolled back have published theirs.
CacheHoldsCommitted == entry.cached => entry.value \in past

\* A stale entry does not stay: whatever left it there, its time to live ends
\* it, also with no TTL configured ("a missed invalidation self-heals quickly",
\* service.go 79).
StaleHeals == Stale ~> ~Stale
=============================================================================
