-------------------------- MODULE ProductReadProofs --------------------------
(***************************************************************************)
(* Proofs about GET /api/v1/inventory/{sku} (ProductRead): what the cache  *)
(* may hold and a response may show, and how long a catalog lookup lasts,  *)
(* for any number of readers and writers and every configuration.          *)
(***************************************************************************)
EXTENDS ProductRead, Integers, TLAPS

\* A Lookup call: its attempts within the budget, its clock within the deadline.
LookupRecord ==
  [at : {"none", "try", "wait"}, attempt : 0 .. Attempts, elapsed : 0 .. Total,
   since : Nat, wait : Int]

\* The type invariant of the composed specification
ReadTypeOK ==
  /\ TypeOK
  /\ lookup \in [Reader -> LookupRecord]
  /\ stage \in [Reader -> {"new", "service", "catalog"}]
  /\ shown \in [Reader -> 0 .. MaxStock]

\* A reader between the repository's read and cache.Set still holds a quantity
\* the table has had, although writers commit in between.
ReadCommitted ==
  /\ row \in past
  /\ \A p \in Request : pc[p] = "set" => val[p] \in past

\* Every response so far showed a quantity the table has had (the safety part
\* of ReadAnswered).
ShownCommitted == \A p \in Reader : shown[p] \in past

\* What StaleHeals rests on: no entry is stored without a time to live.
EntryExpires == entry.cached => entry.expires

\* The inductive invariant
ReadInv ==
  ReadTypeOK /\ ReadCommitted /\ CacheHoldsCommitted /\ ShownCommitted /\ EntryExpires

-----------------------------------------------------------------------------
(* The operators of the model *)

\* Backoffs are whole units of time.
LEMMA BackoffWaitsInt ==
  ASSUME NEW n \in Nat
  PROVE  BackoffWaits(n) \subseteq Int
BY DEF BackoffWaits

\* Settings that are not positive get their defaults, so all are positive.
LEMMA ConfigDefaults ==
  /\ Total \in Nat \ {0} /\ Attempts \in Nat \ {0}
  /\ CacheTTL > 0
BY ClientAssumption, CacheAssumption DEF Total, Attempts, CacheTTL, Default

\* A Lookup that has not started has the type of one.
LEMMA NoLookupType == NoLookup \in LookupRecord
BY ConfigDefaults DEF NoLookup, LookupRecord

\* An entry is NoEntry or holds one of the reader's quantities.
LEMMA NoEntryType ==
  CacheAssumption => NoEntry \in [cached : BOOLEAN, value : 0 .. MaxStock, expires : BOOLEAN]
BY DEF NoEntry, CacheAssumption

-----------------------------------------------------------------------------
(* The catalog client *)

\* Lookup starts with its first attempt and a clock at zero.
LEMMA StartLookupStep ==
  ASSUME NEW p \in Reader, lookup \in [Reader -> LookupRecord], StartLookup(p)
  PROVE  lookup' \in [Reader -> LookupRecord]
<1>1. PICK r \in LookupRecord : r = [NoLookup EXCEPT !.at = "try"]
  <2>1. ASSUME NEW n \in LookupRecord PROVE [n EXCEPT !.at = "try"] \in LookupRecord
    BY DEF LookupRecord
  <2>2. QED BY <2>1, NoLookupType
<1>2. [r EXCEPT !.attempt = 1] \in LookupRecord
  BY ConfigDefaults DEF LookupRecord
<1>3. [NoLookup EXCEPT !.at = "try", !.attempt = 1] = [r EXCEPT !.attempt = 1]
  BY <1>1
<1>4. QED BY <1>2, <1>3 DEF StartLookup

\* Every step of the client, and every answer of the upstream, stays within the
\* attempts and the deadline.
LEMMA LookupCatalogStep ==
  ASSUME NEW p \in Reader, lookup \in [Reader -> LookupRecord],
         LookupStep(p) \/ Upstream(p)
  PROVE  lookup' \in [Reader -> LookupRecord]
<1> USE ConfigDefaults
<1>1. CASE Tick(p)
  BY <1>1 DEF Tick, Deadline, LookupRecord
<1>2. CASE Return(p)
  BY <1>2, NoLookupType DEF Return
<1>3. CASE lookup[p].at = "try" /\ Retry(p)
  <2>1. CASE lookup[p].attempt < Attempts
    <3>1. PICK w \in BackoffWaits(lookup[p].attempt) :
             lookup' = [lookup EXCEPT ![p].at = "wait", ![p].attempt = @ + 1,
                                      ![p].since = 0, ![p].wait = w]
      BY <1>3, <2>1 DEF Retry, LookupRecord
    <3>2. w \in Int
      BY BackoffWaitsInt DEF LookupRecord
    <3>3. QED BY <2>1, <3>1, <3>2 DEF LookupRecord
  <2>2. CASE lookup[p].attempt >= Attempts
    BY <1>2, <1>3, <2>2 DEF Retry, LookupRecord
  <2>3. QED BY <2>1, <2>2 DEF LookupRecord
<1>4. CASE WaitEnds(p)
  BY <1>4 DEF WaitEnds, LookupRecord
<1>5. QED
  BY <1>1, <1>2, <1>3, <1>4
  DEF LookupStep, Upstream, AttemptTimesOut, AttemptSettles, AttemptFails, WaitCutOff

-----------------------------------------------------------------------------
(* The whole read *)

\* At first the cache is empty and nobody reads.
LEMMA InitInv == ReadInit => ReadInv
<1> SUFFICES ASSUME ReadInit PROVE ReadInv OBVIOUS
<1> USE DEF ReadInit, Init
<1>1. ReadTypeOK
  <2>1. TypeOK
    <3>1. entry \in [cached : BOOLEAN, value : 0 .. MaxStock, expires : BOOLEAN]
      BY NoEntryType, CacheAssumption
    <3>2. 0 \in 0 .. MaxStock /\ 0 \in 0 .. MaxFaults
      BY CacheAssumption
    <3>3. row \in 0 .. MaxStock /\ past \subseteq 0 .. MaxStock /\ lock \in BOOLEAN
      BY <3>2, Zenon
    <3>4. /\ pc \in [Request -> {"idle", "read", "set", "invalidate", "commit"}]
          /\ val \in [Request -> 0 .. MaxStock]
          /\ faults \in 0 .. MaxFaults
      BY <3>2
    <3>5. QED BY <3>1, <3>3, <3>4 DEF TypeOK
  <2>2. lookup \in [Reader -> LookupRecord]
    BY NoLookupType
  <2>3. QED BY <2>1, <2>2, CacheAssumption DEF ReadTypeOK
<1>2. ReadCommitted /\ CacheHoldsCommitted /\ ShownCommitted /\ EntryExpires
  BY DEF ReadCommitted, CacheHoldsCommitted, ShownCommitted, EntryExpires, NoEntry
<1>3. QED BY <1>1, <1>2 DEF ReadInv

\* Types, of a step of the handler
LEMMA ReaderType ==
  ASSUME NEW p \in Reader, ReadTypeOK, Start(p) \/ Serve(p) \/ LookupCatalog(p)
  PROVE  ReadTypeOK'
<1> USE CacheAssumption DEF ReadTypeOK, TypeOK, Stage, Show, Goto, Fault, Request
<1>1. CASE Start(p)
  BY <1>1 DEF Start, vars
<1>2. CASE Hit(p)
  BY <1>2, StartLookupStep DEF Hit, vars
<1>3. CASE Miss(p)
  <2>1. UNCHANGED <<row, past, lock, entry, lookup, stage, shown>>
    BY <1>3, Zenon DEF Miss, GetMiss, GetError, Read
  <2>2. /\ pc' \in [Request -> {"idle", "read", "set", "invalidate", "commit"}]
        /\ val' \in [Request -> 0 .. MaxStock]
        /\ faults' \in 0 .. MaxFaults
    BY <1>3 DEF Miss, GetMiss, GetError, Read
  <2>3. QED BY <2>1, <2>2
<1>4. CASE ReadFails(p)
  BY <1>4 DEF ReadFails
<1>5. CASE Populate(p)
  <2>1. lookup' \in [Reader -> LookupRecord]
    BY <1>5, StartLookupStep DEF Populate
  <2>2. stage' \in [Reader -> {"new", "service", "catalog"}] /\ shown' \in [Reader -> 0 .. MaxStock]
    BY <1>5 DEF Populate
  <2>3. CASE Set(p)
    <3>1. entry' = [cached |-> TRUE, value |-> val[p], expires |-> TRUE]
      BY <2>3, ConfigDefaults DEF Set
    <3>2. TypeOK'
      BY <2>3, <3>1 DEF Set
    <3>3. QED BY <2>1, <2>2, <3>2
  <2>4. CASE SetFails(p)
    <3>1. TypeOK'
      BY <2>4 DEF SetFails
    <3>2. QED BY <2>1, <2>2, <3>1
  <2>5. QED BY <1>5, <2>3, <2>4 DEF Populate
<1>6. CASE LookupCatalog(p)
  BY <1>6, LookupCatalogStep DEF LookupCatalog, vars
<1>7. QED BY <1>1, <1>2, <1>3, <1>4, <1>5, <1>6 DEF Serve

\* Types, of a step of a writer
LEMMA WriterType ==
  ASSUME NEW p \in Producer \cup Filler, ReadTypeOK, UNCHANGED Own,
         Begin(p) \/ WriteStep(p) \/ Rollback(p)
  PROVE  ReadTypeOK'
<1> USE CacheAssumption DEF TypeOK, Goto, Fault, Request
<1>1. TypeOK
  BY DEF ReadTypeOK
<1>2. CASE Begin(p)
  <2>1. PICK n \in 0 .. MaxStock : val' = [val EXCEPT ![p] = n]
    BY <1>1, <1>2 DEF Begin
  <2>2. QED BY <1>1, <1>2, <2>1 DEF Begin, ReadTypeOK, Own
<1>3. CASE Commit(p)
  <2>1. lock' \in BOOLEAN /\ UNCHANGED <<entry, val, faults>>
    BY <1>3, Zenon DEF Commit
  <2>2. row' \in 0 .. MaxStock /\ past' \subseteq 0 .. MaxStock
    <3>1. val[p] \in 0 .. MaxStock
      BY <1>1
    <3>2. row' = val[p] /\ past' = past \cup {val[p]}
      BY <1>3, Zenon DEF Commit
    <3>3. QED BY <1>1, <3>1, <3>2
  <2>3. pc' \in [Request -> {"idle", "read", "set", "invalidate", "commit"}]
    <3>1. PICK l \in {"idle", "invalidate"} : pc' = [pc EXCEPT ![p] = l]
      BY <1>3, Zenon DEF Commit
    <3>2. QED BY <1>1, <3>1
  <2>4. QED BY <1>1, <2>1, <2>2, <2>3 DEF ReadTypeOK, Own
<1>4. CASE Invalidate(p)
  BY <1>1, <1>4, NoEntryType DEF Invalidate, Published, ReadTypeOK, Own
<1>5. CASE InvalidateFails(p)
  BY <1>1, <1>5 DEF InvalidateFails, Published, ReadTypeOK, Own
<1>6. CASE Rollback(p)
  <2>1. lock' \in BOOLEAN /\ UNCHANGED <<row, past, entry, val>>
    BY <1>6, Zenon DEF Rollback
  <2>2. /\ pc' \in [Request -> {"idle", "read", "set", "invalidate", "commit"}]
        /\ faults' \in 0 .. MaxFaults
    BY <1>1, <1>6 DEF Rollback
  <2>3. QED BY <1>1, <2>1, <2>2 DEF ReadTypeOK, Own
<1>7. QED BY <1>2, <1>3, <1>4, <1>5, <1>6 DEF WriteStep

\* The handler's own steps: a hit shows what the cache holds, a miss reads the
\* row, populates the cache with it and shows it.
LEMMA ReaderStep ==
  ASSUME NEW p \in Reader, ReadInv, Start(p) \/ Serve(p) \/ LookupCatalog(p)
  PROVE  ReadInv'
<1>1. ReadTypeOK'
  BY ReaderType DEF ReadInv
<1> DEFINE Kept == ReadCommitted /\ CacheHoldsCommitted /\ ShownCommitted /\ EntryExpires
<1>2. Kept'
  <2> USE DEF ReadInv, ReadTypeOK, TypeOK, Stage, Show, Goto, Request
  <2> USE DEF ReadCommitted, CacheHoldsCommitted, ShownCommitted, EntryExpires
  <2>1. CASE Start(p)
    BY <2>1 DEF Start, vars
  <2>2. CASE Hit(p)
    BY <2>2 DEF Hit, vars
  <2>3. CASE Miss(p)
    BY <2>3 DEF Miss, GetMiss, GetError, Read
  <2>4. CASE ReadFails(p)
    BY <2>4 DEF ReadFails
  <2>5. CASE Populate(p)
    <3>1. /\ val[p] \in past
          /\ UNCHANGED <<past, row, val>>
          /\ pc' = [pc EXCEPT ![p] = "idle"]
      BY <2>5 DEF Populate, Set, SetFails
    <3>2. CacheHoldsCommitted' /\ EntryExpires'
      <4>1. CASE SetFails(p)
        BY <3>1, <4>1 DEF SetFails
      <4>2. CASE Set(p)
        <5>1. entry' = [cached |-> TRUE, value |-> val[p], expires |-> TRUE]
          BY <4>2, ConfigDefaults DEF Set
        <5>2. QED BY <3>1, <5>1
      <4>3. QED BY <2>5, <4>1, <4>2 DEF Populate
    <3>3. ReadCommitted' /\ ShownCommitted'
      BY <2>5, <3>1 DEF Populate
    <3>4. QED BY <3>2, <3>3
  <2>6. CASE LookupCatalog(p)
    BY <2>6 DEF LookupCatalog, vars
  <2>7. QED BY <2>1, <2>2, <2>3, <2>4, <2>5, <2>6 DEF Serve
<1>3. QED BY <1>1, <1>2 DEF ReadInv

\* A writer commits what it computed under the row lock and never writes the
\* cache: a quantity it publishes and rolls back reaches no entry.
LEMMA WriterStep ==
  ASSUME NEW p \in Producer \cup Filler, ReadInv, UNCHANGED Own,
         Begin(p) \/ WriteStep(p) \/ Rollback(p)
  PROVE  ReadInv'
<1>1. ReadTypeOK'
  BY WriterType DEF ReadInv
<1> DEFINE Kept == ReadCommitted /\ CacheHoldsCommitted /\ ShownCommitted /\ EntryExpires
<1>2. Kept'
  <2> USE DEF ReadInv, ReadTypeOK, TypeOK, Goto, Request, Own
  <2> USE DEF ReadCommitted, CacheHoldsCommitted, ShownCommitted, EntryExpires
  <2>1. CASE Begin(p)
    BY <2>1 DEF Begin
  <2>2. CASE Commit(p)
    BY <2>2 DEF Commit
  <2>3. CASE Invalidate(p)
    BY <2>3 DEF Invalidate, Published, NoEntry
  <2>4. CASE InvalidateFails(p)
    BY <2>4 DEF InvalidateFails, Published
  <2>5. CASE Rollback(p)
    BY <2>5 DEF Rollback
  <2>6. QED BY <2>1, <2>2, <2>3, <2>4, <2>5 DEF WriteStep
<1>3. QED BY <1>1, <1>2 DEF ReadInv

\* An expiring entry takes nothing else along.
LEMMA ExpireStep ==
  ASSUME ReadInv, Expire, UNCHANGED Own
  PROVE  ReadInv'
BY NoEntryType, CacheAssumption
DEF ReadInv, ReadTypeOK, TypeOK, Expire, NoEntry, Own,
    ReadCommitted, CacheHoldsCommitted, ShownCommitted, EntryExpires

\* Every step of a reader, a writer or the cache keeps the invariant.
LEMMA StepInv == ReadInv /\ [ReadNext]_readVars => ReadInv'
<1> SUFFICES ASSUME ReadInv, [ReadNext]_readVars PROVE ReadInv' OBVIOUS
<1>1. CASE UNCHANGED readVars
  BY <1>1 DEF readVars, vars, ReadInv, ReadTypeOK, TypeOK, ReadCommitted,
     CacheHoldsCommitted, ShownCommitted, EntryExpires
<1>2. CASE ReadNext
  BY <1>2, ReaderStep, WriterStep, ExpireStep DEF ReadNext
<1>3. QED BY <1>1, <1>2

-----------------------------------------------------------------------------

\* The three facts together
LEMMA ReadInvariant == ReadSpec => []ReadInv
BY InitInv, StepInv, PTL DEF ReadSpec

\* The composed read keeps its types; a lookup never makes more than the
\* configured attempts (MaxAttempts of the catalog client, or its default).
THEOREM ReadTypeCorrect == ReadSpec => []ReadTypeOK
<1>1. ReadInv => ReadTypeOK
  BY DEF ReadInv
<1>2. QED BY <1>1, ReadInvariant, PTL

\* GetProductInventory's cache only ever holds a committed quantity, whatever
\* fills publish before they roll back and however reads, sets, invalidations
\* and their failures interleave.
THEOREM CacheCommitted == ReadSpec => []CacheHoldsCommitted
<1>1. ReadInv => CacheHoldsCommitted
  BY DEF ReadInv
<1>2. QED BY <1>1, ReadInvariant, PTL

\* Every response of the handler, from the cache or from the table, shows a
\* quantity that was committed.
THEOREM ResponsesCommitted == ReadSpec => []ShownCommitted
<1>1. ReadInv => ShownCommitted
  BY DEF ReadInv
<1>2. QED BY <1>1, ReadInvariant, PTL

\* No entry is stored without an expiry, whatever TTL is configured (SetCache's
\* fallback): a missed invalidation cannot leave a stale entry for good.
THEOREM EntriesExpire == ReadSpec => []EntryExpires
<1>1. ReadInv => EntryExpires
  BY DEF ReadInv
<1>2. QED BY <1>1, ReadInvariant, PTL
=============================================================================
