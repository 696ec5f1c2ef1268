----------------------------- MODULE ProductRead -----------------------------
(***************************************************************************)
(* GET /api/v1/inventory/{sku}: the handler reads the product's inventory  *)
(* through the cache (InventoryCache) and then enriches the response from  *)
(* the catalog (CatalogClient), while writers change the row.              *)
(***************************************************************************)
EXTENDS InventoryCache, CatalogClient

VARIABLES
  stage,   \* of each reader's request
  shown    \* the quantity in its response

readVars == <<vars, lookup, stage, shown>>

ReadInit ==
  /\ Init
  /\ lookup = [p \in Reader |-> NoLookup]
  /\ stage = [p \in Reader |-> "new"]
  /\ shown = [p \in Reader |-> 0]

Stage(p, s) == stage' = [stage EXCEPT ![p] = s]
Show(p, v) == shown' = [shown EXCEPT ![p] = v]

Start(p) ==
  /\ stage[p] = "new"
  /\ Stage(p, "service")
  /\ UNCHANGED <<vars, lookup, shown>>

\* A cache hit ends the service call.
Hit(p) ==
  /\ stage[p] = "service" /\ pc[p] = "idle" /\ entry.cached
  /\ Show(p, entry.value)
  /\ Stage(p, "catalog") /\ StartLookup(p)
  /\ UNCHANGED vars

Miss(p) ==
  /\ stage[p] = "service"
  /\ GetMiss(p) \/ GetError(p) \/ Read(p)
  /\ UNCHANGED <<lookup, stage, shown>>

\* The repository fails: 404 or 500.
ReadFails(p) ==
  /\ stage[p] = "service" /\ pc[p] = "read"
  /\ Fault
  /\ Goto(p, "idle") /\ Stage(p, "new")
  /\ UNCHANGED <<row, past, lock, entry, val, lookup, shown>>

Populate(p) ==
  /\ stage[p] = "service"
  /\ Set(p) \/ SetFails(p)
  /\ Show(p, val[p])
  /\ Stage(p, "catalog") /\ StartLookup(p)

\* Mutant: a failed lookup is tried again by the handler.
LookupCatalogInsists(p) ==
  /\ stage[p] = "catalog"
  /\ LookupStep(p) \/ Upstream(p)
  /\ IF lookup'[p].at = "none" /\ Deadline(p) THEN Stage(p, "service") ELSE
     IF lookup'[p].at = "none" THEN Stage(p, "new") ELSE UNCHANGED stage
  /\ UNCHANGED <<vars, shown>>

\* lookupCatalog: whatever Lookup returns, the response is rendered.
LookupCatalog(p) ==
  /\ stage[p] = "catalog"
  /\ LookupStep(p) \/ Upstream(p)
  /\ IF lookup'[p].at = "none" THEN Stage(p, "new") ELSE UNCHANGED stage
  /\ UNCHANGED <<vars, shown>>

Serve(p) == Hit(p) \/ Miss(p) \/ ReadFails(p) \/ Populate(p)
Own == <<lookup, stage, shown>>

ReadNext ==
  \/ \E p \in Reader : Start(p) \/ Serve(p) \/ LookupCatalog(p)
  \/ \E p \in Producer \cup Filler : (Begin(p) \/ WriteStep(p) \/ Rollback(p)) /\ UNCHANGED Own
  \/ Expire /\ UNCHANGED Own

\* Requests run, timers fire, and the store expires what has a time to live;
\* the catalog need not answer.
ReadSpec ==
  /\ ReadInit /\ [][ReadNext]_readVars
  /\ \A p \in Reader : WF_readVars(Serve(p)) /\ WF_readVars(LookupCatalog(p))
  /\ \A p \in Producer \cup Filler : WF_readVars(WriteStep(p) /\ UNCHANGED Own)
  /\ WF_readVars(Expire /\ UNCHANGED Own)

-----------------------------------------------------------------------------
(* Properties *)

\* "Enrichment is best-effort, never a hard dependency" (transport_http.go
\* 57-58): every request is answered, though the catalog hangs, fails or is
\* slow, and with a quantity the table has had.
ReadAnswered ==
  \A p \in Reader :
    stage[p] = "service" ~> (stage[p] = "new" /\ shown[p] \in past)
=============================================================================
