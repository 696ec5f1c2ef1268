------------------------------- MODULE Events -------------------------------
(***************************************************************************)
(* The event envelope (internal/platform/events) and what its validation   *)
(* accepts.  A raw message is described by what Validate looks at.         *)
(***************************************************************************)
EXTENDS Naturals

\* The schemas committed under events/schemas, by type and version.
Registry ==
  {"product_inventory_changed", "reservation_changed", "product_created",
   "product_quantity_changed", "record_production"} \X {1}

\* shape: not JSON, not an envelope, or an envelope with a payload that does
\* or does not satisfy the schema of its type.
Raw == [shape : {"garbage", "no_envelope", "bad_payload", "good"},
        type : {t[1] : t \in Registry} \cup {"unknown"}, version : 1 .. 2]

\* EncodeEvent / NewEnvelope: what this service itself sends.
NewEnvelope(type) == [shape |-> "good", type |-> type, version |-> 1]

\* Validate
Validate(raw) ==
  /\ raw.shape \notin {"garbage", "no_envelope"}
  /\ <<raw.type, raw.version>> \in Registry
  /\ raw.shape = "good"
=============================================================================
