--------------------------- MODULE MCProductQueue ---------------------------
(* A product, and a message with a payload that its schema refuses. *)
EXTENDS ProductQueue

MCInbound == <<NewEnvelope("product_created"),
               [shape |-> "bad_payload", type |-> "product_created", version |-> 1]>>
=============================================================================
