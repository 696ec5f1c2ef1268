------------------------------ MODULE MCHttpApi ------------------------------
(* Requests that share keys, bodies, request ids and products. *)
EXTENDS HttpApi, TLC

BodyOf(sku, rid) == [sku |-> sku, rid |-> rid, valid |-> TRUE, size |-> "fits"]

produceA == BodyOf(0, "i1")
chunked  == [produceA EXCEPT !.size = "chunked"]
declared == [produceA EXCEPT !.size = "declared"]
invalid  == [produceA EXCEPT !.valid = FALSE]
onTwo    == BodyOf(2, "i1")
onOne    == BodyOf(1, "i2")

MCBody == {produceA, chunked, declared, invalid, onTwo, onOne}
MCTooBig == {chunked, declared}

To(to, sku, b) == [path |-> [to |-> to, sku |-> sku], body |-> b]

MCCall ==
  {To("production", 2, produceA), To("production", 3, produceA),
   To("production", 2, chunked), To("production", 2, declared),
   To("production", 1, invalid),
   To("reservation", 0, onTwo), To("reservation", 0, onOne),
   To("product", 0, onOne), To("get", 0, onTwo), To("get", 0, invalid)}

Symmetry == Permutations(Request) \cup Permutations(Key)
=============================================================================
