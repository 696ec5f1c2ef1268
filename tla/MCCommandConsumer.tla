-------------------------- MODULE MCCommandConsumer --------------------------
(* Small instances of CommandConsumer: a record, an invalid one, and a second
   record with the event id of the first. *)
EXTENDS CommandConsumer

MCLog == <<"a", "b", "a">>
=============================================================================
