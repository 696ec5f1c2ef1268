---------------------------- MODULE MCLifecycle ----------------------------
(***************************************************************************)
(* The inputs with which Lifecycle is checked: each goes another way       *)
(* through Settings or through the startup.                                *)
(***************************************************************************)
EXTENDS Lifecycle

None == [k \in Key |-> Unset]
Only(f) == f @@ None

Base == [flag |-> None, env |-> Only([dbPass |-> Str("env")]), local |-> None, file |-> None,
         dir |-> None, provider |-> "env", parses |-> TRUE, key |-> FALSE]

MCInput == {
  \* credentials and Kafka from the environment
  [Base EXCEPT !.env = Only([dbPass |-> Str("env"), brokers |-> Str("kafka")])],
  \* rotated secret files beside a stale variable; a small pool
  [Base EXCEPT !.provider = "file", !.dir = Only([dbPass |-> Str("rotated")]),
               !.file = Only([maxSize |-> Str("2"), brokers |-> Str("kafka")])],
  \* an empty secret file
  [Base EXCEPT !.provider = "file", !.dir = Only([dbPass |-> Str("")]),
               !.local = Only([dbPass |-> Int64(7)])],
  \* TLS by a number in the file, over prod with a signing key by a flag
  [Base EXCEPT !.file = Only([tls |-> Int64(1), certFile |-> Str("pem")]),
               !.flag = Only([profile |-> Str("prod")]), !.key = TRUE],
  \* what a start must not survive
  [Base EXCEPT !.provider = "vault"],
  [Base EXCEPT !.env = None],
  [Base EXCEPT !.provider = "file"],
  [Base EXCEPT !.parses = FALSE],
  [Base EXCEPT !.file = Only([maxSize |-> Str("many")])],
  [Base EXCEPT !.file = Only([maxSize |-> Int64(MaxInt32 + 1)])],
  [Base EXCEPT !.env = Only([dbPass |-> Str("env"), tls |-> Str("true")])],
  [Base EXCEPT !.flag = Only([profile |-> Str("prod")])] }
=============================================================================
