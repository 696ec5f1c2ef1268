--------------------------- MODULE RestIdempotency ---------------------------
(***************************************************************************)
(* The Idempotency-Key middleware (internal/platform/idempotency/rest):    *)
(* Lookup, the wrapped handler and Save are separate steps of concurrent   *)
(* requests over a store shared by the replicas.  A request body stands    *)
(* for its hash.                                                           *)
(***************************************************************************)
EXTENDS Naturals, FiniteSets

CONSTANTS
  Request,    \* HTTP requests, retries included
  Key, Body,  \* Idempotency-Key values (NoKey: header missing) and bodies
  NoKey,
  TooBig,     \* bodies beyond maxBodyBytes
  MaxFaults   \* bound: store errors and expiries

ASSUME RestAssumption ==
  /\ NoKey \notin Key /\ Body # {}
  /\ TooBig \subseteq Body
  /\ MaxFaults \in Nat

VARIABLES
  store,    \* per key: the recorded body hash and response, or NoEntry
  pc, key, body,
  answer,   \* what the client got
  runs,     \* completed handler runs
  raced,    \* history: keys that two requests used at the same time
  faults

vars == <<store, pc, key, body, answer, runs, raced, faults>>

\* Response statuses; 0 is none yet.
Status  == 100 .. 599
NoEntry == [hash |-> CHOOSE b \in Body : TRUE, status |-> 0]

Init ==
  /\ store = [k \in Key |-> NoEntry]
  /\ pc = [r \in Request |-> "new"]
  /\ key = [r \in Request |-> NoKey]
  /\ body \in [Request -> Body]
  /\ answer = [r \in Request |-> [status |-> 0, replayed |-> FALSE]]
  /\ runs = {} /\ raced = {}
  /\ faults = 0

TypeOK ==
  /\ store \in [Key -> [hash : Body, status : {0} \cup 200 .. 499]]
  /\ pc \in [Request -> {"new", "lookup", "handle", "insert", "save", "done"}]
  /\ key \in [Request -> Key \cup {NoKey}]
  /\ body \in [Request -> Body]
  /\ answer \in [Request -> [status : {0} \cup Status, replayed : BOOLEAN]]
  /\ runs \subseteq [request : Request, status : Status]
  /\ raced \subseteq Key \cup {NoKey}
  /\ faults \in 0 .. MaxFaults

Found(k) == store[k].status # 0
Fault == faults < MaxFaults /\ faults' = faults + 1
Goto(r, l) == pc' = [pc EXCEPT ![r] = l]
Respond(r, s, again) == answer' = [answer EXCEPT ![r] = [status |-> s, replayed |-> again]]
InProgress(r) == pc[r] \in {"lookup", "handle", "insert", "save"}

\* readAndBuffer
ReadAndBuffer(r) == body[r] \notin TooBig

\* A request arrives: a missing key (Required is set on the routes that use the
\* middleware) or a body that is too large ends it with 400.
Arrive(r, k) ==
  /\ pc[r] = "new"
  /\ key' = [key EXCEPT ![r] = k]
  /\ IF k = NoKey \/ ~ReadAndBuffer(r)
       THEN Goto(r, "done") /\ Respond(r, 400, FALSE)
       ELSE Goto(r, "lookup") /\ UNCHANGED answer
  /\ raced' = raced \cup {key[q] : q \in {q \in Request : InProgress(q) /\ key[q] = k}}
  /\ UNCHANGED <<store, body, runs, faults>>

\* Mutant: the recorded body hash is not compared.
LookupAnyBody(r) ==
  /\ pc[r] = "lookup"
  /\ IF Found(key[r])
       THEN Goto(r, "done") /\ Respond(r, store[key[r]].status, TRUE)
       ELSE Goto(r, "handle") /\ UNCHANGED answer
  /\ UNCHANGED <<store, key, body, runs, raced, faults>>

\* Store.Lookup: replay, conflict or a first request.
Lookup(r) ==
  /\ pc[r] = "lookup"
  /\ \/ /\ ~Found(key[r])
        /\ Goto(r, "handle") /\ UNCHANGED answer
     \/ /\ Found(key[r]) /\ store[key[r]].hash # body[r]
        /\ Goto(r, "done") /\ Respond(r, 409, FALSE)
     \/ /\ Found(key[r]) /\ store[key[r]].hash = body[r]
        /\ Goto(r, "done") /\ Respond(r, store[key[r]].status, TRUE)
  /\ UNCHANGED <<store, key, body, runs, raced, faults>>

\* A failed lookup degrades open.
LookupFails(r) ==
  /\ pc[r] = "lookup"
  /\ Fault
  /\ Goto(r, "handle")
  /\ UNCHANGED <<store, key, body, answer, runs, raced>>

\* Mutant: refused requests are not recorded.
ShouldCache2xx(status) == status \in 200 .. 299

\* shouldCache
ShouldCache(status) == status \in 200 .. 499

\* next.ServeHTTP has answered the client; the response is recorded.  HttpApi
\* says when the handlers of the wrapped routes come to this.
Handled(r, status) ==
  /\ runs' = runs \cup {[request |-> r, status |-> status]}
  /\ Respond(r, status, FALSE)
  /\ Goto(r, IF ShouldCache(status) THEN "save" ELSE "done")

\* Store.Save overwrites.
Save(r) ==
  /\ pc[r] = "save"
  /\ store' = [store EXCEPT ![key[r]] = [hash |-> body[r], status |-> answer[r].status]]
  /\ Goto(r, "done")
  /\ UNCHANGED <<key, body, answer, runs, raced, faults>>

\* It fails and is only logged.
SaveFails(r) ==
  /\ pc[r] = "save"
  /\ Fault
  /\ Goto(r, "done")
  /\ UNCHANGED <<store, key, body, answer, runs, raced>>

\* The TTL of an entry ends.
Expire(k) ==
  /\ Found(k)
  /\ Fault
  /\ store' = [store EXCEPT ![k] = NoEntry]
  /\ UNCHANGED <<pc, key, body, answer, runs, raced>>

Middleware ==
  \/ \E r \in Request : Lookup(r) \/ LookupFails(r) \/ Save(r) \/ SaveFails(r)
  \/ \E k \in Key : Expire(k)

-----------------------------------------------------------------------------
(* Properties *)

\* A replayed answer is the answer of a handler run for the same key and the
\* same body, and never a server error: across concurrent first requests,
\* overwritten entries, expiry and store failures (middleware.go 84-91, 172).
ReplayIsFaithful ==
  \A r \in Request : answer[r].replayed =>
    \E run \in runs :
      /\ key[run.request] = key[r] /\ body[run.request] = body[r]
      /\ run.status = answer[r].status /\ run.status < 500

\* Requests with one key that do not overlap run the handler to an answer the
\* client may rely on at most once, while the store works and remembers (the
\* table of README.md 375-382).
OneAnswerPerKey ==
  faults = 0 =>
    \A a, b \in runs :
      /\ key[a.request] = key[b.request] /\ key[a.request] \notin raced
      /\ a.request # b.request /\ a.status < 500
      => b.status >= 500
=============================================================================
