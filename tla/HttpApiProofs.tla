---------------------------- MODULE HttpApiProofs ----------------------------
(***************************************************************************)
(* Proofs about the API under the Idempotency-Key middleware (HttpApi and  *)
(* RestIdempotency), for any number of requests, keys, bodies and          *)
(* products: what a replay may answer, how often a key's handler answers,  *)
(* what a success says about the database, and that paging through the     *)
(* products misses none.                                                   *)
(***************************************************************************)
EXTENDS HttpApi, FiniteSetTheorems, WellFoundedInduction, TLAPS

\* A product number some request can carry
SkuRange == {NoSku} \cup {c.path.sku : c \in Call} \cup {b.sku : b \in Body}

\* The type invariant of the composed specification
PathOK == path \in [Request -> {c.path : c \in Call}]
RowsOK == event \in [RequestId -> SkuRange] /\ resv \in [RequestId -> SkuRange]
ApiTypeOK == TypeOK /\ PathOK /\ RowsOK

-----------------------------------------------------------------------------
(* The parts of the inductive invariant *)

\* A request in the middleware has a key, and before it none; the handler runs for such a request
\* or for one of the route without the middleware.
KeyInUse ==
  \A r \in Request :
    /\ pc[r] = "new" => key[r] = NoKey
    /\ pc[r] \in {"lookup", "save"} => key[r] \in Key /\ Wrapped(r)
    /\ pc[r] \in {"handle", "insert"} => (key[r] \in Key /\ Wrapped(r)) \/ path[r].to = "product"

\* Nothing is answered before its request is done or being saved.
Unanswered ==
  \A r \in Request :
    pc[r] \notin {"save", "done"} => answer[r].status = 0 /\ ~answer[r].replayed

\* A handler run is the first-hand answer of its request.
RunsAnswered ==
  \A run \in runs :
    /\ pc[run.request] \in {"save", "done"}
    /\ answer[run.request].status = run.status /\ ~answer[run.request].replayed
    /\ run.status \in 200 .. 599
    /\ key[run.request] \in Key

\* What is about to be saved is a run's answer and cacheable.
SaveRecorded ==
  \A r \in Request : pc[r] = "save" =>
    /\ answer[r].status \in 200 .. 499
    /\ \E run \in runs : run.request = r /\ run.status = answer[r].status

\* Every stored response is a run's, of the same key and body.
StoreFaithful ==
  \A k \in Key : Found(k) =>
    \E run \in runs :
      /\ key[run.request] = k /\ body[run.request] = store[k].hash
      /\ run.status = store[k].status /\ run.status < 500

\* Only a request with a key is answered from the store.
ReplayKeyed == \A r \in Request : answer[r].replayed => key[r] \in Key

\* Two requests at work on one key are known to have overlapped.
Overlap ==
  \A r, q \in Request :
    r # q /\ InProgress(r) /\ InProgress(q) /\ key[r] = key[q] /\ key[r] \in Key
      => key[r] \in raced

\* While the store works, an answer to rely on is stored or about to be.
Remembered ==
  faults = 0 =>
    \A a \in runs : a.status < 500 => pc[a.request] = "save" \/ Found(key[a.request])

\* While the store works, a handler that runs alone on its key runs because
\* there is no such answer yet.
FreshRun ==
  faults = 0 =>
    \A r \in Request :
      pc[r] \in {"handle", "insert"} /\ Wrapped(r) /\ key[r] \notin raced =>
        \A a \in runs : key[a.request] = key[r] => a.status >= 500

\* Every row was inserted for a request that names its product.
RowsOwned ==
  \A i \in RequestId :
    /\ event[i] # NoSku => \E q \in Request :
         path[q].to = "production" /\ body[q].rid = i /\ event[i] = SkuOf(q)
    /\ resv[i] # NoSku => \E q \in Request :
         path[q].to = "reservation" /\ body[q].rid = i /\ resv[i] = SkuOf(q)

\* The requests that share the request id name the same product.
OneProduct(r) ==
  \A q \in Request :
    body[q].rid = body[r].rid /\ path[q].to = path[r].to => SkuOf(q) = SkuOf(r)

\* What a success of the request says
IsRecorded(r) ==
  CASE path[r].to = "production"  -> event[body[r].rid] = SkuOf(r)
    [] path[r].to = "reservation" -> resv[body[r].rid] = SkuOf(r)
    [] path[r].to = "get"         -> resv[body[r].rid] # NoSku
    [] OTHER                      -> SkuOf(r) \in products

\* A first-hand success is true.
FirstHandRecorded ==
  \A r \in Request :
    answer[r].status \in 200 .. 299 /\ ~answer[r].replayed /\ OneProduct(r)
      => IsRecorded(r)

ReplayInv ==
  /\ TypeOK /\ PathOK /\ KeyInUse /\ Unanswered /\ RunsAnswered /\ SaveRecorded
  /\ StoreFaithful /\ ReplayIsFaithful /\ ReplayKeyed
OnceInv == Overlap /\ Remembered /\ FreshRun /\ OneAnswerPerKey
RowInv == RowsOK /\ RowsOwned /\ FirstHandRecorded

\* The inductive invariant
ApiInv == ReplayInv /\ OnceInv /\ RowInv

-----------------------------------------------------------------------------
(* What a step is to the middleware, whichever route it belongs to *)

\* A layer before the middleware answers.
Refused(r) == \E s \in {200, 400, 401, 404, 413, 429, 500} : Refuse(r, s)

Arrival(r) ==
  /\ Wrapped(r) /\ \E k \in Key \cup {NoKey} : Arrive(r, k)
  /\ UNCHANGED path

\* The handler starts, goes on, or answers.
HandlerStarts(r) ==
  /\ path[r].to = "product" /\ pc[r] = "new"
  /\ Goto(r, "handle")
  /\ UNCHANGED <<store, key, body, answer, runs, raced, faults, path>>

HandlerContinues(r) ==
  /\ pc[r] = "handle"
  /\ Goto(r, "insert")
  /\ UNCHANGED <<store, key, body, answer, runs, raced, faults, path>>

Rendered(r) ==
  /\ pc[r] \in {"handle", "insert"}
  /\ \E s \in {201, 400, 404, 500} : Answer(r, s)

MiddlewareStep == Middleware /\ UNCHANGED path

StepKind ==
  \/ UNCHANGED <<vars, path>>
  \/ MiddlewareStep
  \/ \E r \in Request : Refused(r) \/ Arrival(r) \/ HandlerStarts(r)
                          \/ HandlerContinues(r) \/ Rendered(r)

\* Every step of the API is one of the kinds the middleware tells apart.
LEMMA StepKinds == [ApiNext]_apiVars => StepKind
<1> SUFFICES ASSUME [ApiNext]_apiVars PROVE StepKind OBVIOUS
<1> USE DEF StepKind
<1>1. CASE UNCHANGED apiVars
  BY <1>1 DEF apiVars
<1>2. CASE Middleware /\ UNCHANGED <<path, tables, errors, page>>
  BY <1>2 DEF MiddlewareStep
<1>3. CASE ListPage \/ \E limit \in ValidLimit : StartListing(limit)
  BY <1>3 DEF ListPage, StartListing
<1>4. ASSUME NEW r \in Request,
             \/ Throttled(r) \/ TooLarge(r) \/ Unauthorized(r)
             \/ NoProduct(r) \/ ProductCtxFails(r) \/ ReservationCtx(r)
      PROVE  Refused(r)
  BY <1>4 DEF Throttled, TooLarge, Unauthorized, NoProduct, ProductCtxFails,
     ReservationCtx, Refused
<1>5. ASSUME NEW r \in Request, Enter(r)
      PROVE  Arrival(r) \/ HandlerStarts(r)
  BY <1>5 DEF Enter, Arrival, HandlerStarts
<1>6. ASSUME NEW r \in Request, BadRequest(r) \/ Find(r) \/ Commit(r) \/ Abort(r)
      PROVE  HandlerContinues(r) \/ Rendered(r)
  BY <1>6 DEF BadRequest, Find, Commit, Abort, HandlerContinues, Rendered
<1>7. QED BY <1>1, <1>2, <1>3, <1>4, <1>5, <1>6 DEF ApiNext

-----------------------------------------------------------------------------
(* Replays are faithful *)

\* An absent entry has the type of an entry, and no status.
LEMMA NoEntryType == NoEntry \in [hash : Body, status : {0} \cup 200 .. 499] /\ NoEntry.status = 0
BY RestAssumption DEF NoEntry

\* At first nothing is stored and nobody is answered.
LEMMA ReplayInit == ApiInit => ReplayInv
<1> SUFFICES ASSUME ApiInit PROVE ReplayInv OBVIOUS
<1> USE DEF ApiInit, Init
<1>1. TypeOK
  <2>1. store \in [Key -> [hash : Body, status : {0} \cup 200 .. 499]]
    BY NoEntryType
  <2>2. answer \in [Request -> [status : {0} \cup Status, replayed : BOOLEAN]]
    OBVIOUS
  <2>3. QED BY <2>1, <2>2, RestAssumption DEF TypeOK
<1>2. PathOK
  BY DEF PathOK
<1>3. KeyInUse /\ Unanswered /\ RunsAnswered /\ SaveRecorded
  BY DEF KeyInUse, Unanswered, RunsAnswered, SaveRecorded
<1>4. StoreFaithful /\ ReplayIsFaithful /\ ReplayKeyed
  BY NoEntryType DEF StoreFaithful, ReplayIsFaithful, ReplayKeyed, Found
<1>5. QED BY <1>1, <1>2, <1>3, <1>4 DEF ReplayInv

\* A refusal before the middleware leaves the store alone.
LEMMA RefusedReplay ==
  ASSUME NEW r \in Request, ReplayInv, Refused(r)
  PROVE  ReplayInv'
<1> USE DEF ReplayInv
<1>1. PICK s \in {200, 400, 401, 404, 413, 429, 500} : Refuse(r, s)
  BY DEF Refused
<1> USE DEF Refuse, Goto, Respond
<1>2. TypeOK' /\ PathOK'
  BY <1>1, SMTT(30) DEF TypeOK, Status, PathOK
<1>3. KeyInUse' /\ Unanswered' /\ RunsAnswered'
  BY <1>1 DEF KeyInUse, Unanswered, RunsAnswered, TypeOK, Wrapped
<1>4. SaveRecorded' /\ StoreFaithful'
  BY <1>1, SMTT(30) DEF SaveRecorded, StoreFaithful, TypeOK, Found
<1>5. ReplayIsFaithful' /\ ReplayKeyed'
  BY <1>1 DEF ReplayIsFaithful, ReplayKeyed, TypeOK
<1>6. QED BY <1>2, <1>3, <1>4, <1>5

\* What an arrival changes: the request gets its key, and is refused or goes on.
Arrives(r, k) ==
  /\ UNCHANGED <<store, body, runs, faults, path>>
  /\ pc[r] = "new" /\ key' = [key EXCEPT ![r] = k]
  /\ raced' = raced \cup {key[q] : q \in {q \in Request : InProgress(q) /\ key[q] = k}}
  /\ \/ /\ pc' = [pc EXCEPT ![r] = "done"]
        /\ answer' = [answer EXCEPT ![r] = [status |-> 400, replayed |-> FALSE]]
     \/ pc' = [pc EXCEPT ![r] = "lookup"] /\ answer' = answer /\ k \in Key

\* What an arrival at the middleware changes.
LEMMA ArrivalEffect ==
  ASSUME NEW r \in Request, Arrival(r)
  PROVE  \E k \in Key \cup {NoKey} : Arrives(r, k)
<1>1. PICK k \in Key \cup {NoKey} : Arrive(r, k) /\ UNCHANGED path
  BY DEF Arrival
<1>2. Arrives(r, k)
  BY <1>1, Zenon DEF Arrive, Arrives, Goto, Respond
<1>3. QED BY <1>1, <1>2

\* An arriving request has not been answered.
LEMMA ArrivalReplay ==
  ASSUME NEW r \in Request, ReplayInv, Arrival(r)
  PROVE  ReplayInv'
<1> USE DEF ReplayInv
<1>1. PICK k \in Key \cup {NoKey} : Arrives(r, k)
  BY ArrivalEffect
<1>2. PathOK' /\ UNCHANGED path /\ Wrapped(r)
  BY DEF Arrival, PathOK
<1>3. /\ UNCHANGED <<store, body, runs, faults>>
      /\ pc[r] = "new" /\ key' = [key EXCEPT ![r] = k]
      /\ \/ pc' = [pc EXCEPT ![r] = "done"]
            /\ answer' = [answer EXCEPT ![r] = [status |-> 400, replayed |-> FALSE]]
         \/ pc' = [pc EXCEPT ![r] = "lookup"] /\ answer' = answer /\ k \in Key
  BY <1>1, Zenon DEF Arrives
<1>4. \A q \in Request \ {r} : pc'[q] = pc[q] /\ key'[q] = key[q] /\ answer'[q] = answer[q]
  BY <1>3 DEF TypeOK
<1>5. /\ key'[r] = k /\ ~answer'[r].replayed
      /\ pc'[r] = "done" \/ (pc'[r] = "lookup" /\ k \in Key /\ answer'[r] = answer[r])
  BY <1>3 DEF TypeOK, Unanswered
<1>6. TypeOK'
  <2>1. raced' \subseteq Key \cup {NoKey}
    BY <1>1 DEF Arrives, TypeOK
  <2>2. /\ pc' \in [Request -> {"new", "lookup", "handle", "insert", "save", "done"}]
        /\ key' \in [Request -> Key \cup {NoKey}]
    BY <1>3 DEF TypeOK
  <2>3. answer' \in [Request -> [status : {0} \cup Status, replayed : BOOLEAN]]
    <3>1. [status |-> 400, replayed |-> FALSE] \in [status : {0} \cup Status, replayed : BOOLEAN]
      BY DEF Status
    <3>2. PICK a \in [status : {0} \cup Status, replayed : BOOLEAN] :
             a = [status |-> 400, replayed |-> FALSE]
      BY <3>1, Zenon
    <3>3. answer' = answer \/ answer' = [answer EXCEPT ![r] = a]
      BY <1>3, <3>2, Zenon
    <3>4. QED BY <3>3 DEF TypeOK
  <2>4. QED BY <1>3, <2>1, <2>2, <2>3 DEF TypeOK
<1>7. KeyInUse' /\ Unanswered'
  BY <1>2, <1>3, <1>4, <1>5 DEF KeyInUse, Unanswered, Wrapped
<1>8. \A run \in runs : run.request \in Request \ {r}
  BY <1>3 DEF RunsAnswered, TypeOK
<1>9. RunsAnswered'
  BY <1>3, <1>4, <1>8 DEF RunsAnswered
<1>10. SaveRecorded'
  BY <1>3, <1>4, <1>5 DEF SaveRecorded
<1>11. StoreFaithful' /\ ReplayIsFaithful' /\ ReplayKeyed'
  BY <1>3, <1>4, <1>5, <1>8 DEF StoreFaithful, ReplayIsFaithful, ReplayKeyed, Found
<1>12. QED BY <1>2, <1>6, <1>7, <1>9, <1>10, <1>11

\* A handler that has not answered changes nothing the middleware keeps.
LEMMA HandlerReplay ==
  ASSUME NEW r \in Request, ReplayInv, HandlerStarts(r) \/ HandlerContinues(r)
  PROVE  ReplayInv'
<1> USE DEF ReplayInv
<1>1. UNCHANGED <<store, key, body, answer, runs, raced, faults, path>>
  BY DEF HandlerStarts, HandlerContinues
<1>2. PICK l \in {"handle", "insert"} : pc' = [pc EXCEPT ![r] = l]
  BY DEF HandlerStarts, HandlerContinues, Goto
<1>3. pc[r] \in {"new", "handle"} /\ (pc[r] = "new" => path[r].to = "product")
  BY DEF HandlerStarts, HandlerContinues
<1>4. TypeOK' /\ PathOK'
  BY <1>1, <1>2 DEF TypeOK, PathOK
<1>5. KeyInUse' /\ Unanswered' /\ RunsAnswered' /\ SaveRecorded'
  BY <1>1, <1>2, <1>3 DEF KeyInUse, Unanswered, RunsAnswered, SaveRecorded, TypeOK, Wrapped
<1>6. StoreFaithful' /\ ReplayIsFaithful' /\ ReplayKeyed'
  BY <1>1 DEF StoreFaithful, ReplayIsFaithful, ReplayKeyed, Found
<1>7. QED BY <1>4, <1>5, <1>6

\* What rendering an answer changes: a run of the wrapped routes is recorded.
Renders(r, s) ==
  /\ UNCHANGED <<store, key, body, raced, faults, path>>
  /\ answer' = [answer EXCEPT ![r] = [status |-> s, replayed |-> FALSE]]
  /\ \/ /\ Wrapped(r) /\ runs' = runs \cup {[request |-> r, status |-> s]}
        /\ pc' = [pc EXCEPT ![r] = IF s # 500 THEN "save" ELSE "done"]
     \/ ~Wrapped(r) /\ runs' = runs /\ pc' = [pc EXCEPT ![r] = "done"]

\* What a handler's answer changes.
LEMMA RenderedEffect ==
  ASSUME NEW r \in Request, Rendered(r)
  PROVE  \E s \in {201, 400, 404, 500} : Renders(r, s)
<1>1. PICK s \in {201, 400, 404, 500} : Answer(r, s)
  BY DEF Rendered
<1>2. /\ UNCHANGED <<store, key, body, raced, faults, path>>
      /\ answer' = [answer EXCEPT ![r] = [status |-> s, replayed |-> FALSE]]
  BY <1>1 DEF Answer, Handled, Respond
<1>3. \/ /\ Wrapped(r) /\ runs' = runs \cup {[request |-> r, status |-> s]}
         /\ pc' = [pc EXCEPT ![r] = IF s # 500 THEN "save" ELSE "done"]
      \/ ~Wrapped(r) /\ runs' = runs /\ pc' = [pc EXCEPT ![r] = "done"]
  <2>1. CASE Wrapped(r)
    <3>1. ShouldCache(s) <=> s # 500
      BY DEF ShouldCache
    <3>2. QED BY <1>1, <2>1, <3>1, SMTT(30) DEF Answer, Handled, Goto
  <2>2. CASE ~Wrapped(r)
    BY <1>1, <2>2, Zenon DEF Answer, Goto
  <2>3. QED BY <2>1, <2>2
<1>4. Renders(r, s)
  BY <1>2, <1>3, Zenon DEF Renders
<1>5. QED BY <1>1, <1>4

\* A handler's answer is a run of its own key and body.
LEMMA RenderedReplay ==
  ASSUME NEW r \in Request, ReplayInv, Rendered(r)
  PROVE  ReplayInv'
<1> USE DEF ReplayInv
<1>1. PICK s \in {201, 400, 404, 500} : Renders(r, s)
  BY RenderedEffect
<1>2. pc[r] \in {"handle", "insert"}
  BY DEF Rendered
<1> DEFINE run0 == [request |-> r, status |-> s]
<1>3. /\ UNCHANGED <<store, key, body, raced, faults, path>>
      /\ answer' = [answer EXCEPT ![r] = [status |-> s, replayed |-> FALSE]]
  BY <1>1 DEF Renders
<1>4. \/ /\ Wrapped(r) /\ runs' = runs \cup {run0}
         /\ pc' = [pc EXCEPT ![r] = IF s # 500 THEN "save" ELSE "done"]
      \/ runs' = runs /\ pc' = [pc EXCEPT ![r] = "done"]
  BY <1>1 DEF Renders
<1>5. TypeOK' /\ PathOK'
  <2>1. runs' \subseteq [request : Request, status : Status]
    BY <1>4 DEF TypeOK, Status
  <2>2. pc' \in [Request -> {"new", "lookup", "handle", "insert", "save", "done"}]
    BY <1>4 DEF TypeOK
  <2>3. answer' \in [Request -> [status : {0} \cup Status, replayed : BOOLEAN]]
    BY <1>3 DEF TypeOK, Status
  <2>4. QED BY <1>3, <2>1, <2>2, <2>3 DEF TypeOK, PathOK
<1>6. \A q \in Request \ {r} : pc'[q] = pc[q] /\ answer'[q] = answer[q]
  BY <1>3, <1>4 DEF TypeOK
<1>7. answer'[r].status = s /\ ~answer'[r].replayed /\ pc'[r] \in {"save", "done"}
  BY <1>3, <1>4 DEF TypeOK
<1>8. \A run \in runs : run.request # r /\ run.request \in Request
  BY <1>2 DEF RunsAnswered, TypeOK
<1>9. KeyInUse' /\ Unanswered'
  BY <1>2, <1>3, <1>4, <1>6, <1>7 DEF KeyInUse, Unanswered, TypeOK, Wrapped
<1>10. RunsAnswered'
  BY <1>2, <1>3, <1>4, <1>6, <1>7, <1>8 DEF RunsAnswered, KeyInUse, TypeOK, Wrapped
<1>11. SaveRecorded'
  <2>1. runs \subseteq runs'
    BY <1>4
  <2>2. pc'[r] = "save" => run0 \in runs' /\ s \in 200 .. 499
    BY <1>4 DEF TypeOK
  <2>3. run0.request = r /\ run0.status = s
    OBVIOUS
  <2>4. QED BY <1>6, <1>7, <2>1, <2>2, <2>3 DEF SaveRecorded
<1>12. StoreFaithful' /\ ReplayIsFaithful' /\ ReplayKeyed'
  BY <1>3, <1>4, <1>6, <1>7 DEF StoreFaithful, ReplayIsFaithful, ReplayKeyed, Found, TypeOK
<1>13. QED BY <1>5, <1>9, <1>10, <1>11, <1>12

\* A lookup replays what the store has for this key and body, or nothing.
LEMMA LookupReplay ==
  ASSUME NEW r \in Request, ReplayInv, Lookup(r) \/ LookupFails(r), UNCHANGED path
  PROVE  ReplayInv'
<1> USE DEF ReplayInv
<1>1. UNCHANGED <<store, key, body, runs, raced, path>> /\ pc[r] = "lookup"
  BY DEF Lookup, LookupFails
<1>2. key[r] \in Key /\ Wrapped(r) /\ answer[r].status = 0 /\ ~answer[r].replayed
  BY <1>1 DEF KeyInUse, Unanswered
<1> DEFINE Replays(s) == Found(key[r]) /\ store[key[r]].hash = body[r] /\ s = store[key[r]].status
<1>3. \/ pc' = [pc EXCEPT ![r] = "handle"] /\ answer' = answer
      \/ /\ pc' = [pc EXCEPT ![r] = "done"]
         /\ \E s \in Status, b \in BOOLEAN :
              /\ answer' = [answer EXCEPT ![r] = [status |-> s, replayed |-> b]]
              /\ b => Replays(s)
  <2>1. ASSUME Found(key[r]) PROVE store[key[r]].status \in Status
    BY <1>2, <2>1 DEF TypeOK, Found, Status
  <2>2. CASE pc' = [pc EXCEPT ![r] = "handle"] /\ answer' = answer
    BY <2>2
  <2>3. CASE /\ pc' = [pc EXCEPT ![r] = "done"]
             /\ answer' = [answer EXCEPT ![r] = [status |-> 409, replayed |-> FALSE]]
    <3>1. 409 \in Status BY DEF Status
    <3>2. QED BY <2>3, <3>1, Zenon
  <2>4. CASE /\ pc' = [pc EXCEPT ![r] = "done"]
             /\ answer' = [answer EXCEPT ![r] = [status |-> store[key[r]].status, replayed |-> TRUE]]
             /\ Found(key[r]) /\ store[key[r]].hash = body[r]
    BY <2>1, <2>4, Zenon
  <2>5. QED BY <2>2, <2>3, <2>4, Zenon DEF Lookup, LookupFails, Goto, Respond
<1>4. TypeOK' /\ PathOK'
  <2>1. pc' \in [Request -> {"new", "lookup", "handle", "insert", "save", "done"}]
    BY <1>3 DEF TypeOK
  <2>2. answer' \in [Request -> [status : {0} \cup Status, replayed : BOOLEAN]]
    BY <1>3 DEF TypeOK
  <2>3. faults' \in 0 .. MaxFaults
    <3>1. faults' = faults \/ Fault
      BY Zenon DEF Lookup, LookupFails
    <3>2. QED BY <3>1, RestAssumption DEF TypeOK, Fault
  <2>4. QED BY <1>1, <2>1, <2>2, <2>3 DEF TypeOK, PathOK
<1>5. \A q \in Request \ {r} : pc'[q] = pc[q] /\ answer'[q] = answer[q]
  BY <1>3 DEF TypeOK
<1>6. \/ pc'[r] = "handle" /\ answer'[r] = answer[r]
      \/ pc'[r] = "done" /\ (answer'[r].replayed => Replays(answer'[r].status))
  BY <1>3 DEF TypeOK
<1>7. \A run \in runs : run.request \in Request \ {r}
  BY <1>1 DEF RunsAnswered, TypeOK
<1>8. KeyInUse' /\ Unanswered'
  BY <1>1, <1>2, <1>5, <1>6 DEF KeyInUse, Unanswered, Wrapped
<1>9. RunsAnswered' /\ SaveRecorded'
  BY <1>1, <1>5, <1>6, <1>7 DEF RunsAnswered, SaveRecorded
<1>10. StoreFaithful' /\ ReplayKeyed'
  BY <1>1, <1>2, <1>5, <1>6 DEF StoreFaithful, ReplayKeyed, Found
<1>11. ReplayIsFaithful'
  <2>1. CASE answer'[r].replayed
    <3>1. Replays(answer'[r].status)
      BY <1>2, <1>6, <2>1
    <3>2. PICK run \in runs :
            /\ key[run.request] = key[r] /\ body[run.request] = body[r]
            /\ run.status = answer'[r].status /\ run.status < 500
      BY <1>2, <3>1 DEF StoreFaithful
    <3>3. QED BY <1>1, <1>5, <3>2 DEF ReplayIsFaithful
  <2>2. CASE ~answer'[r].replayed
    BY <1>1, <1>5, <2>2 DEF ReplayIsFaithful
  <2>3. QED BY <2>1, <2>2
<1>12. QED BY <1>4, <1>8, <1>9, <1>10, <1>11

\* Save overwrites the entry with the answer of its own request's run.
LEMMA SaveReplay ==
  ASSUME NEW r \in Request, ReplayInv, Save(r) \/ SaveFails(r), UNCHANGED path
  PROVE  ReplayInv'
<1> USE DEF ReplayInv
<1>1. /\ UNCHANGED <<key, body, answer, runs, raced, path>>
      /\ pc[r] = "save" /\ pc' = [pc EXCEPT ![r] = "done"]
  BY DEF Save, SaveFails, Goto
<1> DEFINE entry0 == [hash |-> body[r], status |-> answer[r].status]
<1>2. store' = [store EXCEPT ![key[r]] = entry0] \/ store' = store
  BY DEF Save, SaveFails
<1>3. PICK run \in runs : run.request = r /\ run.status = answer[r].status
  BY <1>1 DEF SaveRecorded
<1>4. key[r] \in Key /\ answer[r].status \in 200 .. 499
  BY <1>1 DEF SaveRecorded, KeyInUse
<1>5. TypeOK' /\ PathOK'
  <2>1. store' \in [Key -> [hash : Body, status : {0} \cup 200 .. 499]]
    BY <1>2, <1>4 DEF TypeOK
  <2>2. faults' \in 0 .. MaxFaults
    BY RestAssumption DEF TypeOK, Save, SaveFails, Fault
  <2>3. QED BY <1>1, <2>1, <2>2 DEF TypeOK, PathOK
<1>6. KeyInUse' /\ Unanswered' /\ RunsAnswered' /\ SaveRecorded'
  BY <1>1 DEF KeyInUse, Unanswered, RunsAnswered, SaveRecorded, TypeOK, Wrapped
<1>7. ReplayIsFaithful' /\ ReplayKeyed'
  BY <1>1 DEF ReplayIsFaithful, ReplayKeyed
<1>8. StoreFaithful'
  <2> SUFFICES ASSUME NEW k \in Key, Found(k)'
               PROVE  \E x \in runs :
                        /\ key[x.request] = k /\ body[x.request] = store'[k].hash
                        /\ x.status = store'[k].status /\ x.status < 500
    BY <1>1 DEF StoreFaithful
  <2>1. CASE store'[k] = store[k]
    BY <2>1 DEF StoreFaithful, Found
  <2>2. CASE k = key[r] /\ store'[k] = entry0
    BY <1>3, <1>4, <2>2
  <2>3. QED BY <1>2, <1>4, <2>1, <2>2 DEF TypeOK
<1>9. QED BY <1>5, <1>6, <1>7, <1>8

\* An expired entry is replayed to nobody.
LEMMA ExpireReplay ==
  ASSUME NEW k \in Key, ReplayInv, Expire(k), UNCHANGED path
  PROVE  ReplayInv'
<1> USE DEF ReplayInv
<1>1. UNCHANGED <<pc, key, body, answer, runs, raced, path>> /\ store' = [store EXCEPT ![k] = NoEntry]
  BY DEF Expire
<1>2. TypeOK' /\ PathOK'
  <2>1. faults' \in 0 .. MaxFaults
    BY RestAssumption DEF TypeOK, Expire, Fault
  <2>2. QED BY <1>1, <2>1, NoEntryType DEF TypeOK, PathOK
<1>3. StoreFaithful'
  BY <1>1, NoEntryType DEF StoreFaithful, Found, TypeOK
<1>4. QED
  BY <1>1, <1>2, <1>3 DEF KeyInUse, Unanswered, RunsAnswered, SaveRecorded, ReplayIsFaithful,
     ReplayKeyed, Wrapped

\* Every step keeps replays faithful.
LEMMA ReplayStep == ReplayInv /\ [ApiNext]_apiVars => ReplayInv'
<1> SUFFICES ASSUME ReplayInv, StepKind PROVE ReplayInv' BY StepKinds
<1>1. CASE UNCHANGED <<vars, path>>
  BY <1>1 DEF vars, ReplayInv, TypeOK, PathOK, KeyInUse, Unanswered, RunsAnswered, SaveRecorded,
     StoreFaithful, ReplayIsFaithful, ReplayKeyed, Found, Wrapped
<1>2. CASE MiddlewareStep
  BY <1>2, LookupReplay, SaveReplay, ExpireReplay DEF MiddlewareStep, Middleware
<1>3. QED
  BY <1>1, <1>2, RefusedReplay, ArrivalReplay, HandlerReplay, RenderedReplay DEF StepKind

-----------------------------------------------------------------------------
(* One answer per key *)

\* At first no key is in use.
LEMMA OnceInit == ApiInit => OnceInv
BY DEF ApiInit, Init, OnceInv, Overlap, Remembered, FreshRun, OneAnswerPerKey, InProgress

\* A failed or expired store entry ends the promise.
LEMMA OnceFault ==
  ASSUME TypeOK, Fault
  PROVE  Remembered' /\ FreshRun' /\ OneAnswerPerKey'
<1>1. faults' # 0
  BY RestAssumption DEF TypeOK, Fault
<1>2. QED BY <1>1 DEF Remembered, FreshRun, OneAnswerPerKey

\* Steps that neither add runs nor change keys and entries, and at most end
\* requests or move a handler on, keep what is said of the runs.
LEMMA OnceQuiet ==
  ASSUME NEW r \in Request, ReplayInv, OnceInv, Refused(r) \/ HandlerStarts(r) \/ HandlerContinues(r)
  PROVE  OnceInv'
<1>1. UNCHANGED <<store, key, runs, raced, faults, path>>
  BY DEF Refused, Refuse, HandlerStarts, HandlerContinues
<1>2. \/ pc[r] = "new" /\ pc' = [pc EXCEPT ![r] = "done"]
      \/ pc[r] = "new" /\ pc' = [pc EXCEPT ![r] = "handle"] /\ path[r].to = "product"
      \/ pc[r] = "handle" /\ pc' = [pc EXCEPT ![r] = "insert"]
  <2>1. CASE Refused(r)
    <3>1. PICK s : Refuse(r, s)
      BY <2>1 DEF Refused
    <3>2. QED BY <3>1, Zenon DEF Refuse, Goto
  <2>2. CASE HandlerStarts(r) \/ HandlerContinues(r)
    BY <2>2, Zenon DEF HandlerStarts, HandlerContinues, Goto
  <2>3. QED BY <2>1, <2>2
<1>3. /\ \A q \in Request \ {r} : pc'[q] = pc[q]
      /\ \/ pc[r] = "new" /\ pc'[r] = "done"
         \/ pc[r] = "new" /\ pc'[r] = "handle" /\ path[r].to = "product"
         \/ pc[r] = "handle" /\ pc'[r] = "insert"
  BY <1>2 DEF ReplayInv, TypeOK
<1>4. Remembered' /\ FreshRun' /\ OneAnswerPerKey'
  BY <1>1, <1>3
  DEF OnceInv, Remembered, FreshRun, OneAnswerPerKey, Found, Wrapped, ReplayInv, TypeOK
<1>5. Overlap'
  <2>1. pc[r] = "new" => key[r] \notin Key
    BY RestAssumption DEF ReplayInv, KeyInUse
  <2>2. QED BY <1>1, <1>3, <2>1 DEF OnceInv, Overlap, InProgress
<1>6. QED BY <1>4, <1>5 DEF OnceInv

\* A request that arrives while another is at work on its key marks the key.
LEMMA OnceArrival ==
  ASSUME NEW r \in Request, ReplayInv, OnceInv, Arrival(r)
  PROVE  OnceInv'
<1>1. PICK k \in Key \cup {NoKey} : Arrives(r, k)
  BY ArrivalEffect
<1>2. /\ UNCHANGED <<store, runs, faults, path>> /\ pc[r] = "new" /\ raced \subseteq raced'
      /\ \A q \in Request : InProgress(q) /\ key[q] = k => k \in raced'
  BY <1>1 DEF Arrives
<1>3. \A q \in Request \ {r} : pc'[q] = pc[q] /\ key'[q] = key[q]
  BY <1>1 DEF Arrives, ReplayInv, TypeOK
<1>4. key'[r] = k /\ pc'[r] \in {"done", "lookup"}
  BY <1>1 DEF Arrives, ReplayInv, TypeOK
<1>5. \A a \in runs : a.request \in Request \ {r}
  BY <1>2 DEF ReplayInv, RunsAnswered, TypeOK
<1>6. Remembered' /\ FreshRun' /\ OneAnswerPerKey'
  BY <1>2, <1>3, <1>4, <1>5 DEF OnceInv, Remembered, FreshRun, OneAnswerPerKey, Found, Wrapped
<1>7. Overlap'
  BY <1>2, <1>3, <1>4 DEF OnceInv, Overlap, InProgress
<1>8. QED BY <1>6, <1>7 DEF OnceInv

\* A handler that answers alone on its key found no answer to rely on, and no
\* other handler is at work on the key.
LEMMA OnceRendered ==
  ASSUME NEW r \in Request, ReplayInv, OnceInv, Rendered(r)
  PROVE  OnceInv'
<1>1. PICK s \in {201, 400, 404, 500} : Renders(r, s)
  BY RenderedEffect
<1> DEFINE run0 == [request |-> r, status |-> s]
<1>2. UNCHANGED <<store, key, raced, faults, path>>
  BY <1>1 DEF Renders
<1>3. \/ Wrapped(r) /\ runs' = runs \cup {run0} /\ (s # 500 => pc'[r] = "save")
      \/ runs' = runs
  BY <1>1 DEF Renders, ReplayInv, TypeOK
<1>4. \A q \in Request \ {r} : pc'[q] = pc[q]
  BY <1>1 DEF Renders, ReplayInv, TypeOK
<1>5. pc[r] \in {"handle", "insert"} /\ pc'[r] \in {"save", "done"}
  BY <1>1 DEF Rendered, Renders, ReplayInv, TypeOK
<1>6. run0.request = r /\ run0.status = s
  OBVIOUS
<1>7. \A a \in runs : a.request \in Request \ {r} /\ a.status \in 200 .. 599
  BY <1>5 DEF ReplayInv, RunsAnswered, TypeOK
<1>8. Wrapped(r) => key[r] \in Key
  BY <1>5 DEF ReplayInv, KeyInUse, Wrapped
<1>9. Overlap'
  BY <1>2, <1>4, <1>5 DEF OnceInv, Overlap, InProgress
<1>10. Remembered'
  BY <1>2, <1>3, <1>4, <1>5, <1>6, <1>7 DEF OnceInv, Remembered, Found
<1>11. FreshRun'
  <2> SUFFICES ASSUME faults = 0, NEW q \in Request,
                      pc'[q] \in {"handle", "insert"}, Wrapped(q), key[q] \notin raced,
                      NEW a \in runs', key[a.request] = key[q]
               PROVE  a.status >= 500
    BY <1>2 DEF FreshRun, Wrapped
  <2>1. q # r /\ pc[q] = pc'[q]
    BY <1>4, <1>5
  <2>2. CASE a \in runs
    BY <2>1, <2>2 DEF OnceInv, FreshRun
  <2>3. CASE Wrapped(r) /\ a = run0
    BY <1>5, <1>6, <1>8, <2>1, <2>3 DEF OnceInv, Overlap, InProgress
  <2>4. QED BY <1>3, <2>2, <2>3
<1>12. OneAnswerPerKey'
  <2> SUFFICES ASSUME faults = 0, NEW a \in runs', NEW b \in runs',
                      key[a.request] = key[b.request], key[a.request] \notin raced,
                      a.request # b.request, a.status < 500
               PROVE  b.status >= 500
    BY <1>2 DEF OneAnswerPerKey
  <2>1. CASE a \in runs /\ b \in runs
    BY <2>1 DEF OnceInv, OneAnswerPerKey
  <2>2. CASE Wrapped(r) /\ a = run0 /\ b \in runs
    BY <1>5, <1>6, <2>2 DEF OnceInv, FreshRun
  <2>3. CASE Wrapped(r) /\ b = run0 /\ a \in runs
    BY <1>5, <1>6, <1>7, <2>3 DEF OnceInv, FreshRun
  <2>4. QED BY <1>3, <1>6, <2>1, <2>2, <2>3
<1>13. QED BY <1>9, <1>10, <1>11, <1>12 DEF OnceInv

\* A handler starts only on a key without an entry: an answer to rely on that
\* is still being saved belongs to a request that overlaps this one.
LEMMA OnceLookup ==
  ASSUME NEW r \in Request, ReplayInv, OnceInv, Lookup(r) \/ LookupFails(r), UNCHANGED path
  PROVE  OnceInv'
<1>1. UNCHANGED <<store, key, runs, raced>> /\ pc[r] = "lookup"
  BY DEF Lookup, LookupFails
<1>d. DOMAIN pc = Request
  BY DEF ReplayInv, TypeOK
<1>2. /\ \A q \in Request \ {r} : pc'[q] = pc[q]
      /\ pc'[r] \in {"handle", "done"}
  <2>1. \E l \in {"handle", "done"} : pc' = [pc EXCEPT ![r] = l]
    BY DEF Lookup, LookupFails, Goto
  <2>2. QED BY <1>d, <2>1
<1>3. Overlap'
  BY <1>1, <1>2 DEF OnceInv, Overlap, InProgress
<1>4. CASE LookupFails(r)
  BY <1>3, <1>4, OnceFault DEF LookupFails, OnceInv, ReplayInv
<1>5. CASE Lookup(r)
  <2>1. faults' = faults /\ (pc'[r] = "handle" => ~Found(key[r]))
    BY <1>5, <1>d DEF Lookup, Goto
  <2>2. Remembered' /\ OneAnswerPerKey'
    <3>1. \A a \in runs : a.request \in Request \ {r}
      BY <1>1 DEF ReplayInv, RunsAnswered, TypeOK
    <3>2. QED BY <1>1, <1>2, <2>1, <3>1 DEF OnceInv, Remembered, OneAnswerPerKey, Found
  <2>3. FreshRun'
    <3> SUFFICES ASSUME faults = 0, NEW q \in Request,
                        pc'[q] \in {"handle", "insert"}, Wrapped(q), key[q] \notin raced,
                        NEW a \in runs, key[a.request] = key[q]
                 PROVE  a.status >= 500
      BY <1>1, <2>1 DEF FreshRun, Wrapped
    <3>1. CASE q # r
      BY <1>2, <3>1 DEF OnceInv, FreshRun
    <3>2. CASE q = r
      <4>1. a.request \in Request \ {r} /\ key[r] \in Key /\ a.status \in 200 .. 599
        BY <1>1 DEF ReplayInv, RunsAnswered, KeyInUse, TypeOK
      <4>2. pc[a.request] # "save"
        BY <1>1, <3>2, <4>1 DEF OnceInv, Overlap, InProgress
      <4>3. ~Found(key[a.request])
        BY <2>1, <3>2, <1>2
      <4>4. QED BY <4>1, <4>2, <4>3 DEF OnceInv, Remembered
    <3>3. QED BY <3>1, <3>2
  <2>4. QED BY <1>3, <2>2, <2>3 DEF OnceInv
<1>6. QED BY <1>4, <1>5

\* A save is of the run that the key's promise is about.
LEMMA OnceSave ==
  ASSUME NEW r \in Request, ReplayInv, OnceInv, Save(r) \/ SaveFails(r), UNCHANGED path
  PROVE  OnceInv'
<1>1. UNCHANGED <<key, runs, raced>> /\ pc[r] = "save" /\ key[r] \in Key /\ answer[r].status # 0
  BY DEF Save, SaveFails, ReplayInv, KeyInUse, SaveRecorded
<1>2. /\ \A q \in Request \ {r} : pc'[q] = pc[q]
      /\ pc'[r] = "done"
  BY DEF Save, SaveFails, Goto, ReplayInv, TypeOK
<1>3. Overlap'
  BY <1>1, <1>2 DEF OnceInv, Overlap, InProgress
<1>4. CASE SaveFails(r)
  BY <1>3, <1>4, OnceFault DEF SaveFails, OnceInv, ReplayInv
<1>5. CASE Save(r)
  <2>1. /\ faults' = faults /\ Found(key[r])'
        /\ \A k \in Key : Found(k) => Found(k)'
    BY <1>1, <1>5 DEF Save, Found, ReplayInv, TypeOK
  <2>2. FreshRun' /\ OneAnswerPerKey'
    BY <1>1, <1>2, <2>1 DEF OnceInv, FreshRun, OneAnswerPerKey, Wrapped
  <2>3. Remembered'
    <3>1. \A a \in runs : key[a.request] \in Key /\ a.request \in Request
      BY DEF ReplayInv, RunsAnswered, TypeOK
    <3>2. QED BY <1>1, <1>2, <2>1, <3>1 DEF OnceInv, Remembered, Found
  <2>4. QED BY <1>3, <2>2, <2>3 DEF OnceInv
<1>6. QED BY <1>4, <1>5

\* Every step keeps the promise of one answer per key.
LEMMA OnceStep == ReplayInv /\ OnceInv /\ [ApiNext]_apiVars => OnceInv'
<1> SUFFICES ASSUME ReplayInv, OnceInv, StepKind PROVE OnceInv' BY StepKinds
<1>1. CASE UNCHANGED <<vars, path>>
  BY <1>1 DEF vars, OnceInv, Overlap, Remembered, FreshRun, OneAnswerPerKey, InProgress, Found,
     Wrapped
<1>2. ASSUME NEW k \in Key, Expire(k), UNCHANGED path PROVE OnceInv'
  <2>1. Overlap'
    BY <1>2 DEF Expire, OnceInv, Overlap, InProgress
  <2>2. QED BY <1>2, <2>1, OnceFault DEF Expire, OnceInv, ReplayInv
<1>3. CASE MiddlewareStep
  BY <1>2, <1>3, OnceLookup, OnceSave DEF MiddlewareStep, Middleware
<1>4. QED
  BY <1>1, <1>3, OnceQuiet, OnceArrival, OnceRendered DEF StepKind

-----------------------------------------------------------------------------
(* Successes are recorded *)

\* At first the tables have what exists, and nobody has a success.
LEMMA RowInit == ApiInit => RowInv
BY DEF ApiInit, Init, RowInv, RowsOK, SkuRange, RowsOwned, FirstHandRecorded

\* A request's path and body never change.
LEMMA RequestFixed == StepKind => UNCHANGED <<path, body>>
<1> SUFFICES ASSUME StepKind PROVE UNCHANGED <<path, body>> OBVIOUS
<1>1. CASE UNCHANGED <<vars, path>>
  BY <1>1 DEF vars
<1>2. CASE MiddlewareStep
  BY <1>2, Zenon DEF MiddlewareStep, Middleware, Lookup, LookupFails, Save, SaveFails, Expire
<1>3. ASSUME NEW r \in Request, Refused(r) \/ Arrival(r)
      PROVE  UNCHANGED <<path, body>>
  BY <1>3 DEF Refused, Refuse, Arrival, Arrive
<1>4. ASSUME NEW r \in Request, HandlerStarts(r) \/ HandlerContinues(r) \/ Rendered(r)
      PROVE  UNCHANGED <<path, body>>
  BY <1>4 DEF HandlerStarts, HandlerContinues, Rendered, Answer
<1>5. QED BY <1>1, <1>2, <1>3, <1>4 DEF StepKind

\* What is recorded for a request id is the product of the requests with it.
LEMMA RecordedIsRecorded ==
  ASSUME NEW r \in Request, RowInv, TypeOK, OneProduct(r), Recorded(r),
         path[r].to \in {"production", "reservation", "product"}
  PROVE  IsRecorded(r)
<1>1. body[r].rid \in RequestId
  BY ApiAssumption DEF TypeOK
<1>2. CASE path[r].to = "production"
  BY <1>1, <1>2 DEF Recorded, GetProductionEventByRequestID, RowInv, RowsOwned, OneProduct, IsRecorded
<1>3. CASE path[r].to = "reservation"
  BY <1>1, <1>3 DEF Recorded, GetReservationByRequestID, RowInv, RowsOwned, OneProduct, IsRecorded
<1>4. CASE path[r].to = "product"
  BY <1>4 DEF Recorded, GetProduct, IsRecorded, SkuOf
<1>5. QED BY <1>2, <1>3, <1>4

\* A step that leaves the tables alone and answers a success only for what is
\* recorded
LEMMA RowsKept ==
  ASSUME RowInv, UNCHANGED <<tables, path, body>>,
         \A q \in Request :
           \/ answer'[q] = answer[q]
           \/ answer'[q].replayed
           \/ answer'[q].status \notin 200 .. 299
           \/ OneProduct(q) => IsRecorded(q)
  PROVE  RowInv'
<1>1. \A q \in Request : (SkuOf(q)' = SkuOf(q)) /\ (OneProduct(q)' <=> OneProduct(q))
  BY DEF SkuOf, OneProduct
<1>2. \A q \in Request : IsRecorded(q)' <=> IsRecorded(q)
  BY DEF IsRecorded, tables, SkuOf
<1>3. RowsOK' /\ RowsOwned'
  BY DEF RowInv, RowsOK, RowsOwned, tables, SkuOf
<1>4. FirstHandRecorded'
  BY <1>1, <1>2 DEF RowInv, FirstHandRecorded
<1>5. QED BY <1>3, <1>4 DEF RowInv

\* The transaction of the wrapped routes inserts under a request id that has no
\* row, and CreateProduct's only adds a product.
LEMMA RowsInserted ==
  ASSUME NEW r \in Request, ReplayInv, RowInv, Commit(r), UNCHANGED <<path, body>>
  PROVE  RowInv'
<1> DEFINE rid == body[r].rid
<1>1. rid \in RequestId /\ SkuOf(r) \in SkuRange
  <2>1. body[r] \in Body /\ \E c \in Call : path[r] = c.path
    BY DEF ReplayInv, TypeOK, PathOK
  <2>2. QED BY <2>1, ApiAssumption DEF SkuOf, SkuRange
<1>2. path[r].to \in {"production", "reservation", "product"}
  BY DEF Commit, ReplayInv, KeyInUse, Wrapped
<1>3. \/ /\ path[r].to = "production" /\ event[rid] = NoSku
         /\ event' = [event EXCEPT ![rid] = SkuOf(r)] /\ UNCHANGED <<resv, products>>
      \/ /\ path[r].to = "reservation" /\ resv[rid] = NoSku
         /\ resv' = [resv EXCEPT ![rid] = SkuOf(r)] /\ UNCHANGED <<event, products>>
      \/ /\ path[r].to = "product" /\ products' = products \cup {SkuOf(r)}
         /\ UNCHANGED <<event, resv>>
  BY <1>2 DEF Commit, Insert, Recorded, GetProductionEventByRequestID, GetReservationByRequestID
<1>4. \A q \in Request : (SkuOf(q)' = SkuOf(q)) /\ (OneProduct(q)' <=> OneProduct(q))
  BY DEF SkuOf, OneProduct
<1>5. \A q \in Request : body[q].rid \in RequestId
  BY ApiAssumption DEF ReplayInv, TypeOK
<1>6. RowsOK'
  BY <1>1, <1>3 DEF RowInv, RowsOK
<1>7. RowsOwned'
  <2> SUFFICES ASSUME NEW i \in RequestId
               PROVE  /\ event'[i] # NoSku => \E q \in Request :
                           path[q].to = "production" /\ body[q].rid = i /\ event'[i] = SkuOf(q)
                      /\ resv'[i] # NoSku => \E q \in Request :
                           path[q].to = "reservation" /\ body[q].rid = i /\ resv'[i] = SkuOf(q)
    BY <1>4 DEF RowsOwned
  <2>1. event'[i] = event[i] \/ (path[r].to = "production" /\ i = rid /\ event'[i] = SkuOf(r))
    BY <1>1, <1>3 DEF RowInv, RowsOK
  <2>2. resv'[i] = resv[i] \/ (path[r].to = "reservation" /\ i = rid /\ resv'[i] = SkuOf(r))
    BY <1>1, <1>3 DEF RowInv, RowsOK
  <2>3. QED BY <2>1, <2>2 DEF RowInv, RowsOwned
<1>8. IsRecorded(r)'
  BY <1>1, <1>3, <1>4 DEF IsRecorded, RowInv, RowsOK
<1>9. ASSUME NEW q \in Request, IsRecorded(q), OneProduct(q)
      PROVE  IsRecorded(q)'
  <2>1. CASE path[q].to = "production"
    BY <1>1, <1>3, <1>4, <1>5, <1>9, <2>1 DEF IsRecorded, OneProduct, RowInv, RowsOK
  <2>2. CASE path[q].to = "reservation"
    BY <1>1, <1>3, <1>4, <1>5, <1>9, <2>2 DEF IsRecorded, OneProduct, RowInv, RowsOK
  <2>3. CASE path[q].to = "get"
    BY <1>1, <1>3, <1>5, <1>9, <2>3 DEF IsRecorded, RowInv, RowsOK
  <2>4. CASE path[q].to \notin {"production", "reservation", "get"}
    BY <1>3, <1>4, <1>9, <2>4 DEF IsRecorded
  <2>5. QED BY <2>1, <2>2, <2>3, <2>4
<1>10. \A q \in Request \ {r} : answer'[q] = answer[q]
  BY DEF Commit, Answer, Handled, Respond, ReplayInv, TypeOK
<1>11. FirstHandRecorded'
  BY <1>4, <1>8, <1>9, <1>10 DEF FirstHandRecorded, RowInv
<1>12. QED BY <1>6, <1>7, <1>11 DEF RowInv

\* An answer that is no success, or for which the row is there
LEMMA RowsAnswered ==
  ASSUME NEW r \in Request, NEW s, ReplayInv, RowInv, Answer(r, s) \/ Refuse(r, s),
         UNCHANGED <<tables, path, body>>,
         s \notin 200 .. 299 \/ (OneProduct(r) => IsRecorded(r))
  PROVE  RowInv'
<1>1. answer' = [answer EXCEPT ![r] = [status |-> s, replayed |-> FALSE]]
  BY Zenon DEF Answer, Refuse, Handled, Respond
<1>2. answer'[r].status = s /\ \A q \in Request \ {r} : answer'[q] = answer[q]
  BY <1>1 DEF ReplayInv, TypeOK
<1>3. QED BY <1>2, RowsKept

\* Every step keeps successes recorded.
LEMMA RowStep == ReplayInv /\ RowInv /\ [ApiNext]_apiVars => RowInv'
<1> SUFFICES ASSUME ReplayInv, RowInv, [ApiNext]_apiVars PROVE RowInv' OBVIOUS
<1>0. UNCHANGED <<path, body>>
  BY StepKinds, RequestFixed
<1>1. CASE UNCHANGED apiVars
  BY <1>0, <1>1, RowsKept DEF apiVars, vars
<1>2. CASE ListPage \/ \E limit \in ValidLimit : StartListing(limit)
  BY <1>0, <1>2, RowsKept DEF ListPage, StartListing, vars
<1>3. CASE Middleware /\ UNCHANGED <<path, tables, errors, page>>
  <2>1. CASE UNCHANGED answer
    BY <1>0, <1>3, <2>1, RowsKept
  <2>2. ASSUME NEW r \in Request, Lookup(r), answer' # answer
        PROVE  RowInv'
    <3>1. \/ answer' = [answer EXCEPT ![r] = [status |-> 409, replayed |-> FALSE]]
          \/ answer' = [answer EXCEPT ![r] = [status |-> store[key[r]].status, replayed |-> TRUE]]
      BY <2>2, Zenon DEF Lookup, Respond
    <3>2. /\ \A q \in Request \ {r} : answer'[q] = answer[q]
          /\ answer'[r].status \notin 200 .. 299 \/ answer'[r].replayed
      BY <3>1 DEF ReplayInv, TypeOK
    <3>3. QED BY <1>0, <1>3, <3>2, RowsKept
  <2>3. QED
    BY <1>3, <2>1, <2>2 DEF Middleware, LookupFails, Save, SaveFails, Expire
<1>4. ASSUME NEW r \in Request,
             Throttled(r) \/ TooLarge(r) \/ Unauthorized(r) \/ NoProduct(r) \/ ProductCtxFails(r)
      PROVE  RowInv'
  <2>1. PICK s \in {401, 404, 413, 429, 500} : Refuse(r, s)
    BY <1>4 DEF Throttled, TooLarge, Unauthorized, NoProduct, ProductCtxFails
  <2>2. s \notin 200 .. 299 /\ UNCHANGED tables
    BY <2>1 DEF Refuse
  <2>3. QED BY <1>0, <2>1, <2>2, RowsAnswered
<1>5. ASSUME NEW r \in Request, ReservationCtx(r)
      PROVE  RowInv'
  <2>1. PICK s \in {200, 400, 404, 500} :
           Refuse(r, s) /\ (s = 200 => path[r].to = "get" /\ GetReservation(body[r].rid))
    BY <1>5 DEF ReservationCtx
  <2>2. UNCHANGED tables /\ (s \in 200 .. 299 => IsRecorded(r))
    BY <2>1 DEF Refuse, GetReservation, IsRecorded
  <2>3. QED BY <1>0, <2>1, <2>2, RowsAnswered
<1>6. ASSUME NEW r \in Request, Enter(r)
      PROVE  RowInv'
  <2>1. UNCHANGED tables
    BY <1>6 DEF Enter
  <2>2. CASE UNCHANGED answer
    BY <1>0, <2>1, <2>2, RowsKept
  <2>3. CASE answer' = [answer EXCEPT ![r] = [status |-> 400, replayed |-> FALSE]]
    <3>1. /\ \A q \in Request \ {r} : answer'[q] = answer[q]
          /\ answer'[r].status \notin 200 .. 299
      BY <2>3 DEF ReplayInv, TypeOK
    <3>2. QED BY <1>0, <2>1, <3>1, RowsKept
  <2>4. QED BY <1>6, <2>2, <2>3, Zenon DEF Enter, Arrive, Respond
<1>7. ASSUME NEW r \in Request, BadRequest(r) \/ Abort(r)
      PROVE  RowInv'
  <2>1. PICK s \in {400, 500} : Answer(r, s) /\ UNCHANGED tables
    BY <1>7 DEF BadRequest, Abort, tables
  <2>2. s \notin 200 .. 299
    BY <2>1
  <2>3. QED BY <1>0, <2>1, <2>2, RowsAnswered
<1>8. ASSUME NEW r \in Request, Find(r)
      PROVE  RowInv'
  <2>1. UNCHANGED tables /\ pc[r] = "handle"
    BY <1>8 DEF Find, tables
  <2>2. CASE Answer(r, 404)
    BY <1>0, <2>1, <2>2, RowsAnswered
  <2>3. CASE Recorded(r) /\ Answer(r, 201)
    <3>1. path[r].to \in {"production", "reservation", "product"}
      BY <2>1 DEF ReplayInv, KeyInUse, Wrapped
    <3>2. OneProduct(r) => IsRecorded(r)
      BY <2>3, <3>1, RecordedIsRecorded DEF ReplayInv
    <3>3. QED BY <1>0, <2>1, <2>3, <3>2, RowsAnswered
  <2>4. CASE UNCHANGED answer
    BY <1>0, <2>1, <2>4, RowsKept
  <2>5. QED BY <1>8, <2>2, <2>3, <2>4 DEF Find
<1>9. ASSUME NEW r \in Request, Commit(r)
      PROVE  RowInv'
  BY <1>0, <1>9, RowsInserted
<1>10. QED
  BY <1>1, <1>2, <1>3, <1>4, <1>5, <1>6, <1>7, <1>8, <1>9 DEF ApiNext

-----------------------------------------------------------------------------
(* Results *)

\* The invariant of the API always holds.
LEMMA ApiInvariant == ApiSpec => []ApiInv
<1>1. ApiInit => ApiInv
  BY ReplayInit, OnceInit, RowInit DEF ApiInv
<1>2. ApiInv /\ [ApiNext]_apiVars => ApiInv'
  BY ReplayStep, OnceStep, RowStep DEF ApiInv
<1>3. QED BY <1>1, <1>2, PTL DEF ApiSpec

\* The composed API keeps its types: in particular the store only ever holds
\* cacheable statuses (shouldCache).
THEOREM ApiTypeCorrect == ApiSpec => []ApiTypeOK
<1>1. ApiInv => ApiTypeOK
  BY DEF ApiInv, ReplayInv, RowInv, ApiTypeOK
<1>2. QED BY <1>1, ApiInvariant, PTL

\* A replay of the Idempotency-Key middleware repeats the answer of a handler
\* run for its own key and body, and never a server error.
THEOREM ReplaysFaithful == ApiSpec => []ReplayIsFaithful
<1>1. ApiInv => ReplayIsFaithful
  BY DEF ApiInv, ReplayInv
<1>2. QED BY <1>1, ApiInvariant, PTL

\* While the store works, requests with one key that do not overlap get at most
\* one answer to rely on from the handler.
THEOREM KeyAnsweredOnce == ApiSpec => []OneAnswerPerKey
<1>1. ApiInv => OneAnswerPerKey
  BY DEF ApiInv, OnceInv
<1>2. QED BY <1>1, ApiInvariant, PTL

\* A success of a disciplined client's request, first-hand or replayed, is in
\* the database.
THEOREM SuccessesRecorded == ApiSpec => []SuccessIsRecorded
<1>1. ASSUME ApiInv PROVE SuccessIsRecorded
  <2> USE <1>1 DEF ApiInv, ReplayInv, RowInv
  <2> SUFFICES ASSUME NEW r \in Request, answer[r].status \in 200 .. 299, Disciplined(r)
               PROVE  IsRecorded(r)
    BY DEF SuccessIsRecorded, IsRecorded
  <2>1. OneProduct(r)
    BY DEF Disciplined, OneProduct
  <2>2. CASE ~answer[r].replayed
    BY <2>1, <2>2 DEF FirstHandRecorded
  <2>3. CASE answer[r].replayed
    <3>1. PICK run \in runs :
             /\ key[run.request] = key[r] /\ body[run.request] = body[r]
             /\ run.status = answer[r].status
      BY <2>3 DEF ReplayIsFaithful
    <3> DEFINE q == run.request
    <3>2. /\ q \in Request /\ answer[q].status = answer[r].status /\ ~answer[q].replayed
      BY <3>1 DEF RunsAnswered, TypeOK
    <3>3. path[q] = path[r]
      BY <2>3, <3>1, <3>2, RestAssumption DEF Disciplined, ReplayKeyed
    <3>4. OneProduct(q) /\ SkuOf(q) = SkuOf(r)
      BY <2>1, <3>1, <3>2, <3>3 DEF OneProduct, SkuOf
    <3>5. IsRecorded(q)
      BY <3>2, <3>4 DEF FirstHandRecorded
    <3>6. QED BY <3>1, <3>3, <3>4, <3>5 DEF IsRecorded
  <2>4. QED BY <2>2, <2>3
<1>2. QED BY <1>1, ApiInvariant, PTL

-----------------------------------------------------------------------------
(* A listing is complete *)

\* A product that was there when the client started has been seen, or comes at
\* or after the offset of the next page, and there is a next page.
ListInv ==
  /\ products \subseteq Nat /\ IsFiniteSet(products)
  /\ page \in [limit : Nat, offset : Nat, due : SUBSET Nat, seen : SUBSET Nat, over : BOOLEAN]
  /\ page.due \subseteq products
  /\ \A k \in page.due \ page.seen : ~page.over /\ page.offset <= Rank(k)

\* A set of numbers has a least one.
LEMMA LeastNumber ==
  ASSUME NEW T, T \subseteq Nat, T # {}
  PROVE  \E m \in T : \A k \in T : m <= k
<1>1. PICK m \in T : \A k \in T : ~(<<k, m>> \in OpToRel(<, Nat))
  BY WFMin, NatLessThanWellFounded, Zenon
<1>2. \A k \in T : ~(k < m)
  BY <1>1 DEF OpToRel
<1>3. QED BY <1>2

\* A bounded set of numbers has a greatest one.
LEMMA GreatestNumber ==
  ASSUME NEW A, A \subseteq Nat, A # {}, NEW b \in Nat, \A x \in A : x <= b
  PROVE  \E g \in A : \A x \in A : x <= g
<1> DEFINE T == {n \in Nat : \A x \in A : x <= n}
<1>1. PICK m \in T : \A k \in T : m <= k
  <2>1. b \in T /\ T \subseteq Nat
    OBVIOUS
  <2>2. QED BY <2>1, LeastNumber
<1>2. m \in A
  <2> SUFFICES ASSUME m \notin A PROVE FALSE
    OBVIOUS
  <2>1. \A x \in A : x <= m - 1
    OBVIOUS
  <2>2. m - 1 \in Nat
    <3>1. PICK x \in A : TRUE
      OBVIOUS
    <3>2. x \in Nat /\ m \in Nat /\ x <= m - 1
      BY <2>1
    <3>3. QED BY <3>2
  <2>3. QED BY <1>1, <2>1, <2>2
<1>3. QED BY <1>2

\* The products before a product are finitely many, and a rank is a number.
LEMMA RankType ==
  ASSUME ListInv, NEW k
  PROVE  IsFiniteSet({x \in products : x < k}) /\ Rank(k) \in Nat
BY FS_Subset, FS_CardinalityType DEF ListInv, Rank

\* Later in the list, higher in rank
LEMMA RankOrder ==
  ASSUME ListInv, NEW k \in products, NEW m \in products, k < m
  PROVE  Rank(k) < Rank(m)
<1> DEFINE K == {x \in products : x < k}
           M == {x \in products : x < m}
<1>1. IsFiniteSet(K) /\ IsFiniteSet(M) /\ Rank(k) = Cardinality(K) /\ Rank(m) = Cardinality(M)
  BY RankType DEF Rank
<1>2. K \subseteq M /\ k \in M /\ k \notin K
  <2>1. \A x \in products : x \in Nat
    BY DEF ListInv
  <2>2. ASSUME NEW x \in products, x < k PROVE x < m
    <3>1. x \in Nat /\ k \in Nat /\ m \in Nat
      BY <2>1
    <3>2. QED BY <2>2, <3>1
  <2>3. ~(k < k)
    <3>1. k \in Nat
      BY <2>1
    <3>2. QED BY <3>1
  <2>4. QED BY <2>2, <2>3, Zenon
<1> HIDE DEF K, M
<1>3. Cardinality(K) <= Cardinality(M) /\ (Cardinality(K) = Cardinality(M) => K = M)
  BY <1>1, <1>2, FS_Subset
<1>4. Cardinality(K) \in Nat /\ Cardinality(M) \in Nat
  BY <1>1, FS_CardinalityType
<1>5. QED BY <1>1, <1>2, <1>3, <1>4

\* If the list goes on at place n, then n products come before.
LEMMA CountBelow ==
  ASSUME ListInv, NEW n \in Nat, NEW k \in products, n <= Rank(k)
  PROVE  /\ IsFiniteSet({x \in products : Rank(x) < n})
         /\ Cardinality({x \in products : Rank(x) < n}) = n
<1> DEFINE A == {x \in products : Rank(x) < n}
           B == {x \in products : n <= Rank(x)}
<1>r. \A x \in products : x \in Nat /\ Rank(x) \in Nat
  BY RankType DEF ListInv
<1>1. PICK m \in B : \A x \in B : m <= x
  <2>1. k \in B /\ B \subseteq Nat
    BY <1>r
  <2>2. QED BY <2>1, LeastNumber
<1>2. A = {x \in products : x < m}
  <2>1. ASSUME NEW x \in products, x < m PROVE Rank(x) < n
    BY <1>r, <1>1, <2>1
  <2>2. ASSUME NEW x \in products, ~(x < m) PROVE ~(Rank(x) < n)
    <3>1. CASE x = m
      BY <1>r, <1>1, <3>1
    <3>2. CASE m < x
      <4>1. Rank(m) < Rank(x) /\ n <= Rank(m)
        BY <1>1, <3>2, RankOrder
      <4>2. QED BY <1>r, <1>1, <4>1
    <3>3. QED BY <1>r, <1>1, <2>2, <3>1, <3>2
  <2>3. QED BY <2>1, <2>2
<1>3. IsFiniteSet(A) /\ Cardinality(A) = Rank(m) /\ n <= Rank(m) /\ Rank(m) \in Nat
  BY <1>r, <1>1, <1>2, RankType DEF Rank
<1>4. ~(n < Rank(m))
  <2> SUFFICES ASSUME n < Rank(m) PROVE FALSE
    OBVIOUS
  <2>1. A # {}
    BY <1>3, FS_EmptySet
  <2>2. A \subseteq Nat /\ m \in Nat /\ \A x \in A : x <= m
    BY <1>r, <1>1, <1>2
  <2>3. PICK g \in A : \A x \in A : x <= g
    BY <2>1, <2>2, GreatestNumber
  <2>4. {x \in products : x < g} = A \ {g}
    <3>1. g < m /\ g \in Nat /\ m \in Nat /\ g \in products
      BY <1>2, <2>2, <2>3
    <3>2. ASSUME NEW x \in products PROVE x < g <=> x \in A \ {g}
      BY <1>2, <1>r, <2>3, <3>1
    <3>3. QED BY <3>2
  <2>5. Cardinality(A \ {g}) = Rank(m) - 1
    BY <1>3, <2>3, FS_RemoveElement
  <2>6. Rank(g) = Rank(m) - 1
    BY <2>4, <2>5 DEF Rank
  <2>7. QED BY <1>3, <2>3, <2>6
<1>5. QED BY <1>3, <1>4

\* A page that the list goes on after is full, and so it has a next link.
LEMMA FullPage ==
  ASSUME ListInv, NEW k \in products, page.offset + page.limit <= Rank(k)
  PROVE  NextLink
<1> DEFINE S == {x \in products : Rank(x) < page.offset + page.limit}
           T == {x \in products : Rank(x) < page.offset}
<1>r. page.offset \in Nat /\ page.limit \in Nat /\ \A x \in products : Rank(x) \in Nat
  BY RankType DEF ListInv
<1>1. IsFiniteSet(S) /\ Cardinality(S) = page.offset + page.limit
  <2>1. page.offset + page.limit \in Nat
    BY <1>r
  <2>2. QED BY <2>1, CountBelow
<1>2. IsFiniteSet(T) /\ Cardinality(T) = page.offset
  <2>1. page.offset <= Rank(k)
    BY <1>r
  <2>2. QED BY <1>r, <2>1, CountBelow
<1>3. Rows = S \ T /\ S \cap T = T
  BY <1>r DEF Rows
<1> HIDE DEF S, T
<1>4. Cardinality(S \ T) = Cardinality(S) - Cardinality(S \cap T)
  BY <1>1, FS_Difference
<1>5. Cardinality(Rows) = page.limit
  <2>1. Cardinality(Rows) = (page.offset + page.limit) - page.offset
    BY <1>1, <1>2, <1>3, <1>4
  <2>2. QED BY <1>r, <2>1
<1>6. QED BY <1>5 DEF NextLink

\* Products that are added meanwhile only move the others back.
LEMMA ListGrows ==
  ASSUME ListInv, products \subseteq products', products' \subseteq Nat, IsFiniteSet(products'),
         UNCHANGED page
  PROVE  ListInv'
<1>1. ASSUME NEW k PROVE Rank(k) <= Rank(k)'
  <2>1. IsFiniteSet({x \in products' : x < k})
    BY FS_Subset
  <2>2. {x \in products : x < k} \subseteq {x \in products' : x < k}
    OBVIOUS
  <2>3. QED BY <2>1, <2>2, FS_Subset DEF Rank
<1>2. ASSUME NEW k \in page.due \ page.seen PROVE page.offset <= Rank(k)'
  <2>1. Rank(k) \in Nat /\ Rank(k) <= Rank(k)' /\ page.offset <= Rank(k) /\ page.offset \in Nat
    BY <1>1, RankType DEF ListInv
  <2>2. Rank(k)' \in Nat
    <3>1. IsFiniteSet({x \in products' : x < k})
      BY FS_Subset
    <3>2. QED BY <3>1, FS_CardinalityType DEF Rank
  <2>3. QED BY <2>1, <2>2
<1>3. QED BY <1>2 DEF ListInv

\* A page shows what lies between its offset and the next.
LEMMA PageShown ==
  ASSUME ListInv, ListPage
  PROVE  ListInv'
<1>1. /\ page' = [page EXCEPT !.seen = @ \cup Rows, !.offset = @ + page.limit, !.over = ~NextLink]
      /\ products' = products /\ ~page.over
  BY DEF ListPage, tables
<1>2. \A k : Rank(k)' = Rank(k)
  BY <1>1 DEF Rank
<1>3. /\ page'.due = page.due /\ page'.seen = page.seen \cup Rows
      /\ page'.offset = page.offset + page.limit /\ page'.over = ~NextLink
      /\ page'.limit = page.limit /\ Rows \subseteq Nat /\ NextLink \in BOOLEAN
  BY <1>1 DEF ListInv, Rows, NextLink
<1>4. ASSUME NEW k \in page'.due \ page'.seen
      PROVE  ~page'.over /\ page'.offset <= Rank(k)'
  <2>1. /\ k \in page.due \ page.seen /\ k \notin Rows /\ k \in products
        /\ page.offset <= Rank(k) /\ page.offset \in Nat /\ page.limit \in Nat
    BY <1>3, <1>4 DEF ListInv
  <2>2. Rank(k) \in Nat
    BY RankType
  <2>3. page.offset + page.limit <= Rank(k)
    BY <2>1, <2>2 DEF Rows
  <2>4. NextLink
    BY <2>1, <2>3, FullPage
  <2>5. QED BY <1>2, <1>3, <2>3, <2>4
<1>5. page' \in [limit : Nat, offset : Nat, due : SUBSET Nat, seen : SUBSET Nat, over : BOOLEAN]
  <2>1. page \in [limit : Nat, offset : Nat, due : SUBSET Nat, seen : SUBSET Nat, over : BOOLEAN]
    BY DEF ListInv
  <2>2. page.offset + page.limit \in Nat
    BY <2>1
  <2>3. page.seen \cup Rows \in SUBSET Nat
    BY <1>3, <2>1, Zenon
  <2>4. QED BY <1>1, <1>3, <2>1, <2>2, <2>3
<1>6. QED BY <1>1, <1>3, <1>4, <1>5 DEF ListInv

\* Every step keeps the listing on its way to the end.
LEMMA ListStep == TypeOK /\ ListInv /\ [ApiNext]_apiVars => ListInv'
<1> SUFFICES ASSUME TypeOK, ListInv, [ApiNext]_apiVars PROVE ListInv'
  OBVIOUS
<1>0. ASSUME UNCHANGED <<products, page>> PROVE ListInv'
  BY <1>0, ListGrows DEF ListInv
<1>1. CASE UNCHANGED apiVars \/ (Middleware /\ UNCHANGED <<path, tables, errors, page>>)
  BY <1>0, <1>1 DEF apiVars, tables
<1>2. CASE ListPage
  BY <1>2, PageShown
<1>3. ASSUME NEW limit \in ValidLimit, StartListing(limit) PROVE ListInv'
  <2>1. /\ page' = [limit |-> limit, offset |-> 0, due |-> products, seen |-> {}, over |-> FALSE]
        /\ products' = products /\ limit \in Nat
    <3>1. page' = [NotListing EXCEPT !.limit = limit, !.due = products] /\ products' = products
      BY <1>3 DEF StartListing, tables
    <3>2. limit \in Nat
      BY ApiAssumption DEF ValidLimit
    <3>3. QED BY <3>1, <3>2 DEF NotListing
  <2>2. ASSUME NEW k PROVE 0 <= Rank(k)'
    BY <2>1, RankType DEF Rank
  <2>3. QED BY <2>1, <2>2 DEF ListInv
<1>4. ASSUME NEW r \in Request, Commit(r) PROVE ListInv'
  <2>1. page' = page /\ (products' = products \/ products' = products \cup {body[r].sku})
    BY <1>4 DEF Commit, Insert, Answer, SkuOf
  <2>2. body[r].sku \in Nat
    <3>1. body[r] \in Body
      BY DEF TypeOK
    <3>2. body[r].sku \in Sku \cup {0} /\ Sku \subseteq Nat
      BY <3>1, ApiAssumption DEF NoSku
    <3>3. 0 \in Nat
      OBVIOUS
    <3>4. QED BY <3>2, <3>3, Zenon
  <2>3. IsFiniteSet(products') /\ products' \subseteq Nat
    <3>1. IsFiniteSet(products) /\ products \subseteq Nat
      BY DEF ListInv
    <3>2. IsFiniteSet(products \cup {body[r].sku})
      BY <3>1, FS_AddElement
    <3>3. QED BY <2>1, <2>2, <3>1, <3>2
  <2>4. QED BY <2>1, <2>3, ListGrows
<1>5. ASSUME NEW r \in Request,
             \/ Throttled(r) \/ TooLarge(r) \/ Unauthorized(r)
             \/ NoProduct(r) \/ ProductCtxFails(r) \/ ReservationCtx(r)
      PROVE  ListInv'
  BY <1>0, <1>5 DEF Throttled, TooLarge, Unauthorized, NoProduct, ProductCtxFails,
     ReservationCtx, Refuse, tables
<1>6. ASSUME NEW r \in Request, Enter(r) \/ BadRequest(r) \/ Find(r) \/ Abort(r)
      PROVE  ListInv'
  BY <1>0, <1>6 DEF Enter, BadRequest, Find, Abort, Answer, tables
<1>7. QED BY <1>1, <1>2, <1>3, <1>4, <1>5, <1>6 DEF ApiNext

\* A client that follows the next links of the product list to the end has seen
\* every product that was there when it started, for every page size and however
\* many products are created between its pages (GetAllProductInventory's ORDER
\* BY, LIMIT and OFFSET, repository.go 115-147; WriteLinkHeader, pagination.go
\* 86-116).
THEOREM ListingsComplete == ApiSpec => []ListingComplete
<1>1. ApiInit => ListInv
  BY ApiAssumption DEF ApiInit, NotListing, ListInv
<1>2. ApiInv => TypeOK
  BY DEF ApiInv, ReplayInv
<1>3. ListInv => ListingComplete
  BY DEF ListInv, ListingComplete
<1>4. QED BY <1>1, <1>2, <1>3, ListStep, ApiInvariant, PTL DEF ApiSpec
=============================================================================
