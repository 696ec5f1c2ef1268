------------------------------- MODULE HttpApi -------------------------------
(***************************************************************************)
(* The routes of the inventory and reservation APIs that change state, and *)
(* the layers around them in the order ConfigureRouter (routes.go) mounts  *)
(* them: rate limit, body limit, authentication, the product of the path,  *)
(* the Idempotency-Key middleware, Bind, the service.  A service call is   *)
(* taken as the steps other requests can come between: finding what the    *)
(* request id has already done, and the transaction that does it (Inventory *)
(* has these in detail).  A client also pages through the product list.    *)
(***************************************************************************)
EXTENDS RestIdempotency

CONSTANTS
  Sku, RequestId,
  Existing,      \* the products there are at the start
  Call,          \* the requests clients may make, [path, body]
  MaxPageLimit,  \* httpx.MaxPageLimit
  MaxErrors      \* bound: failures of the database or the broker

NoSku == 0

ASSUME ApiAssumption ==
  /\ Sku \subseteq Nat \ {NoSku} /\ Existing \subseteq Sku /\ IsFiniteSet(Existing)
  /\ \A b \in Body : /\ b.sku \in Sku \cup {NoSku} /\ b.rid \in RequestId
                     /\ b.size \in {"fits", "declared", "chunked"}
  /\ TooBig = {b \in Body : b.size # "fits"}
  /\ \A c \in Call : c.body \in Body
  /\ MaxPageLimit \in Nat \ {0} /\ MaxErrors \in Nat

VARIABLES
  path,      \* [to, sku] of each request; its own sku or the one in the body
  products,  \* rows of products
  event,     \* production_events by request id: the sku, or NoSku
  resv,      \* reservations by request id: the sku, or NoSku
  errors,
  page       \* a client following the next links of the product list

tables  == <<products, event, resv>>
apiVars == <<vars, path, tables, errors, page>>

NotListing == [limit |-> 0, offset |-> 0, due |-> {}, seen |-> {}, over |-> FALSE]

ApiInit ==
  /\ Init
  /\ path \in [Request -> {c.path : c \in Call}]
  /\ \A r \in Request : [path |-> path[r], body |-> body[r]] \in Call
  /\ products = Existing
  /\ event = [i \in RequestId |-> NoSku] /\ resv = [i \in RequestId |-> NoSku]
  /\ errors = 0
  /\ page = NotListing

Error == errors < MaxErrors /\ errors' = errors + 1

GetProduct(sku) == sku \in products
GetProductionEventByRequestID(i) == event[i] # NoSku
GetReservationByRequestID(i) == resv[i] # NoSku
\* A reservation's id stands for its row as its request id does.
GetReservation(i) == resv[i] # NoSku

\* The product a request is about
SkuOf(r) == IF path[r].to = "production" THEN path[r].sku ELSE body[r].sku

-----------------------------------------------------------------------------
(* The layers before the handler *)

Refuse(r, status) ==
  /\ pc[r] = "new"
  /\ Goto(r, "done") /\ Respond(r, status, FALSE)
  /\ UNCHANGED <<store, key, body, runs, raced, faults, path, tables, page>>

\* The global rate limit comes first.
Throttled(r) == Refuse(r, 429) /\ UNCHANGED errors

\* MaxBytes: a declared length over the limit; a chunked body is only cut off.
BodyCarried(r) == path[r].to # "get"
TooLarge(r) == BodyCarried(r) /\ body[r].size = "declared" /\ Refuse(r, 413) /\ UNCHANGED errors
PastLimits(r) == ~BodyCarried(r) \/ body[r].size # "declared"

\* Authenticate
Unauthorized(r) == PastLimits(r) /\ Refuse(r, 401) /\ UNCHANGED errors

\* ProductCtx
ProductCtx(r) == path[r].to = "production" => GetProduct(path[r].sku)
NoProduct(r) == PastLimits(r) /\ ~ProductCtx(r) /\ Refuse(r, 404) /\ UNCHANGED errors
ProductCtxFails(r) == PastLimits(r) /\ path[r].to = "production" /\ Refuse(r, 500) /\ Error

\* ReservationCtx and Get: nothing but a read of the row.
ReservationCtx(r) ==
  /\ path[r].to = "get"
  /\ \/ ~body[r].valid /\ Refuse(r, 400) /\ UNCHANGED errors
     \/ /\ body[r].valid /\ UNCHANGED errors
        /\ Refuse(r, IF GetReservation(body[r].rid) THEN 200 ELSE 404)
     \/ body[r].valid /\ Refuse(r, 500) /\ Error

\* The two routes with the Idempotency-Key middleware, and the one without
Wrapped(r) == path[r].to \in {"production", "reservation"}

Enter(r) ==
  /\ PastLimits(r) /\ ProductCtx(r)
  /\ \/ Wrapped(r) /\ \E k \in Key \cup {NoKey} : Arrive(r, k)
     \/ /\ path[r].to = "product" /\ pc[r] = "new"
        /\ Goto(r, "handle")
        /\ UNCHANGED <<store, key, body, answer, runs, raced, faults>>
  /\ UNCHANGED <<path, tables, errors, page>>

-----------------------------------------------------------------------------
(* The handlers *)

\* The handler renders its answer; without the middleware that is all.
Answer(r, status) ==
  /\ IF Wrapped(r) THEN Handled(r, status)
     ELSE Goto(r, "done") /\ Respond(r, status, FALSE) /\ UNCHANGED runs
  /\ UNCHANGED <<store, key, body, raced, faults, path, page>>

\* render.Bind and the validation of the service
Bind(r) == body[r].valid /\ body[r].size = "fits"
BadRequest(r) == pc[r] = "handle" /\ ~Bind(r) /\ Answer(r, 400) /\ UNCHANGED <<tables, errors>>

\* What the request id (or, for a product, the sku) has already done
Recorded(r) ==
  CASE path[r].to = "production"  -> GetProductionEventByRequestID(body[r].rid)
    [] path[r].to = "reservation" -> GetReservationByRequestID(body[r].rid)
    [] OTHER                      -> GetProduct(body[r].sku)

\* Reserve holds the row of its product from the look to the end of the insert.
RowFree(r) ==
  path[r].to = "reservation" =>
    \A q \in Request \ {r} : ~(pc[q] = "insert" /\ path[q].to = "reservation" /\ SkuOf(q) = SkuOf(r))

\* The first reads of CreateProduct, Produce and Reserve
Find(r) ==
  /\ pc[r] = "handle" /\ Bind(r) /\ RowFree(r)
  /\ \/ /\ path[r].to = "reservation" /\ ~GetProduct(SkuOf(r))
        /\ Answer(r, 404)
     \/ /\ GetProduct(SkuOf(r)) \/ path[r].to = "product"
        /\ IF Recorded(r) THEN Answer(r, 201)
           ELSE Goto(r, "insert")
                /\ UNCHANGED <<store, key, body, answer, runs, raced, faults, path, page>>
  /\ UNCHANGED <<tables, errors>>

Insert(r) ==
  /\ event' = IF path[r].to = "production" THEN [event EXCEPT ![body[r].rid] = SkuOf(r)] ELSE event
  /\ resv' = IF path[r].to = "reservation" THEN [resv EXCEPT ![body[r].rid] = SkuOf(r)] ELSE resv
  /\ products' = IF path[r].to = "product" THEN products \cup {SkuOf(r)} ELSE products

\* Mutant: the answer does not wait for the commit.
CommitLate(r) ==
  /\ pc[r] = "insert"
  /\ \/ ~Recorded(r) /\ Insert(r) /\ Answer(r, 201) /\ UNCHANGED errors
     \/ UNCHANGED tables /\ Answer(r, 201) /\ Error

\* The transaction commits; what follows it (publishing, FillReserves) may
\* still fail the request.
Commit(r) ==
  /\ pc[r] = "insert"
  /\ path[r].to = "product" \/ ~Recorded(r)
  /\ Insert(r)
  /\ \/ Answer(r, 201) /\ UNCHANGED errors
     \/ path[r].to # "product" /\ Answer(r, 500) /\ Error

\* It does not: request_id is UNIQUE, or the database fails.
Abort(r) ==
  /\ pc[r] \in {"handle", "insert"} /\ Bind(r)
  /\ \/ pc[r] = "insert" /\ path[r].to # "product" /\ Recorded(r) /\ UNCHANGED errors
     \/ Error
  /\ Answer(r, 500)
  /\ UNCHANGED tables

-----------------------------------------------------------------------------
(* GET of the product list, page by page *)

\* parsePagination; any other limit is answered 400.
ValidLimit == 1 .. MaxPageLimit

StartListing(limit) ==
  /\ page = NotListing /\ limit \in ValidLimit
  /\ page' = [NotListing EXCEPT !.limit = limit, !.due = products]
  /\ UNCHANGED <<vars, path, tables, errors>>

\* ORDER BY p.sku: the place of a product in the list, from 0
Rank(sku) == Cardinality({x \in products : x < sku})

\* LIMIT and OFFSET
Rows == {sku \in products :
           page.offset <= Rank(sku) /\ Rank(sku) < page.offset + page.limit}

\* Mutant: the next link is left out when a page is not the first.
ListPageShort ==
  /\ page.limit > 0 /\ ~page.over
  /\ page' = [page EXCEPT !.seen = @ \cup Rows, !.offset = @ + page.limit,
                          !.over = page.offset > 0]
  /\ UNCHANGED <<vars, path, tables, errors>>

\* WriteLinkHeader: a full page has a next link.
NextLink == Cardinality(Rows) = page.limit

\* List; the client follows the link.
ListPage ==
  /\ page.limit > 0 /\ ~page.over
  /\ page' = [page EXCEPT !.seen = @ \cup Rows, !.offset = @ + page.limit,
                          !.over = ~NextLink]
  /\ UNCHANGED <<vars, path, tables, errors>>

ApiNext ==
  \/ Middleware /\ UNCHANGED <<path, tables, errors, page>>
  \/ \E r \in Request :
       \/ Throttled(r) \/ TooLarge(r) \/ Unauthorized(r)
       \/ NoProduct(r) \/ ProductCtxFails(r) \/ ReservationCtx(r)
       \/ Enter(r) \/ BadRequest(r) \/ Find(r) \/ Commit(r) \/ Abort(r)
  \/ \E limit \in ValidLimit : StartListing(limit)
  \/ ListPage

ApiSpec == ApiInit /\ [][ApiNext]_apiVars

-----------------------------------------------------------------------------
(* Properties *)

\* A client that uses a key for one path only, and a request id for one
\* product only
Disciplined(r) ==
  \A q \in Request :
    /\ key[q] = key[r] /\ key[r] # NoKey => path[q] = path[r]
    /\ body[q].rid = body[r].rid /\ path[q].to = path[r].to => SkuOf(q) = SkuOf(r)

\* A success, first-hand or replayed, is true: the production event, the
\* reservation or the product is in the database under the sku the request
\* names, whatever other requests, failed transactions and store errors came
\* between (transport_http.go 263, transport_http_reservation.go 163,
\* middleware.go 130-149), for clients that do not reuse a key or a request id
\* elsewhere: neither is bound to the path.
SuccessIsRecorded ==
  \A r \in Request :
    answer[r].status \in 200 .. 299 /\ Disciplined(r) =>
      CASE path[r].to = "production"  -> event[body[r].rid] = SkuOf(r)
        [] path[r].to = "reservation" -> resv[body[r].rid] = SkuOf(r)
        [] path[r].to = "get"         -> resv[body[r].rid] # NoSku
        [] OTHER                      -> SkuOf(r) \in products

\* A client that follows the next links to the end has seen every product
\* that was there when it started, although products are created between its
\* pages and move the offsets (repository.go 120, pagination.go 88-91).
ListingComplete == page.over => page.due \subseteq page.seen
=============================================================================
