----------------------------- MODULE RateLimiter -----------------------------
(***************************************************************************)
(* The token buckets that the replicas share in Redis                      *)
(* (internal/platform/ratelimit, httpx/ratelimit.go) for one client.       *)
(* Allow reads the replica's clock and then has Redis run script.lua, so   *)
(* the script may see times out of order.  Tokens are counted in parts:    *)
(* Rate parts are added in a unit of time and a request costs Cost.        *)
(***************************************************************************)
EXTENDS Integers, Sequences, FiniteSets, FiniteSetsExt

CONSTANTS
  Call,        \* requests of the client
  Rate, Cost,
  Second,      \* units of time in a second
  Burst,       \* parts in a full bucket
  Skew,        \* how far the replicas' clocks are off
  MaxDelay,    \* longest time from reading the clock to the script
  MaxPasses,   \* bound: how often time passes
  MaxFaults    \* bound: Redis errors

\* The buckets: IPKeyScoped with the prefix of each limiter
Bucket == {"rl:global:", "rl:auth:"}

\* New: ten times the time to fill a bucket, in whole seconds, and a minute at
\* least
KeyTTL == Second * Max({60, (10 * Burst) \div (Rate * Second)})

\* A full bucket is refilled well within the expiry of its key, whatever the
\* clocks and delays.
ASSUME RateAssumption ==
  /\ {Rate, Cost, Second, Burst} \subseteq Nat \ {0} /\ Cost <= Burst
  /\ Skew \subseteq Int /\ Skew # {} /\ MaxDelay \in Nat
  /\ \A j, k \in Skew : Rate * (KeyTTL - MaxDelay + j - k) >= Burst
  /\ MaxPasses \in Nat /\ MaxFaults \in Nat

VARIABLES
  now, passes,
  bucket,   \* the Redis hash of each bucket and when it expires
  at,       \* where each request is: new, at a bucket, served or denied
  route,    \* the limiters before it
  stamp,    \* the now_ms it sent, and when it read that
  grants,   \* history: the stamps of the requests a bucket let through, with
            \* the time its last_ms had been set back until then
  back,     \* history: that time
  promise,  \* history: when a request is due by the last Decision.RetryAfter, or none
  header,   \* history: when it is due by the Retry-After header of that denial
  faults

vars == <<now, passes, bucket, at, route, stamp, grants, back, promise, header, faults>>

NoBucket == [exists |-> FALSE, tokens |-> 0, last_ms |-> 0, expires |-> 0]
NoPromise == -1
NoStamp == [ms |-> 0, read |-> 0]

Init ==
  /\ now \in {0} \cup {-k : k \in Skew} /\ now >= 0 /\ \A k \in Skew : now + k >= 0
  /\ passes = 0
  /\ bucket = [b \in Bucket |-> NoBucket]
  /\ at = [c \in Call |-> "new"]
  /\ route \in [Call -> {<<"rl:global:">>, <<"rl:global:", "rl:auth:">>}]
  /\ stamp = [c \in Call |-> NoStamp]
  /\ grants = [b \in Bucket |-> <<>>]
  /\ back = [b \in Bucket |-> 0]
  /\ promise = [b \in Bucket |-> NoPromise]
  /\ header = [b \in Bucket |-> 0]
  /\ faults = 0

\* Allow reads the clock of the replica that serves the request.
Ask(c, k) ==
  /\ at[c] \in {"new", "next"}
  /\ at' = [at EXCEPT ![c] = Head(route[c])]
  /\ stamp' = [stamp EXCEPT ![c] = [ms |-> now + k, read |-> now]]
  /\ UNCHANGED <<now, passes, bucket, route, grants, back, promise, header, faults>>

Waiting(c) == at[c] \in Bucket

\* Middleware: on to the next limiter, or to the handler
Proceed(c) ==
  /\ route' = [route EXCEPT ![c] = Tail(@)]
  /\ at' = [at EXCEPT ![c] = IF Len(route[c]) = 1 THEN "served" ELSE "next"]

\* 429 with Retry-After: whole seconds, rounded down, and one at least
Deny(c, wait) ==
  /\ at' = [at EXCEPT ![c] = "denied"] /\ UNCHANGED route
  /\ promise' = [promise EXCEPT ![at[c]] = stamp[c].ms + wait]
  /\ header' = [header EXCEPT ![at[c]] =
       stamp[c].ms + Second * Max({1, wait \div Second})]

-----------------------------------------------------------------------------
(* script.lua *)

\* Mutant: the refilled bucket is not capped.
RefilledUncapped(b, ms) ==
  LET d == bucket[b] IN
    IF d.exists THEN d.tokens + Max({0, ms - d.last_ms}) * Rate ELSE Burst

Refilled(b, ms) ==
  LET d == bucket[b] IN
    IF d.exists THEN Min({Burst, d.tokens + Max({0, ms - d.last_ms}) * Rate})
                ELSE Burst

\* Mutant: the time to wait is rounded down.
RetryAfterFloor(tokens) == (Cost - tokens) \div Rate

\* math.ceil
RetryAfter(tokens) == (Cost - tokens + Rate - 1) \div Rate

Write(b, tokens, ms) ==
  /\ bucket' = [bucket EXCEPT ![b] =
       [exists |-> TRUE, tokens |-> tokens, last_ms |-> ms, expires |-> now + KeyTTL]]
  /\ back' = [back EXCEPT ![b] =
       @ + IF bucket[b].exists THEN Max({0, bucket[b].last_ms - ms}) ELSE 0]

\* The script takes the cost from the bucket,
Grant(b, ms) ==
  LET tokens == Refilled(b, ms) IN
  /\ tokens >= Cost
  /\ Write(b, tokens - Cost, ms)
  /\ grants' = [grants EXCEPT ![b] = Append(@, [ms |-> ms, back |-> back'[b]])]
  /\ promise' = [promise EXCEPT ![b] = NoPromise] /\ UNCHANGED header

\* or leaves it refilled.
Refuse(b, ms) ==
  LET tokens == Refilled(b, ms) IN
  /\ tokens < Cost
  /\ Write(b, tokens, ms)
  /\ UNCHANGED grants

\* EVAL: the whole script is one step.
Eval(c) ==
  LET b == at[c]  ms == stamp[c].ms IN
  /\ Waiting(c)
  /\ \/ Grant(b, ms) /\ Proceed(c)
     \/ Refuse(b, ms) /\ Deny(c, RetryAfter(Refilled(b, ms)))
  /\ stamp' = [stamp EXCEPT ![c] = NoStamp]
  /\ UNCHANGED <<now, passes, faults>>

\* The script runs and its reply is lost: it is sent again, with the same
\* time, or the call fails (EvalFails).
ReplyLost(c) ==
  LET b == at[c]  ms == stamp[c].ms IN
  /\ Waiting(c)
  /\ faults < MaxFaults /\ faults' = faults + 1
  /\ Grant(b, ms) \/ (Refuse(b, ms) /\ UNCHANGED <<promise, header>>)
  /\ UNCHANGED <<now, passes, at, route, stamp>>

\* Redis fails: the request goes on.
EvalFails(c) ==
  /\ Waiting(c)
  /\ faults < MaxFaults /\ faults' = faults + 1
  /\ Proceed(c)
  /\ stamp' = [stamp EXCEPT ![c] = NoStamp]
  /\ UNCHANGED <<now, passes, bucket, grants, back, promise, header>>

\* EXPIRE
Expire(b) ==
  /\ bucket[b].exists /\ now >= bucket[b].expires
  /\ bucket' = [bucket EXCEPT ![b] = NoBucket]
  /\ UNCHANGED <<now, passes, at, route, stamp, grants, back, promise, header, faults>>

\* Time passes: a moment, or long enough for a bucket to expire.
Pass(d) ==
  /\ passes < MaxPasses /\ passes' = passes + 1
  /\ \A c \in Call : Waiting(c) => now + d - stamp[c].read <= MaxDelay
  /\ now' = now + d
  /\ UNCHANGED <<bucket, at, route, stamp, grants, back, promise, header, faults>>

Next ==
  \/ \E c \in Call : Eval(c) \/ ReplyLost(c) \/ EvalFails(c) \/ \E k \in Skew : Ask(c, k)
  \/ \E b \in Bucket : Expire(b)
  \/ \E d \in {1, KeyTTL} : Pass(d)

Spec == Init /\ [][Next]_vars

-----------------------------------------------------------------------------
(* Properties *)

\* The replicas share one budget (limiter.go 1-4): whatever the clocks, the
\* delays and the expiry of buckets, the requests a bucket lets through from
\* one grant to a later one fit a full bucket and what is refilled between
\* them.  A script that sees an older time sets last_ms back, and that time is
\* refilled again: it is what the budget may be exceeded by, and nothing else.
BudgetShared ==
  \A b \in Bucket : \A i, j \in DOMAIN grants[b] : i <= j =>
    Cost * (j - i + 1) <=
      Burst + Rate * (grants[b][j].ms - grants[b][i].ms + grants[b][j].back - grants[b][i].back)

\* The wait of a denial (script.lua 26-27) is enough, and the header that the
\* client sees (httpx/ratelimit.go 95-99) is short of it by less than a second:
\* when no other request is let through first, one that comes with a time past
\* the wait, or a second past the header's, is let through, also after requests
\* of replicas whose clocks are behind and after lost replies.
RetryAfterHolds ==
  [][\A b \in Bucket : promise[b] # NoPromise =>
       \A c \in Call : at[c] = b /\ at'[c] = "denied" =>
         stamp[c].ms < promise[b] /\ stamp[c].ms < header[b] + Second]_vars
=============================================================================
