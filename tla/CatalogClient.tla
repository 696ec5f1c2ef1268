---------------------------- MODULE CatalogClient ----------------------------
(***************************************************************************)
(* The outbound catalog client (internal/catalog/client.go): Lookup makes  *)
(* bounded attempts with a backoff between them, each with its own timeout *)
(* and all under one deadline.  Lookups do not interact, so each has its   *)
(* own clock, in some unit of time.                                        *)
(***************************************************************************)
EXTENDS Naturals

CONSTANTS
  Timeout, PerAttemptTimeout, MaxAttempts, BackoffBase  \* Config, 0 is unset

ASSUME ClientAssumption ==
  {Timeout, PerAttemptTimeout, MaxAttempts, BackoffBase} \subseteq Nat

VARIABLE lookup   \* the Lookup call of each request

\* NewHTTPClient: the defaults of the settings that are not set, in units of
\* 50 ms
Default(v, d) == IF v > 0 THEN v ELSE d
Total      == Default(Timeout, 60)
PerAttempt == Default(PerAttemptTimeout, 20)
Attempts   == Default(MaxAttempts, 3)
Backoff    == Default(BackoffBase, 2)

NoLookup == [at |-> "none", attempt |-> 0, elapsed |-> 0, since |-> 0, wait |-> 0]

\* backoff(n): from half of base * 2^(n-1) up to, and without, all of it
BackoffWaits(n) ==
  LET wait == Backoff * 2 ^ (n - 1) IN wait \div 2 .. wait - 1

StartLookup(p) ==
  lookup' = [lookup EXCEPT ![p] = [NoLookup EXCEPT !.at = "try", !.attempt = 1]]

Return(p) == lookup' = [lookup EXCEPT ![p] = NoLookup]

\* totalCtx is done.
Deadline(p) == lookup[p].elapsed >= Total

\* Time passes, as far as the next timer of the call.
Tick(p) ==
  /\ \/ lookup[p].at = "try" /\ lookup[p].since < PerAttempt
     \/ lookup[p].at = "wait" /\ lookup[p].since < lookup[p].wait
  /\ ~Deadline(p)
  /\ lookup' = [lookup EXCEPT ![p].elapsed = @ + 1, ![p].since = @ + 1]

\* An attempt ends with an answer that ends the call: a product, 404, another
\* 4xx, or a body that does not decode.
AttemptSettles(p) == lookup[p].at = "try" /\ Return(p)

\* The next attempt, after its backoff, or the end of the budget
Retry(p) ==
  \/ /\ lookup[p].attempt < Attempts
     /\ \E w \in BackoffWaits(lookup[p].attempt) :
          lookup' = [lookup EXCEPT ![p].at = "wait", ![p].attempt = @ + 1,
                                   ![p].since = 0, ![p].wait = w]
  \/ lookup[p].attempt >= Attempts /\ Return(p)

\* A retryable failure: 5xx, a transport error, or a timeout.
AttemptFails(p) == lookup[p].at = "try" /\ Retry(p)

\* The timers of an attempt: http.Client.Timeout and totalCtx
AttemptTimesOut(p) ==
  /\ lookup[p].at = "try"
  /\ lookup[p].since >= PerAttempt \/ Deadline(p)
  /\ Retry(p)

\* time.After(wait)
WaitEnds(p) ==
  /\ lookup[p].at = "wait" /\ lookup[p].since >= lookup[p].wait
  /\ lookup' = [lookup EXCEPT ![p].at = "try", ![p].since = 0]

\* <-totalCtx.Done() in the backoff: terminalError
WaitCutOff(p) == lookup[p].at = "wait" /\ Deadline(p) /\ Return(p)

\* What the client does by itself; the upstream may or may not answer.
LookupStep(p) == Tick(p) \/ AttemptTimesOut(p) \/ WaitEnds(p) \/ WaitCutOff(p)
Upstream(p) == AttemptSettles(p) \/ AttemptFails(p)
=============================================================================
