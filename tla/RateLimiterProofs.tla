------------------------- MODULE RateLimiterProofs -------------------------
(***************************************************************************)
(* Proofs about the shared token buckets (RateLimiter), for any number of  *)
(* requests, any rate, cost and burst, and any clocks and delays within    *)
(* the bounds of RateAssumption.                                           *)
(***************************************************************************)
EXTENDS RateLimiter, TLAPS

-----------------------------------------------------------------------------
(* The parts of the inductive invariant *)

RateTypeOK ==
  /\ now \in Int
  /\ bucket \in [Bucket -> [exists : BOOLEAN, tokens : Int, last_ms : Int, expires : Int]]
  /\ at \in [Call -> Bucket \cup {"new", "next", "served", "denied"}]
  /\ route \in [Call -> Seq(Bucket)]
  /\ \A c \in Call : at[c] \in Bucket \cup {"new", "next"} => route[c] # <<>>
  /\ stamp \in [Call -> [ms : Int, read : Int]]
  /\ grants \in [Bucket -> Seq([ms : Int, back : Int])]
  /\ back \in [Bucket -> Int]
  /\ promise \in [Bucket -> Int] /\ header \in [Bucket -> Int]

\* A request waits with a time that some replica's clock showed not long ago.
StampsRecent ==
  \A c \in Call : Waiting(c) =>
    /\ \E k \in Skew : stamp[c].ms = stamp[c].read + k
    /\ stamp[c].read <= now /\ now <= stamp[c].read + MaxDelay

\* The time the script has counted when it let a request through: what was set
\* back counts again.
Counted(g) == g.ms + g.back

\* What bucket b let through from its i-th grant on
SpentSince(b, i) == Cost * (Len(grants[b]) - i + 1)

\* A bucket holds no more than is left of a full one and the refills since any
\* of its grants, and was written by a clock that was off by a skew.
FilledWithin(b) ==
  bucket[b].exists =>
    /\ 0 <= bucket[b].tokens /\ bucket[b].tokens <= Burst
    /\ \E k \in Skew : bucket[b].last_ms <= bucket[b].expires - KeyTTL + k
    /\ \A i \in DOMAIN grants[b] :
         SpentSince(b, i) + bucket[b].tokens <=
           Burst + Rate * (bucket[b].last_ms + back[b] - Counted(grants[b][i]))

\* A bucket that expired would be full whoever asks next.
ExpiredFull(b) ==
  ~bucket[b].exists =>
    \A i \in DOMAIN grants[b], k \in Skew :
      SpentSince(b, i) <= Rate * (now - MaxDelay + k + back[b] - Counted(grants[b][i]))

\* Refilled up to the time named in the last denial, a bucket has enough, and
\* the header names one less than a second before it.
WaitSuffices(b) ==
  bucket[b].exists /\ promise[b] # NoPromise =>
    /\ bucket[b].tokens + Rate * (promise[b] - bucket[b].last_ms) >= Cost
    /\ promise[b] < header[b] + Second

\* The inductive invariant
RateInv ==
  /\ RateTypeOK /\ StampsRecent
  /\ \A b \in Bucket : FilledWithin(b) /\ ExpiredFull(b) /\ WaitSuffices(b)
  /\ BudgetShared
-----------------------------------------------------------------------------
(* Arithmetic *)

\* The constants, with their types.
LEMMA Constants ==
  /\ Rate \in Nat /\ Rate >= 1 /\ Cost \in Nat /\ Cost >= 1 /\ Burst \in Nat /\ Cost <= Burst
  /\ Second \in Nat /\ Second >= 1 /\ Skew \subseteq Int /\ MaxDelay \in Nat
BY RateAssumption

\* What the provers need to know of products with the rate.
LEMMA TimesRate ==
  \A x, y \in Int : /\ Rate * x \in Int
                    /\ Rate * (x + y) = Rate * x + Rate * y
                    /\ x <= y => Rate * x <= Rate * y
<1>1. Rate \in Int /\ Rate >= 1
  BY Constants
<1>2. ASSUME NEW x \in Int, NEW y \in Int
      PROVE  Rate * x \in Int /\ Rate * (x + y) = Rate * x + Rate * y
  BY <1>1
<1>3. ASSUME NEW x \in Int, NEW y \in Int, x <= y PROVE Rate * x <= Rate * y
  BY <1>1, <1>3
<1>4. QED BY <1>2, <1>3

\* What the provers need to know of products with the cost.
LEMMA TimesCost == \A n \in Int : Cost * n \in Int /\ Cost * (n + 1) = Cost * n + Cost /\ Cost * 1 = Cost
BY Constants

\* The wait is rounded up: refilling for it covers the deficit.
LEMMA DivisionUp ==
  ASSUME NEW n \in Int
  PROVE  (n + Rate - 1) \div Rate \in Int /\ Rate * ((n + Rate - 1) \div Rate) >= n
BY Constants

\* The larger of a number and zero.
LEMMA MaxWithZero == ASSUME NEW x \in Int PROVE Max({0, x}) = IF x >= 0 THEN x ELSE 0
BY DEF Max

\* The larger of two numbers.
LEMMA MaxOfTwo ==
  ASSUME NEW x \in Int, NEW y \in Int PROVE Max({x, y}) = IF x >= y THEN x ELSE y
BY DEF Max

\* The time to live of a key is not negative.
LEMMA TTLType == KeyTTL \in Int /\ KeyTTL >= 0
<1> DEFINE n == (10 * Burst) \div (Rate * Second)
<1>1. n \in Int
  <2>1. Rate * Second \in Nat /\ Rate * Second >= 1 /\ 10 * Burst \in Nat
    BY Constants
  <2> DEFINE p == Rate * Second
             q == 10 * Burst
  <2>2. p \in Nat /\ p >= 1 /\ q \in Nat
    BY <2>1
  <2> HIDE DEF p, q
  <2>3. q \div p \in Int
    BY <2>2
  <2>4. QED BY <2>3 DEF p, q
<1> HIDE DEF n
<1>2. Max({60, n}) \in Int /\ Max({60, n}) >= 0
  BY <1>1, MaxOfTwo
<1>3. \A m \in Int : m >= 0 => Second * m \in Int /\ Second * m >= 0
  BY Constants
<1>4. QED BY <1>2, <1>3 DEF KeyTTL, n

\* The header is rounded down: it is short of the wait by less than a second.
LEMMA HeaderClose ==
  ASSUME NEW w \in Int
  PROVE  /\ Second * Max({1, w \div Second}) \in Int
         /\ w < Second * Max({1, w \div Second}) + Second
<1>1. PICK q \in Int : q = w \div Second /\ w < Second * q + Second
  BY Constants
<1>2. Max({1, q}) \in Int /\ Max({1, q}) >= q
  BY MaxOfTwo
<1>3. PICK m \in Int : m = Max({1, q}) /\ m >= q
  BY <1>2
<1>4. Second * m \in Int /\ Second * q \in Int /\ Second * m >= Second * q
  BY <1>3, Constants
<1>5. w < Second * m + Second
  BY <1>1, <1>4, Constants
<1>6. QED BY <1>1, <1>3, <1>4, <1>5

\* The smaller of two numbers.
LEMMA MinOfTwo ==
  ASSUME NEW x \in Int, NEW y \in Int PROVE Min({x, y}) = IF x <= y THEN x ELSE y
BY DEF Min
-----------------------------------------------------------------------------
(* The script *)

\* An element of a sequence has its type.
LEMMA ElementType == ASSUME NEW S, NEW s \in Seq(S), NEW i \in DOMAIN s PROVE s[i] \in S
OBVIOUS

\* The types of one bucket and of its grants.
LEMMA Buckets ==
  ASSUME RateTypeOK, NEW b \in Bucket
  PROVE  /\ bucket[b].tokens \in Int /\ bucket[b].last_ms \in Int /\ bucket[b].expires \in Int
         /\ back[b] \in Int /\ promise[b] \in Int /\ header[b] \in Int
         /\ grants[b] \in Seq([ms : Int, back : Int])
         /\ Len(grants[b]) \in Nat /\ DOMAIN grants[b] = 1 .. Len(grants[b])
         /\ \A i \in DOMAIN grants[b] :
              /\ i \in Int /\ grants[b][i].ms \in Int /\ grants[b][i].back \in Int
              /\ Counted(grants[b][i]) \in Int /\ SpentSince(b, i) \in Int
<1>1. grants[b] \in Seq([ms : Int, back : Int])
  BY DEF RateTypeOK
<1>2. Len(grants[b]) \in Nat /\ DOMAIN grants[b] = 1 .. Len(grants[b])
  BY <1>1
<1>3. ASSUME NEW i \in DOMAIN grants[b]
      PROVE  /\ i \in Int /\ grants[b][i].ms \in Int /\ grants[b][i].back \in Int
             /\ Counted(grants[b][i]) \in Int /\ SpentSince(b, i) \in Int
  <2>1. i \in Int
    BY <1>2
  <2>2. grants[b][i] \in [ms : Int, back : Int]
    BY <1>1, ElementType, Zenon
  <2>3. grants[b][i].ms + grants[b][i].back \in Int /\ Len(grants[b]) - i + 1 \in Int
    BY <1>2, <2>1, <2>2
  <2>4. QED BY <2>1, <2>2, <2>3, TimesCost DEF Counted, SpentSince
<1>4. QED BY <1>1, <1>2, <1>3 DEF RateTypeOK

\* What the script makes of the bucket before it looks at the cost
LEMMA RefilledBucket ==
  ASSUME RateTypeOK, NEW b \in Bucket, FilledWithin(b), NEW ms \in Int
  PROVE  /\ Refilled(b, ms) \in Int /\ 0 <= Refilled(b, ms) /\ Refilled(b, ms) <= Burst
         /\ ~bucket[b].exists => Refilled(b, ms) = Burst
         /\ bucket[b].exists =>
              /\ ms >= bucket[b].last_ms =>
                   Refilled(b, ms) <= bucket[b].tokens + Rate * (ms - bucket[b].last_ms)
              /\ ms < bucket[b].last_ms => Refilled(b, ms) = bucket[b].tokens
              /\ Refilled(b, ms) < Cost =>
                   Refilled(b, ms) >= bucket[b].tokens + Rate * (ms - bucket[b].last_ms)
<1>1. CASE ~bucket[b].exists
  <2>1. Refilled(b, ms) = Burst
    BY <1>1 DEF Refilled
  <2>2. QED BY <1>1, <2>1, Constants
<1>2. CASE bucket[b].exists
  <2> DEFINE tok == bucket[b].tokens
             d   == ms - bucket[b].last_ms
  <2>1. /\ tok \in Int /\ d \in Int /\ 0 <= tok /\ tok <= Burst
        /\ (ms >= bucket[b].last_ms <=> d >= 0) /\ (ms < bucket[b].last_ms <=> d < 0)
    BY <1>2, Buckets DEF FilledWithin
  <2>2. /\ Rate * d \in Int /\ (d >= 0 => Rate * d >= 0) /\ (d <= 0 => Rate * d <= 0)
        /\ d * Rate = Rate * d /\ 0 * Rate = 0
    BY <2>1, Constants
  <2>3. Refilled(b, ms) = Min({Burst, tok + Max({0, d}) * Rate})
    BY <1>2 DEF Refilled
  <2> HIDE DEF tok, d
  <2>4. CASE d >= 0
    <3> DEFINE more == tok + Rate * d
    <3>0. Max({0, d}) = d /\ more \in Int /\ Burst \in Int
      BY <2>1, <2>2, <2>4, MaxWithZero, Constants
    <3>1. Refilled(b, ms) = IF Burst <= more THEN Burst ELSE more
      <4>1. Refilled(b, ms) = Min({Burst, more})
        BY <2>2, <2>3, <3>0
      <4> HIDE DEF more
      <4>2. QED BY <3>0, <4>1, MinOfTwo
    <3>2. QED BY <1>2, <2>1, <2>2, <2>4, <3>1, Constants DEF tok, d
  <2>5. CASE d < 0
    <3>1. Refilled(b, ms) = IF Burst <= tok + 0 THEN Burst ELSE tok + 0
      BY <2>1, <2>2, <2>3, <2>5, MaxWithZero, MinOfTwo, Constants
    <3>2. Refilled(b, ms) = tok
      BY <2>1, <3>1, Constants
    <3>3. QED BY <1>2, <2>1, <2>2, <2>5, <3>2, Constants DEF tok, d
  <2>6. QED BY <2>1, <2>4, <2>5
<1>3. QED BY <1>1, <1>2

\* The time set back, as Write counts it
SetBack(b, ms) == IF bucket[b].exists THEN Max({0, bucket[b].last_ms - ms}) ELSE 0

\* The budget holds with all that the refilled bucket has still to give.
LEMMA Headroom ==
  ASSUME RateTypeOK, NEW b \in Bucket, FilledWithin(b), ExpiredFull(b), NEW ms \in Int,
         NEW k \in Skew, now - MaxDelay + k <= ms
  PROVE  /\ SetBack(b, ms) \in Int
         /\ \A i \in DOMAIN grants[b] :
              SpentSince(b, i) + Refilled(b, ms) <=
                Burst + Rate * (ms + (back[b] + SetBack(b, ms)) - Counted(grants[b][i]))
<1>0. k \in Int /\ MaxDelay \in Int /\ now \in Int /\ Burst \in Int
  BY Constants DEF RateTypeOK
<1>1. SetBack(b, ms) \in Int
  <2> DEFINE d == bucket[b].last_ms - ms
  <2>1. d \in Int
    BY Buckets
  <2> HIDE DEF d
  <2>2. Max({0, d}) \in Int
    BY <2>1, MaxWithZero
  <2>3. QED BY <2>2 DEF SetBack, d
<1>2. ASSUME NEW i \in DOMAIN grants[b]
      PROVE  SpentSince(b, i) + Refilled(b, ms) <=
               Burst + Rate * (ms + (back[b] + SetBack(b, ms)) - Counted(grants[b][i]))
  <2> DEFINE last  == bucket[b].last_ms
             tok   == bucket[b].tokens
             from  == Counted(grants[b][i])
             spent == SpentSince(b, i)
             t     == Refilled(b, ms)
  <2>1. last \in Int /\ tok \in Int /\ from \in Int /\ spent \in Int /\ t \in Int /\ back[b] \in Int
    BY <1>2, Buckets, RefilledBucket
  <2>2. CASE bucket[b].exists /\ ms >= last
    <3>1. SetBack(b, ms) = 0
      <4>1. last - ms \in Int /\ (last - ms >= 0 => last - ms = 0)
        BY <2>1, <2>2
      <4>2. QED BY <2>2, <4>1, MaxWithZero DEF SetBack
    <3>2. t <= tok + Rate * (ms - last) /\ spent + tok <= Burst + Rate * (last + back[b] - from)
      BY <1>2, <2>2, RefilledBucket DEF FilledWithin
    <3> DEFINE x == ms - last
               y == last + back[b] - from
    <3>3. x \in Int /\ y \in Int /\ ms + back[b] - from = x + y
      BY <2>1
    <3>4. /\ Rate * (ms + back[b] - from) = Rate * x + Rate * y
          /\ Rate * x \in Int /\ Rate * y \in Int
      <4> HIDE DEF x, y
      <4>1. QED BY <3>3, TimesRate
    <3> HIDE DEF last, tok, from, spent, t
    <3>5. spent + t <= Burst + Rate * (ms + back[b] - from)
      BY <1>0, <2>1, <3>2, <3>3, <3>4
    <3>6. QED BY <2>1, <3>1, <3>5 DEF last, tok, from, spent, t
  <2>3. CASE bucket[b].exists /\ ms < last
    <3>1. SetBack(b, ms) = last - ms
      <4>1. last - ms \in Int /\ last - ms >= 0
        BY <2>1, <2>3
      <4>2. QED BY <2>3, <4>1, MaxWithZero DEF SetBack
    <3>2. t = tok /\ spent + tok <= Burst + Rate * (last + back[b] - from)
      BY <1>2, <2>3, RefilledBucket DEF FilledWithin
    <3>3. ms + (back[b] + SetBack(b, ms)) - from = last + back[b] - from
      BY <2>1, <3>1
    <3>4. QED BY <3>2, <3>3
  <2>4. CASE ~bucket[b].exists
    <3>1. t = Burst /\ SetBack(b, ms) = 0
      BY <2>4, RefilledBucket DEF SetBack
    <3>2. spent <= Rate * (now - MaxDelay + k + back[b] - from)
      BY <1>2, <2>4 DEF ExpiredFull
    <3> DEFINE x == now - MaxDelay + k + back[b] - from
               y == ms + back[b] - from
    <3>3. x \in Int /\ y \in Int /\ x <= y
      BY <1>0, <2>1
    <3>4. Rate * x <= Rate * y /\ Rate * x \in Int /\ Rate * y \in Int
      <4> HIDE DEF x, y
      <4>1. QED BY <3>3, TimesRate
    <3> HIDE DEF from, spent, t
    <3>5. spent + t <= Burst + Rate * (ms + back[b] - from)
      BY <1>0, <2>1, <3>1, <3>2, <3>3, <3>4
    <3>6. QED BY <2>1, <3>1, <3>5 DEF from, spent, t
  <2>5. QED BY <2>1, <2>2, <2>3, <2>4
<1>3. QED BY <1>1, <1>2
\* HSET and EXPIRE
LEMMA WriteEffect ==
  ASSUME RateTypeOK, NEW b \in Bucket, NEW t \in Int, NEW ms \in Int, SetBack(b, ms) \in Int,
         Write(b, t, ms)
  PROVE  /\ bucket' \in [Bucket -> [exists : BOOLEAN, tokens : Int, last_ms : Int, expires : Int]]
         /\ back' \in [Bucket -> Int]
         /\ bucket'[b].exists /\ bucket'[b].tokens = t /\ bucket'[b].last_ms = ms
         /\ bucket'[b].expires = now + KeyTTL
         /\ back'[b] = back[b] + SetBack(b, ms)
         /\ \A a \in Bucket \ {b} : bucket'[a] = bucket[a] /\ back'[a] = back[a]
<1>1. now + KeyTTL \in Int
  BY TTLType DEF RateTypeOK
<1>2. PICK new \in [exists : BOOLEAN, tokens : Int, last_ms : Int, expires : Int] :
        /\ new.exists /\ new.tokens = t /\ new.last_ms = ms /\ new.expires = now + KeyTTL
        /\ bucket' = [bucket EXCEPT ![b] = new]
  <2> DEFINE n == [exists |-> TRUE, tokens |-> t, last_ms |-> ms, expires |-> now + KeyTTL]
  <2>1. n \in [exists : BOOLEAN, tokens : Int, last_ms : Int, expires : Int]
    BY <1>1, Zenon
  <2>2. n.exists /\ n.tokens = t /\ n.last_ms = ms /\ n.expires = now + KeyTTL
    BY Zenon
  <2>3. bucket' = [bucket EXCEPT ![b] = n]
    BY Zenon DEF Write
  <2> HIDE DEF n
  <2>4. QED BY <2>1, <2>2, <2>3
<1>3. /\ bucket' \in [Bucket -> [exists : BOOLEAN, tokens : Int, last_ms : Int, expires : Int]]
      /\ bucket'[b] = new /\ \A a \in Bucket \ {b} : bucket'[a] = bucket[a]
  BY <1>2 DEF RateTypeOK
<1>4. /\ back' \in [Bucket -> Int] /\ back'[b] = back[b] + SetBack(b, ms)
      /\ \A a \in Bucket \ {b} : back'[a] = back[a]
  BY DEF Write, SetBack, RateTypeOK
<1>5. QED BY <1>2, <1>3, <1>4

\* What holds of a bucket still holds when nothing of it changes.
LEMMA BucketKept ==
  ASSUME NEW b \in Bucket, FilledWithin(b), ExpiredFull(b), WaitSuffices(b), now' = now,
         bucket'[b] = bucket[b], back'[b] = back[b], grants'[b] = grants[b],
         promise'[b] = promise[b], header'[b] = header[b]
  PROVE  FilledWithin(b)' /\ ExpiredFull(b)' /\ WaitSuffices(b)'
<1>1. FilledWithin(b)'
  BY DEF FilledWithin, SpentSince
<1>2. ExpiredFull(b)'
  BY DEF ExpiredFull, SpentSince
<1>3. WaitSuffices(b)'
  BY DEF WaitSuffices
<1>4. QED BY <1>1, <1>2, <1>3

\* At first no bucket exists and nothing was let through.
LEMMA InitRate == Init => RateInv
<1> SUFFICES ASSUME Init PROVE RateInv OBVIOUS
<1>1. now \in Int
  BY Constants DEF Init
<1>2. NoBucket \in [exists : BOOLEAN, tokens : Int, last_ms : Int, expires : Int]
  <2>1. 0 \in Int
    OBVIOUS
  <2>2. QED BY <2>1, Zenon DEF NoBucket
<1>3. bucket \in [Bucket -> [exists : BOOLEAN, tokens : Int, last_ms : Int, expires : Int]]
  BY <1>2 DEF Init
<1>4. route \in [Call -> Seq(Bucket)] /\ \A c \in Call : route[c] # <<>>
  <2>1. /\ <<"rl:global:">> \in Seq(Bucket) /\ <<"rl:global:", "rl:auth:">> \in Seq(Bucket)
        /\ <<"rl:global:">> # <<>> /\ <<"rl:global:", "rl:auth:">> # <<>>
    BY DEF Bucket
  <2>2. route \in [Call -> {<<"rl:global:">>, <<"rl:global:", "rl:auth:">>}]
    BY DEF Init
  <2>3. \A c \in Call : route[c] = <<"rl:global:">> \/ route[c] = <<"rl:global:", "rl:auth:">>
    BY <2>2, Zenon
  <2>4. QED BY <2>1, <2>2, <2>3, Zenon
<1>5. RateTypeOK
  BY <1>1, <1>3, <1>4 DEF Init, RateTypeOK, NoStamp, NoPromise
<1>6. StampsRecent
  BY DEF Init, StampsRecent, Waiting, Bucket
<1>7. \A b \in Bucket : ~bucket[b].exists
  BY Zenon DEF Init, NoBucket
<1>8. \A b \in Bucket : grants[b] = <<>>
  BY DEF Init
<1>9. QED BY <1>5, <1>6, <1>7, <1>8
  DEF RateInv, FilledWithin, ExpiredFull, WaitSuffices, BudgetShared
-----------------------------------------------------------------------------
(* Requests *)

AtRouteOK ==
  /\ at \in [Call -> Bucket \cup {"new", "next", "served", "denied"}]
  /\ route \in [Call -> Seq(Bucket)]
  /\ \A c \in Call : at[c] \in Bucket \cup {"new", "next"} => route[c] # <<>>

\* A request that was answered by a bucket waits at none.
LEMMA LeavesBucket ==
  ASSUME RateTypeOK, NEW c \in Call, Waiting(c), Proceed(c) \/ \E wait : Deny(c, wait)
  PROVE  /\ AtRouteOK' /\ at'[c] \notin Bucket
         /\ \A d \in Call \ {c} : at'[d] = at[d]
<1>1. route[c] \in Seq(Bucket) /\ route[c] # <<>>
  BY DEF RateTypeOK, Waiting
<1>2. CASE Proceed(c)
  <2>1. Tail(route[c]) \in Seq(Bucket) /\ (Len(route[c]) # 1 => Tail(route[c]) # <<>>)
    <3>1. /\ Tail(route[c]) \in Seq(Bucket) /\ Len(route[c]) \in Nat
          /\ Len(Tail(route[c])) = Len(route[c]) - 1
      BY <1>1
    <3>2. ASSUME Tail(route[c]) = <<>> PROVE Len(Tail(route[c])) = 0
      <4>1. Len(<<>>) = 0
        OBVIOUS
      <4>2. QED BY <3>2, <4>1, Zenon
    <3>3. QED BY <3>1, <3>2
  <2>2. /\ route' \in [Call -> Seq(Bucket)] /\ route'[c] = Tail(route[c])
        /\ \A d \in Call \ {c} : route'[d] = route[d]
    BY <1>2, <2>1 DEF Proceed, RateTypeOK
  <2>3. /\ at'[c] = IF Len(route[c]) = 1 THEN "served" ELSE "next"
        /\ \A d \in Call \ {c} : at'[d] = at[d]
        /\ at' \in [Call -> Bucket \cup {"new", "next", "served", "denied"}]
    BY <1>2 DEF Proceed, RateTypeOK
  <2>4. \A d \in Call : at'[d] \in Bucket \cup {"new", "next"} => route'[d] # <<>>
    BY <2>1, <2>2, <2>3 DEF RateTypeOK, Bucket
  <2>5. QED BY <2>2, <2>3, <2>4 DEF AtRouteOK, Bucket
<1>3. CASE \E wait : Deny(c, wait)
  BY <1>3 DEF Deny, RateTypeOK, AtRouteOK, Bucket
<1>4. QED BY <1>2, <1>3

\* A request that has been served carries no time any more.
LEMMA StampCleared ==
  ASSUME RateTypeOK, StampsRecent, NEW c \in Call, now' = now, at'[c] \notin Bucket,
         \A d \in Call \ {c} : at'[d] = at[d],
         stamp' = [stamp EXCEPT ![c] = NoStamp]
  PROVE  stamp' \in [Call -> [ms : Int, read : Int]] /\ StampsRecent'
<1>1. stamp' \in [Call -> [ms : Int, read : Int]] /\ \A d \in Call \ {c} : stamp'[d] = stamp[d]
  BY DEF RateTypeOK, NoStamp
<1>2. \A d \in Call : Waiting(d)' => d # c /\ Waiting(d)
  BY DEF Waiting
<1>3. StampsRecent'
  BY <1>1, <1>2 DEF StampsRecent
<1>4. QED BY <1>1, <1>3

\* What a request brings to the script
LEMMA Brought ==
  ASSUME RateInv, NEW c \in Call, Waiting(c)
  PROVE  /\ at[c] \in Bucket /\ stamp[c].ms \in Int
         /\ \E k \in Skew : now - MaxDelay + k <= stamp[c].ms /\ stamp[c].ms <= now + k
<1>1. at[c] \in Bucket /\ stamp[c] \in [ms : Int, read : Int] /\ now \in Int
  BY DEF Waiting, RateInv, RateTypeOK
<1>2. PICK k \in Skew : stamp[c].ms = stamp[c].read + k
  BY DEF RateInv, StampsRecent
<1>3. stamp[c].read <= now /\ now <= stamp[c].read + MaxDelay
  BY DEF RateInv, StampsRecent
<1>4. k \in Int /\ MaxDelay \in Int /\ stamp[c].read \in Int /\ stamp[c].ms \in Int
  BY <1>1, Constants
<1>5. now - MaxDelay + k <= stamp[c].ms /\ stamp[c].ms <= now + k
  BY <1>1, <1>2, <1>3, <1>4
<1>6. QED BY <1>1, <1>2, <1>4, <1>5

-----------------------------------------------------------------------------
(* The steps *)

\* A Redis error lets the request through without touching a bucket.
LEMMA EvalFailsInv == ASSUME RateInv, NEW c \in Call, EvalFails(c) PROVE RateInv'
<1>1. /\ UNCHANGED <<now, bucket, grants, back, promise, header>> /\ Waiting(c) /\ Proceed(c)
      /\ stamp' = [stamp EXCEPT ![c] = NoStamp]
  BY DEF EvalFails
<1>2. RateTypeOK /\ StampsRecent
  BY DEF RateInv
<1>3. AtRouteOK' /\ at'[c] \notin Bucket /\ \A d \in Call \ {c} : at'[d] = at[d]
  BY <1>1, <1>2, LeavesBucket
<1>4. stamp' \in [Call -> [ms : Int, read : Int]] /\ StampsRecent'
  BY <1>1, <1>2, <1>3, StampCleared
<1>5. RateTypeOK'
  BY <1>1, <1>2, <1>3, <1>4 DEF RateTypeOK, AtRouteOK
<1>6. \A b \in Bucket : FilledWithin(b)' /\ ExpiredFull(b)' /\ WaitSuffices(b)'
  BY <1>1, BucketKept DEF RateInv
<1>7. BudgetShared'
  BY <1>1 DEF RateInv, BudgetShared
<1>8. QED BY <1>4, <1>5, <1>6, <1>7 DEF RateInv

\* A request reads its replica's clock.
LEMMA AskInv == ASSUME RateInv, NEW c \in Call, NEW k \in Skew, Ask(c, k) PROVE RateInv'
<1>1. /\ UNCHANGED <<now, bucket, route, grants, back, promise, header>>
      /\ at[c] \in {"new", "next"} /\ at' = [at EXCEPT ![c] = Head(route[c])]
      /\ stamp' = [stamp EXCEPT ![c] = [ms |-> now + k, read |-> now]]
  BY DEF Ask
<1>2. RateTypeOK /\ StampsRecent
  BY DEF RateInv
<1>3. now \in Int /\ k \in Int /\ MaxDelay \in Nat
  BY <1>2, Constants DEF RateTypeOK
<1>4. Head(route[c]) \in Bucket /\ route[c] # <<>>
  BY <1>1, <1>2 DEF RateTypeOK
<1>5. /\ at' \in [Call -> Bucket \cup {"new", "next", "served", "denied"}]
      /\ \A d \in Call \ {c} : at'[d] = at[d]
  BY <1>1, <1>2, <1>4 DEF RateTypeOK
<1>6. /\ stamp' \in [Call -> [ms : Int, read : Int]]
      /\ stamp'[c].ms = now + k /\ stamp'[c].read = now
      /\ \A d \in Call \ {c} : stamp'[d] = stamp[d]
  BY <1>1, <1>2, <1>3 DEF RateTypeOK
<1>7. RateTypeOK'
  BY <1>1, <1>2, <1>4, <1>5, <1>6 DEF RateTypeOK
<1>8. StampsRecent'
  <2> SUFFICES ASSUME NEW d \in Call, Waiting(d)'
               PROVE  /\ \E j \in Skew : stamp'[d].ms = stamp'[d].read + j
                      /\ stamp'[d].read <= now /\ now <= stamp'[d].read + MaxDelay
    BY <1>1 DEF StampsRecent
  <2>1. CASE d = c
    BY <1>3, <1>6, <2>1
  <2>2. CASE d # c
    BY <1>2, <1>5, <1>6, <2>2 DEF StampsRecent, Waiting
  <2>3. QED BY <2>1, <2>2
<1>9. \A b \in Bucket : FilledWithin(b)' /\ ExpiredFull(b)' /\ WaitSuffices(b)'
  BY <1>1, BucketKept DEF RateInv
<1>10. BudgetShared'
  BY <1>1 DEF RateInv, BudgetShared
<1>11. QED BY <1>7, <1>8, <1>9, <1>10 DEF RateInv

\* What RateInv says of the buckets
BucketsOK ==
  /\ bucket \in [Bucket -> [exists : BOOLEAN, tokens : Int, last_ms : Int, expires : Int]]
  /\ grants \in [Bucket -> Seq([ms : Int, back : Int])]
  /\ back \in [Bucket -> Int]
  /\ promise \in [Bucket -> Int] /\ header \in [Bucket -> Int]
  /\ \A a \in Bucket : FilledWithin(a) /\ ExpiredFull(a) /\ WaitSuffices(a)
  /\ BudgetShared

\* The script lets a request through: the grant is the last of its bucket.
LEMMA GrantInv ==
  ASSUME RateInv, NEW b \in Bucket, NEW ms \in Int, NEW k \in Skew,
         now - MaxDelay + k <= ms, ms <= now + k,
         Grant(b, ms), now' = now
  PROVE  BucketsOK'
<1>0. /\ Refilled(b, ms) >= Cost /\ Write(b, Refilled(b, ms) - Cost, ms)
      /\ grants' = [grants EXCEPT ![b] = Append(@, [ms |-> ms, back |-> back'[b]])]
      /\ promise' = [promise EXCEPT ![b] = NoPromise] /\ header' = header
  BY DEF Grant
<1>1. RateTypeOK /\ FilledWithin(b) /\ ExpiredFull(b) /\ now \in Int
  BY DEF RateInv, RateTypeOK
<1>2. PICK t, n, bk : t = Refilled(b, ms) /\ n = Len(grants[b]) /\ bk = back[b] + SetBack(b, ms)
  OBVIOUS
<1>3. /\ SetBack(b, ms) \in Int
      /\ \A i \in DOMAIN grants[b] :
           SpentSince(b, i) + t <= Burst + Rate * (ms + bk - Counted(grants[b][i]))
  BY <1>1, <1>2, Headroom
<1>4. t \in Int /\ t >= Cost /\ t <= Burst /\ t - Cost \in Int /\ Cost \in Int /\ Burst \in Int
  BY <1>0, <1>1, <1>2, RefilledBucket, Constants
<1>5. /\ bucket' \in [Bucket -> [exists : BOOLEAN, tokens : Int, last_ms : Int, expires : Int]]
      /\ back' \in [Bucket -> Int]
      /\ bucket'[b].exists /\ bucket'[b].tokens = t - Cost /\ bucket'[b].last_ms = ms
      /\ bucket'[b].expires = now + KeyTTL
      /\ back'[b] = bk
      /\ \A a \in Bucket \ {b} : bucket'[a] = bucket[a] /\ back'[a] = back[a]
  BY <1>0, <1>1, <1>2, <1>3, <1>4, WriteEffect
<1>6. bk \in Int /\ n \in Nat /\ DOMAIN grants[b] = 1 .. n
      /\ grants[b] \in Seq([ms : Int, back : Int])
  BY <1>1, <1>2, <1>3, Buckets
<1>7. PICK g \in [ms : Int, back : Int] :
        g = [ms |-> ms, back |-> bk] /\ g.ms = ms /\ g.back = bk /\ Counted(g) = ms + bk
  <2> DEFINE f == [ms |-> ms, back |-> bk]
  <2>1. f \in [ms : Int, back : Int] /\ f.ms = ms /\ f.back = bk
    BY <1>6
  <2>2. Counted(f) = ms + bk
    BY <2>1 DEF Counted
  <2> HIDE DEF f
  <2>3. QED BY <2>1, <2>2 DEF f
<1>8. /\ grants' \in [Bucket -> Seq([ms : Int, back : Int])]
      /\ grants'[b] = Append(grants[b], g)
      /\ \A a \in Bucket \ {b} : grants'[a] = grants[a]
  <2>1. grants' = [grants EXCEPT ![b] = Append(grants[b], g)]
    BY <1>0, <1>5, <1>7
  <2>2. QED BY <1>1, <1>6, <1>7, <2>1 DEF RateTypeOK
<1>9. /\ promise' \in [Bucket -> Int] /\ promise'[b] = NoPromise
      /\ header' \in [Bucket -> Int] /\ header' = header
      /\ \A a \in Bucket \ {b} : promise'[a] = promise[a]
  BY <1>0, <1>1 DEF RateTypeOK, NoPromise
<1>10. /\ Len(grants'[b]) = n + 1 /\ DOMAIN grants'[b] = 1 .. n + 1
       /\ grants'[b][n + 1] = g /\ \A i \in 1 .. n : grants'[b][i] = grants[b][i]
  BY <1>2, <1>6, <1>7, <1>8
<1>11. \A i \in 1 .. n : SpentSince(b, i)' = SpentSince(b, i) + Cost
  <2> SUFFICES ASSUME NEW i \in 1 .. n
               PROVE  Cost * ((n + 1) - i + 1) = Cost * (n - i + 1) + Cost
    BY <1>2, <1>10 DEF SpentSince
  <2> DEFINE m == n - i + 1
  <2>1. m \in Int /\ (n + 1) - i + 1 = m + 1
    BY <1>6
  <2> HIDE DEF m
  <2>2. QED BY <2>1, TimesCost DEF m
<1>12. SpentSince(b, n + 1)' = Cost
  <2>1. (n + 1) - (n + 1) + 1 = 1
    BY <1>6
  <2>2. QED BY <1>10, <2>1, TimesCost DEF SpentSince
<1>13. FilledWithin(b)'
  <2>1. 0 <= t - Cost /\ t - Cost <= Burst
    BY <1>4, Constants
  <2>2. \E j \in Skew : ms <= (now + KeyTTL) - KeyTTL + j
    BY <1>1, <1>2, TTLType, Constants
  <2>3. ASSUME NEW i \in 1 .. n + 1
        PROVE  SpentSince(b, i)' + (t - Cost) <= Burst + Rate * (ms + bk - Counted(grants'[b][i]))
    <3>1. CASE i \in 1 .. n
      <4>1. SpentSince(b, i) \in Int /\ Counted(grants[b][i]) \in Int
        BY <1>1, <1>6, <3>1, Buckets
      <4>2. SpentSince(b, i)' + (t - Cost) = SpentSince(b, i) + t
        BY <1>4, <1>11, <3>1, <4>1
      <4>3. QED BY <1>3, <1>6, <1>10, <3>1, <4>2
    <3>2. CASE i = n + 1
      <4>1. ms + bk - Counted(grants'[b][i]) = 0
        BY <1>1, <1>6, <1>7, <1>10, <3>2
      <4>2. Rate * 0 = 0
        BY Constants
      <4>3. Rate * (ms + bk - Counted(grants'[b][i])) = 0
        BY <4>1, <4>2, Zenon
      <4>4. SpentSince(b, i)' = Cost
        BY <1>12, <3>2, Zenon
      <4>5. Cost + (t - Cost) <= Burst + 0
        BY <1>4
      <4>6. QED BY <4>3, <4>4, <4>5, Zenon
    <3>3. QED BY <1>6, <3>1, <3>2
  <2>4. QED BY <1>5, <1>10, <2>1, <2>2, <2>3 DEF FilledWithin
<1>14. ExpiredFull(b)' /\ WaitSuffices(b)'
  BY <1>5, <1>9 DEF ExpiredFull, WaitSuffices
<1>15. ASSUME NEW a \in Bucket \ {b} PROVE FilledWithin(a)' /\ ExpiredFull(a)' /\ WaitSuffices(a)'
  BY <1>5, <1>8, <1>9, <1>15, BucketKept DEF RateInv
<1>16. BudgetShared'
  <2> SUFFICES ASSUME NEW a \in Bucket, NEW i \in DOMAIN grants'[a], NEW j \in DOMAIN grants'[a],
                      i <= j
               PROVE  Cost * (j - i + 1) <=
                        Burst + Rate * (grants'[a][j].ms - grants'[a][i].ms
                                        + grants'[a][j].back - grants'[a][i].back)
    BY DEF BudgetShared
  <2>1. CASE a # b
    BY <1>8, <2>1 DEF RateInv, BudgetShared
  <2>2. CASE a = b /\ j \in 1 .. n
    <3>1. i \in 1 .. n
      BY <1>6, <1>10, <2>2
    <3>2. QED BY <1>6, <1>10, <2>2, <3>1 DEF RateInv, BudgetShared
  <2>3. CASE a = b /\ j = n + 1 /\ i \in 1 .. n
    <3> DEFINE h == grants[b][i]
    <3>1. h.ms \in Int /\ h.back \in Int /\ Counted(h) = h.ms + h.back /\ SpentSince(b, i) \in Int
      BY <1>1, <1>6, <2>3, Buckets DEF Counted
    <3>2. Cost * (j - i + 1) = SpentSince(b, i) + Cost
      BY <1>10, <1>11, <2>3 DEF SpentSince
    <3>3. SpentSince(b, i) + t <= Burst + Rate * (ms + bk - Counted(h))
      BY <1>3, <1>6, <2>3
    <3>4. ms + bk - Counted(h) = ms - h.ms + bk - h.back /\ ms + bk - Counted(h) \in Int
      <4>1. PICK x, y \in Int : x = h.ms /\ y = h.back
        BY <3>1
      <4>2. ms + bk - (x + y) = ms - x + bk - y /\ ms + bk - (x + y) \in Int
        BY <1>6
      <4>3. QED BY <3>1, <4>1, <4>2, Zenon
    <3>5. Rate * (ms + bk - Counted(h)) \in Int
      <4> DEFINE x == ms + bk - Counted(h)
      <4>1. x \in Int
        BY <3>4
      <4> HIDE DEF x
      <4>2. QED BY <4>1, TimesRate DEF x
    <3>6. Cost * (j - i + 1) <= Burst + Rate * (ms + bk - Counted(h))
      BY <1>4, <3>1, <3>2, <3>3, <3>5
    <3>7. QED BY <1>7, <1>10, <2>3, <3>4, <3>6
  <2>4. CASE a = b /\ j = n + 1 /\ i = n + 1
    <3>1. Cost * (j - i + 1) = Cost
      BY <1>10, <1>12, <2>4 DEF SpentSince
    <3>2. grants'[a][j].ms - grants'[a][i].ms + grants'[a][j].back - grants'[a][i].back = 0
      BY <1>1, <1>6, <1>7, <1>10, <2>4
    <3>3. Rate * 0 = 0
      BY Constants
    <3>4. Rate * (grants'[a][j].ms - grants'[a][i].ms + grants'[a][j].back - grants'[a][i].back) = 0
      BY <3>2, <3>3, Zenon
    <3>5. Cost <= Burst + 0
      BY Constants
    <3>6. QED BY <3>1, <3>4, <3>5, Zenon
  <2>5. QED BY <1>6, <1>10, <2>1, <2>2, <2>3, <2>4, SMTT(30)
<1>17. QED BY <1>5, <1>8, <1>9, <1>13, <1>14, <1>15, <1>16 DEF BucketsOK

\* What the client is told of a refusal, when the reply reaches the replica
Told(b, ms, wait) ==
  /\ promise' = [promise EXCEPT ![b] = ms + wait]
  /\ header' = [header EXCEPT ![b] = ms + Second * Max({1, wait \div Second})]

\* The script denies a request, and the time to wait is told or lost.
LEMMA RefuseInv ==
  ASSUME RateInv, NEW b \in Bucket, NEW ms \in Int, NEW k \in Skew,
         now - MaxDelay + k <= ms, ms <= now + k, now' = now, Refuse(b, ms),
         Told(b, ms, RetryAfter(Refilled(b, ms))) \/ UNCHANGED <<promise, header>>
  PROVE  BucketsOK'
<1>0. Refilled(b, ms) < Cost /\ Write(b, Refilled(b, ms), ms) /\ grants' = grants
  BY DEF Refuse
<1>1. RateTypeOK /\ FilledWithin(b) /\ ExpiredFull(b) /\ WaitSuffices(b) /\ now \in Int
  BY DEF RateInv, RateTypeOK
<1>2. PICK t, bk : t = Refilled(b, ms) /\ bk = back[b] + SetBack(b, ms)
  OBVIOUS
<1>3. /\ SetBack(b, ms) \in Int
      /\ \A i \in DOMAIN grants[b] :
           SpentSince(b, i) + t <= Burst + Rate * (ms + bk - Counted(grants[b][i]))
  BY <1>1, <1>2, Headroom
<1>4. t \in Int /\ t < Cost /\ 0 <= t /\ t <= Burst /\ Cost \in Int
  BY <1>0, <1>1, <1>2, RefilledBucket, Constants
<1>5. /\ bucket' \in [Bucket -> [exists : BOOLEAN, tokens : Int, last_ms : Int, expires : Int]]
      /\ back' \in [Bucket -> Int]
      /\ bucket'[b].exists /\ bucket'[b].tokens = t /\ bucket'[b].last_ms = ms
      /\ bucket'[b].expires = now + KeyTTL
      /\ back'[b] = bk
      /\ \A a \in Bucket \ {b} : bucket'[a] = bucket[a] /\ back'[a] = back[a]
  BY <1>0, <1>1, <1>2, <1>3, <1>4, WriteEffect
<1>6. FilledWithin(b)'
  <2>1. \E j \in Skew : ms <= (now + KeyTTL) - KeyTTL + j
    BY <1>1, TTLType, Constants
  <2>2. \A i : SpentSince(b, i)' = SpentSince(b, i)
    BY <1>0 DEF SpentSince
  <2>3. QED BY <1>0, <1>3, <1>4, <1>5, <2>1, <2>2 DEF FilledWithin
<1>7. ExpiredFull(b)'
  BY <1>5 DEF ExpiredFull
<1>8. /\ promise' \in [Bucket -> Int] /\ header' \in [Bucket -> Int] /\ WaitSuffices(b)'
      /\ \A a \in Bucket \ {b} : promise'[a] = promise[a] /\ header'[a] = header[a]
  <2>1. CASE Told(b, ms, RetryAfter(t))
    <3>1. PICK w \in Int : w = RetryAfter(t) /\ Rate * w >= Cost - t
      <4> DEFINE n == Cost - t
      <4>1. n \in Int
        BY <1>4
      <4> HIDE DEF n
      <4>2. (n + Rate - 1) \div Rate \in Int /\ Rate * ((n + Rate - 1) \div Rate) >= n
        BY <4>1, DivisionUp
      <4>3. QED BY <4>2 DEF RetryAfter, n
    <3>2. PICK h \in Int : h = Second * Max({1, w \div Second}) /\ w < h + Second
      BY HeaderClose
    <3>3. /\ promise' \in [Bucket -> Int] /\ promise'[b] = ms + w
          /\ header' \in [Bucket -> Int] /\ header'[b] = ms + h
          /\ \A a \in Bucket \ {b} : promise'[a] = promise[a] /\ header'[a] = header[a]
      BY <1>1, <2>1, <3>1, <3>2 DEF RateTypeOK, Told
    <3>4. ms + w < (ms + h) + Second /\ (ms + w) - ms = w
      BY <3>2, Constants
    <3>5. t + Rate * ((ms + w) - ms) >= Cost
      <4>1. PICK z \in Int : z = Rate * w
        BY TimesRate
      <4>2. t + z >= Cost
        BY <1>4, <3>1, <4>1
      <4>3. QED BY <3>4, <4>1, <4>2, Zenon
    <3>6. WaitSuffices(b)'
      BY <1>5, <3>3, <3>4, <3>5, Zenon DEF WaitSuffices
    <3>7. QED BY <3>3, <3>6
  <2>2. CASE UNCHANGED <<promise, header>>
    <3>1. PICK due, tok, last \in Int :
            due = promise[b] /\ tok = bucket[b].tokens /\ last = bucket[b].last_ms
      BY <1>1, Buckets
    <3>2. bucket[b].exists /\ t >= tok + Rate * (ms - last)
      BY <1>0, <1>1, <1>2, <3>1, RefilledBucket, Constants
    <3>3. ASSUME promise[b] # NoPromise PROVE t + Rate * (due - ms) >= Cost
      <4> DEFINE x == due - ms
                 y == ms - last
      <4>1. x \in Int /\ y \in Int /\ due - last = x + y
        OBVIOUS
      <4>2. tok + Rate * (due - last) >= Cost /\ t >= tok + Rate * y
        BY <1>1, <3>1, <3>2, <3>3 DEF WaitSuffices
      <4> HIDE DEF x, y
      <4>3. Rate * (x + y) = Rate * x + Rate * y /\ Rate * x \in Int /\ Rate * y \in Int
        BY <4>1, TimesRate
      <4>4. t + Rate * x >= Cost
        BY <1>4, <4>1, <4>2, <4>3
      <4>5. QED BY <4>4 DEF x
    <3>4. WaitSuffices(b)'
      BY <1>1, <1>5, <2>2, <3>1, <3>2, <3>3 DEF WaitSuffices
    <3>5. QED BY <1>1, <2>2, <3>4 DEF RateTypeOK
  <2>3. QED BY <1>2, <2>1, <2>2
<1>9. ASSUME NEW a \in Bucket \ {b} PROVE FilledWithin(a)' /\ ExpiredFull(a)' /\ WaitSuffices(a)'
  BY <1>0, <1>5, <1>8, <1>9, BucketKept DEF RateInv
<1>10. BudgetShared'
  BY <1>0 DEF RateInv, BudgetShared
<1>11. grants' \in [Bucket -> Seq([ms : Int, back : Int])]
  BY <1>0, <1>1 DEF RateTypeOK
<1>12. QED BY <1>5, <1>6, <1>7, <1>8, <1>9, <1>10, <1>11 DEF BucketsOK

\* The script lets a request through or denies it.
LEMMA EvalInv == ASSUME RateInv, NEW c \in Call, Eval(c) PROVE RateInv'
<1>1. RateTypeOK /\ StampsRecent
  BY DEF RateInv
<1>2. PICK b \in Bucket, ms \in Int : b = at[c] /\ ms = stamp[c].ms
  BY Brought DEF Eval
<1>3. PICK k \in Skew : now - MaxDelay + k <= ms /\ ms <= now + k
  BY <1>2, Brought DEF Eval
<1>4. /\ Waiting(c) /\ now' = now /\ stamp' = [stamp EXCEPT ![c] = NoStamp]
      /\ Proceed(c) \/ \E wait : Deny(c, wait)
  BY DEF Eval
<1>5. AtRouteOK' /\ at'[c] \notin Bucket /\ \A d \in Call \ {c} : at'[d] = at[d]
  BY <1>1, <1>4, LeavesBucket
<1>6. stamp' \in [Call -> [ms : Int, read : Int]] /\ StampsRecent'
  BY <1>1, <1>4, <1>5, StampCleared
<1>7. BucketsOK'
  <2>1. CASE Grant(b, ms)
    BY <1>3, <1>4, <2>1, GrantInv
  <2>2. CASE Refuse(b, ms) /\ Deny(c, RetryAfter(Refilled(b, ms)))
    <3>1. Told(b, ms, RetryAfter(Refilled(b, ms)))
      BY <1>2, <2>2 DEF Deny, Told
    <3>2. QED BY <1>3, <1>4, <2>2, <3>1, RefuseInv
  <2>3. QED BY <1>2, <2>1, <2>2 DEF Eval
<1>8. RateTypeOK'
  BY <1>1, <1>4, <1>5, <1>6, <1>7 DEF RateTypeOK, AtRouteOK, BucketsOK
<1>9. QED BY <1>6, <1>7, <1>8 DEF RateInv, BucketsOK

\* The script runs and the request waits on.
LEMMA ReplyLostInv == ASSUME RateInv, NEW c \in Call, ReplyLost(c) PROVE RateInv'
<1>1. RateTypeOK /\ StampsRecent
  BY DEF RateInv
<1>2. PICK b \in Bucket, ms \in Int : b = at[c] /\ ms = stamp[c].ms
  BY Brought DEF ReplyLost
<1>3. PICK k \in Skew : now - MaxDelay + k <= ms /\ ms <= now + k
  BY <1>2, Brought DEF ReplyLost
<1>4. UNCHANGED <<now, at, route, stamp>>
  BY DEF ReplyLost
<1>5. BucketsOK'
  <2>1. CASE Grant(b, ms)
    BY <1>3, <1>4, <2>1, GrantInv
  <2>2. CASE Refuse(b, ms) /\ UNCHANGED <<promise, header>>
    BY <1>3, <1>4, <2>2, RefuseInv
  <2>3. QED BY <1>2, <2>1, <2>2 DEF ReplyLost
<1>6. RateTypeOK' /\ StampsRecent'
  BY <1>1, <1>4, <1>5 DEF RateTypeOK, BucketsOK, StampsRecent, Waiting
<1>7. QED BY <1>5, <1>6 DEF RateInv, BucketsOK

\* The key expires: by then the bucket would be full, by any clock.
LEMMA ExpireInv == ASSUME RateInv, NEW b \in Bucket, Expire(b) PROVE RateInv'
<1>1. RateTypeOK /\ StampsRecent /\ FilledWithin(b)
  BY DEF RateInv
<1>2. /\ bucket[b].exists /\ now >= bucket[b].expires
      /\ UNCHANGED <<now, at, route, stamp, grants, back, promise, header>>
  BY DEF Expire
<1>3. PICK new \in [exists : BOOLEAN, tokens : Int, last_ms : Int, expires : Int] :
        ~new.exists /\ bucket' = [bucket EXCEPT ![b] = new]
  <2>1. 0 \in Int
    OBVIOUS
  <2>2. NoBucket \in [exists : BOOLEAN, tokens : Int, last_ms : Int, expires : Int]
    BY <2>1, Zenon DEF NoBucket
  <2>3. ~NoBucket.exists
    BY Zenon DEF NoBucket
  <2>4. bucket' = [bucket EXCEPT ![b] = NoBucket]
    BY Zenon DEF Expire
  <2>5. QED BY <2>2, <2>3, <2>4
<1>4. /\ bucket' \in [Bucket -> [exists : BOOLEAN, tokens : Int, last_ms : Int, expires : Int]]
      /\ ~bucket'[b].exists /\ \A a \in Bucket \ {b} : bucket'[a] = bucket[a]
  BY <1>1, <1>3 DEF RateTypeOK
<1>5. RateTypeOK' /\ StampsRecent'
  BY <1>1, <1>2, <1>4 DEF RateTypeOK, StampsRecent, Waiting
<1>6. ASSUME NEW i \in DOMAIN grants[b], NEW k \in Skew
      PROVE  SpentSince(b, i) <= Rate * (now - MaxDelay + k + back[b] - Counted(grants[b][i]))
  <2>1. PICK last, tok, from, spent, bk, exp \in Int :
          /\ last = bucket[b].last_ms /\ tok = bucket[b].tokens /\ exp = bucket[b].expires
          /\ bk = back[b] /\ from = Counted(grants[b][i]) /\ spent = SpentSince(b, i)
    BY <1>1, Buckets
  <2>2. PICK j \in Skew : last <= exp - KeyTTL + j
    BY <1>1, <1>2, <2>1 DEF FilledWithin
  <2>3. /\ 0 <= tok /\ spent + tok <= Burst + Rate * (last + bk - from)
        /\ now >= exp
    BY <1>1, <1>2, <2>1 DEF FilledWithin
  <2>4. now \in Int /\ MaxDelay \in Int /\ KeyTTL \in Int /\ j \in Int /\ k \in Int /\ Burst \in Int
    BY <1>1, Constants, TTLType DEF RateTypeOK
  <2> DEFINE x == now - MaxDelay + k + bk - from
             y == last + bk - from
             z == KeyTTL - MaxDelay + k - j
  <2>5. x \in Int /\ y \in Int /\ z \in Int /\ y + z <= x /\ y + z \in Int
    BY <2>2, <2>3, <2>4
  <2>6. Rate * z >= Burst
    BY RateAssumption
  <2> HIDE DEF x, y, z
  <2>7. /\ Rate * (y + z) <= Rate * x /\ Rate * (y + z) = Rate * y + Rate * z
        /\ Rate * x \in Int /\ Rate * y \in Int /\ Rate * z \in Int
    BY <2>5, TimesRate
  <2>8. spent + tok <= Burst + Rate * y
    BY <2>3 DEF y
  <2>9. spent <= Rate * x
    BY <2>3, <2>4, <2>6, <2>7, <2>8
  <2>10. QED BY <2>1, <2>9 DEF x
<1>7. FilledWithin(b)' /\ WaitSuffices(b)'
  BY <1>4 DEF FilledWithin, WaitSuffices
<1>8. ExpiredFull(b)'
  BY <1>2, <1>6 DEF ExpiredFull, SpentSince
<1>9. ASSUME NEW a \in Bucket \ {b} PROVE FilledWithin(a)' /\ ExpiredFull(a)' /\ WaitSuffices(a)'
  BY <1>2, <1>4, <1>9, BucketKept DEF RateInv
<1>10. BudgetShared'
  BY <1>2 DEF RateInv, BudgetShared
<1>11. QED BY <1>5, <1>7, <1>8, <1>9, <1>10 DEF RateInv

\* Time passes, up to the largest delay of a waiting request.
LEMMA PassInv == ASSUME RateInv, NEW d \in {1, KeyTTL}, Pass(d) PROVE RateInv'
<1>1. RateTypeOK /\ StampsRecent
  BY DEF RateInv
<1>2. /\ UNCHANGED <<bucket, at, route, stamp, grants, back, promise, header>> /\ now' = now + d
      /\ \A c \in Call : Waiting(c) => now + d - stamp[c].read <= MaxDelay
  BY DEF Pass
<1>3. d \in Int /\ d >= 0 /\ now \in Int /\ now + d \in Int /\ MaxDelay \in Int
  BY <1>1, TTLType, Constants DEF RateTypeOK
<1>4. RateTypeOK'
  BY <1>1, <1>2, <1>3 DEF RateTypeOK
<1>5. StampsRecent'
  <2> SUFFICES ASSUME NEW c \in Call, Waiting(c)
               PROVE  /\ \E k \in Skew : stamp[c].ms = stamp[c].read + k
                      /\ stamp[c].read <= now + d /\ now + d <= stamp[c].read + MaxDelay
    BY <1>2 DEF StampsRecent, Waiting
  <2>1. PICK r \in Int : r = stamp[c].read
    BY <1>1 DEF RateTypeOK
  <2>2. r <= now /\ now + d - r <= MaxDelay
    BY <1>1, <1>2, <2>1 DEF StampsRecent
  <2>3. r <= now + d /\ now + d <= r + MaxDelay
    BY <1>3, <2>2
  <2>4. QED BY <1>1, <2>1, <2>3 DEF StampsRecent
<1>6. ASSUME NEW b \in Bucket PROVE FilledWithin(b)' /\ ExpiredFull(b)' /\ WaitSuffices(b)'
  <2>1. FilledWithin(b)' /\ WaitSuffices(b)'
    BY <1>2 DEF RateInv, FilledWithin, WaitSuffices, SpentSince
  <2>2. ASSUME NEW i \in DOMAIN grants[b], NEW k \in Skew, ~bucket[b].exists
        PROVE  SpentSince(b, i) <=
                 Rate * ((now + d) - MaxDelay + k + back[b] - Counted(grants[b][i]))
    <3>1. PICK from, spent, bk \in Int :
            bk = back[b] /\ from = Counted(grants[b][i]) /\ spent = SpentSince(b, i)
      BY <1>1, Buckets
    <3> DEFINE x == now - MaxDelay + k + bk - from
               y == (now + d) - MaxDelay + k + bk - from
    <3>2. k \in Int
      BY Constants
    <3>3. x \in Int /\ y \in Int /\ x <= y
      BY <1>3, <3>2
    <3>4. spent <= Rate * x
      BY <2>2, <3>1 DEF RateInv, ExpiredFull
    <3> HIDE DEF x, y
    <3>5. Rate * x <= Rate * y /\ Rate * x \in Int /\ Rate * y \in Int
      BY <3>3, TimesRate
    <3>6. spent <= Rate * y
      BY <3>4, <3>5
    <3>7. QED BY <3>1, <3>6 DEF y
  <2>3. ExpiredFull(b)'
    BY <1>2, <2>2 DEF ExpiredFull, SpentSince
  <2>4. QED BY <2>1, <2>3
<1>7. BudgetShared'
  BY <1>2 DEF RateInv, BudgetShared
<1>8. QED BY <1>4, <1>5, <1>6, <1>7 DEF RateInv

\* Every step keeps the invariant.
LEMMA NextRate == RateInv /\ [Next]_vars => RateInv'
<1> SUFFICES ASSUME RateInv, [Next]_vars PROVE RateInv' OBVIOUS
<1>1. CASE Next
  BY <1>1, EvalInv, ReplyLostInv, EvalFailsInv, AskInv, ExpireInv, PassInv DEF Next
<1>2. CASE UNCHANGED vars
  <2>1. UNCHANGED <<now, bucket, at, route, stamp, grants, back, promise, header>>
    BY <1>2 DEF vars
  <2>2. RateTypeOK' /\ StampsRecent' /\ BudgetShared'
    BY <2>1 DEF RateInv, RateTypeOK, StampsRecent, Waiting, BudgetShared
  <2>3. \A b \in Bucket : FilledWithin(b)' /\ ExpiredFull(b)' /\ WaitSuffices(b)'
    BY <2>1, BucketKept DEF RateInv
  <2>4. QED BY <2>2, <2>3 DEF RateInv
<1>3. QED BY <1>1, <1>2

-----------------------------------------------------------------------------
(* The theorems *)

\* The invariant always holds.
LEMMA RateInvariant == Spec => []RateInv
BY InitRate, NextRate, PTL DEF Spec

\* The replicas share one budget, for every rate, cost and burst and every
\* skew and delay that the expiry of a key leaves room for (limiter.go 1-4,
\* script.lua).
THEOREM OneBudget == Spec => []BudgetShared
<1>1. RateInv => BudgetShared
  BY DEF RateInv
<1>2. QED BY <1>1, RateInvariant, PTL

\* A request is denied only before the time that the last denial named.
LEMMA DeniedEarly ==
  ASSUME RateInv, [Next]_vars, NEW b \in Bucket, promise[b] # NoPromise, NEW c \in Call,
         at[c] = b, at'[c] = "denied"
  PROVE  stamp[c].ms < promise[b] /\ stamp[c].ms < header[b] + Second
<1>1. RateTypeOK
  BY DEF RateInv
<1>2. at'[c] # at[c] /\ Waiting(c)
  BY DEF Bucket, Waiting
<1>3. Eval(c)
  <2>1. ASSUME NEW d \in Call, d # c, Eval(d) \/ EvalFails(d) PROVE FALSE
    <3>1. Waiting(d) /\ (Proceed(d) \/ \E wait : Deny(d, wait))
      BY <2>1 DEF Eval, EvalFails
    <3>2. at'[c] = at[c]
      BY <1>1, <2>1, <3>1, LeavesBucket
    <3>3. QED BY <1>2, <3>2
  <2>2. ~EvalFails(c)
    BY <1>1 DEF EvalFails, Proceed, RateTypeOK
  <2>3. ASSUME NEW d \in Call, NEW k \in Skew, Ask(d, k) PROVE FALSE
    BY <1>1, <1>2, <2>3 DEF Ask, RateTypeOK, Waiting, Bucket
  <2>4. ~(UNCHANGED at)
    BY <1>2
  <2>5. QED BY <2>1, <2>2, <2>3, <2>4 DEF Next, ReplyLost, Expire, Pass, vars
<1>4. ~Proceed(c)
  BY <1>1 DEF Proceed, RateTypeOK
<1>5. Refilled(b, stamp[c].ms) < Cost
  BY <1>3, <1>4 DEF Eval, Refuse
<1>6. PICK ms, t, tok, last, due, told \in Int :
        /\ ms = stamp[c].ms /\ t = Refilled(b, ms) /\ tok = bucket[b].tokens
        /\ last = bucket[b].last_ms /\ due = promise[b] /\ told = header[b]
  BY <1>1, <1>2, Brought, Buckets, RefilledBucket DEF RateInv
<1>7. bucket[b].exists /\ t >= tok + Rate * (ms - last) /\ t < Cost
  BY <1>1, <1>5, <1>6, RefilledBucket, Constants DEF RateInv
<1>8. tok + Rate * (due - last) >= Cost /\ due < told + Second
  BY <1>6, <1>7 DEF RateInv, WaitSuffices
<1>9. ms < due
  <2> DEFINE x == due - last
             y == ms - last
  <2>1. x \in Int /\ y \in Int /\ (~(ms < due) => x <= y)
    OBVIOUS
  <2>2. t >= tok + Rate * y /\ tok + Rate * x >= Cost
    BY <1>7, <1>8
  <2> HIDE DEF x, y
  <2>3. Rate * x \in Int /\ Rate * y \in Int /\ (x <= y => Rate * x <= Rate * y)
    BY <2>1, TimesRate
  <2>4. QED BY <1>7, <2>1, <2>2, <2>3, Constants
<1>10. ms < told + Second
  BY <1>8, <1>9, Constants
<1>11. QED BY <1>6, <1>9, <1>10

\* The wait of a denial is enough and the Retry-After header is short of it by
\* less than a second, for every rate, cost and burst (script.lua 26-27,
\* httpx/ratelimit.go 95-99).
THEOREM WaitIsEnough == Spec => RetryAfterHolds
<1>1. RateInv /\ [Next]_vars =>
        [\A b \in Bucket : promise[b] # NoPromise =>
           \A c \in Call : at[c] = b /\ at'[c] = "denied" =>
             stamp[c].ms < promise[b] /\ stamp[c].ms < header[b] + Second]_vars
  BY DeniedEarly
<1>2. QED BY <1>1, RateInvariant, PTL DEF Spec, RetryAfterHolds
=============================================================================
