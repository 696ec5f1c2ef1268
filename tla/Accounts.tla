------------------------------ MODULE Accounts ------------------------------
(***************************************************************************)
(* Users, their cache, the admin bootstrap and bearer tokens               *)
(* (internal/user, internal/auth) on replicas that share the users table   *)
(* and Redis.  A thread is a replica that starts up or a call that signs   *)
(* in and then uses its token; its steps are the statements and cache      *)
(* commands of the repository, which interleave.                           *)
(***************************************************************************)
EXTENDS Integers, FiniteSets

CONSTANTS
  Replica, Call,
  Deployment,  \* settings: profile, supplied admin password and signing key
  CacheTTL,    \* SetCache: how long a cached user lives
  TokenTTL,    \* NewSigner: how long a token lives
  MaxDelay,    \* longest a thread takes from its first statement to its last
  MaxTroubles  \* bound: replicas that die and Redis errors

ASSUME AccountsAssumption ==
  /\ IsFiniteSet(Replica) /\ IsFiniteSet(Call) /\ Replica \cap Call = {}
  /\ {CacheTTL, TokenTTL} \subseteq Nat \ {0}
  /\ {MaxDelay, MaxTroubles} \subseteq Nat
  /\ Deployment \subseteq [prod : BOOLEAN, supplied : BOOLEAN, key : BOOLEAN]

Thread == Replica \cup Call
AdminUsername == "admin"
Username == {AdminUsername, "bob"}

\* A bcrypt hash is of a password and salted, so no two are equal; salt 0 is
\* the literal that an old migration wrote.
None == [none |-> TRUE]
Password(of, salt) == [of |-> of, salt |-> salt]
Hash(pw, salt) == [pw |-> pw, salt |-> salt]
SeedPassword == Password("seed", 0)
SeedAdminHash == Hash(SeedPassword, 0)
UserPassword == Password("user", 0)   \* chosen for a user that is created

VARIABLES
  env,     \* the settings, the same everywhere
  seeded,  \* whether an old migration left the seed admin
  rows,    \* the users table, by its primary key
  entry,   \* the cached users and their age
  th,      \* each thread
  life,    \* how often a replica has died: its ephemeral key is another then
  deaths, cacheFaults

accountVars == <<env, seeded, rows, entry, th, life, deaths, cacheFaults>>

\* got is the user a thread has read or is about to write, ran the time since
\* its first statement.
Idle == [pc |-> "idle", user |-> AdminUsername, pw |-> None, got |-> None, ran |-> 0,
         on |-> None, token |-> None]

\* A user as the program copies it around.  History: gone is the time since
\* its row was deleted, up to just over Window: the steps of a login that cached
\* it, the time it is cached, the steps of a login that used the cache, and the
\* time a token lives.
Present == -1
Window == MaxDelay + (CacheTTL - 1) + MaxDelay + (TokenTTL - 1)
Record(name, hash, admin) ==
  [username |-> name, hash |-> hash, admin |-> admin, gone |-> Present]

AccountsInit ==
  /\ env \in Deployment
  /\ seeded \in BOOLEAN
  /\ rows = [u \in Username |-> IF seeded /\ u = AdminUsername
                            THEN Record(u, SeedAdminHash, TRUE) ELSE None]
  /\ entry = [u \in Username |-> None]
  /\ th = [t \in Thread |-> Idle]
  /\ life = [r \in Replica |-> 0]
  /\ deaths = 0 /\ cacheFaults = 0

Serving(r) == th[r].pc = "up"
Busy(t) == th[t].pc \notin {"idle", "up", "signed in", "served", "refused"}
At(t, pc) == th[t].pc = pc /\ (t \in Call => Serving(th[t].on))
Set(t, new) == th' = [th EXCEPT ![t] = new]
Goto(t, pc) == Set(t, [th[t] EXCEPT !.pc = pc])
Answered(pc) == [Idle EXCEPT !.pc = pc]

\* A salt that no hash in use has
Held == {x.hash.salt : x \in ({rows[u] : u \in Username} \cup {th[t].got : t \in Thread}
                              \cup {entry[u].user : u \in {v \in Username : entry[v] # None}}
                              \cup {th[t].token.user : t \in {v \in Thread : th[v].token # None}})
                             \ {None}}
NewSalt == CHOOSE salt \in 1..(Cardinality(Held) + 1) : salt \notin Held

\* Every copy of a user changed by f, in the threads thr and the cache ent
InThreads(thr, f(_)) ==
  [t \in Thread |-> [thr[t] EXCEPT
     !.got = IF @ = None THEN @ ELSE f(@),
     !.token = IF @ = None THEN @ ELSE [@ EXCEPT !.user = f(thr[t].token.user)]]]
InCache(ent, f(_)) ==
  [u \in Username |-> IF ent[u] = None THEN None ELSE [ent[u] EXCEPT !.user = f(@)]]

\* A cache command answers, or Redis fails it and the caller only logs that.
Works == UNCHANGED cacheFaults
Fails == deaths + cacheFaults < MaxTroubles /\ cacheFaults' = cacheFaults + 1

-----------------------------------------------------------------------------
\* The repository

\* Get: the cache first; an error is a miss.
LookupUser(t) ==
  LET u == th[t].user IN
  /\ At(t, "lookup")
  /\ \/ Works /\ entry[u] # None
        /\ Set(t, [th[t] EXCEPT !.pc = "got", !.got = entry[u].user])
     \/ (IF entry[u] = None THEN Works ELSE Fails) /\ Goto(t, "select")
  /\ UNCHANGED <<env, seeded, rows, entry, life, deaths>>

\* Get: the row, or ErrNotFound, which is not cached
Select(t) ==
  LET row == rows[th[t].user] IN
  /\ At(t, "select")
  /\ Set(t, [th[t] EXCEPT !.pc = IF row = None THEN "got" ELSE "populate", !.got = row])
  /\ UNCHANGED <<env, seeded, rows, entry, life, deaths, cacheFaults>>

\* populateCache
PutCache(u, row) ==
  \/ Works /\ entry' = [entry EXCEPT ![u] = [user |-> row, age |-> 0]]
  \/ Fails /\ UNCHANGED entry

\* Get: populateCache with the row that was read
Populate(t) ==
  /\ At(t, "populate")
  /\ PutCache(th[t].user, th[t].got)
  /\ Goto(t, "got")
  /\ UNCHANGED <<env, seeded, rows, life, deaths>>

\* Delete: the statement
Delete(t) ==
  LET u == th[t].user IN
  /\ At(t, "delete")
  /\ rows' = [rows EXCEPT ![u] = None]
  /\ LET Gone(x) == IF x.hash = rows[u].hash THEN [x EXCEPT !.gone = 0] ELSE x
         thr == [th EXCEPT ![t].pc = "invalidate"]
     IN IF rows[u] = None THEN th' = thr /\ UNCHANGED entry
        ELSE th' = InThreads(thr, Gone) /\ entry' = InCache(entry, Gone)
  /\ UNCHANGED <<env, seeded, life, deaths, cacheFaults>>

\* Delete: invalidateCache, then Bootstrap goes on to Create
Invalidate(t) ==
  /\ At(t, "invalidate")
  /\ \/ Works /\ entry' = [entry EXCEPT ![th[t].user] = None]
     \/ Fails /\ UNCHANGED entry
  /\ Goto(t, "insert")
  /\ UNCHANGED <<env, seeded, rows, life, deaths>>

\* Create: the primary key refuses a second row of that name, which fails the
\* startup or answers 500.
Insert(t) ==
  LET u == th[t].user IN
  /\ At(t, "insert")
  /\ IF rows[u] = None
     THEN rows' = [rows EXCEPT ![u] = th[t].got] /\ Goto(t, "store")
     ELSE /\ UNCHANGED rows
          /\ IF t \in Replica THEN Set(t, Idle)
             ELSE Set(t, Answered("refused"))
  /\ UNCHANGED <<env, seeded, entry, life, deaths, cacheFaults>>

\* Create: populateCache; Bootstrap is done or the call answered.
Store(t) ==
  /\ At(t, "store")
  /\ PutCache(th[t].user, th[t].got)
  /\ IF t \in Replica THEN Goto(t, "signer")
     ELSE Set(t, Answered("served"))
  /\ UNCHANGED <<env, seeded, rows, life, deaths>>

-----------------------------------------------------------------------------
\* Startup of a replica

\* Bootstrap reads the admin.
Start(r) ==
  /\ th[r].pc = "idle"
  /\ Set(r, [Idle EXCEPT !.pc = "lookup"])
  /\ UNCHANGED <<env, seeded, rows, entry, life, deaths, cacheFaults>>

\* resolveBootstrapPassword: none for prod without one supplied
CanResolve == env.supplied \/ ~env.prod
resolveBootstrapPassword(salt) ==
  IF env.supplied THEN Password("supplied", 0) ELSE Password("generated", salt)

\* Mutant: the seed admin counts as any other admin.
BootstrapKeepsSeed(r) ==
  LET got == th[r].got IN
  /\ r \in Replica /\ At(r, "got")
  /\ IF got # None THEN Goto(r, "signer")
     ELSE IF ~CanResolve THEN Set(r, Idle)
     ELSE Set(r, [th[r] EXCEPT !.pc = "insert",
                    !.got = Record(AdminUsername,
                                   Hash(resolveBootstrapPassword(NewSalt), NewSalt), TRUE)])
  /\ UNCHANGED <<env, seeded, rows, entry, life, deaths, cacheFaults>>

\* Bootstrap: an admin with another hash is left alone; a missing one is
\* created and the seed admin replaced, unless there is no password for it.
Bootstrap(r) ==
  LET got == th[r].got
      hasSeedAdmin == got # None /\ got.hash = SeedAdminHash
  IN
  /\ r \in Replica /\ At(r, "got")
  /\ \/ got # None /\ ~hasSeedAdmin /\ Goto(r, "signer")
     \/ /\ got = None \/ hasSeedAdmin
        /\ IF CanResolve
           THEN Set(r, [th[r] EXCEPT
                  !.pc = IF hasSeedAdmin THEN "delete" ELSE "insert",
                  !.got = Record(AdminUsername,
                                 Hash(resolveBootstrapPassword(NewSalt), NewSalt), TRUE)])
           ELSE Set(r, Idle)
  /\ UNCHANGED <<env, seeded, rows, entry, life, deaths, cacheFaults>>

\* configureSigner: without a key, a prod replica does not start and another
\* one makes a key of its own.
ConfigureSigner(r) ==
  /\ r \in Replica /\ At(r, "signer")
  /\ Set(r, IF env.prod /\ ~env.key THEN Idle ELSE [Idle EXCEPT !.pc = "up"])
  /\ UNCHANGED <<env, seeded, rows, entry, life, deaths, cacheFaults>>

SigningKey(r) == IF env.key THEN "configured" ELSE <<r, life[r]>>

\* The process of a replica dies, or a statement of its startup fails; its
\* calls end without an answer.
Die(r) ==
  /\ th[r].pc # "idle" /\ deaths + cacheFaults < MaxTroubles
  /\ deaths' = deaths + 1
  /\ life' = [life EXCEPT ![r] = @ + 1]
  /\ th' = [t \in Thread |-> IF t = r THEN Idle
                             ELSE IF t \in Call /\ Busy(t) /\ th[t].on = r
                             THEN Answered("refused") ELSE th[t]]
  /\ UNCHANGED <<env, seeded, rows, entry, cacheFaults>>

-----------------------------------------------------------------------------
\* Calls

\* Token, or the console's authHandler: Login reads the user.
BeginLogin(c, r, u, pw) ==
  /\ th[c].pc = "idle" /\ Serving(r)
  /\ Set(c, [Idle EXCEPT !.pc = "lookup", !.user = u, !.pw = pw, !.on = r])
  /\ UNCHANGED <<env, seeded, rows, entry, life, deaths, cacheFaults>>

\* Issue
Issue(u, r) == [sub |-> u.username, admin |-> u.admin, left |-> TokenTTL,
                key |-> SigningKey(r), user |-> u]

\* Login compares the password; a missing user and a wrong password are one
\* error, which the console answers with 401 and Token, that looks for
\* ErrNotFound, with 500.
Login(c) ==
  LET got == th[c].got IN
  /\ c \in Call /\ At(c, "got")
  /\ IF got # None /\ got.hash.pw = th[c].pw
     THEN Set(c, [Answered("signed in") EXCEPT !.token = Issue(got, th[c].on)])
     ELSE Set(c, Answered("refused"))
  /\ UNCHANGED <<env, seeded, rows, entry, life, deaths, cacheFaults>>

\* Mutant: the expiry is not verified.
ParseNoExpiry(token, r) == token # None /\ token.key = SigningKey(r)

\* Parse: signed with this replica's key and not expired
Parse(token, r) == token # None /\ token.key = SigningKey(r) /\ token.left > 0

\* Authenticate, and AdminOnly for the user routes
Authorized(token, r, adminOnly) == Parse(token, r) /\ (adminOnly => token.admin)

\* A request with the call's token on any replica; on the user routes Create
\* of a user with any name, who is never an admin.
Use(c, r, adminOnly) ==
  LET token == th[c].token
      ok == Authorized(token, r, adminOnly)
  IN
  /\ th[c].pc = "signed in" /\ Serving(r)
  /\ IF ok /\ adminOnly
     THEN \E u \in Username :
            Set(c, [Idle EXCEPT !.pc = "insert", !.on = r, !.user = u,
                      !.got = Record(u, Hash(UserPassword, NewSalt), FALSE)])
     ELSE Set(c, Answered(IF ok THEN "served" ELSE "refused"))
  /\ UNCHANGED <<env, seeded, rows, entry, life, deaths, cacheFaults>>

\* Time passes: cached users and tokens expire.
Tick ==
  LET Older(x) == IF x.gone \in 0..Window THEN [x EXCEPT !.gone = @ + 1] ELSE x
      Left(k) == IF k.left > 0 THEN k.left - 1 ELSE 0
      Ran == [t \in Thread |-> [th[t] EXCEPT
                !.ran = IF Busy(t) THEN @ + 1 ELSE @,
                !.token = IF @ = None THEN @ ELSE [@ EXCEPT !.left = Left(th[t].token)]]]
      Kept == [u \in Username |-> IF entry[u] = None \/ entry[u].age + 1 >= CacheTTL THEN None
                              ELSE [entry[u] EXCEPT !.age = @ + 1]]
  IN
  /\ \A t \in Thread : Busy(t) => th[t].ran < MaxDelay
  /\ th' = InThreads(Ran, Older)
  /\ entry' = InCache(Kept, Older)
  /\ UNCHANGED <<env, seeded, rows, life, deaths, cacheFaults>>

Repository(t) ==
  LookupUser(t) \/ Select(t) \/ Populate(t) \/ Delete(t) \/ Invalidate(t) \/ Insert(t) \/ Store(t)
Startup(r) == Start(r) \/ Bootstrap(r) \/ ConfigureSigner(r)

-----------------------------------------------------------------------------
\* An authorised request acts for a user and with the role of a row that was
\* in the table, and that row has not been gone for longer than logins take and
\* a cached user and a token last: what Bootstrap removes stops working in time, whatever
\* reads, deletes and cache commands cross (SetCache: "propagates revocations").
AccessBounded ==
  [][\A c \in Call :
       th[c].pc = "signed in" /\ th'[c].pc \in {"insert", "served"} =>
         LET token == th[c].token IN
         /\ token.sub = token.user.username
         /\ th'[c].pc = "insert" => token.user.admin
         /\ token.user.gone <= Window]_accountVars

\* An ordinary user has the admin's name: POST /user created it while a
\* Bootstrap had deleted the seed admin.
NameTaken == rows[AdminUsername] # None /\ ~rows[AdminUsername].admin

\* "Bootstrap ensures an admin user exists" (bootstrap.go 32), whatever
\* Bootstraps race with each other, with stale cache entries and with users
\* that are created meanwhile.  On a database without a seed admin, a replica
\* serves only with an admin in the table, deaths of replicas included.  On one
\* with a seed admin and as long as none died, there is an admin other than
\* it, a replica is about to create one, or a created user took its name.
AdminOrPending ==
  (\E r \in Replica : Serving(r)) =>
    LET row == rows[AdminUsername]
        real == row # None /\ row.admin /\ row.hash # SeedAdminHash
        pending == \E r \in Replica : th[r].pc \in {"invalidate", "insert"}
    IN IF seeded THEN deaths = 0 => real \/ pending \/ NameTaken ELSE real

=============================================================================
