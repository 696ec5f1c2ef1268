--------------------------- MODULE ReplicaProofs ---------------------------
(***************************************************************************)
(* Proofs about the processes of the service.  First one process from main *)
(* to its exit (Lifecycle), for any number of requests, any operator's     *)
(* input and any pool size.  Then the accounts that replicas started       *)
(* together share through the table, the cache and the tokens they sign    *)
(* (Accounts, OperatorConsole), for any number of replicas and calls, any  *)
(* lifetimes of tokens and cache entries, and any number of crashes and    *)
(* cache failures.                                                         *)
(*                                                                         *)
(* The window after a deletion (AccessBoundedHolds) rests on three         *)
(* invariants: types and the stages each kind of thread can be at (Typed); *)
(* salts, and with them hashes, are never used twice, so a copy tells      *)
(* which row it was read from (BirthInv); and how long that row can have   *)
(* been gone, for every place a copy can be at (AgeInv).  That an admin is *)
(* there (AdminOrPendingHolds) follows from what it takes for a thread, or *)
(* the cache, to know of one: with a seed admin in the table (AdminInv)    *)
(* and without (Unseeded, Manned).                                         *)
(***************************************************************************)
EXTENDS Lifecycle, OperatorConsole, FiniteSetTheorems, TLAPS

-----------------------------------------------------------------------------
(* The parts of the inductive invariants *)

\* Cleanup's steps from the drain, from the stop of Kafka and from the pool on
Draining == {"drain", "stopKafka", "closePool", "flush", "exited"}
Drained  == {"stopKafka", "closePool", "flush", "exited"}
Closing  == {"closePool", "flush", "exited"}

LoopsOver == \A u \in {"consumer", "cleaner"} : work[u] \in {"off", "stopped"}

\* Each step of Cleanup leaves behind what the next one relies on.
CleanupOrder ==
  /\ DOMAIN work = User
  /\ phase \in Draining => listener # "open"
  /\ phase \in Drained => (InFlight => cut)
  /\ phase \in Closing => LoopsOver
  /\ pool \in {"closing", "closed"} => phase \in Closing

\* The environment the settings are read from has the provider's secrets.
SecretsExported ==
  /\ input \in Input
  /\ phase \notin {"secrets", "fatal"} => environ = Exported(input)

-----------------------------------------------------------------------------
(* The order of Cleanup *)

\* A process starts before its cleanup, with no pool.
LEMMA CleanupInit == Init => CleanupOrder
<1> SUFFICES ASSUME Init PROVE CleanupOrder OBVIOUS
<1>1. work = [u \in User |-> IF u \in Background THEN "off" ELSE "idle"]
  BY DEF Init
<1>2. DOMAIN work = User
  BY <1>1
<1>3. phase = "secrets" /\ pool = "none"
  BY DEF Init
<1>4. QED BY <1>2, <1>3 DEF CleanupOrder, Draining, Drained, Closing

\* A call ends up where it was over, or had not begun, only if it was there.
LEMMA WorkStep ==
  ASSUME CleanupOrder, NEW u \in User, Begin(u) \/ CallStep(u) \/ Stop(u)
  PROVE  CleanupOrder'
<1>1. PICK place : Move(u, place)
  BY DEF Begin, CallStep, Stop
<1>2. /\ work' = [work EXCEPT ![u] = place]
      /\ UNCHANGED <<phase, listener, pool, cut>>
  BY <1>1 DEF Move
<1>3. DOMAIN work' = User /\ \A v \in User \ {u} : work'[v] = work[v]
  BY <1>2 DEF CleanupOrder
<1>4. work[u] \notin {"off", "stopped", "over"}
  BY DEF Begin, CallStep, Stop
<1>5. phase \in Drained => (InFlight' => cut')
  <2> SUFFICES ASSUME phase \in Drained, InFlight', ~cut PROVE FALSE
    BY <1>2
  <2>1. ~InFlight /\ listener # "open"
    BY DEF CleanupOrder, Draining, Drained
  <2>2. PICK r \in Request : work'[r] \notin {"idle", "over"}
    BY DEF InFlight
  <2>3. work[r] \in {"idle", "over"} /\ r \in User
    BY <2>1 DEF InFlight, User
  <2>4. r = u
    BY <1>3, <2>2, <2>3
  <2>5. work[u] = "idle" /\ u \in Request
    BY <1>4, <2>2, <2>3, <2>4
  <2>6. ~Begin(u) /\ ~CallStep(u)
    BY <2>1, <2>5 DEF Begin, CallStep
  <2>7. Stop(u) /\ work'[u] = "stopped"
    BY <1>3, <2>5, <2>6 DEF Stop, Move, CleanupOrder
  <2>8. QED BY <2>5, <2>7, RequestAssumption DEF Stop, Background
<1>6. phase \in Closing => LoopsOver'
  <2> SUFFICES ASSUME phase \in Closing PROVE LoopsOver'
    OBVIOUS
  <2>1. LoopsOver
    BY DEF CleanupOrder
  <2>2. u \notin {"consumer", "cleaner"}
    BY <1>4, <2>1 DEF LoopsOver
  <2>3. {"consumer", "cleaner"} \subseteq User
    BY DEF User, Background
  <2>4. QED BY <1>3, <2>1, <2>2, <2>3 DEF LoopsOver
<1>7. QED BY <1>2, <1>3, <1>5, <1>6 DEF CleanupOrder
\* Steps that touch none of it
LEMMA CleanupKept ==
  ASSUME CleanupOrder, UNCHANGED <<work, pool, cut, listener>>, phase' = phase
  PROVE  CleanupOrder'
BY DEF CleanupOrder, InFlight, LoopsOver

\* Startup does not reach Cleanup.
LEMMA StartupStep ==
  ASSUME CleanupOrder, phase \notin Draining, phase' \notin Draining, DOMAIN work' = User,
         pool' \in {pool, "open"}
  PROVE  CleanupOrder'
<1>1. phase' \notin Drained /\ phase' \notin Closing /\ phase \notin Closing
  BY DEF Draining, Drained, Closing
<1>2. pool' \notin {"closing", "closed"}
  BY <1>1 DEF CleanupOrder
<1>3. QED BY <1>1, <1>2 DEF CleanupOrder

\* Each step of main leaves what the next one relies on.
LEMMA MainOrder == ASSUME CleanupOrder, MainStep PROVE CleanupOrder'
<1>1. CASE LoadSecrets \/ LoadConfig \/ ConnectDb \/ BuildDeps \/ Wire \/ Run
  <2>1. phase \notin Draining /\ phase' \notin Draining
    BY <1>1 DEF LoadSecrets, LoadConfig, ConnectDb, BuildDeps, Wire, Run, OrDie, Draining
  <2>2. DOMAIN work' = User
    BY <1>1 DEF LoadSecrets, LoadConfig, ConnectDb, BuildDeps, Wire, Run, CleanupOrder
  <2>3. pool' \in {pool, "open"}
    BY <1>1 DEF LoadSecrets, LoadConfig, ConnectDb, BuildDeps, Wire, Run
  <2>4. QED BY <2>1, <2>2, <2>3, StartupStep
<1>2. CASE Shutdown
  <2>1. phase = "serving" /\ phase' = "drain" /\ listener' # "open" /\ UNCHANGED <<pool, work>>
    BY <1>2 DEF Shutdown
  <2>2. QED BY <2>1 DEF CleanupOrder, Draining, Drained, Closing
<1>3. CASE Drain
  <2>1. phase = "drain" /\ phase' = "stopKafka" /\ UNCHANGED <<listener, pool, work>>
    BY <1>3 DEF Drain
  <2>2. InFlight' => cut'
    BY <1>3 DEF Drain, InFlight
  <2>3. QED BY <2>1, <2>2 DEF CleanupOrder, Draining, Drained, Closing
<1>4. CASE KafkaCleanup
  <2>1. /\ phase = "stopKafka" /\ phase' = "closePool" /\ LoopsOver
        /\ UNCHANGED <<listener, pool, work, cut>>
    BY <1>4 DEF KafkaCleanup, LoopsOver
  <2>2. QED BY <2>1 DEF CleanupOrder, Draining, Drained, Closing, InFlight, LoopsOver
<1>5. CASE ClosePool \/ PoolClosed \/ Exit
  <2>1. phase \in Closing /\ phase' \in Closing /\ UNCHANGED <<listener, work, cut>>
    BY <1>5 DEF ClosePool, PoolClosed, Exit, Closing
  <2>2. QED BY <2>1 DEF CleanupOrder, Draining, Drained, Closing, InFlight, LoopsOver
<1>6. QED BY <1>1, <1>2, <1>3, <1>4, <1>5 DEF MainStep

\* Every step keeps the order of Cleanup.
LEMMA CleanupStep == CleanupOrder /\ [Next]_vars => CleanupOrder'
<1> SUFFICES ASSUME CleanupOrder, [Next]_vars PROVE CleanupOrder' OBVIOUS
<1>1. CASE MainStep
  BY <1>1, MainOrder
<1>2. CASE Listen
  <2>1. UNCHANGED <<phase, pool, work, cut>> /\ (phase # "serving" => listener' = "closed")
    BY <1>2 DEF Listen
  <2>2. phase \in Draining => listener' # "open"
    BY <2>1 DEF Draining
  <2>3. QED BY <2>1, <2>2 DEF CleanupOrder, InFlight, LoopsOver
<1>3. CASE AmqpStep \/ Trouble
  BY <1>3, CleanupKept DEF AmqpStep, Trouble
<1>4. CASE \E u \in User : Begin(u) \/ CallStep(u) \/ Stop(u)
  BY <1>4, WorkStep
<1>5. CASE UNCHANGED vars
  BY <1>5, CleanupKept DEF vars
<1>6. QED BY <1>1, <1>2, <1>3, <1>4, <1>5 DEF Next

\* Nobody who is waited for finds the pool closed under its work: the Kafka
\* loops have ended and every request is over, or the drain's deadline passed,
\* whatever the number of requests (server.go 208-224, 599-604).
THEOREM PoolOutlivesUsers == Spec => []UsersGoneBeforeClose
<1>1. CleanupOrder => UsersGoneBeforeClose
  BY DEF CleanupOrder, UsersGoneBeforeClose, LoopsOver, Closing, Drained
<1>2. QED BY <1>1, CleanupInit, CleanupStep, PTL DEF Spec

-----------------------------------------------------------------------------
(* Secrets and settings *)

\* What Load makes of the database password
LEMMA PasswordLoaded ==
  ASSUME NEW in, NEW given
  PROVE  Load(in, given).dbPass = getString(Lookup(in, given, "dbPass"))
<1>1. "dbPass" \in Key /\ "dbPass" \notin FlagKey
  BY DEF Key, Default, FlagKey
<1>2. Kind(Default["dbPass"]) = "string"
  BY DEF Default, Kind, Str
<1>3. Decode("dbPass", Lookup(in, given, "dbPass")) = getString(Lookup(in, given, "dbPass"))
  BY <1>2 DEF Decode
<1>4. QED BY <1>1, <1>3 DEF Load, Override

\* A text is its own string, and what is not set is empty.
LEMMA TextIsString ==
  ASSUME NEW raw, Kind(raw) \in {"none", "string"} PROVE getString(raw) = Val(raw)
BY DEF getString

\* The secret of the provider, and the password of the config files
Secret(in) == IF in.provider = "file" THEN in.dir.dbPass ELSE in.env.dbPass
OnFile(in) == IF Kind(in.local.dbPass) # "none" THEN in.local.dbPass ELSE in.file.dbPass

\* The secret is in the environment, and from there in the configuration.
LEMMA PasswordInEffect ==
  ASSUME NEW in \in Input
  PROVE  Load(in, Exported(in)).dbPass =
           IF Val(Secret(in)) # "" THEN Val(Secret(in)) ELSE getString(OnFile(in))
<1>1. "dbPass" \in EnvKey /\ "dbPass" \in Key /\ "dbPass" \in Required
      /\ Default["dbPass"] = Str("")
  BY DEF EnvKey, Key, Default, Required
<1>2. Exported(in)["dbPass"] = Secret(in)
  BY <1>1 DEF Exported, Secret
<1>3. Load(in, Exported(in)).dbPass = getString(Lookup(in, Exported(in), "dbPass"))
  BY PasswordLoaded
<1>4. CASE Val(Secret(in)) # ""
  <2>1. Lookup(in, Exported(in), "dbPass") = Secret(in)
    BY <1>1, <1>2, <1>4 DEF Lookup
  <2>2. Kind(Secret(in)) \in {"none", "string"}
    BY <1>1, InputAssumption DEF Secret
  <2>3. getString(Secret(in)) = Val(Secret(in))
    BY <2>2, TextIsString
  <2>4. QED BY <1>3, <1>4, <2>1, <2>3
<1>5. CASE Val(Secret(in)) = "" /\ (Kind(in.local.dbPass) # "none" \/ Kind(in.file.dbPass) # "none")
  <2>1. Lookup(in, Exported(in), "dbPass") = OnFile(in)
    BY <1>1, <1>2, <1>5 DEF Lookup, OnFile
  <2>2. QED BY <1>3, <1>5, <2>1
<1>6. CASE Val(Secret(in)) = "" /\ Kind(in.local.dbPass) = "none" /\ Kind(in.file.dbPass) = "none"
  <2>1. Lookup(in, Exported(in), "dbPass") = Str("")
    BY <1>1, <1>2, <1>6 DEF Lookup
  <2>2. OnFile(in) = Unset
    BY <1>1, <1>6, InputAssumption DEF OnFile
  <2>3. /\ Kind(Str("")) = "string" /\ Val(Str("")) = ""
        /\ Kind(Unset) = "none" /\ Val(Unset) = ""
    BY DEF Str, Unset, Kind, Val
  <2>4. getString(Str("")) = "" /\ getString(Unset) = ""
    BY <2>3 DEF getString
  <2>5. QED BY <1>3, <1>6, <2>1, <2>2, <2>4
<1>7. QED BY <1>4, <1>5, <1>6

SettingsInv == SecretsExported /\ CredentialsInEffect

\* Nothing is loaded at first.
LEMMA SettingsInit == Init => SettingsInv
BY DEF Init, SettingsInv, SecretsExported, CredentialsInEffect

\* Beyond the two steps nobody touches the input, the environment or cfg, and
\* nothing leads back.
LEMMA SettingsKept ==
  ASSUME SettingsInv, UNCHANGED settings,
         phase' \in {"secrets", "config", "fatal"} => phase' = phase \/ phase' = "fatal",
         phase = "secrets" \/ phase = "config" => phase' = phase \/ phase' = "fatal",
         phase = "fatal" => phase' = "fatal"
  PROVE  SettingsInv'
<1>1. SecretsExported'
  BY DEF SettingsInv, SecretsExported, settings
<1>2. CredentialsInEffect'
  BY DEF SettingsInv, CredentialsInEffect, settings
<1>3. QED BY <1>1, <1>2 DEF SettingsInv

\* Every step keeps the provider's secrets in effect.
LEMMA SettingsStep == SettingsInv /\ [Next]_vars => SettingsInv'
<1> SUFFICES ASSUME SettingsInv, [Next]_vars PROVE SettingsInv' OBVIOUS
<1>1. CASE LoadSecrets
  <2>1. /\ phase = "secrets" /\ phase' \in {"config", "fatal"} /\ input' = input
        /\ phase' = "config" => environ' = Exported(input)
    BY <1>1 DEF LoadSecrets, OrDie
  <2>2. QED BY <2>1 DEF SettingsInv, SecretsExported, CredentialsInEffect
<1>2. CASE LoadConfig
  <2>1. /\ phase = "config" /\ phase' \in {"connect", "fatal"} /\ UNCHANGED <<input, environ>>
        /\ phase' = "connect" => cfg' = Load(input, environ)
    BY <1>2 DEF LoadConfig, OrDie
  <2>2. input \in Input /\ environ = Exported(input)
    BY <2>1 DEF SettingsInv, SecretsExported
  <2>3. SecretsExported'
    BY <2>1, <2>2 DEF SecretsExported
  <2>4. CredentialsInEffect'
    <3>1. CASE phase' = "fatal"
      BY <3>1 DEF CredentialsInEffect
    <3>2. CASE phase' = "connect"
      <4>1. cfg'.dbPass = IF Val(Secret(input)) # "" THEN Val(Secret(input))
                                                    ELSE getString(OnFile(input))
        BY <2>1, <2>2, <3>2, PasswordInEffect
      <4>2. QED BY <2>1, <4>1 DEF CredentialsInEffect, Secret, OnFile
    <3>3. QED BY <2>1, <3>1, <3>2
  <2>5. QED BY <2>3, <2>4 DEF SettingsInv
<1>3. CASE MainStep /\ ~LoadSecrets /\ ~LoadConfig
  <2>1. /\ UNCHANGED settings
        /\ phase \notin {"secrets", "config", "fatal"} /\ phase' \notin {"secrets", "config"}
    BY <1>3 DEF MainStep, ConnectDb, BuildDeps, Wire, Run, Shutdown, Drain, KafkaCleanup,
                ClosePool, PoolClosed, Exit, OrDie
  <2>2. QED BY <2>1, SettingsKept
<1>4. CASE UNCHANGED <<settings, phase>>
  BY <1>4, SettingsKept
<1>5. CASE Listen \/ AmqpStep \/ Trouble \/ UNCHANGED vars
  BY <1>4, <1>5 DEF Listen, AmqpStep, Trouble, vars
<1>6. CASE \E u \in User : Begin(u) \/ CallStep(u) \/ Stop(u)
  <2>1. UNCHANGED <<settings, phase>>
    BY <1>6 DEF Begin, CallStep, Stop, Move
  <2>2. QED BY <1>4, <2>1
<1>7. QED BY <1>1, <1>2, <1>3, <1>5, <1>6 DEF Next

\* The password the process uses is the one its secrets provider supplied, or
\* with an empty one what the config files say, for every combination of
\* provider, variables, secret files, config files and flags (main.go 37-41,
\* provider.go 123-169, config.go 319-442).
THEOREM ProvidedCredentials == Spec => []CredentialsInEffect
<1>1. SettingsInv => CredentialsInEffect
  BY DEF SettingsInv
<1>2. QED BY <1>1, SettingsInit, SettingsStep, PTL DEF Spec

-----------------------------------------------------------------------------
(* The accounts *)

\* The values the account state is made of: passwords, user rows and their
\* copies, signing keys, tokens and cache entries
Phrase == [of : {"seed", "supplied", "generated", "user"}, salt : Nat]
Account == [username : Username, hash : [pw : Phrase, salt : Nat], admin : BOOLEAN, gone : Int]
Signature == {"configured"} \cup (Replica \X Nat)
Bearer == [sub : Username, admin : BOOLEAN, left : Nat, key : Signature, user : Account]
Cached == [user : Account, age : Nat]

\* Where a thread is in the service and repository code, and what it holds there
Stage == {"idle", "lookup", "select", "populate", "got", "delete", "invalidate", "insert",
          "store", "signer", "up", "signed in", "served", "refused"}

Progress == [pc : Stage, user : Username, pw : {None} \cup Phrase, got : {None} \cup Account,
             ran : Nat, on : {None} \cup Replica, token : {None} \cup Bearer]

\* Stages at which nothing is under way, and those at which a thread holds the
\* user it writes
AtRest == {"idle", "up", "signed in", "served", "refused"}
Holding == {"populate", "delete", "invalidate", "insert", "store"}

\* Where a thread can be: only a replica bootstraps.
Placed(t, p) ==
  /\ p.pc \in AtRest => p.got = None
  /\ p.pc \in Holding => p.got # None
  /\ t \in Replica => /\ p.user = AdminUsername
                      /\ p.pc \notin {"signed in", "served", "refused"}
  /\ t \in Call => /\ p.pc \notin {"delete", "invalidate", "signer", "up"}
                   /\ p.pc \notin AtRest => p.on \in Replica

\* Every variable of the accounts has its type.
AccountsType ==
  /\ env \in [prod : BOOLEAN, supplied : BOOLEAN, key : BOOLEAN]
  /\ seeded \in BOOLEAN
  /\ rows \in [Username -> {None} \cup Account]
  /\ entry \in [Username -> {None} \cup Cached]
  /\ th \in [Thread -> Progress]
  /\ life \in [Replica -> Nat]
  /\ deaths \in Nat /\ cacheFaults \in Nat

\* The types, and every thread where its kind of thread can be
Typed == AccountsType /\ \A t \in Thread : Placed(t, th[t])

\* No user, token or cache entry is the absent value.
LEMMA NoneApart == None \notin Account /\ None \notin Bearer /\ None \notin Cached
BY DEF None, Account, Bearer, Cached

\* A thread that idles or has its answer has its type.
LEMMA IdleType == Idle \in Progress /\ \A pc \in Stage : Answered(pc) \in Progress
BY DEF Idle, Progress, Answered, Stage, Username

\* What an idle thread, or one that has its answer, looks like
LEMMA IdleFields ==
  /\ Idle.pc = "idle" /\ Idle.user = AdminUsername /\ Idle.got = None /\ Idle.token = None
  /\ Idle.ran = 0
  /\ \A pc : /\ Answered(pc).pc = pc /\ Answered(pc).user = AdminUsername
             /\ Answered(pc).got = None /\ Answered(pc).token = None /\ Answered(pc).ran = 0
BY DEF Idle, Answered

-----------------------------------------------------------------------------
(* Steps of one thread *)

\* Thread t goes on to stage pc holding got; the other threads stay.
Moved(t, pc, got) ==
  /\ th' \in [Thread -> Progress]
  /\ \A s \in Thread : s # t => th'[s] = th[s]
  /\ th'[t].pc = pc /\ th'[t].got = got
  /\ th'[t].user = th[t].user /\ th'[t].on = th[t].on /\ th'[t].pw = th[t].pw
  /\ th'[t].token = th[t].token /\ th'[t].ran = th[t].ran

\* Thread t is over, or begins anew, at stage pc.
Reset(t, pc) ==
  /\ th' \in [Thread -> Progress]
  /\ \A s \in Thread : s # t => th'[s] = th[s]
  /\ th'[t].pc = pc /\ th'[t].user = AdminUsername
  /\ th'[t].got = None /\ th'[t].token = None /\ th'[t].ran = 0

\* Set changes one thread and no other.
LEMMA SetOthers ==
  ASSUME Typed, NEW t \in Thread, NEW new \in Progress, Set(t, new)
  PROVE  /\ th' \in [Thread -> Progress] /\ th'[t] = new
         /\ \A s \in Thread : s # t => th'[s] = th[s]
BY DEF Set, Typed, AccountsType

\* A step that changes a stage and the user held is one of Moved.
LEMMA MovedGot ==
  ASSUME Typed, NEW t \in Thread, NEW pc \in Stage, NEW got \in {None} \cup Account,
         Set(t, [th[t] EXCEPT !.pc = pc, !.got = got])
  PROVE  Moved(t, pc, got)
<1> DEFINE new == [th[t] EXCEPT !.pc = pc, !.got = got]
<1>1. th[t] \in Progress
  BY DEF Typed, AccountsType
<1>2. /\ new \in Progress /\ new.pc = pc /\ new.got = got /\ new.user = th[t].user
      /\ new.on = th[t].on /\ new.pw = th[t].pw /\ new.token = th[t].token /\ new.ran = th[t].ran
  BY <1>1 DEF Progress
<1> HIDE DEF new
<1>3. Set(t, new)
  BY DEF new
<1> QED BY <1>2, <1>3, SetOthers DEF Moved

\* Goto keeps the user held.
LEMMA MovedGoto ==
  ASSUME Typed, NEW t \in Thread, NEW pc \in Stage, Goto(t, pc)
  PROVE  Moved(t, pc, th[t].got)
<1> DEFINE new == [th[t] EXCEPT !.pc = pc]
<1>1. th[t] \in Progress
  BY DEF Typed, AccountsType
<1>2. /\ new \in Progress /\ new.pc = pc /\ new.got = th[t].got /\ new.user = th[t].user
      /\ new.on = th[t].on /\ new.pw = th[t].pw /\ new.token = th[t].token /\ new.ran = th[t].ran
  BY <1>1 DEF Progress
<1> HIDE DEF new
<1>3. Set(t, new)
  BY DEF new, Goto
<1> QED BY <1>2, <1>3, SetOthers DEF Moved

\* A thread set to Idle is reset.
LEMMA ResetIdle ==
  ASSUME Typed, NEW t \in Thread, Set(t, Idle)
  PROVE  Reset(t, "idle")
BY IdleType, IdleFields, SetOthers DEF Reset

\* A call that has its answer is reset.
LEMMA ResetAnswered ==
  ASSUME Typed, NEW t \in Thread, NEW pc \in Stage, Set(t, Answered(pc))
  PROVE  Reset(t, pc)
BY IdleType, IdleFields, SetOthers DEF Reset

\* Steps that do not touch the table and the cache
Still == UNCHANGED <<env, seeded, rows, entry, life, deaths>>

\* Get with a cached user, and without
LEMMA LookupMoved ==
  ASSUME Typed, NEW t \in Thread, LookupUser(t)
  PROVE  /\ th[t].pc = "lookup" /\ Still /\ cacheFaults' \in Nat
         /\ \/ /\ entry[th[t].user] # None /\ entry[th[t].user].user \in Account
               /\ Moved(t, "got", entry[th[t].user].user)
            \/ Moved(t, "select", th[t].got)
<1>1. th[t] \in Progress /\ th[t].user \in Username
  BY DEF Typed, AccountsType, Progress
<1>2. {"got", "select"} \subseteq Stage
  BY DEF Stage
<1> DEFINE Found == \/ /\ entry[th[t].user] # None /\ entry[th[t].user].user \in Account
                       /\ Moved(t, "got", entry[th[t].user].user)
                    \/ Moved(t, "select", th[t].got)
<1>3. ASSUME /\ entry[th[t].user] # None
             /\ Set(t, [th[t] EXCEPT !.pc = "got", !.got = entry[th[t].user].user])
      PROVE  Found
  <2>1. entry[th[t].user].user \in Account
    BY <1>1, <1>3 DEF Typed, AccountsType, Cached
  <2>2. Moved(t, "got", entry[th[t].user].user)
    BY <1>2, <1>3, <2>1, MovedGot
  <2> QED BY <1>3, <2>1, <2>2
<1>4. ASSUME Goto(t, "select") PROVE Found
  BY <1>2, <1>4, MovedGoto
<1>5. th[t].pc = "lookup" /\ Still /\ cacheFaults' \in Nat
  BY DEF LookupUser, At, Still, Works, Fails, Typed, AccountsType
<1> QED BY <1>3, <1>4, <1>5 DEF LookupUser

\* The SELECT of Get: a row found is next written to the cache, none is the
\* answer.
LEMMA SelectMoved ==
  ASSUME Typed, NEW t \in Thread, Select(t)
  PROVE  LET row == rows[th[t].user] IN
         /\ th[t].pc = "select" /\ Still /\ cacheFaults' \in Nat
         /\ row \in {None} \cup Account
         /\ Moved(t, IF row = None THEN "got" ELSE "populate", row)
<1> DEFINE row == rows[th[t].user]
           pc == IF row = None THEN "got" ELSE "populate"
<1>1. row \in {None} \cup Account /\ pc \in Stage
  BY DEF Typed, AccountsType, Progress, Stage
<1>2. Set(t, [th[t] EXCEPT !.pc = pc, !.got = row])
  BY DEF Select
<1> HIDE DEF row, pc
<1>3. Moved(t, pc, row)
  BY <1>1, <1>2, MovedGot
<1>4. th[t].pc = "select" /\ Still /\ cacheFaults' \in Nat
  BY DEF Select, At, Still, Typed, AccountsType
<1> QED BY <1>1, <1>3, <1>4 DEF row, pc

\* populateCache: the cache gets the user, or Redis fails
LEMMA PutTyped ==
  ASSUME Typed, NEW u \in Username, NEW row \in Account, PutCache(u, row)
  PROVE  /\ entry' \in [Username -> {None} \cup Cached] /\ cacheFaults' \in Nat
         /\ \/ entry' = entry
            \/ entry' = [entry EXCEPT ![u] = [user |-> row, age |-> 0]]
<1>1. [user |-> row, age |-> 0] \in Cached
  BY DEF Cached
<1> QED BY <1>1 DEF PutCache, Works, Fails, Typed, AccountsType

\* populateCache sets the entry of that user only.
LEMMA PutOwn ==
  ASSUME Typed, NEW u \in Username, NEW row \in Account, PutCache(u, row), NEW v \in Username
  PROVE  entry'[v] = entry[v] \/ (u = v /\ entry'[v].user = row)
<1> DEFINE new == [user |-> row, age |-> 0]
<1>1. new.user = row
  OBVIOUS
<1>2. /\ entry' = entry \/ entry' = [entry EXCEPT ![u] = new]
      /\ entry \in [Username -> {None} \cup Cached]
  BY PutTyped DEF Typed, AccountsType
<1> HIDE DEF new
<1>3. entry'[v] = entry[v] \/ (u = v /\ entry'[v] = new)
  BY <1>2
<1> QED BY <1>1, <1>3

\* A thread that is to write a user holds one.
LEMMA HeldType ==
  ASSUME Typed, NEW t \in Thread, th[t].pc \in Holding
  PROVE  th[t].got \in Account /\ th[t].user \in Username
BY DEF Typed, AccountsType, Progress, Placed

\* PutOwn for the thread that holds the user
LEMMA HolderPut ==
  ASSUME Typed, NEW t \in Thread, th[t].pc \in Holding, PutCache(th[t].user, th[t].got),
         NEW v \in Username
  PROVE  entry'[v] = entry[v] \/ (th[t].user = v /\ entry'[v].user = th[t].got)
<1>1. th[t].got \in Account /\ th[t].user \in Username
  BY HeldType
<1> QED BY <1>1, PutOwn

\* Get writes what it read to the cache, and answers with it.
LEMMA PopulateMoved ==
  ASSUME Typed, NEW t \in Thread, Populate(t)
  PROVE  /\ th[t].pc = "populate" /\ Moved(t, "got", th[t].got)
         /\ PutCache(th[t].user, th[t].got)
         /\ UNCHANGED <<env, seeded, rows, life, deaths>>
<1>1. "got" \in Stage
  BY DEF Stage
<1> QED BY <1>1, MovedGoto DEF Populate, At

\* The cache entry goes, or stays when the cache fails, before the insert.
LEMMA InvalidateMoved ==
  ASSUME Typed, NEW t \in Thread, Invalidate(t)
  PROVE  /\ th[t].pc = "invalidate" /\ Moved(t, "insert", th[t].got)
         /\ UNCHANGED <<env, seeded, rows, life, deaths>> /\ cacheFaults' \in Nat
         /\ \/ entry' = entry
            \/ entry' = [entry EXCEPT ![th[t].user] = None]
<1>1. "insert" \in Stage
  BY DEF Stage
<1> QED BY <1>1, MovedGoto DEF Invalidate, At, Works, Fails, Typed, AccountsType

\* The INSERT succeeds on a free name only; a conflict ends a bootstrap with
\* an exit and a call with a refusal.
LEMMA InsertMoved ==
  ASSUME Typed, NEW t \in Thread, Insert(t)
  PROVE  /\ th[t].pc = "insert"
         /\ UNCHANGED <<env, seeded, entry, life, deaths, cacheFaults>>
         /\ \/ /\ rows[th[t].user] = None /\ rows' = [rows EXCEPT ![th[t].user] = th[t].got]
               /\ Moved(t, "store", th[t].got)
            \/ /\ rows[th[t].user] # None /\ rows' = rows
               /\ \/ t \in Replica /\ Reset(t, "idle")
                  \/ t \in Call /\ Reset(t, "refused")
<1>1. {"store", "refused"} \subseteq Stage
  BY DEF Stage
<1> QED BY <1>1, MovedGoto, ResetIdle, ResetAnswered DEF Insert, At, Thread

\* Create writes the cache last.
LEMMA StoreMoved ==
  ASSUME Typed, NEW t \in Thread, Store(t)
  PROVE  /\ th[t].pc = "store" /\ PutCache(th[t].user, th[t].got)
         /\ UNCHANGED <<env, seeded, rows, life, deaths>>
         /\ \/ t \in Replica /\ Moved(t, "signer", th[t].got)
            \/ t \in Call /\ Reset(t, "served")
<1>1. {"signer", "served"} \subseteq Stage
  BY DEF Stage
<1> QED BY <1>1, MovedGoto, ResetAnswered DEF Store, At, Thread
-----------------------------------------------------------------------------
(* Salts *)

\* The image of a finite set
LEMMA ImageFinite ==
  ASSUME NEW S, IsFiniteSet(S), NEW f, DOMAIN f = S
  PROVE  IsFiniteSet({f[x] : x \in S})
<1> DEFINE g == [x \in S |-> f[x]]
           T == {f[x] : x \in S}
<1>1. g \in Surjection(S, T)
  BY DEF Surjection
<1> QED BY <1>1, FS_Surjection

\* Only so many hashes are in use.
LEMMA HeldFinite == IsFiniteSet(Held)
<1>1. IsFiniteSet(Thread) /\ IsFiniteSet(Username)
  <2>1. IsFiniteSet({AdminUsername}) /\ IsFiniteSet({AdminUsername} \cup {"bob"})
    BY FS_Singleton, FS_AddElement
  <2>2. Username = {AdminUsername} \cup {"bob"}
    BY DEF Username
  <2> QED BY <2>1, <2>2, AccountsAssumption, FS_Union DEF Thread
<1> DEFINE EU == {v \in Username : entry[v] # None}
           TT == {v \in Thread : th[v].token # None}
           A == {rows[u] : u \in Username}
           B == {th[t].got : t \in Thread}
           C == {entry[u].user : u \in EU}
           D == {th[t].token.user : t \in TT}
           X == (A \cup B \cup C \cup D) \ {None}
<1>2. IsFiniteSet(EU) /\ IsFiniteSet(TT)
  BY <1>1, FS_Subset
<1>3. IsFiniteSet(A)
  <2> DEFINE f == [u \in Username |-> rows[u]]
  <2>1. IsFiniteSet({f[u] : u \in Username})
    BY <1>1, ImageFinite
  <2>2. {f[u] : u \in Username} = A
    OBVIOUS
  <2> QED BY <2>1, <2>2
<1>4. IsFiniteSet(B)
  <2> DEFINE f == [t \in Thread |-> th[t].got]
  <2>1. IsFiniteSet({f[t] : t \in Thread})
    BY <1>1, ImageFinite
  <2>2. {f[t] : t \in Thread} = B
    OBVIOUS
  <2> QED BY <2>1, <2>2
<1>5. IsFiniteSet(C)
  <2> DEFINE f == [u \in EU |-> entry[u].user]
  <2>1. IsFiniteSet({f[u] : u \in EU})
    BY <1>2, ImageFinite, ZenonT(30)
  <2>2. {f[u] : u \in EU} = C
    OBVIOUS
  <2> QED BY <2>1, <2>2
<1>6. IsFiniteSet(D)
  <2> DEFINE f == [t \in TT |-> th[t].token.user]
  <2>0. DOMAIN f = TT
    OBVIOUS
  <2>1. IsFiniteSet({f[t] : t \in TT})
    <3> HIDE DEF f, TT
    <3> QED BY <1>2, <2>0, ImageFinite
  <2>2. {f[t] : t \in TT} = D
    OBVIOUS
  <2> QED BY <2>1, <2>2
<1>7. IsFiniteSet(X)
  <2>1. IsFiniteSet(A \cup B \cup C \cup D)
    BY <1>3, <1>4, <1>5, <1>6, FS_Union
  <2> QED BY <2>1, FS_Subset
<1>8. IsFiniteSet({x.hash.salt : x \in X})
  <2> DEFINE f == [x \in X |-> x.hash.salt]
  <2>1. IsFiniteSet({f[x] : x \in X})
    BY <1>7, ImageFinite, ZenonT(30)
  <2>2. {f[x] : x \in X} = {x.hash.salt : x \in X}
    OBVIOUS
  <2> QED BY <2>1, <2>2
<1> QED BY <1>8 DEF Held

\* GenerateFromPassword's salt is no other hash's, nor that of the literal the
\* migration wrote.
LEMMA SaltFresh == NewSalt \in Nat \ {0} /\ NewSalt \notin Held
<1> DEFINE n == Cardinality(Held)
           S == 1..(n + 1)
<1>1. n \in Nat
  BY HeldFinite, FS_CardinalityType
<1>2. Cardinality(S) = n + 1
  BY <1>1, FS_Interval
<1>3. ~(S \subseteq Held)
  <2> SUFFICES ASSUME S \subseteq Held PROVE FALSE
    OBVIOUS
  <2>1. Cardinality(S) <= n
    BY HeldFinite, FS_Subset
  <2> QED BY <1>1, <1>2, <2>1
<1>4. \E salt \in S : salt \notin Held
  BY <1>3
<1>5. NewSalt \in S /\ NewSalt \notin Held
  BY <1>4 DEF NewSalt
<1> QED BY <1>1, <1>5

\* A user created now has a hash of its own.
LEMMA RecordType ==
  ASSUME NEW name \in Username, NEW pw \in Phrase, NEW admin \in BOOLEAN
  PROVE  LET x == Record(name, Hash(pw, NewSalt), admin)
         IN /\ x \in Account /\ x.hash # SeedAdminHash /\ x.gone = Present
            /\ x.username = name /\ x.hash.salt = NewSalt /\ x.admin = admin
<1>1. NewSalt \in Nat \ {0}
  BY SaltFresh
<1> DEFINE h == Hash(pw, NewSalt)
<1>2. h \in [pw : Phrase, salt : Nat] /\ h.salt # 0 /\ h.salt = NewSalt
  BY <1>1 DEF Hash
<1>3. SeedAdminHash.salt = 0
  BY DEF SeedAdminHash, Hash
<1> HIDE DEF h
<1>4. h # SeedAdminHash
  BY <1>2, <1>3
<1> DEFINE x == Record(name, h, admin)
<1>5. x \in Account /\ x.hash = h /\ x.gone = Present /\ x.username = name /\ x.admin = admin
  BY <1>2 DEF Record, Account, Present
<1> HIDE DEF x
<1>6. /\ x \in Account /\ x.hash # SeedAdminHash /\ x.gone = Present /\ x.username = name
      /\ x.hash.salt = NewSalt /\ x.admin = admin
  BY <1>2, <1>4, <1>5
<1> QED BY <1>6 DEF x, h

\* A password supplied or generated
LEMMA ResolveType ==
  ASSUME NEW salt \in Nat
  PROVE  resolveBootstrapPassword(salt) \in Phrase
<1>1. Password("supplied", 0) \in Phrase /\ Password("generated", salt) \in Phrase
  BY DEF Phrase, Password
<1> QED BY <1>1 DEF resolveBootstrapPassword

\* The admin Bootstrap creates
NewAdmin == Record(AdminUsername, Hash(resolveBootstrapPassword(NewSalt), NewSalt), TRUE)

\* The admin a bootstrap makes is a typed row, and not the seed admin.
LEMMA NewAdminType ==
  /\ NewAdmin \in Account /\ NewAdmin.hash # SeedAdminHash /\ NewAdmin.gone = Present
  /\ NewAdmin.hash.salt = NewSalt /\ NewAdmin.admin = TRUE
<1>1. NewSalt \in Nat
  BY SaltFresh
<1>2. resolveBootstrapPassword(NewSalt) \in Phrase
  BY <1>1, ResolveType
<1>3. AdminUsername \in Username
  BY DEF Username
<1> QED BY <1>2, <1>3, RecordType DEF NewAdmin

-----------------------------------------------------------------------------
(* Steps of a startup and of a call *)

\* A replica starts with a look at the admin.
LEMMA StartMoved ==
  ASSUME Typed, NEW r \in Replica, Start(r)
  PROVE  th[r].pc = "idle" /\ Reset(r, "lookup") /\ Still /\ UNCHANGED cacheFaults
<1>1. "lookup" \in Stage /\ r \in Thread
  BY DEF Stage, Thread
<1>2. Set(r, Answered("lookup"))
  BY DEF Start, Answered
<1> QED BY <1>1, <1>2, ResetAnswered DEF Start, Still

\* The three ways of Bootstrap: a real admin is kept, the seed admin is to be
\* deleted, and where there is none one is to be inserted.
LEMMA BootstrapMoved ==
  ASSUME Typed, NEW r \in Replica, Bootstrap(r)
  PROVE  LET got == th[r].got IN
         /\ th[r].pc = "got" /\ Still /\ UNCHANGED cacheFaults
         /\ \/ got # None /\ got.hash # SeedAdminHash /\ Moved(r, "signer", got)
            \/ got # None /\ got.hash = SeedAdminHash /\ Moved(r, "delete", NewAdmin)
            \/ got = None /\ Moved(r, "insert", NewAdmin)
            \/ Reset(r, "idle")
<1> DEFINE got == th[r].got
<1>1. {"signer", "delete", "insert"} \subseteq Stage /\ r \in Thread
  BY DEF Stage, Thread
<1>2. th[r].pc = "got" /\ Still /\ UNCHANGED cacheFaults
  BY DEF Bootstrap, At, Still
<1>3. ASSUME got # None, got.hash # SeedAdminHash, Goto(r, "signer")
      PROVE  Moved(r, "signer", got)
  BY <1>1, <1>3, MovedGoto
<1>4. ASSUME NEW pc \in {"delete", "insert"}, Set(r, [th[r] EXCEPT !.pc = pc, !.got = NewAdmin])
      PROVE  Moved(r, pc, NewAdmin)
  BY <1>1, <1>4, NewAdminType, MovedGot
<1>5. ASSUME Set(r, Idle) PROVE Reset(r, "idle")
  BY <1>1, <1>5, ResetIdle
<1>6. \/ got # None /\ got.hash # SeedAdminHash /\ Goto(r, "signer")
      \/ /\ got # None /\ got.hash = SeedAdminHash
         /\ Set(r, [th[r] EXCEPT !.pc = "delete", !.got = NewAdmin])
      \/ got = None /\ Set(r, [th[r] EXCEPT !.pc = "insert", !.got = NewAdmin])
      \/ Set(r, Idle)
  BY DEF Bootstrap, NewAdmin
<1> QED BY <1>2, <1>3, <1>4, <1>5, <1>6

\* The signer comes up, or the process exits.
LEMMA SignerMoved ==
  ASSUME Typed, NEW r \in Replica, ConfigureSigner(r)
  PROVE  /\ th[r].pc = "signer" /\ Still /\ UNCHANGED cacheFaults
         /\ Reset(r, "idle") \/ Reset(r, "up")
<1>1. "up" \in Stage /\ r \in Thread
  BY DEF Stage, Thread
<1>2. Set(r, Idle) \/ Set(r, Answered("up"))
  BY DEF ConfigureSigner, Answered
<1> QED BY <1>1, <1>2, ResetAnswered, ResetIdle DEF ConfigureSigner, At, Still

\* A login begins on a replica that serves.
Begun(c, r, u) ==
  /\ Serving(r)
  /\ th' \in [Thread -> Progress]
  /\ \A s \in Thread : s # c => th'[s] = th[s]
  /\ th'[c].pc = "lookup" /\ th'[c].user = u /\ th'[c].on = r
  /\ th'[c].got = None /\ th'[c].token = None /\ th'[c].ran = 0

\* A login begins with a look at the user it names.
LEMMA LoginBegun ==
  ASSUME Typed, NEW c \in Call, NEW r \in Replica, NEW u \in Username, NEW pw \in Phrase,
         BeginLogin(c, r, u, pw)
  PROVE  th[c].pc = "idle" /\ Begun(c, r, u) /\ Still /\ UNCHANGED cacheFaults
<1> DEFINE new == [Idle EXCEPT !.pc = "lookup", !.user = u, !.pw = pw, !.on = r]
<1>1. Idle \in Progress /\ "lookup" \in Stage /\ c \in Thread
  BY IdleType DEF Stage, Thread
<1>2. /\ new \in Progress /\ new.pc = "lookup" /\ new.user = u /\ new.on = r
      /\ new.got = None /\ new.token = None /\ new.ran = 0
  BY <1>1, IdleFields DEF Progress
<1> HIDE DEF new
<1>3. Set(c, new)
  BY DEF new, BeginLogin
<1> QED BY <1>1, <1>2, <1>3, SetOthers DEF Begun, BeginLogin, Still

\* The credentials callers have
LEMMA CredentialsType ==
  ASSUME Typed, NEW who \in Credentials
  PROVE  who[1] \in Username /\ who[2] \in Phrase
<1>1. /\ SeedPassword \in Phrase /\ UserPassword \in Phrase
      /\ resolveBootstrapPassword(1) \in Phrase
  BY ResolveType DEF Phrase, SeedPassword, UserPassword, Password
<1> QED BY <1>1 DEF Credentials, Username

\* A login that is answered with a token
SignedIn(c) ==
  /\ th' \in [Thread -> Progress]
  /\ \A s \in Thread : s # c => th'[s] = th[s]
  /\ th'[c].pc = "signed in" /\ th'[c].user = AdminUsername
  /\ th'[c].got = None /\ th'[c].ran = 0
  /\ th'[c].token \in Bearer /\ th'[c].token.left = TokenTTL /\ th'[c].token.user = th[c].got
  /\ th'[c].token.sub = th[c].got.username /\ th'[c].token.admin = th[c].got.admin

\* Login ends with a token for the user read, or with a refusal.
LEMMA LoginMoved ==
  ASSUME Typed, NEW c \in Call, Login(c)
  PROVE  /\ th[c].pc = "got" /\ Still /\ UNCHANGED cacheFaults
         /\ \/ th[c].got \in Account /\ SignedIn(c)
            \/ Reset(c, "refused")
<1>1. {"signed in", "refused"} \subseteq Stage /\ c \in Thread
  BY DEF Stage, Thread
<1>2. th[c].pc = "got" /\ Still /\ UNCHANGED cacheFaults
  BY DEF Login, At, Still
<1>3. th[c].on \in Replica /\ th[c].got \in {None} \cup Account
  BY <1>1, <1>2 DEF Typed, AccountsType, Placed, Progress, AtRest
<1> DEFINE key == SigningKey(th[c].on)
           token == Issue(th[c].got, th[c].on)
           new == [Answered("signed in") EXCEPT !.token = token]
<1>4. CASE th[c].got # None /\ Set(c, new)
  <2>1. key \in Signature
    BY <1>3 DEF SigningKey, Signature, Typed, AccountsType
  <2>2. th[c].got \in Account
    BY <1>3, <1>4
  <2>3. th[c].got.username \in Username /\ th[c].got.admin \in BOOLEAN
    BY <2>2 DEF Account
  <2>4. TokenTTL \in Nat
    BY AccountsAssumption
  <2>5. token = [sub |-> th[c].got.username, admin |-> th[c].got.admin, left |-> TokenTTL,
                 key |-> key, user |-> th[c].got]
    BY DEF Issue
  <2> HIDE DEF key, token
  <2>6. /\ token \in Bearer /\ token.left = TokenTTL /\ token.user = th[c].got
        /\ token.sub = th[c].got.username /\ token.admin = th[c].got.admin
    BY <2>1, <2>2, <2>3, <2>4, <2>5 DEF Bearer
  <2>7. Answered("signed in") \in Progress
    BY <1>1, IdleType
  <2>8. /\ new \in Progress /\ new.pc = "signed in" /\ new.user = AdminUsername
        /\ new.got = None /\ new.ran = 0 /\ new.token = token
    BY <2>6, <2>7, IdleFields DEF Progress
  <2> HIDE DEF new
  <2>9. SignedIn(c)
    BY <1>1, <1>4, <2>6, <2>8, SetOthers DEF SignedIn
  <2> QED BY <1>2, <2>2, <2>9
<1>5. CASE Set(c, Answered("refused"))
  BY <1>1, <1>2, <1>5, ResetAnswered
<1> QED BY <1>4, <1>5 DEF Login

\* A call that creates a user of whatever name
Creating(c, r) ==
  /\ th' \in [Thread -> Progress]
  /\ \A s \in Thread : s # c => th'[s] = th[s]
  /\ th'[c].pc = "insert" /\ th'[c].user \in Username /\ th'[c].on = r /\ th'[c].token = None
  /\ th'[c].ran = 0 /\ th'[c].got \in Account
  /\ th'[c].got.hash # SeedAdminHash /\ th'[c].got.gone = Present
  /\ th'[c].got.hash.salt = NewSalt

\* A request with a token is refused, served, or on its way to create a user.
LEMMA UseMoved ==
  ASSUME Typed, NEW c \in Call, NEW r \in Replica, NEW adminOnly \in BOOLEAN,
         Use(c, r, adminOnly)
  PROVE  LET token == th[c].token IN
         /\ th[c].pc = "signed in" /\ Still /\ UNCHANGED cacheFaults
         /\ \/ token # None /\ token.left > 0 /\ token.admin /\ Creating(c, r)
            \/ token # None /\ token.left > 0 /\ Reset(c, "served")
            \/ Reset(c, "refused")
<1> DEFINE token == th[c].token
           x(u) == Record(u, Hash(UserPassword, NewSalt), FALSE)
           new(u) == [Idle EXCEPT !.pc = "insert", !.on = r, !.user = u, !.got = x(u)]
           ok == Authorized(token, r, adminOnly)
<1>1. {"served", "refused", "insert"} \subseteq Stage /\ c \in Thread
  BY DEF Stage, Thread
<1>2. th[c].pc = "signed in" /\ Still /\ UNCHANGED cacheFaults
  BY DEF Use, Still
<1>3. ok => token # None /\ token.left > 0 /\ (adminOnly => token.admin)
  BY DEF Authorized, Parse
<1>4. \/ ok /\ adminOnly /\ \E u \in Username : Set(c, new(u))
      \/ ok /\ Set(c, Answered("served"))
      \/ Set(c, Answered("refused"))
  BY DEF Use
<1> HIDE DEF ok
<1>5. ASSUME NEW u \in Username, Set(c, new(u)) PROVE Creating(c, r)
  <2> DEFINE y == x(u)
             made == [Idle EXCEPT !.pc = "insert", !.on = r, !.user = u, !.got = y]
  <2>1. /\ y \in Account /\ y.hash # SeedAdminHash /\ y.gone = Present
        /\ y.hash.salt = NewSalt
    <3>1. UserPassword \in Phrase
      BY DEF Phrase, Password, UserPassword
    <3> QED BY <3>1, RecordType
  <2>2. Idle \in Progress /\ Set(c, made)
    BY <1>5, IdleType
  <2> HIDE DEF y
  <2>3. /\ made \in Progress /\ made.pc = "insert" /\ made.user = u /\ made.on = r
        /\ made.got = y /\ made.token = None /\ made.ran = 0
    BY <1>1, <2>1, <2>2, IdleFields DEF Progress
  <2> HIDE DEF made
  <2> QED BY <1>1, <2>1, <2>2, <2>3, SetOthers DEF Creating
<1>6. \A pc \in {"served", "refused"} : Set(c, Answered(pc)) => Reset(c, pc)
  BY <1>1, ResetAnswered
<1> HIDE DEF new
<1> QED BY <1>2, <1>3, <1>4, <1>5, <1>6
-----------------------------------------------------------------------------
(* Steps that touch every copy of a user *)

\* y is a copy of x: the same user whatever its row's history.
Copied(x, y) ==
  /\ x = None <=> y = None
  /\ y \in {None} \cup Account
  /\ x # None => y.username = x.username /\ y.hash = x.hash /\ y.admin = x.admin

\* A deletion sets the time since the row is gone to 0, time passing adds 1
\* once it is gone.
Deleted(row, x, y) ==
  /\ Copied(x, y)
  /\ x # None => \/ y.gone = x.gone
                 \/ y.gone = 0 /\ row # None /\ x.hash = row.hash
Elapsed(x, y) ==
  /\ Copied(x, y)
  /\ x # None => \/ y.gone = x.gone
                 \/ y.gone = x.gone + 1 /\ x.gone # Present

\* A token after its user's copy has changed
SameBearer(k, l) ==
  /\ k = None <=> l = None
  /\ l \in {None} \cup Bearer
  /\ k # None => l.sub = k.sub /\ l.admin = k.admin

\* A token with another copy of its user
LEMMA CopyBearer ==
  ASSUME NEW k \in Bearer, NEW y \in Account
  PROVE  LET l == [k EXCEPT !.user = y] IN
         /\ l \in Bearer /\ l.user = y /\ l.left = k.left /\ l # None
         /\ l.sub = k.sub /\ l.admin = k.admin
<1> DEFINE l == [k EXCEPT !.user = y]
<1>1. /\ l \in Bearer /\ l.user = y /\ l.left = k.left
      /\ l.sub = k.sub /\ l.admin = k.admin
  BY DEF Bearer
<1> HIDE DEF l
<1>2. l # None
  BY <1>1, NoneApart
<1>3. QED BY <1>1, <1>2 DEF l

\* A cache entry with another copy of its user
LEMMA CopyCached ==
  ASSUME NEW e \in Cached, NEW y \in Account
  PROVE  LET d == [e EXCEPT !.user = y] IN
         d \in Cached /\ d.user = y /\ d.age = e.age /\ d # None
<1> DEFINE d == [e EXCEPT !.user = y]
<1>1. d \in Cached /\ d.user = y /\ d.age = e.age
  BY DEF Cached
<1> HIDE DEF d
<1>2. d # None
  BY <1>1, NoneApart
<1>3. QED BY <1>1, <1>2 DEF d

\* Delete: the row is gone, and every copy of it says so.
LEMMA MarkTyped ==
  ASSUME NEW row \in Account, NEW x \in Account
  PROVE  LET y == IF x.hash = row.hash THEN [x EXCEPT !.gone = 0] ELSE x
         IN  Deleted(row, x, y) /\ y \in Account
<1> DEFINE z == [x EXCEPT !.gone = 0]
<1>1. /\ z \in Account /\ z.gone = 0
      /\ z.username = x.username /\ z.hash = x.hash /\ z.admin = x.admin
  BY DEF Account
<1> HIDE DEF z
<1>2. (x.hash = row.hash => Deleted(row, x, z)) /\ Deleted(row, x, x)
  BY <1>1, NoneApart DEF Deleted, Copied
<1> QED BY <1>1, <1>2 DEF z

\* What Delete does to every thread and cache entry: the row goes, the deleting
\* thread moves on, and every copy of the row is marked.
LEMMA DeleteMoved ==
  ASSUME Typed, NEW t \in Thread, Delete(t)
  PROVE  /\ th[t].pc = "delete" /\ th' \in [Thread -> Progress]
         /\ rows' = [rows EXCEPT ![th[t].user] = None]
         /\ UNCHANGED <<env, seeded, life, deaths, cacheFaults>>
         /\ \A s \in Thread :
              /\ th'[s].pc = IF s = t THEN "invalidate" ELSE th[s].pc
              /\ th'[s].user = th[s].user /\ th'[s].on = th[s].on /\ th'[s].ran = th[s].ran
              /\ Deleted(rows[th[t].user], th[s].got, th'[s].got)
              /\ SameBearer(th[s].token, th'[s].token)
              /\ th[s].token # None => /\ th'[s].token.left = th[s].token.left
                                       /\ Deleted(rows[th[t].user], th[s].token.user, th'[s].token.user)
         /\ \A u \in Username :
              /\ entry'[u] = None <=> entry[u] = None
              /\ entry'[u] \in {None} \cup Cached
              /\ entry[u] # None => /\ entry'[u].age = entry[u].age
                                    /\ Deleted(rows[th[t].user], entry[u].user, entry'[u].user)
         /\ entry' \in [Username -> {None} \cup Cached]
<1> DEFINE row == rows[th[t].user]
           Gone(x) == IF x.hash = row.hash THEN [x EXCEPT !.gone = 0] ELSE x
           thr == [th EXCEPT ![t].pc = "invalidate"]
<1>1. th \in [Thread -> Progress] /\ row \in {None} \cup Account /\ "invalidate" \in Stage
  BY DEF Typed, AccountsType, Progress, Stage
<1>2. ASSUME NEW s \in Thread
      PROVE  /\ thr[s] \in Progress
             /\ thr[s].pc = IF s = t THEN "invalidate" ELSE th[s].pc
             /\ thr[s].user = th[s].user /\ thr[s].on = th[s].on /\ thr[s].ran = th[s].ran
             /\ thr[s].got = th[s].got /\ thr[s].token = th[s].token
  <2>1. th[s] \in Progress /\ th[t] \in Progress
    BY <1>1
  <2>2. CASE s = t
    <3> DEFINE p == [th[t] EXCEPT !.pc = "invalidate"]
    <3>1. p \in Progress /\ p.pc = "invalidate" /\ p.user = th[t].user /\ p.on = th[t].on
          /\ p.ran = th[t].ran /\ p.got = th[t].got /\ p.token = th[t].token
      BY <1>1, <2>1 DEF Progress
    <3>2. thr[s] = p
      BY <1>1, <2>2
    <3> QED BY <2>2, <3>1, <3>2
  <2>3. CASE s # t
    <3>1. thr[s] = th[s]
      BY <1>1, <2>3
    <3> QED BY <2>1, <2>3, <3>1
  <2> QED BY <2>2, <2>3
<1>3. thr \in [Thread -> Progress]
  BY <1>1, <1>2
<1>4. CASE row = None
  <2>1. th' = thr /\ entry' = entry
    BY <1>4 DEF Delete
  <2>2. \A s \in Thread : Deleted(rows[th[t].user], th[s].got, th'[s].got)
    BY <1>1, <1>2, <2>1 DEF Deleted, Copied, Progress
  <2>3. \A s \in Thread : /\ SameBearer(th[s].token, th'[s].token)
                          /\ th[s].token # None => Deleted(rows[th[t].user], th[s].token.user, th'[s].token.user)
    <3> SUFFICES ASSUME NEW s \in Thread
                 PROVE  /\ SameBearer(th[s].token, th'[s].token)
                        /\ th[s].token # None => Deleted(rows[th[t].user], th[s].token.user, th'[s].token.user)
      OBVIOUS
    <3>1. th[s].token \in {None} \cup Bearer /\ th'[s].token = th[s].token
      BY <1>1, <1>2, <2>1 DEF Progress
    <3>2. th[s].token # None => th[s].token.user \in Account
      BY <3>1 DEF Bearer
    <3> QED BY <3>1, <3>2 DEF SameBearer, Deleted, Copied
  <2>4. \A u \in Username : entry[u] # None => Deleted(rows[th[t].user], entry[u].user, entry[u].user)
    BY DEF Deleted, Copied, Typed, AccountsType, Cached
  <2>5. entry \in [Username -> {None} \cup Cached]
    BY DEF Typed, AccountsType
  <2> HIDE DEF thr
  <2>6. th' \in [Thread -> Progress] /\ entry' \in [Username -> {None} \cup Cached]
    BY <1>3, <2>1, <2>5
  <2>7. \A s \in Thread : th[s].token # None => th'[s].token.left = th[s].token.left
    BY <1>2, <2>1
  <2>8. \A s \in Thread :
           /\ th'[s].pc = IF s = t THEN "invalidate" ELSE th[s].pc
           /\ th'[s].user = th[s].user /\ th'[s].on = th[s].on /\ th'[s].ran = th[s].ran
    BY <1>2, <2>1
  <2>9. \A u \in Username : entry'[u] \in {None} \cup Cached
    BY <2>6
  <2> QED BY <2>1, <2>2, <2>3, <2>4, <2>6, <2>7, <2>8, <2>9 DEF Delete, At
<1>5. CASE row # None
  <2>1. th' = InThreads(thr, Gone) /\ entry' = InCache(entry, Gone)
    BY <1>5 DEF Delete
  <2>2. row \in Account
    BY <1>1, <1>5
  <2>3. ASSUME NEW x \in Account PROVE Deleted(row, x, Gone(x)) /\ Gone(x) \in Account
    BY <2>2, MarkTyped
  <2> HIDE DEF thr
  <2>4. ASSUME NEW s \in Thread
        PROVE  /\ th'[s] \in Progress
               /\ th'[s].pc = IF s = t THEN "invalidate" ELSE th[s].pc
               /\ th'[s].user = th[s].user /\ th'[s].on = th[s].on /\ th'[s].ran = th[s].ran
               /\ Deleted(rows[th[t].user], th[s].got, th'[s].got)
               /\ SameBearer(th[s].token, th'[s].token)
               /\ th[s].token # None => /\ th'[s].token.left = th[s].token.left
                                        /\ Deleted(rows[th[t].user], th[s].token.user, th'[s].token.user)
    <3> DEFINE got == thr[s].got
               token == thr[s].token
               g == IF got = None THEN got ELSE Gone(got)
               k == IF token = None THEN token ELSE [token EXCEPT !.user = Gone(token.user)]
    <3>0. thr[s] \in Progress /\ got = th[s].got /\ token = th[s].token
      BY <1>2
    <3>1. got \in {None} \cup Account /\ token \in {None} \cup Bearer
      BY <3>0 DEF Progress
    <3>2. g \in {None} \cup Account /\ Deleted(row, got, g)
      <4>1. CASE got = None
        BY <4>1 DEF Deleted, Copied
      <4>2. CASE got # None
        BY <2>3, <3>1, <4>2
      <4> QED BY <4>1, <4>2
    <3>3. /\ k \in {None} \cup Bearer /\ SameBearer(token, k)
          /\ token # None => k.left = token.left /\ Deleted(row, token.user, k.user)
      <4>1. CASE token = None
        BY <4>1 DEF SameBearer
      <4>2. CASE token # None
        <5>1. token \in Bearer /\ token.user \in Account
          BY <3>1, <4>2 DEF Bearer
        <5> DEFINE y == Gone(token.user)
        <5>2. y \in Account /\ Deleted(row, token.user, y)
          BY <2>3, <5>1
        <5> HIDE DEF y
        <5>3. k = [token EXCEPT !.user = y]
          BY <4>2 DEF y
        <5> HIDE DEF k
        <5> QED BY <4>2, <5>1, <5>2, <5>3, CopyBearer DEF SameBearer
      <4> QED BY <4>1, <4>2
    <3>4. th'[s] = [thr[s] EXCEPT !.got = g, !.token = k]
      BY <2>1 DEF InThreads
    <3> HIDE DEF g, k
    <3>5. /\ th'[s] \in Progress /\ th'[s].got = g /\ th'[s].token = k
          /\ th'[s].pc = thr[s].pc /\ th'[s].user = thr[s].user
          /\ th'[s].on = thr[s].on /\ th'[s].ran = thr[s].ran
      <4> DEFINE p == thr[s]
                 q == th'[s]
      <4>1. p \in Progress /\ q = [p EXCEPT !.got = g, !.token = k]
        BY <3>0, <3>4
      <4>2. g \in {None} \cup Account /\ k \in {None} \cup Bearer
        BY <3>2, <3>3
      <4> HIDE DEF p, q
      <4>3. /\ q \in Progress /\ q.got = g /\ q.token = k
            /\ q.pc = p.pc /\ q.user = p.user /\ q.on = p.on /\ q.ran = p.ran
        BY <4>1, <4>2 DEF Progress
      <4> QED BY <4>3 DEF p, q
    <3> QED BY <1>2, <3>0, <3>2, <3>3, <3>5
  <2>5. th' \in [Thread -> Progress]
    <3>1. th' = [s \in Thread |-> th'[s]]
      BY <2>1 DEF InThreads
    <3> QED BY <2>4, <3>1
  <2>6. ASSUME NEW u \in Username
        PROVE  /\ entry'[u] = None <=> entry[u] = None
               /\ entry'[u] \in {None} \cup Cached
               /\ entry[u] # None => /\ entry'[u].age = entry[u].age
                                     /\ Deleted(rows[th[t].user], entry[u].user, entry'[u].user)
    <3>1. entry'[u] = IF entry[u] = None THEN None ELSE [entry[u] EXCEPT !.user = Gone(entry[u].user)]
      BY <2>1 DEF InCache
    <3>2. CASE entry[u] # None
      <4>1. entry[u] \in Cached /\ entry[u].user \in Account
        BY <3>2 DEF Typed, AccountsType, Cached
      <4> DEFINE y == Gone(entry[u].user)
      <4>2. y \in Account /\ Deleted(rows[th[t].user], entry[u].user, y)
        BY <2>3, <4>1
      <4> HIDE DEF y
      <4>3. entry'[u] = [entry[u] EXCEPT !.user = y]
        BY <3>1, <3>2 DEF y
      <4> QED BY <3>2, <4>1, <4>2, <4>3, CopyCached
    <3> QED BY <3>1, <3>2
  <2>7. entry' \in [Username -> {None} \cup Cached]
    <3>1. entry' = [u \in Username |-> entry'[u]]
      BY <2>1 DEF InCache
    <3> QED BY <2>6, <3>1
  <2> QED BY <2>4, <2>5, <2>6, <2>7 DEF Delete, At
<1> QED BY <1>4, <1>5

\* Time passing: a copy is as much older.
LEMMA OlderTyped ==
  ASSUME NEW x \in Account
  PROVE  LET y == IF x.gone \in 0..Window THEN [x EXCEPT !.gone = x.gone + 1] ELSE x
         IN  Elapsed(x, y) /\ y \in Account
<1> DEFINE z == [x EXCEPT !.gone = x.gone + 1]
<1>1. /\ z \in Account /\ z.gone = x.gone + 1
      /\ z.username = x.username /\ z.hash = x.hash /\ z.admin = x.admin
  BY DEF Account
<1> HIDE DEF z
<1>2. (x.gone \in 0..Window => Elapsed(x, z)) /\ Elapsed(x, x)
  BY <1>1, NoneApart DEF Elapsed, Copied, Present
<1> QED BY <1>1, <1>2 DEF z

\* What time passing does to every thread and cache entry: copies of deleted
\* rows grow older, tokens and cache entries come nearer their end, and no
\* thread at work has been so for longer than MaxDelay.
LEMMA TickMoved ==
  ASSUME Typed, Tick
  PROVE  /\ th' \in [Thread -> Progress]
         /\ UNCHANGED <<env, seeded, rows, life, deaths, cacheFaults>>
         /\ \A s \in Thread :
              /\ th'[s].pc = th[s].pc /\ th'[s].user = th[s].user /\ th'[s].on = th[s].on
              /\ \/ th[s].pc \in AtRest /\ th'[s].ran = th[s].ran
                 \/ th[s].pc \notin AtRest /\ th[s].ran < MaxDelay /\ th'[s].ran = th[s].ran + 1
              /\ Elapsed(th[s].got, th'[s].got)
              /\ SameBearer(th[s].token, th'[s].token)
              /\ th[s].token # None =>
                   /\ th'[s].token.left = IF th[s].token.left > 0 THEN th[s].token.left - 1 ELSE 0
                   /\ Elapsed(th[s].token.user, th'[s].token.user)
         /\ \A u \in Username :
              /\ entry'[u] \in {None} \cup Cached
              /\ entry'[u] # None => /\ entry[u] # None
                                     /\ entry'[u].age = entry[u].age + 1
                                     /\ entry'[u].age < CacheTTL
                                     /\ Elapsed(entry[u].user, entry'[u].user)
         /\ entry' \in [Username -> {None} \cup Cached]
<1> DEFINE Older(x) == IF x.gone \in 0..Window THEN [x EXCEPT !.gone = x.gone + 1] ELSE x
           Left(k) == IF k.left > 0 THEN k.left - 1 ELSE 0
           Ran == [t \in Thread |-> [th[t] EXCEPT
                     !.ran = IF Busy(t) THEN th[t].ran + 1 ELSE th[t].ran,
                     !.token = IF th[t].token = None THEN th[t].token
                               ELSE [th[t].token EXCEPT !.left = Left(th[t].token)]]]
           Kept == [u \in Username |->
                      IF entry[u] = None \/ entry[u].age + 1 >= CacheTTL THEN None
                      ELSE [entry[u] EXCEPT !.age = entry[u].age + 1]]
<1>1. th \in [Thread -> Progress]
  BY DEF Typed, AccountsType
<1>2. th' = InThreads(Ran, Older) /\ entry' = InCache(Kept, Older)
  BY DEF Tick
<1>3. ASSUME NEW x \in Account PROVE Elapsed(x, Older(x)) /\ Older(x) \in Account
  BY OlderTyped
<1>4. ASSUME NEW s \in Thread
      PROVE  /\ Ran[s] \in Progress
             /\ Ran[s].pc = th[s].pc /\ Ran[s].user = th[s].user /\ Ran[s].on = th[s].on
             /\ Ran[s].ran = IF Busy(s) THEN th[s].ran + 1 ELSE th[s].ran
             /\ Ran[s].got = th[s].got
             /\ SameBearer(th[s].token, Ran[s].token)
             /\ th[s].token # None =>
                  /\ Ran[s].token.left = Left(th[s].token)
                  /\ Ran[s].token.user = th[s].token.user
  <2> DEFINE token == th[s].token
             k == IF token = None THEN token ELSE [token EXCEPT !.left = Left(token)]
             n == IF Busy(s) THEN th[s].ran + 1 ELSE th[s].ran
             p == th[s]
  <2>1. p \in Progress /\ token \in {None} \cup Bearer /\ n \in Nat
    BY <1>1 DEF Progress
  <2>2. /\ k \in {None} \cup Bearer /\ SameBearer(token, k)
        /\ token # None => k.left = Left(token) /\ k.user = token.user
    <3>1. CASE token = None
      BY <3>1 DEF SameBearer
    <3>2. CASE token # None
      <4>1. token \in Bearer /\ token.left \in Nat
        BY <2>1, <3>2 DEF Bearer
      <4> DEFINE m == Left(token)
      <4>2. m \in Nat
        BY <4>1
      <4> HIDE DEF m
      <4>3. k = [token EXCEPT !.left = m]
        BY <3>2 DEF m
      <4> HIDE DEF k
      <4>4. /\ k \in Bearer /\ k.left = m /\ k.user = token.user
            /\ k.sub = token.sub /\ k.admin = token.admin
        BY <4>1, <4>2, <4>3 DEF Bearer
      <4>5. k # None
        BY <4>4, NoneApart
      <4> QED BY <3>2, <4>4, <4>5 DEF SameBearer, m
    <3> QED BY <3>1, <3>2
  <2>3. Ran[s] = [p EXCEPT !.ran = n, !.token = k]
    OBVIOUS
  <2> DEFINE q == Ran[s]
  <2>4. q = [p EXCEPT !.ran = n, !.token = k]
    BY <2>3
  <2> HIDE DEF Ran, n, k, p, q
  <2>5. /\ q \in Progress /\ q.got = p.got /\ q.token = k
        /\ q.pc = p.pc /\ q.user = p.user /\ q.on = p.on /\ q.ran = n
    BY <2>1, <2>2, <2>4 DEF Progress
  <2> QED BY <2>2, <2>5 DEF n, p, q
<1>5. ASSUME NEW s \in Thread
      PROVE  /\ th'[s] \in Progress
             /\ th'[s].pc = th[s].pc /\ th'[s].user = th[s].user /\ th'[s].on = th[s].on
             /\ th'[s].ran = Ran[s].ran
             /\ Elapsed(th[s].got, th'[s].got)
             /\ SameBearer(th[s].token, th'[s].token)
             /\ th[s].token # None =>
                  /\ th'[s].token.left = Left(th[s].token)
                  /\ Elapsed(th[s].token.user, th'[s].token.user)
  <2> HIDE DEF Ran, Left
  <2> DEFINE got == Ran[s].got
             token == Ran[s].token
             g == IF got = None THEN got ELSE Older(got)
             k == IF token = None THEN token ELSE [token EXCEPT !.user = Older(token.user)]
             p == Ran[s]
             q == th'[s]
  <2>1. /\ p \in Progress /\ got = th[s].got
        /\ got \in {None} \cup Account /\ token \in {None} \cup Bearer
    BY <1>4 DEF Progress
  <2>2. g \in {None} \cup Account /\ Elapsed(got, g)
    <3>1. CASE got = None
      BY <3>1 DEF Elapsed, Copied
    <3>2. CASE got # None
      BY <1>3, <2>1, <3>2
    <3> QED BY <3>1, <3>2
  <2>3. /\ k \in {None} \cup Bearer /\ SameBearer(token, k)
        /\ token # None => k.left = token.left /\ Elapsed(token.user, k.user)
    <3>1. CASE token = None
      BY <3>1 DEF SameBearer
    <3>2. CASE token # None
      <4>1. token \in Bearer /\ token.user \in Account
        BY <2>1, <3>2 DEF Bearer
      <4> DEFINE y == Older(token.user)
      <4>2. y \in Account /\ Elapsed(token.user, y)
        BY <1>3, <4>1
      <4> HIDE DEF y
      <4>3. k = [token EXCEPT !.user = y]
        BY <3>2 DEF y
      <4> HIDE DEF k
      <4> QED BY <3>2, <4>1, <4>2, <4>3, CopyBearer DEF SameBearer
    <3> QED BY <3>1, <3>2
  <2>4. q = [p EXCEPT !.got = g, !.token = k]
    BY <1>2 DEF InThreads
  <2> HIDE DEF g, k, p, q
  <2>5. /\ q \in Progress /\ q.got = g /\ q.token = k
        /\ q.pc = p.pc /\ q.user = p.user /\ q.on = p.on /\ q.ran = p.ran
    BY <2>1, <2>2, <2>3, <2>4 DEF Progress
  <2>6. /\ SameBearer(th[s].token, token)
        /\ th[s].token # None => /\ token.left = Left(th[s].token)
                                 /\ token.user = th[s].token.user
    BY <1>4
  <2>7. SameBearer(th[s].token, k)
    BY <2>3, <2>6 DEF SameBearer
  <2>8. th[s].token # None => k.left = Left(th[s].token) /\ Elapsed(th[s].token.user, k.user)
    BY <2>3, <2>6 DEF SameBearer
  <2> QED BY <1>4, <2>1, <2>2, <2>5, <2>7, <2>8 DEF p, q
<1>6. th' \in [Thread -> Progress]
  <2> HIDE DEF Ran, Older
  <2>1. th' = [s \in Thread |-> th'[s]]
    BY <1>2 DEF InThreads
  <2> QED BY <1>5, <2>1
<1>7. ASSUME NEW u \in Username
      PROVE  /\ entry'[u] \in {None} \cup Cached
             /\ entry'[u] # None => /\ entry[u] # None
                                    /\ entry'[u].age = entry[u].age + 1
                                    /\ entry'[u].age < CacheTTL
                                    /\ Elapsed(entry[u].user, entry'[u].user)
  <2>1. entry'[u] = IF Kept[u] = None THEN None ELSE [Kept[u] EXCEPT !.user = Older(Kept[u].user)]
    BY <1>2 DEF InCache
  <2>2. CASE Kept[u] # None
    <3>1. /\ entry[u] # None /\ ~(entry[u].age + 1 >= CacheTTL)
          /\ Kept[u] = [entry[u] EXCEPT !.age = entry[u].age + 1]
      BY <2>2
    <3>2. entry[u] \in Cached
      BY <3>1 DEF Typed, AccountsType
    <3> DEFINE e == entry[u]
               d == Kept[u]
    <3>3. d = [e EXCEPT !.age = e.age + 1] /\ e \in Cached
      BY <3>1, <3>2
    <3> HIDE DEF e, d
    <3>4. d \in Cached /\ d.age = e.age + 1 /\ d.user = e.user /\ e.user \in Account
      BY <3>3 DEF Cached
    <3> DEFINE y == Older(e.user)
    <3>5. y \in Account /\ Elapsed(e.user, y)
      BY <1>3, <3>4
    <3>6. y = Older(Kept[u].user)
      BY <3>4 DEF d
    <3> HIDE DEF y
    <3>7. entry'[u] = [d EXCEPT !.user = y]
      BY <2>1, <2>2, <3>6 DEF d
    <3>8. /\ entry'[u] \in Cached /\ entry'[u].user = y /\ entry'[u].age = d.age
          /\ entry'[u] # None
      BY <3>4, <3>5, <3>7, CopyCached
    <3>9. e.age + 1 < CacheTTL
      BY <3>1, <3>2, AccountsAssumption DEF e, Cached
    <3> QED BY <3>1, <3>4, <3>5, <3>8, <3>9 DEF e
  <2> QED BY <2>1, <2>2
<1>8. entry' \in [Username -> {None} \cup Cached]
  <2>1. entry' = [u \in Username |-> entry'[u]]
    BY <1>2 DEF InCache
  <2> QED BY <1>7, <2>1
<1>9. \A s \in Thread : \/ th[s].pc \in AtRest /\ Ran[s].ran = th[s].ran
                        \/ th[s].pc \notin AtRest /\ th[s].ran < MaxDelay /\ Ran[s].ran = th[s].ran + 1
  <2> HIDE DEF Ran, Left, Kept
  <2>1. \A s \in Thread : Busy(s) => th[s].ran < MaxDelay
    BY DEF Tick
  <2>2. ASSUME NEW s \in Thread
        PROVE  \/ th[s].pc \in AtRest /\ Ran[s].ran = th[s].ran
               \/ th[s].pc \notin AtRest /\ th[s].ran < MaxDelay /\ Ran[s].ran = th[s].ran + 1
    <3>1. Busy(s) <=> th[s].pc \notin AtRest
      BY DEF Busy, AtRest
    <3>2. Ran[s].ran = IF Busy(s) THEN th[s].ran + 1 ELSE th[s].ran
      BY <1>4
    <3> HIDE DEF Busy
    <3>3. QED BY <2>1, <3>1, <3>2
  <2> QED BY <2>2
<1>10. UNCHANGED <<env, seeded, rows, life, deaths, cacheFaults>>
  BY DEF Tick
<1> HIDE DEF Ran
<1> QED BY <1>5, <1>6, <1>7, <1>8, <1>9, <1>10

\* The process of a replica dies: it and its calls are over.
LEMMA DieMoved ==
  ASSUME Typed, NEW r \in Replica, Die(r)
  PROVE  /\ th' \in [Thread -> Progress] /\ deaths' = deaths + 1
         /\ UNCHANGED <<env, seeded, rows, entry, cacheFaults>> /\ life' \in [Replica -> Nat]
         /\ \A s \in Thread :
              \/ th'[s] = th[s]
              \/ s = r /\ th'[s] = Idle
              \/ s \in Call /\ th'[s] = Answered("refused")
<1>1. th' = [s \in Thread |-> IF s = r THEN Idle
                             ELSE IF s \in Call /\ Busy(s) /\ th[s].on = r
                             THEN Answered("refused") ELSE th[s]]
  BY DEF Die
<1>2. "refused" \in Stage
  BY DEF Stage
<1>3. Idle \in Progress /\ Answered("refused") \in Progress
  BY <1>2, IdleType
<1>4. \A s \in Thread : /\ th'[s] \in Progress
                        /\ \/ th'[s] = th[s]
                           \/ s = r /\ th'[s] = Idle
                           \/ s \in Call /\ th'[s] = Answered("refused")
  BY <1>1, <1>3 DEF Typed, AccountsType
<1>5. th' \in [Thread -> Progress]
  <2>1. th' = [s \in Thread |-> th'[s]]
    BY <1>1
  <2> QED BY <1>4, <2>1
<1>6. life' \in [Replica -> Nat]
  BY DEF Die, Typed, AccountsType
<1> QED BY <1>4, <1>5, <1>6 DEF Die

-----------------------------------------------------------------------------
(* Types *)

\* Thread t may go on as it is placed.
LEMMA MovedPlaced ==
  ASSUME Typed, NEW t \in Thread, NEW pc, NEW got, Moved(t, pc, got) \/ Reset(t, pc),
         Placed(t, th'[t])
  PROVE  \A s \in Thread : Placed(s, th'[s])
BY DEF Typed, Moved, Reset

\* Typed is inductive: the repository's steps,
LEMMA RepositoryTyped == ASSUME Typed, NEW t \in Thread, Repository(t) PROVE Typed'
<1>1. th[t] \in Progress /\ Placed(t, th[t]) /\ th[t].user \in Username
  BY DEF Typed, AccountsType, Progress
<1>2. t \in Replica => t \notin Call
  BY AccountsAssumption
<1>3. CASE LookupUser(t)
  <2>1. \A s \in Thread : Placed(s, th'[s])
    <3>1. Placed(t, th'[t])
      BY <1>1, <1>3, LookupMoved, NoneApart DEF Moved, Placed, AtRest, Holding
    <3> QED BY <1>3, <3>1, LookupMoved, MovedPlaced
  <2> QED BY <1>3, <2>1, LookupMoved DEF Typed, AccountsType, Moved, Still
<1>4. CASE Select(t)
  <2>1. \A s \in Thread : Placed(s, th'[s])
    <3>1. Placed(t, th'[t])
      BY <1>1, <1>4, SelectMoved, NoneApart DEF Moved, Placed, AtRest, Holding
    <3> QED BY <1>4, <3>1, SelectMoved, MovedPlaced
  <2> QED BY <1>4, <2>1, SelectMoved DEF Typed, AccountsType, Moved, Still
<1>5. CASE Populate(t)
  <2>1. \A s \in Thread : Placed(s, th'[s])
    <3>1. Placed(t, th'[t])
      BY <1>1, <1>5, PopulateMoved DEF Moved, Placed, AtRest, Holding
    <3> QED BY <1>5, <3>1, PopulateMoved, MovedPlaced
  <2>2. th[t].got \in Account
    BY <1>5, PopulateMoved, HeldType DEF Holding
  <2>3. entry' \in [Username -> {None} \cup Cached] /\ cacheFaults' \in Nat
    BY <1>1, <1>5, <2>2, PopulateMoved, PutTyped
  <2> QED BY <1>5, <2>1, <2>3, PopulateMoved DEF Typed, AccountsType, Moved
<1>6. CASE Invalidate(t)
  <2>1. \A s \in Thread : Placed(s, th'[s])
    <3>1. Placed(t, th'[t])
      BY <1>1, <1>2, <1>6, InvalidateMoved DEF Moved, Placed, AtRest, Holding
    <3> QED BY <1>6, <3>1, InvalidateMoved, MovedPlaced
  <2>2. entry' \in [Username -> {None} \cup Cached]
    BY <1>6, InvalidateMoved DEF Typed, AccountsType
  <2> QED BY <1>6, <2>1, <2>2, InvalidateMoved DEF Typed, AccountsType, Moved
<1>7. CASE Insert(t)
  <2>1. \A s \in Thread : Placed(s, th'[s])
    <3>1. Placed(t, th'[t])
      BY <1>1, <1>2, <1>7, InsertMoved DEF Moved, Reset, Placed, AtRest, Holding
    <3> QED BY <1>7, <3>1, InsertMoved, MovedPlaced
  <2>2. th[t].got \in Account
    BY <1>7, InsertMoved, HeldType DEF Holding
  <2>3. rows' \in [Username -> {None} \cup Account]
    BY <1>7, <2>2, InsertMoved DEF Typed, AccountsType
  <2> QED BY <1>7, <2>1, <2>3, InsertMoved DEF Typed, AccountsType, Moved, Reset
<1>8. CASE Store(t)
  <2>1. \A s \in Thread : Placed(s, th'[s])
    <3>1. Placed(t, th'[t])
      BY <1>1, <1>2, <1>8, StoreMoved DEF Moved, Reset, Placed, AtRest, Holding
    <3> QED BY <1>8, <3>1, StoreMoved, MovedPlaced
  <2>2. th[t].got \in Account
    BY <1>8, StoreMoved, HeldType DEF Holding
  <2>3. entry' \in [Username -> {None} \cup Cached] /\ cacheFaults' \in Nat
    BY <1>1, <1>8, <2>2, StoreMoved, PutTyped
  <2> QED BY <1>8, <2>1, <2>3, StoreMoved DEF Typed, AccountsType, Moved, Reset
<1>9. CASE Delete(t)
  <2>1. \A s \in Thread : Placed(s, th'[s])
    <3> SUFFICES ASSUME NEW s \in Thread PROVE Placed(s, th'[s])
      OBVIOUS
    <3>1. Placed(s, th[s])
      BY DEF Typed
    <3>2. /\ th'[s].pc = IF s = t THEN "invalidate" ELSE th[s].pc
          /\ th[t].pc = "delete" /\ th'[s].user = th[s].user /\ th'[s].on = th[s].on
          /\ th[s].got = None <=> th'[s].got = None
      BY <1>9, DeleteMoved DEF Deleted, Copied
    <3> QED BY <3>1, <3>2 DEF Placed, AtRest, Holding
  <2>2. rows' \in [Username -> {None} \cup Account]
    BY <1>9, DeleteMoved DEF Typed, AccountsType
  <2> QED BY <1>9, <2>1, <2>2, DeleteMoved DEF Typed, AccountsType
<1> QED BY <1>3, <1>4, <1>5, <1>6, <1>7, <1>8, <1>9 DEF Repository

\* a replica's start,
LEMMA StartupTyped == ASSUME Typed, NEW r \in Replica, Startup(r) PROVE Typed'
<1>1. r \in Thread /\ r \notin Call /\ Placed(r, th[r])
  BY AccountsAssumption DEF Thread, Typed
<1>2. CASE Start(r)
  <2>1. Placed(r, th'[r])
    BY <1>1, <1>2, StartMoved DEF Reset, Placed, AtRest, Holding
  <2>2. \A s \in Thread : Placed(s, th'[s])
    BY <1>1, <1>2, <2>1, StartMoved, MovedPlaced
  <2> QED BY <1>2, <2>2, StartMoved DEF Typed, AccountsType, Reset, Still
<1>3. CASE Bootstrap(r)
  <2>1. Placed(r, th'[r])
    BY <1>1, <1>3, BootstrapMoved, NewAdminType, NoneApart
       DEF Moved, Reset, Placed, AtRest, Holding
  <2>2. \A s \in Thread : Placed(s, th'[s])
    BY <1>1, <1>3, <2>1, BootstrapMoved, MovedPlaced
  <2> QED BY <1>3, <2>2, BootstrapMoved DEF Typed, AccountsType, Moved, Reset, Still
<1>4. CASE ConfigureSigner(r)
  <2>1. Placed(r, th'[r])
    BY <1>1, <1>4, SignerMoved DEF Reset, Placed, AtRest, Holding
  <2>2. \A s \in Thread : Placed(s, th'[s])
    BY <1>1, <1>4, <2>1, SignerMoved, MovedPlaced
  <2> QED BY <1>4, <2>2, SignerMoved DEF Typed, AccountsType, Reset, Still
<1> QED BY <1>2, <1>3, <1>4 DEF Startup

\* What a client or the console does to its thread
LEMMA ConsoleMoved ==
  ASSUME Typed, NEW c \in Call, Console(c)
  PROVE  LET token == th[c].token IN
         /\ Still /\ UNCHANGED cacheFaults
         /\ \/ th[c].pc = "idle" /\ \E r \in Replica, u \in Username : Begun(c, r, u)
            \/ th[c].pc = "got" /\ th[c].got \in Account /\ SignedIn(c)
            \/ /\ th[c].pc = "signed in" /\ token # None /\ token.left > 0 /\ token.admin
               /\ \E r \in Replica : Creating(c, r)
            \/ th[c].pc = "signed in" /\ token # None /\ token.left > 0 /\ Reset(c, "served")
            \/ Reset(c, "refused")
<1> DEFINE Went ==
         LET token == th[c].token IN
         /\ Still /\ UNCHANGED cacheFaults
         /\ \/ th[c].pc = "idle" /\ \E r \in Replica, u \in Username : Begun(c, r, u)
            \/ th[c].pc = "got" /\ th[c].got \in Account /\ SignedIn(c)
            \/ /\ th[c].pc = "signed in" /\ token # None /\ token.left > 0 /\ token.admin
               /\ \E r \in Replica : Creating(c, r)
            \/ th[c].pc = "signed in" /\ token # None /\ token.left > 0 /\ Reset(c, "served")
            \/ Reset(c, "refused")
<1>1. ASSUME NEW r \in Replica, NEW u \in Username, NEW pw \in Phrase, BeginLogin(c, r, u, pw)
      PROVE  Went
  BY <1>1, LoginBegun
<1>2. ASSUME NEW r \in Replica, NEW adminOnly \in BOOLEAN, Use(c, r, adminOnly)
      PROVE  Went
  BY <1>2, UseMoved
<1>3. ASSUME Set(c, Answered("refused")), Untouched
      PROVE  Went
  <2>1. "refused" \in Stage /\ c \in Thread
    BY DEF Stage, Thread
  <2>2. Reset(c, "refused")
    BY <1>3, <2>1, ResetAnswered
  <2> QED BY <1>3, <2>2 DEF Untouched, Still
<1>4. SeedPassword \in Phrase /\ AdminUsername \in Username
  BY DEF SeedPassword, Phrase, Password, Username
<1>5. CASE Token(c) \/ AuthHandler(c) \/ TryToken(c)
  <2>1. PICK r \in Replica, u \in Username, pw \in Phrase : BeginLogin(c, r, u, pw)
    BY <1>4, <1>5, CredentialsType DEF Token, AuthHandler, IssueFromBasic, TryToken
  <2> QED BY <1>1, <2>1
<1>6. CASE TryRest(c) \/ CallApi(c)
  <2>1. PICK r \in Replica, adminOnly \in BOOLEAN : Use(c, r, adminOnly)
    BY <1>6 DEF TryRest, ExecuteAndFill, CallApi
  <2> QED BY <1>2, <2>1
<1>7. CASE Logout(c) \/ \E card \in Card : Shown(c, card)
  <2>1. Set(c, Answered("refused")) /\ Untouched
    BY <1>7 DEF Logout, Shown
  <2> QED BY <1>3, <2>1
<1>8. CASE Login(c)
  BY <1>8, LoginMoved
<1> QED BY <1>5, <1>6, <1>7, <1>8 DEF Console

\* the calls,
LEMMA ConsoleTyped == ASSUME Typed, NEW c \in Call, Console(c) PROVE Typed'
<1>1. c \in Thread /\ c \notin Replica /\ Placed(c, th[c])
  BY AccountsAssumption DEF Thread, Typed
<1>2. th' \in [Thread -> Progress] /\ \A s \in Thread : s # c => th'[s] = th[s]
  BY ConsoleMoved DEF Begun, SignedIn, Creating, Reset
<1>3. Placed(c, th'[c])
  <2>2. CASE \E r \in Replica, u \in Username : Begun(c, r, u)
    BY <1>1, <2>2 DEF Begun, Placed, AtRest, Holding
  <2>3. CASE SignedIn(c)
    BY <1>1, <2>3 DEF SignedIn, Placed, AtRest, Holding
  <2>4. CASE \E r \in Replica : Creating(c, r)
    BY <1>1, <2>4, NoneApart DEF Creating, Placed, AtRest, Holding
  <2>5. CASE Reset(c, "served") \/ Reset(c, "refused")
    BY <1>1, <2>5 DEF Reset, Placed, AtRest, Holding
  <2> QED BY <2>2, <2>3, <2>4, <2>5, ConsoleMoved
<1>4. Still /\ UNCHANGED cacheFaults
  BY ConsoleMoved
<1> QED BY <1>2, <1>3, <1>4 DEF Typed, AccountsType, Still

\* all the steps,
LEMMA NextTyped == ASSUME Typed, [ConsoleNext]_accountVars PROVE Typed'
<1>1. CASE \E t \in Thread : Repository(t)
  BY <1>1, RepositoryTyped
<1>2. CASE \E r \in Replica : Startup(r)
  BY <1>2, StartupTyped
<1>3. CASE \E r \in Replica : Die(r)
  <2>1. PICK r \in Replica : Die(r)
    BY <1>3
  <2>2. \A s \in Thread : Placed(s, Idle) \/ s \notin Replica
    BY IdleFields, AccountsAssumption DEF Placed, AtRest, Holding
  <2>3. \A s \in Call : Placed(s, Answered("refused"))
    BY IdleFields, AccountsAssumption DEF Placed, AtRest, Holding
  <2>4. \A s \in Thread : Placed(s, th'[s])
    BY <2>1, <2>2, <2>3, DieMoved DEF Typed
  <2> QED BY <2>1, <2>4, DieMoved DEF Typed, AccountsType
<1>4. CASE \E c \in Call : Console(c)
  BY <1>4, ConsoleTyped
<1>5. CASE Tick
  <2>1. \A s \in Thread : Placed(s, th'[s])
    BY <1>5, TickMoved, ZenonT(30) DEF Typed, Placed, Elapsed, Copied
  <2> QED BY <1>5, <2>1, TickMoved DEF Typed, AccountsType
<1>6. CASE UNCHANGED accountVars
  BY <1>6 DEF accountVars, Typed, AccountsType
<1> QED BY <1>1, <1>2, <1>3, <1>4, <1>5, <1>6 DEF ConsoleNext

\* and the initial states.
LEMMA InitTyped == ASSUME AccountsInit PROVE Typed
<1>1. SeedAdminHash \in [pw : Phrase, salt : Nat]
  BY DEF SeedAdminHash, Hash, SeedPassword, Phrase, Password
<1>2. Record(AdminUsername, SeedAdminHash, TRUE) \in Account
  BY <1>1 DEF Record, Account, Username, Present
<1>3. rows \in [Username -> {None} \cup Account]
  BY <1>2 DEF AccountsInit
<1>4. th \in [Thread -> Progress] /\ \A s \in Thread : th[s] = Idle
  BY IdleType DEF AccountsInit
<1>5. \A s \in Thread : Placed(s, th[s])
  BY <1>4, IdleFields, AccountsAssumption DEF Placed, AtRest, Holding
<1>6. env \in [prod : BOOLEAN, supplied : BOOLEAN, key : BOOLEAN]
  BY AccountsAssumption DEF AccountsInit
<1>7. entry \in [Username -> {None} \cup Cached] /\ life \in [Replica -> Nat]
      /\ deaths \in Nat /\ cacheFaults \in Nat /\ seeded \in BOOLEAN
  BY DEF AccountsInit
<1> QED BY <1>3, <1>4, <1>5, <1>6, <1>7 DEF Typed, AccountsType
-----------------------------------------------------------------------------
(* How old a copy of a user can be *)

\* The longest that a cached user, and a user a login has read, may be gone
CacheWindow == MaxDelay + (CacheTTL - 1)

\* A thread that read the row has it for as long as it runs, one that read
\* the cache for as long as an entry lives on top; a token outlives its login
\* by the time that has passed since.
Aged(p) ==
  /\ p.ran <= MaxDelay
  /\ p.got # None => p.got.gone <= CacheWindow + p.ran
  /\ p.pc \in Holding => p.got.gone <= p.ran
  /\ p.token # None =>
       /\ p.token.sub = p.token.user.username /\ p.token.admin = p.token.user.admin
       /\ p.token.left <= TokenTTL
       /\ p.token.left > 0 =>
            p.token.user.gone <= CacheWindow + MaxDelay + (TokenTTL - p.token.left)

\* The same of every thread, and of the cache: an entry is younger than CacheTTL
\* and was filled from a row that was there at most MaxDelay before.
AgeInv ==
  /\ \A t \in Thread : Aged(th[t])
  /\ \A u \in Username : entry[u] # None =>
       /\ entry[u].age <= CacheTTL - 1
       /\ entry[u].user.gone <= MaxDelay + entry[u].age

\* The constants of time are numbers.
LEMMA Times == /\ CacheTTL \in Nat \ {0} /\ TokenTTL \in Nat \ {0} /\ MaxDelay \in Nat
               /\ CacheWindow \in Nat /\ MaxDelay <= CacheWindow
BY AccountsAssumption DEF CacheWindow

\* A thread that is over, or begins, holds nothing old.
LEMMA ResetAged ==
  ASSUME NEW p \in Progress, p.got = None, p.token = None, p.ran = 0, p.pc \notin Holding
  PROVE  Aged(p)
BY Times DEF Aged

\* Only the one thread has changed.
LEMMA OneAged ==
  ASSUME AgeInv, NEW t \in Thread, \A s \in Thread : s # t => th'[s] = th[s], Aged(th'[t])
  PROVE  \A s \in Thread : Aged(th'[s])
<1> SUFFICES ASSUME NEW s \in Thread PROVE Aged(th'[s]) OBVIOUS
<1>1. CASE s = t BY <1>1
<1>2. CASE s # t
  <2>1. Aged(th[s]) /\ th'[s] = th[s]
    BY <1>2 DEF AgeInv
  <2> QED BY <2>1
<1> QED BY <1>1, <1>2

\* The ages of a step that moves one thread on
LEMMA MovedAged ==
  ASSUME Typed, AgeInv, NEW t \in Thread, NEW pc \in Stage, NEW got \in {None} \cup Account,
         Moved(t, pc, got),
         got # None => got.gone <= CacheWindow + th[t].ran,
         pc \in Holding => got.gone <= th[t].ran
  PROVE  \A s \in Thread : Aged(th'[s])
<1>1. Aged(th[t])
  BY DEF AgeInv
<1>2. Aged(th'[t])
  BY <1>1 DEF Moved, Aged
<1> QED BY <1>2, OneAged DEF Moved

\* One thread reset leaves every thread within its ages.
LEMMA ResetAllAged ==
  ASSUME Typed, AgeInv, NEW t \in Thread, NEW pc \in Stage \ Holding, Reset(t, pc)
  PROVE  \A s \in Thread : Aged(th'[s])
<1>1. th'[t] \in Progress
  BY DEF Reset
<1>2. Aged(th'[t])
  BY <1>1, ResetAged DEF Reset
<1> QED BY <1>2, OneAged DEF Reset

\* A cache left alone stays within its ages.
LEMMA SameCacheAged ==
  ASSUME AgeInv, entry' = entry, \A s \in Thread : Aged(th'[s])
  PROVE  AgeInv'
BY DEF AgeInv, Aged, CacheWindow

\* populateCache with a user that has been gone for no longer than the call
LEMMA PutAged ==
  ASSUME Typed, AgeInv, NEW t \in Thread, th[t].pc \in Holding,
         PutCache(th[t].user, th[t].got), \A s \in Thread : Aged(th'[s])
  PROVE  AgeInv'
<1>1. th[t].got \in Account /\ th[t].user \in Username
  BY HeldType
<1>2. th[t].got.gone <= MaxDelay
  <2>1. th[t].got.gone <= th[t].ran /\ th[t].ran <= MaxDelay
    BY DEF AgeInv, Aged
  <2>2. th[t].got.gone \in Int /\ th[t].ran \in Nat
    BY <1>1 DEF Account, Typed, AccountsType, Progress
  <2> QED BY <2>1, <2>2, Times
<1> DEFINE new == [user |-> th[t].got, age |-> 0]
<1>3. entry' = entry \/ entry' = [entry EXCEPT ![th[t].user] = new]
  BY <1>1, PutTyped
<1>4. CASE entry' = entry
  BY <1>4, SameCacheAged
<1>5. CASE entry' = [entry EXCEPT ![th[t].user] = new]
  <2>1. new.user = th[t].got /\ new.age = 0
    OBVIOUS
  <2>2. new.age <= CacheTTL - 1 /\ new.user.gone <= MaxDelay + new.age
    <3>1. th[t].got.gone \in Int
      BY <1>1 DEF Account
    <3> QED BY <1>2, <2>1, <3>1, Times
  <2> HIDE DEF new
  <2>3. \A u \in Username : entry'[u] = IF u = th[t].user THEN new ELSE entry[u]
    BY <1>5 DEF Typed, AccountsType
  <2>4. \A u \in Username : entry'[u] # None =>
          entry'[u].age <= CacheTTL - 1 /\ entry'[u].user.gone <= MaxDelay + entry'[u].age
    BY <2>2, <2>3 DEF AgeInv
  <2> QED BY <2>4 DEF AgeInv, Aged, CacheWindow
<1> QED BY <1>3, <1>4, <1>5

\* A thread's numbers
LEMMA Numbers ==
  ASSUME Typed, NEW t \in Thread
  PROVE  /\ th[t] \in Progress /\ th[t].ran \in Nat /\ th[t].user \in Username
         /\ th[t].got # None => th[t].got \in Account /\ th[t].got.gone \in Int
         /\ th[t].token # None => /\ th[t].token \in Bearer /\ th[t].token.left \in Nat
                                  /\ th[t].token.user \in Account
                                  /\ th[t].token.user.gone \in Int
BY DEF Typed, AccountsType, Progress, Account, Bearer

\* Fresh: gone for no longer than the thread runs, so within the cache's window
LEMMA FreshAged ==
  ASSUME Typed, NEW t \in Thread, NEW x \in Account, x.gone <= th[t].ran
  PROVE  x.gone <= CacheWindow + th[t].ran
<1>1. x.gone \in Int /\ th[t].ran \in Nat
  BY Numbers DEF Account
<1> QED BY <1>1, Times

\* A deletion makes no copy older.
LEMMA DeleteAged == ASSUME Typed, AgeInv, NEW t \in Thread, Delete(t) PROVE AgeInv'
<1>1. ASSUME NEW s \in Thread PROVE Aged(th'[s])
  <2>1. Aged(th[s]) /\ (th[s].pc \in Holding => th[s].got # None)
    BY DEF AgeInv, Typed, Placed
  <2>2. /\ th'[s].pc = IF s = t THEN "invalidate" ELSE th[s].pc
        /\ th'[s].ran = th[s].ran /\ Deleted(rows[th[t].user], th[s].got, th'[s].got)
        /\ SameBearer(th[s].token, th'[s].token)
        /\ th[s].token # None => /\ th'[s].token.left = th[s].token.left
                                 /\ Deleted(rows[th[t].user], th[s].token.user, th'[s].token.user)
        /\ th[t].pc = "delete"
    BY DeleteMoved
  <2>3. th'[s].pc \in Holding => th[s].pc \in Holding
    BY <2>2 DEF Holding
  <2>4. /\ th'[s].ran <= MaxDelay
        /\ th'[s].got # None => th'[s].got.gone <= CacheWindow + th'[s].ran
        /\ th'[s].pc \in Holding => th'[s].got.gone <= th'[s].ran
    BY <2>1, <2>2, <2>3, Numbers, Times DEF Aged, Deleted, Copied
  <2>5. ASSUME th'[s].token # None
        PROVE  /\ th'[s].token.sub = th'[s].token.user.username
               /\ th'[s].token.admin = th'[s].token.user.admin
               /\ th'[s].token.left <= TokenTTL
               /\ th'[s].token.left > 0 =>
                    th'[s].token.user.gone <= CacheWindow + MaxDelay + (TokenTTL - th'[s].token.left)
    <3>1. th[s].token # None /\ th[s].token.user # None
      BY <2>2, <2>5, Numbers, NoneApart DEF SameBearer
    <3>2. /\ th[s].token.left \in Nat /\ th[s].token.user.gone \in Int
      BY <3>1, Numbers
    <3>3. /\ th[s].token.sub = th[s].token.user.username
          /\ th[s].token.admin = th[s].token.user.admin
          /\ th[s].token.left <= TokenTTL
          /\ th[s].token.left > 0 =>
               th[s].token.user.gone <= CacheWindow + MaxDelay + (TokenTTL - th[s].token.left)
      BY <2>1, <3>1 DEF Aged
    <3>4. /\ th'[s].token.sub = th[s].token.sub /\ th'[s].token.admin = th[s].token.admin
          /\ th'[s].token.left = th[s].token.left
          /\ th'[s].token.user.username = th[s].token.user.username
          /\ th'[s].token.user.admin = th[s].token.user.admin
          /\ th'[s].token.user.gone \in {0, th[s].token.user.gone}
      BY <2>2, <3>1 DEF SameBearer, Deleted, Copied
    <3> QED BY <3>2, <3>3, <3>4, Times
  <2> QED BY <2>4, <2>5 DEF Aged
<1>2. ASSUME NEW u \in Username, entry'[u] # None
      PROVE  entry'[u].age <= CacheTTL - 1 /\ entry'[u].user.gone <= MaxDelay + entry'[u].age
  <2>1. /\ entry[u] # None /\ entry'[u].age = entry[u].age
        /\ Deleted(rows[th[t].user], entry[u].user, entry'[u].user)
    BY <1>2, DeleteMoved
  <2>2. entry[u] \in Cached /\ entry[u].age \in Nat /\ entry[u].user \in Account
        /\ entry[u].user.gone \in Int
    BY <2>1 DEF Typed, AccountsType, Cached, Account
  <2>3. entry[u].age <= CacheTTL - 1 /\ entry[u].user.gone <= MaxDelay + entry[u].age
    BY <2>1 DEF AgeInv
  <2>4. entry'[u].user.gone \in {0, entry[u].user.gone}
    BY <2>1, <2>2, NoneApart DEF Deleted
  <2> QED BY <2>1, <2>2, <2>3, <2>4, Times
<1>3. \A s \in Thread : Aged(th'[s])
  BY <1>1
<1> QED BY <1>2, <1>3 DEF AgeInv, Aged, CacheWindow

\* Time passes for a copy and for what bounds its age.
LEMMA TickAged == ASSUME Typed, AgeInv, Tick PROVE AgeInv'
<1>1. ASSUME NEW s \in Thread PROVE Aged(th'[s])
  <2>1. Aged(th[s]) /\ Placed(s, th[s])
    BY DEF AgeInv, Typed
  <2>2. /\ th'[s].pc = th[s].pc
        /\ \/ th[s].pc \in AtRest /\ th'[s].ran = th[s].ran
           \/ th[s].pc \notin AtRest /\ th[s].ran < MaxDelay /\ th'[s].ran = th[s].ran + 1
        /\ Elapsed(th[s].got, th'[s].got)
        /\ SameBearer(th[s].token, th'[s].token)
        /\ th[s].token # None =>
             /\ th'[s].token.left = IF th[s].token.left > 0 THEN th[s].token.left - 1 ELSE 0
             /\ Elapsed(th[s].token.user, th'[s].token.user)
    BY TickMoved
  <2>3. th'[s].ran \in Nat /\ th'[s].ran <= MaxDelay
    BY <2>1, <2>2, Numbers, Times DEF Aged
  <2>4. ASSUME th'[s].got # None
        PROVE  /\ th'[s].got.gone <= CacheWindow + th'[s].ran
               /\ th'[s].pc \in Holding => th'[s].got.gone <= th'[s].ran
    <3>1. th[s].got # None /\ th'[s].got.gone \in {th[s].got.gone, th[s].got.gone + 1}
      BY <2>2, <2>4 DEF Elapsed, Copied
    <3>2. th[s].pc \notin AtRest /\ th'[s].ran = th[s].ran + 1
      BY <2>1, <2>2, <3>1 DEF Placed
    <3>3. /\ th[s].got.gone <= CacheWindow + th[s].ran
          /\ th[s].pc \in Holding => th[s].got.gone <= th[s].ran
      BY <2>1, <3>1 DEF Aged
    <3>4. th[s].got.gone \in Int /\ th[s].ran \in Nat
      BY <3>1, Numbers
    <3> QED BY <2>2, <3>1, <3>2, <3>3, <3>4, Times
  <2>5. th'[s].pc \in Holding => th'[s].got # None
    BY <2>1, <2>2 DEF Placed, Elapsed, Copied
  <2>6. ASSUME th'[s].token # None
        PROVE  /\ th'[s].token.sub = th'[s].token.user.username
               /\ th'[s].token.admin = th'[s].token.user.admin
               /\ th'[s].token.left <= TokenTTL
               /\ th'[s].token.left > 0 =>
                    th'[s].token.user.gone <= CacheWindow + MaxDelay + (TokenTTL - th'[s].token.left)
    <3>1. th[s].token # None /\ th[s].token.user # None
      BY <2>2, <2>6, Numbers, NoneApart DEF SameBearer
    <3>2. /\ th[s].token.left \in Nat /\ th[s].token.user.gone \in Int
      BY <3>1, Numbers
    <3>3. /\ th[s].token.sub = th[s].token.user.username
          /\ th[s].token.admin = th[s].token.user.admin
          /\ th[s].token.left <= TokenTTL
          /\ th[s].token.left > 0 =>
               th[s].token.user.gone <= CacheWindow + MaxDelay + (TokenTTL - th[s].token.left)
      BY <2>1, <3>1 DEF Aged
    <3>4. /\ th'[s].token.sub = th[s].token.sub /\ th'[s].token.admin = th[s].token.admin
          /\ th'[s].token.left = IF th[s].token.left > 0 THEN th[s].token.left - 1 ELSE 0
          /\ th'[s].token.user.username = th[s].token.user.username
          /\ th'[s].token.user.admin = th[s].token.user.admin
          /\ th'[s].token.user.gone \in {th[s].token.user.gone, th[s].token.user.gone + 1}
      BY <2>2, <3>1 DEF SameBearer, Elapsed, Copied
    <3> QED BY <3>2, <3>3, <3>4, Times
  <2> QED BY <2>3, <2>4, <2>5, <2>6 DEF Aged
<1>2. ASSUME NEW u \in Username, entry'[u] # None
      PROVE  entry'[u].age <= CacheTTL - 1 /\ entry'[u].user.gone <= MaxDelay + entry'[u].age
  <2>1. /\ entry[u] # None /\ entry'[u].age = entry[u].age + 1 /\ entry'[u].age < CacheTTL
        /\ Elapsed(entry[u].user, entry'[u].user)
    BY <1>2, TickMoved
  <2>2. entry[u] \in Cached /\ entry[u].age \in Nat /\ entry[u].user \in Account
        /\ entry[u].user.gone \in Int
    BY <2>1 DEF Typed, AccountsType, Cached, Account
  <2>3. entry[u].user.gone <= MaxDelay + entry[u].age
    BY <2>1 DEF AgeInv
  <2>4. entry'[u].user.gone \in {entry[u].user.gone, entry[u].user.gone + 1}
    BY <2>1, <2>2, NoneApart DEF Elapsed
  <2> QED BY <2>1, <2>2, <2>3, <2>4, Times
<1>3. \A s \in Thread : Aged(th'[s])
  BY <1>1
<1> QED BY <1>2, <1>3 DEF AgeInv, Aged, CacheWindow
-----------------------------------------------------------------------------
(* Hashes *)

\* A thread holds a user that it has yet to insert.
Unborn(t) == th[t].pc \in {"delete", "invalidate", "insert"}

\* The hash of a user that is yet to be inserted is no other one's and in no
\* row, so no deletion has marked it; the rows are the users that are there.
BirthInv ==
  /\ \A u \in Username : rows[u] # None => rows[u].gone = Present
  /\ \A t \in Thread : Unborn(t) =>
       /\ th[t].got.gone = Present
       /\ \A u \in Username : rows[u] # None => rows[u].hash # th[t].got.hash
       /\ \A s \in Thread : s # t /\ Unborn(s) => th[s].got.hash # th[t].got.hash

\* A new salt is in no row and in no other thread's hands.
LEMMA SaltApart ==
  ASSUME NEW x, x.hash.salt = NewSalt
  PROVE  /\ \A u \in Username : rows[u] # None => rows[u].hash # x.hash
         /\ \A s \in Thread : th[s].got # None => th[s].got.hash # x.hash
<1>1. NewSalt \notin Held
  BY SaltFresh
<1>2. \A u \in Username : rows[u] # None => rows[u].hash.salt \in Held
  BY DEF Held
<1>3. \A s \in Thread : th[s].got # None => th[s].got.hash.salt \in Held
  BY DEF Held
<1> QED BY <1>1, <1>2, <1>3

\* A step of one thread that is not about to insert, or goes on to
LEMMA KeptBirth ==
  ASSUME BirthInv, NEW t \in Thread, rows' = rows,
         \A s \in Thread : s # t => th'[s] = th[s],
         Unborn(t)' => Unborn(t) /\ th'[t].got = th[t].got
  PROVE  BirthInv'
<1>1. \A s \in Thread : Unborn(s)' => Unborn(s) /\ th'[s].got = th[s].got
  BY DEF Unborn
<1> HIDE DEF Unborn
<1> QED BY <1>1 DEF BirthInv

\* One that is about to insert a new user
LEMMA NewBirth ==
  ASSUME Typed, BirthInv, NEW t \in Thread, rows' = rows,
         \A s \in Thread : s # t => th'[s] = th[s],
         th'[t].got.gone = Present, th'[t].got.hash.salt = NewSalt
  PROVE  BirthInv'
<1> DEFINE x == th'[t].got
<1>1. /\ \A u \in Username : rows[u] # None => rows[u].hash # x.hash
      /\ \A s \in Thread : th[s].got # None => th[s].got.hash # x.hash
  BY SaltApart
<1>2. \A s \in Thread : Unborn(s) => th[s].got # None
  BY DEF Typed, Placed, Unborn, Holding
<1>3. \A s \in Thread : s # t => (Unborn(s)' <=> Unborn(s)) /\ th'[s].got = th[s].got
  BY DEF Unborn
<1> HIDE DEF Unborn
<1>4. \A u \in Username : rows'[u] # None => rows'[u].gone = Present
  BY DEF BirthInv
<1> SUFFICES ASSUME NEW s \in Thread, Unborn(s)'
             PROVE  /\ th'[s].got.gone = Present
                    /\ \A u \in Username : rows'[u] # None => rows'[u].hash # th'[s].got.hash
                    /\ \A v \in Thread : v # s /\ Unborn(v)' => th'[v].got.hash # th'[s].got.hash
  BY <1>4 DEF BirthInv
<1>5. CASE s = t
  BY <1>1, <1>2, <1>3, <1>5
<1>6. CASE s # t
  <2>1. /\ th[s].got.gone = Present
        /\ \A u \in Username : rows[u] # None => rows[u].hash # th[s].got.hash
        /\ \A v \in Thread : v # s /\ Unborn(v) => th[v].got.hash # th[s].got.hash
    BY <1>3, <1>6 DEF BirthInv
  <2> QED BY <1>1, <1>2, <1>3, <1>6, <2>1
<1> QED BY <1>5, <1>6

\* BirthInv is inductive: the repository's steps,
LEMMA RepositoryBirth == ASSUME Typed, BirthInv, NEW t \in Thread, Repository(t) PROVE BirthInv'
<1>1. th[t] \in Progress /\ Placed(t, th[t]) /\ th[t].user \in Username
  BY DEF Typed, AccountsType, Progress
<1>2. CASE LookupUser(t)
  BY <1>2, LookupMoved, KeptBirth DEF Moved, Still, Unborn
<1>3. CASE Select(t)
  BY <1>3, SelectMoved, KeptBirth DEF Moved, Still, Unborn
<1>4. CASE Populate(t)
  BY <1>4, PopulateMoved, KeptBirth DEF Moved, Unborn
<1>5. CASE Invalidate(t)
  BY <1>5, InvalidateMoved, KeptBirth DEF Moved, Unborn
<1>6. CASE Store(t)
  BY <1>6, StoreMoved, KeptBirth DEF Moved, Reset, Unborn
<1>7. CASE Insert(t)
  <2>1. CASE rows' = rows
    BY <1>7, <2>1, InsertMoved, KeptBirth DEF Moved, Reset, Unborn
  <2>2. CASE /\ rows[th[t].user] = None /\ rows' = [rows EXCEPT ![th[t].user] = th[t].got]
             /\ Moved(t, "store", th[t].got)
    <3>1. \A u \in Username : rows'[u] = IF u = th[t].user THEN th[t].got ELSE rows[u]
      BY <2>2 DEF Typed, AccountsType
    <3>2. /\ th[t].got.gone = Present
          /\ \A s \in Thread : s # t /\ Unborn(s) => th[s].got.hash # th[t].got.hash
      BY <1>7, InsertMoved DEF BirthInv, Unborn
    <3>3. \A s \in Thread : Unborn(s)' => Unborn(s) /\ th'[s] = th[s] /\ s # t
      BY <2>2 DEF Moved, Unborn
    <3> HIDE DEF Unborn
    <3> QED BY <3>1, <3>2, <3>3 DEF BirthInv
  <2> QED BY <1>7, <2>1, <2>2, InsertMoved
<1>8. CASE Delete(t)
  <2> DEFINE row == rows[th[t].user]
  <2>1. \A u \in Username : rows'[u] = None \/ rows'[u] = rows[u]
    BY <1>8, DeleteMoved DEF Typed, AccountsType
  <2>2. \A s \in Thread : Unborn(s)' => Unborn(s)
    BY <1>8, DeleteMoved DEF Unborn
  <2>3. \A s \in Thread : Unborn(s) => /\ th[s].got # None
                                       /\ row # None => row.hash # th[s].got.hash
    BY <1>1 DEF BirthInv, Typed, Placed, Unborn, Holding
  <2>4. \A s \in Thread : Deleted(row, th[s].got, th'[s].got)
    BY <1>8, DeleteMoved
  <2>5. \A s \in Thread : Unborn(s) => th'[s].got.hash = th[s].got.hash /\ th'[s].got.gone = th[s].got.gone
    BY <2>3, <2>4 DEF Deleted, Copied
  <2> HIDE DEF Unborn
  <2> QED BY <2>1, <2>2, <2>5 DEF BirthInv
<1> QED BY <1>2, <1>3, <1>4, <1>5, <1>6, <1>7, <1>8 DEF Repository

\* all the steps,
LEMMA NextBirth == ASSUME Typed, BirthInv, [ConsoleNext]_accountVars PROVE BirthInv'
<1>1. CASE \E t \in Thread : Repository(t)
  BY <1>1, RepositoryBirth
<1>2. CASE \E r \in Replica : Startup(r)
  <2>1. PICK r \in Replica : Startup(r)
    BY <1>2
  <2>2. r \in Thread
    BY DEF Thread
  <2>3. CASE Start(r)
    BY <2>2, <2>3, StartMoved, KeptBirth DEF Reset, Still, Unborn
  <2>4. CASE ConfigureSigner(r)
    BY <2>2, <2>4, SignerMoved, KeptBirth DEF Reset, Still, Unborn
  <2>5. CASE Bootstrap(r)
    <3>1. CASE Moved(r, "delete", NewAdmin) \/ Moved(r, "insert", NewAdmin)
      BY <2>2, <2>5, <3>1, BootstrapMoved, NewAdminType, NewBirth DEF Moved, Still
    <3>2. CASE Moved(r, "signer", th[r].got) \/ Reset(r, "idle")
      BY <2>2, <2>5, <3>2, BootstrapMoved, KeptBirth DEF Moved, Reset, Still, Unborn
    <3> QED BY <2>5, <3>1, <3>2, BootstrapMoved
  <2> QED BY <2>1, <2>3, <2>4, <2>5 DEF Startup
<1>3. CASE \E r \in Replica : Die(r)
  <2>1. PICK r \in Replica : Die(r)
    BY <1>3
  <2>2. \A s \in Thread : Unborn(s)' => Unborn(s) /\ th'[s] = th[s]
    BY <2>1, DieMoved, IdleFields DEF Unborn
  <2>3. rows' = rows
    BY <2>1, DieMoved
  <2> HIDE DEF Unborn
  <2> QED BY <2>2, <2>3 DEF BirthInv
<1>4. CASE \E c \in Call : Console(c)
  <2>1. PICK c \in Call : Console(c)
    BY <1>4
  <2>2. c \in Thread /\ rows' = rows
    BY <2>1, ConsoleMoved DEF Thread, Still
  <2>3. CASE \E r \in Replica : Creating(c, r)
    BY <2>2, <2>3, NewBirth DEF Creating
  <2>4. CASE (\E r \in Replica, u \in Username : Begun(c, r, u)) \/ SignedIn(c)
             \/ Reset(c, "served") \/ Reset(c, "refused")
    BY <2>2, <2>4, KeptBirth DEF Begun, SignedIn, Reset, Unborn
  <2> QED BY <2>1, <2>3, <2>4, ConsoleMoved
<1>5. CASE Tick
  <2>1. \A s \in Thread : th'[s].pc = th[s].pc /\ Elapsed(th[s].got, th'[s].got)
    BY <1>5, TickMoved
  <2>2. \A s \in Thread : (Unborn(s)' <=> Unborn(s)) /\ (Unborn(s) => th[s].got # None)
    BY <2>1 DEF Unborn, Typed, Placed, Holding
  <2>3. \A s \in Thread : Unborn(s) => th[s].got.gone = Present
    BY DEF BirthInv
  <2>4. \A s \in Thread : Unborn(s) => th'[s].got.hash = th[s].got.hash /\ th'[s].got.gone = Present
    BY <2>1, <2>2, <2>3 DEF Elapsed, Copied
  <2>5. rows' = rows
    BY <1>5, TickMoved
  <2> HIDE DEF Unborn
  <2> QED BY <2>2, <2>4, <2>5 DEF BirthInv
<1>6. CASE UNCHANGED accountVars
  BY <1>6 DEF accountVars, BirthInv, Unborn
<1> QED BY <1>1, <1>2, <1>3, <1>4, <1>5, <1>6 DEF ConsoleNext

\* and the initial states.
LEMMA InitBirth == ASSUME AccountsInit PROVE BirthInv
<1>1. \A s \in Thread : ~Unborn(s)
  BY IdleFields DEF AccountsInit, Unborn
<1>2. Record(AdminUsername, SeedAdminHash, TRUE).gone = Present
  BY DEF Record
<1>3. \A u \in Username : rows[u] # None => rows[u] = Record(AdminUsername, SeedAdminHash, TRUE)
  BY DEF AccountsInit
<1> QED BY <1>1, <1>2, <1>3 DEF BirthInv
-----------------------------------------------------------------------------
(* AccessBounded *)

\* AgeInv is inductive: the repository's steps,
LEMMA RepositoryAged ==
  ASSUME Typed, BirthInv, AgeInv, NEW t \in Thread, Repository(t)
  PROVE  AgeInv'
<1>1. Aged(th[t]) /\ Placed(t, th[t])
  BY DEF AgeInv, Typed
<1>2. /\ th[t].ran \in Nat /\ th[t].user \in Username
      /\ th[t].got # None => th[t].got \in Account /\ th[t].got.gone \in Int
  BY Numbers
<1>3. /\ th[t].got \in {None} \cup Account
      /\ th[t].got # None => th[t].got.gone <= CacheWindow + th[t].ran
      /\ th[t].pc \in Holding => th[t].got.gone <= th[t].ran
  BY <1>1, <1>2 DEF Aged
<1>4. /\ {"got", "select", "populate", "insert", "store", "signer"} \subseteq Stage
      /\ {"idle", "refused", "served"} \subseteq Stage \ Holding
      /\ "got" \notin Holding /\ "select" \notin Holding /\ "signer" \notin Holding
      /\ {"populate", "insert", "store", "invalidate"} \subseteq Holding
  BY DEF Stage, Holding
<1>5. CASE LookupUser(t)
  <2>1. CASE /\ entry[th[t].user] # None /\ entry[th[t].user].user \in Account
             /\ Moved(t, "got", entry[th[t].user].user)
    <3> DEFINE e == entry[th[t].user]
    <3>1. e.age <= CacheTTL - 1 /\ e.user.gone <= MaxDelay + e.age
      BY <1>2, <2>1 DEF AgeInv
    <3>2. e.age \in Nat /\ e.user.gone \in Int
      BY <1>2, <2>1 DEF Typed, AccountsType, Cached, Account
    <3>3. e.user.gone <= CacheWindow + th[t].ran
      BY <1>2, <3>1, <3>2, Times DEF CacheWindow
    <3>4. \A s \in Thread : Aged(th'[s])
      BY <1>4, <2>1, <3>3, MovedAged
    <3> QED BY <1>5, <3>4, LookupMoved, SameCacheAged DEF Still
  <2>2. CASE Moved(t, "select", th[t].got)
    <3>1. \A s \in Thread : Aged(th'[s])
      BY <1>3, <1>4, <2>2, MovedAged
    <3> QED BY <1>5, <3>1, LookupMoved, SameCacheAged DEF Still
  <2> QED BY <1>5, <2>1, <2>2, LookupMoved
<1>6. CASE Select(t)
  <2> DEFINE row == rows[th[t].user]
             pc == IF row = None THEN "got" ELSE "populate"
  <2>1. /\ row \in {None} \cup Account /\ Moved(t, pc, row) /\ Still
    BY <1>6, SelectMoved
  <2>2. row # None => row.gone = Present
    BY <1>2 DEF BirthInv
  <2>3. row # None => row.gone <= th[t].ran /\ row.gone <= CacheWindow + th[t].ran
    BY <1>2, <2>2, Times DEF Present
  <2>4. pc \in Stage /\ (pc \in Holding => row # None)
    BY <1>4
  <2> HIDE DEF row, pc
  <2>5. \A s \in Thread : Aged(th'[s])
    BY <2>1, <2>3, <2>4, MovedAged
  <2> QED BY <2>1, <2>5, SameCacheAged DEF Still
<1>7. CASE Populate(t)
  <2>1. th[t].pc \in Holding /\ Moved(t, "got", th[t].got) /\ PutCache(th[t].user, th[t].got)
    BY <1>4, <1>7, PopulateMoved
  <2>2. \A s \in Thread : Aged(th'[s])
    BY <1>3, <1>4, <2>1, MovedAged
  <2> QED BY <2>1, <2>2, PutAged
<1>8. CASE Invalidate(t)
  <2>1. /\ th[t].pc \in Holding /\ Moved(t, "insert", th[t].got)
        /\ entry' = entry \/ entry' = [entry EXCEPT ![th[t].user] = None]
    BY <1>4, <1>8, InvalidateMoved
  <2>2. \A s \in Thread : Aged(th'[s])
    BY <1>3, <1>4, <2>1, MovedAged
  <2>3. \A u \in Username : entry'[u] # None => entry'[u] = entry[u]
    BY <2>1 DEF Typed, AccountsType
  <2>4. \A u \in Username : entry'[u] # None =>
          entry'[u].age <= CacheTTL - 1 /\ entry'[u].user.gone <= MaxDelay + entry'[u].age
    BY <2>3 DEF AgeInv
  <2> QED BY <2>2, <2>4 DEF AgeInv, Aged, CacheWindow
<1>9. CASE Insert(t)
  <2>1. /\ th[t].pc \in Holding /\ entry' = entry
        /\ Moved(t, "store", th[t].got) \/ Reset(t, "idle") \/ Reset(t, "refused")
    BY <1>4, <1>9, InsertMoved
  <2>2. \A s \in Thread : Aged(th'[s])
    BY <1>3, <1>4, <2>1, MovedAged, ResetAllAged
  <2> QED BY <2>1, <2>2, SameCacheAged
<1>10. CASE Store(t)
  <2>1. /\ th[t].pc \in Holding /\ PutCache(th[t].user, th[t].got)
        /\ Moved(t, "signer", th[t].got) \/ Reset(t, "served")
    BY <1>4, <1>10, StoreMoved
  <2>2. \A s \in Thread : Aged(th'[s])
    BY <1>3, <1>4, <2>1, MovedAged, ResetAllAged
  <2> QED BY <2>1, <2>2, PutAged
<1>11. CASE Delete(t)
  BY <1>11, DeleteAged
<1> QED BY <1>5, <1>6, <1>7, <1>8, <1>9, <1>10, <1>11 DEF Repository

\* all the steps,
LEMMA NextAged ==
  ASSUME Typed, BirthInv, AgeInv, [ConsoleNext]_accountVars
  PROVE  AgeInv'
<1>0. /\ {"idle", "lookup", "up", "served", "refused"} \subseteq Stage \ Holding
      /\ {"signer", "delete", "insert"} \subseteq Stage /\ "signer" \notin Holding
  BY DEF Stage, Holding
<1>1. CASE \E t \in Thread : Repository(t)
  BY <1>1, RepositoryAged
<1>2. CASE \E r \in Replica : Startup(r)
  <2>1. PICK r \in Replica : Startup(r)
    BY <1>2
  <2>2. r \in Thread
    BY DEF Thread
  <2>3. \/ \E pc \in {"idle", "lookup", "up"} : Reset(r, pc)
        \/ Moved(r, "signer", th[r].got)
        \/ Moved(r, "delete", NewAdmin) \/ Moved(r, "insert", NewAdmin)
    BY <2>1, StartMoved, BootstrapMoved, SignerMoved DEF Startup
  <2>4. entry' = entry
    BY <2>1, StartMoved, BootstrapMoved, SignerMoved DEF Startup, Still
  <2>5. th[r].got \in {None} \cup Account /\ th[r].ran \in Nat
        /\ (th[r].got # None => th[r].got.gone <= CacheWindow + th[r].ran)
    BY <2>2, Numbers DEF AgeInv, Aged
  <2>6. NewAdmin \in Account /\ NewAdmin.gone = Present
    BY NewAdminType
  <2>7. NewAdmin.gone <= th[r].ran /\ NewAdmin.gone <= CacheWindow + th[r].ran
    BY <2>5, <2>6, Times DEF Present
  <2>8. \A s \in Thread : Aged(th'[s])
    BY <1>0, <2>2, <2>3, <2>5, <2>6, <2>7, MovedAged, ResetAllAged
  <2> QED BY <2>4, <2>8, SameCacheAged
<1>3. CASE \E r \in Replica : Die(r)
  <2>1. PICK r \in Replica : Die(r)
    BY <1>3
  <2>2. Idle \in Progress /\ Answered("refused") \in Progress
    BY <1>0, IdleType
  <2>3. Aged(Idle) /\ Aged(Answered("refused"))
    BY <1>0, <2>2, IdleFields, ResetAged
  <2>4. \A s \in Thread : th'[s] = th[s] \/ th'[s] = Idle \/ th'[s] = Answered("refused")
    BY <2>1, DieMoved
  <2>5. \A s \in Thread : Aged(th'[s])
    BY <2>3, <2>4 DEF AgeInv
  <2> QED BY <2>1, <2>5, DieMoved, SameCacheAged
<1>4. CASE \E c \in Call : Console(c)
  <2>1. PICK c \in Call : Console(c)
    BY <1>4
  <2>2. c \in Thread /\ entry' = entry
    BY <2>1, ConsoleMoved DEF Thread, Still
  <2>3. th' \in [Thread -> Progress] /\ \A s \in Thread : s # c => th'[s] = th[s]
    BY <2>1, ConsoleMoved DEF Begun, SignedIn, Creating, Reset
  <2>4. Aged(th'[c])
    <3>1. CASE (\E r \in Replica, u \in Username : Begun(c, r, u))
               \/ Reset(c, "served") \/ Reset(c, "refused")
      BY <1>0, <2>2, <2>3, <3>1, ResetAged DEF Begun, Reset
    <3>2. CASE th[c].got \in Account /\ SignedIn(c)
      <4>1. /\ th[c].got.gone <= CacheWindow + th[c].ran /\ th[c].ran <= MaxDelay
        BY <2>2, <3>2, NoneApart DEF AgeInv, Aged
      <4>2. th[c].got.gone \in Int /\ th[c].ran \in Nat
        BY <2>2, <3>2, Numbers, NoneApart
      <4>3. "signed in" \notin Holding
        BY DEF Holding
      <4>4. th[c].got.gone <= CacheWindow + MaxDelay + (TokenTTL - TokenTTL)
        BY <4>1, <4>2, Times
      <4>5. 0 <= MaxDelay /\ TokenTTL <= TokenTTL
        BY Times
      <4> QED BY <3>2, <4>3, <4>4, <4>5 DEF SignedIn, Aged
    <3>3. CASE \E r \in Replica : Creating(c, r)
      BY <3>3, Times DEF Creating, Aged, Present
    <3> QED BY <2>1, <3>1, <3>2, <3>3, ConsoleMoved
  <2>5. \A s \in Thread : Aged(th'[s])
    BY <2>2, <2>3, <2>4, OneAged
  <2> QED BY <2>2, <2>5, SameCacheAged
<1>5. CASE Tick
  BY <1>5, TickAged
<1>6. CASE UNCHANGED accountVars
  BY <1>6 DEF accountVars, AgeInv, Aged, CacheWindow
<1> QED BY <1>1, <1>2, <1>3, <1>4, <1>5, <1>6 DEF ConsoleNext

\* and the initial states.
LEMMA InitAged == ASSUME AccountsInit PROVE AgeInv
<1>1. "idle" \notin Holding
  BY DEF Holding
<1>2. Aged(Idle)
  BY <1>1, IdleType, IdleFields, ResetAged
<1> QED BY <1>2 DEF AccountsInit, AgeInv

\* A token that has time left
LEMMA WithinWindow ==
  ASSUME NEW left \in Nat, NEW gone \in Int, left > 0,
         gone <= CacheWindow + MaxDelay + (TokenTTL - left)
  PROVE  gone <= Window
<1>1. Window = CacheWindow + MaxDelay + (TokenTTL - 1)
  BY AccountsAssumption DEF CacheWindow, Window
<1>2. TokenTTL \in Nat /\ CacheWindow \in Nat /\ MaxDelay \in Nat
  BY Times
<1> QED BY <1>1, <1>2

\* Use accepts a token only while the user behind it is within the window.
LEMMA AccessStep ==
  ASSUME Typed, BirthInv, AgeInv, [ConsoleNext]_accountVars, NEW c \in Call,
         th[c].pc = "signed in", th'[c].pc \in {"insert", "served"}
  PROVE  LET token == th[c].token IN
         /\ token.sub = token.user.username
         /\ th'[c].pc = "insert" => token.user.admin
         /\ token.user.gone <= Window
<1> DEFINE token == th[c].token
<1>0. c \in Thread /\ c \notin Replica
  BY AccountsAssumption DEF Thread
<1>1. ASSUME NEW t \in Thread, Repository(t) PROVE FALSE
  <2>1. \A s \in Thread : s # t => th'[s].pc = th[s].pc
    <3>1. CASE LookupUser(t) \/ Select(t) \/ Populate(t) \/ Invalidate(t)
      BY <3>1, LookupMoved, SelectMoved, PopulateMoved, InvalidateMoved DEF Moved
    <3>2. CASE Insert(t) \/ Store(t)
      BY <3>2, InsertMoved, StoreMoved DEF Moved, Reset
    <3>3. CASE Delete(t)
      BY <3>3, DeleteMoved
    <3> QED BY <1>1, <3>1, <3>2, <3>3 DEF Repository
  <2>2. th[t].pc # "signed in"
    BY <1>1, LookupMoved, SelectMoved, PopulateMoved, InvalidateMoved, InsertMoved, StoreMoved,
       DeleteMoved DEF Repository
  <2> QED BY <1>0, <2>1, <2>2
<1>2. ASSUME NEW r \in Replica, Startup(r) PROVE FALSE
  <2>1. \A s \in Thread : s # r => th'[s] = th[s]
    BY <1>2, StartMoved, BootstrapMoved, SignerMoved DEF Startup, Moved, Reset
  <2> QED BY <1>0, <2>1
<1>3. ASSUME NEW r \in Replica, Die(r) PROVE FALSE
  <2>1. th'[c] = th[c] \/ th'[c] = Answered("refused")
    BY <1>0, <1>3, DieMoved
  <2> QED BY <2>1, IdleFields
<1>4. ASSUME Tick PROVE FALSE
  BY <1>0, <1>4, TickMoved
<1>5. ASSUME UNCHANGED accountVars PROVE FALSE
  BY <1>5 DEF accountVars
<1>6. PICK d \in Call : Console(d)
  BY <1>1, <1>2, <1>3, <1>4, <1>5 DEF ConsoleNext
<1>7. d = c
  <2>1. \A s \in Thread : s # d => th'[s] = th[s]
    BY <1>6, ConsoleMoved DEF Begun, SignedIn, Creating, Reset
  <2> QED BY <1>0, <2>1
<1>8. token # None /\ token.left > 0 /\ (th'[c].pc = "insert" => token.admin)
  BY <1>6, <1>7, ConsoleMoved DEF Reset
<1>9. /\ token.sub = token.user.username /\ token.admin = token.user.admin
      /\ token.left <= TokenTTL
      /\ token.user.gone <= CacheWindow + MaxDelay + (TokenTTL - token.left)
  BY <1>0, <1>8 DEF AgeInv, Aged
<1>10. token.left \in Nat /\ token.user.gone \in Int
  BY <1>0, <1>8, Numbers
<1>11. token.user.gone <= Window
  BY <1>8, <1>9, <1>10, WithinWindow
<1> QED BY <1>8, <1>9, <1>11

\* Bearer tokens: an authorised request acts with the name and the role of a row
\* that was in the table, and that row has not been gone for longer than a
\* login, a cached user and a token last - for any number of replicas and calls,
\* with a cache that fails or not, and however replicas die and restart.
THEOREM AccessBoundedHolds == ConsoleSpec => AccessBounded
<1> DEFINE Inv == Typed /\ BirthInv /\ AgeInv
<1>1. AccountsInit => Inv
  BY InitTyped, InitBirth, InitAged
<1>2. Inv /\ [ConsoleNext]_accountVars => Inv'
  BY NextTyped, NextBirth, NextAged
<1>3. Inv /\ [ConsoleNext]_accountVars =>
        [\A c \in Call :
           th[c].pc = "signed in" /\ th'[c].pc \in {"insert", "served"} =>
             LET token == th[c].token IN
             /\ token.sub = token.user.username
             /\ th'[c].pc = "insert" => token.user.admin
             /\ token.user.gone <= Window]_accountVars
  BY AccessStep
<1> QED BY <1>1, <1>2, <1>3, PTL DEF ConsoleSpec, AccessBounded
-----------------------------------------------------------------------------
(* A database with a seed admin *)

\* A user other than the seed admin
Real(x) == x # None /\ x.hash # SeedAdminHash

\* The admin in the table is the one the migration seeds.
SeedRow == rows[AdminUsername] # None /\ rows[AdminUsername].hash = SeedAdminHash

\* Thread t knows of a user with the admin's name who is not the seed admin.
Knows(t) ==
  \/ t \in Replica /\ th[t].pc \in {"signer", "up"}
  \/ th[t].pc = "store" /\ th[t].user = AdminUsername
  \/ th[t].pc \in {"populate", "got"} /\ th[t].user = AdminUsername /\ Real(th[t].got)

\* Such a user is there or a replica is about to create the admin.
Settled ==
  \/ Real(rows[AdminUsername])
  \/ \E r \in Replica : th[r].pc \in {"invalidate", "insert"}

\* What a thread inserts is no seed admin, a replica that has looked or
\* deleted has left no seed admin, and whoever knows of a user with that name,
\* the cache included, knows of one that is there or that is being replaced.
AdminInv ==
  /\ \A t \in Thread : th[t].pc \in {"delete", "invalidate", "insert", "store"} => Real(th[t].got)
  /\ \A r \in Replica :
       th[r].pc \in {"invalidate", "insert", "store"} \/ (th[r].pc = "got" /\ th[r].got = None)
         => ~SeedRow
  /\ deaths = 0 /\ ((\E t \in Thread : Knows(t)) \/ (entry[AdminUsername] # None
                                                      /\ Real(entry[AdminUsername].user)))
       => Settled

\* A step of one thread that leaves the rows and is no insertion: what it
\* comes to know was there or known.
LEMMA KeptAdmin ==
  ASSUME AdminInv, NEW t \in Thread, rows'[AdminUsername] = rows[AdminUsername], deaths' = deaths,
         \A s \in Thread : s # t => th'[s] = th[s],
         th'[t].pc \in {"delete", "invalidate", "insert", "store"} => Real(th'[t].got),
         t \in Replica /\ (th'[t].pc \in {"invalidate", "insert", "store"}
                             \/ (th'[t].pc = "got" /\ th'[t].got = None)) => ~SeedRow,
         t \in Replica /\ th[t].pc \in {"invalidate", "insert"} => th'[t].pc \in {"invalidate", "insert"},
         deaths = 0 /\ Knows(t)' => Settled,
         deaths = 0 /\ entry'[AdminUsername] # None /\ Real(entry'[AdminUsername].user) => Settled
  PROVE  AdminInv'
<1>1. Settled => Settled'
  <2>1. CASE Real(rows[AdminUsername])
    BY <2>1 DEF Settled, Real
  <2>2. CASE \E r \in Replica : th[r].pc \in {"invalidate", "insert"}
    <3>1. PICK r \in Replica : th[r].pc \in {"invalidate", "insert"}
      BY <2>2
    <3>2. th'[r].pc \in {"invalidate", "insert"}
      BY <3>1 DEF Thread
    <3> QED BY <3>2 DEF Settled
  <2> QED BY <2>1, <2>2 DEF Settled
<1>2. SeedRow' <=> SeedRow
  BY DEF SeedRow
<1>3. \A s \in Thread : s # t => (Knows(s)' <=> Knows(s))
  BY DEF Knows, Real
<1>4. \A r \in Thread : th'[r].pc \in {"delete", "invalidate", "insert", "store"} => Real(th'[r].got)
  BY DEF AdminInv, Thread
<1>5. \A r \in Replica :
        th'[r].pc \in {"invalidate", "insert", "store"} \/ (th'[r].pc = "got" /\ th'[r].got = None)
          => ~SeedRow'
  BY <1>2 DEF AdminInv, Thread
<1>6. ASSUME deaths = 0, \E s \in Thread : Knows(s)' PROVE Settled
  BY <1>3, <1>6 DEF AdminInv
<1> HIDE DEF Settled
<1>7. deaths' = 0 /\ ((\E s \in Thread : Knows(s)')
                      \/ (entry'[AdminUsername] # None /\ Real(entry'[AdminUsername].user)))
        => Settled'
  BY <1>1, <1>6
<1> HIDE DEF Knows, SeedRow
<1> QED BY <1>4, <1>5, <1>7 DEF AdminInv, Real

\* A step after which the admin is there
LEMMA ThereAdmin ==
  ASSUME AdminInv, NEW t \in Thread, Real(rows'[AdminUsername]),
         \A s \in Thread : s # t => th'[s] = th[s],
         th'[t].pc \in {"delete", "invalidate", "insert", "store"} => Real(th'[t].got)
  PROVE  AdminInv'
<1>1. Settled' /\ ~SeedRow'
  BY DEF Settled, SeedRow, Real
<1>2. \A r \in Thread : th'[r].pc \in {"delete", "invalidate", "insert", "store"} => Real(th'[r].got)
  BY DEF AdminInv, Thread
<1> HIDE DEF Settled, SeedRow
<1> QED BY <1>1, <1>2 DEF AdminInv, Real

\* AdminInv is inductive: the repository's steps,
LEMMA RepositoryAdmin == ASSUME Typed, AdminInv, NEW t \in Thread, Repository(t) PROVE AdminInv'
<1>1. th[t] \in Progress /\ Placed(t, th[t]) /\ th[t].user \in Username /\ AdminUsername \in Username
  BY DEF Typed, AccountsType, Progress, Username
<1>2. t \in Replica => t \notin Call /\ th[t].user = AdminUsername
  BY <1>1, AccountsAssumption DEF Placed
<1>3. deaths = 0 /\ Knows(t) => Settled
  BY DEF AdminInv
<1>4. deaths = 0 /\ entry[AdminUsername] # None /\ Real(entry[AdminUsername].user) => Settled
  BY DEF AdminInv
<1>5. CASE LookupUser(t)
  <2>1. /\ th[t].pc = "lookup" /\ rows' = rows /\ entry' = entry /\ deaths' = deaths
    BY <1>5, LookupMoved DEF Still
  <2>2. CASE /\ entry[th[t].user] # None /\ entry[th[t].user].user \in Account
             /\ Moved(t, "got", entry[th[t].user].user)
    <3>1. deaths = 0 /\ Knows(t)' => Settled
      BY <1>4, <2>2 DEF Knows, Moved, Real
    <3>2. th'[t].pc = "got" /\ th'[t].got # None /\ \A s \in Thread : s # t => th'[s] = th[s]
      BY <2>2, NoneApart DEF Moved
    <3> QED BY <1>4, <2>1, <3>1, <3>2, KeptAdmin
  <2>3. CASE Moved(t, "select", th[t].got)
    <3>1. ~Knows(t)'
      BY <2>3 DEF Knows, Moved
    <3>2. th'[t].pc = "select" /\ \A s \in Thread : s # t => th'[s] = th[s]
      BY <2>3 DEF Moved
    <3> QED BY <1>4, <2>1, <3>1, <3>2, KeptAdmin
  <2> QED BY <1>5, <2>2, <2>3, LookupMoved
<1>6. CASE Select(t)
  <2> DEFINE row == rows[th[t].user]
             pc == IF row = None THEN "got" ELSE "populate"
  <2>1. /\ th[t].pc = "select" /\ rows' = rows /\ entry' = entry /\ deaths' = deaths
        /\ Moved(t, pc, row)
    BY <1>6, SelectMoved DEF Still
  <2>2. deaths = 0 /\ Knows(t)' => Settled
    BY <2>1 DEF Knows, Moved, Real, Settled
  <2>3. th'[t].pc = pc /\ th'[t].got = row /\ \A s \in Thread : s # t => th'[s] = th[s]
    BY <2>1 DEF Moved
  <2>4. t \in Replica /\ row = None => ~SeedRow
    BY <1>2 DEF SeedRow
  <2>5. pc \in {"got", "populate"}
    OBVIOUS
  <2> HIDE DEF pc, row
  <2> QED BY <1>4, <2>1, <2>2, <2>3, <2>4, <2>5, KeptAdmin
<1>7. CASE Populate(t)
  <2>1. /\ th[t].pc = "populate" /\ rows' = rows /\ deaths' = deaths
        /\ Moved(t, "got", th[t].got) /\ PutCache(th[t].user, th[t].got)
    BY <1>7, PopulateMoved
  <2>2. th[t].got \in Account
    BY <2>1, HeldType DEF Holding
  <2>3. Knows(t)' => Knows(t)
    BY <2>1 DEF Knows, Moved, Real
  <2>4. \/ entry'[AdminUsername] = entry[AdminUsername]
        \/ th[t].user = AdminUsername /\ entry'[AdminUsername].user = th[t].got
    <3>1. AdminUsername \in Username
      BY <1>1
    <3>2. th[t].pc \in Holding /\ PutCache(th[t].user, th[t].got)
      BY <2>1 DEF Holding
    <3> QED BY <3>1, <3>2, HolderPut
  <2>5. th[t].user = AdminUsername /\ Real(th[t].got) => Knows(t)
    BY <2>1 DEF Knows
  <2>6. deaths = 0 /\ entry'[AdminUsername] # None /\ Real(entry'[AdminUsername].user) => Settled
    BY <1>3, <1>4, <2>4, <2>5
  <2>7. /\ th'[t].pc = "got" /\ th'[t].got = th[t].got /\ th[t].got # None
        /\ \A s \in Thread : s # t => th'[s] = th[s]
    BY <2>1, <2>2, NoneApart DEF Moved
  <2> HIDE DEF Knows, Settled
  <2> QED BY <1>3, <2>1, <2>3, <2>6, <2>7, KeptAdmin
<1>8. CASE Invalidate(t)
  <2>1. /\ th[t].pc = "invalidate" /\ rows' = rows /\ deaths' = deaths
        /\ Moved(t, "insert", th[t].got)
        /\ entry' = entry \/ entry' = [entry EXCEPT ![th[t].user] = None]
    BY <1>8, InvalidateMoved
  <2>2. entry'[AdminUsername] = entry[AdminUsername] \/ entry'[AdminUsername] = None
    BY <1>1, <2>1 DEF Typed, AccountsType
  <2>3. /\ th'[t].pc = "insert" /\ th'[t].got = th[t].got
        /\ \A s \in Thread : s # t => th'[s] = th[s]
    BY <2>1 DEF Moved
  <2>4. ~Knows(t)'
    BY <2>3 DEF Knows
  <2>5. Real(th[t].got) /\ (t \in Replica => ~SeedRow)
    BY <2>1 DEF AdminInv
  <2> QED BY <1>4, <2>1, <2>2, <2>3, <2>4, <2>5, KeptAdmin
<1>9. CASE Store(t)
  <2>1. /\ th[t].pc = "store" /\ rows' = rows /\ deaths' = deaths
        /\ PutCache(th[t].user, th[t].got)
        /\ \/ t \in Replica /\ Moved(t, "signer", th[t].got)
           \/ t \in Call /\ Reset(t, "served")
    BY <1>9, StoreMoved
  <2>2. th[t].got \in Account
    BY <2>1, HeldType DEF Holding
  <2>3. Knows(t)' => Knows(t)
    BY <1>2, <2>1 DEF Knows, Moved, Reset
  <2>4. entry'[AdminUsername] = entry[AdminUsername] \/ th[t].user = AdminUsername
    BY <1>1, <2>1, <2>2, PutTyped DEF Typed, AccountsType
  <2>5. th[t].user = AdminUsername => Knows(t)
    BY <1>1, <2>1 DEF Knows, Placed
  <2>6. deaths = 0 /\ entry'[AdminUsername] # None /\ Real(entry'[AdminUsername].user) => Settled
    BY <1>3, <1>4, <2>4, <2>5
  <2>7. /\ th'[t].pc \in {"signer", "served"}
        /\ \A s \in Thread : s # t => th'[s] = th[s]
    BY <2>1 DEF Moved, Reset
  <2> HIDE DEF Knows, Settled
  <2> QED BY <1>3, <2>1, <2>3, <2>6, <2>7, KeptAdmin
<1>10. CASE Insert(t)
  <2>1. /\ th[t].pc = "insert" /\ entry' = entry /\ deaths' = deaths
        /\ \/ /\ rows[th[t].user] = None /\ rows' = [rows EXCEPT ![th[t].user] = th[t].got]
              /\ Moved(t, "store", th[t].got)
           \/ /\ rows[th[t].user] # None /\ rows' = rows
              /\ \/ t \in Replica /\ Reset(t, "idle")
                 \/ t \in Call /\ Reset(t, "refused")
    BY <1>10, InsertMoved
  <2>2. \A s \in Thread : s # t => th'[s] = th[s]
    BY <2>1 DEF Moved, Reset
  <2>3. CASE t \in Replica
    <3>1. Real(th[t].got) /\ ~SeedRow
      BY <2>1, <2>3 DEF AdminInv
    <3>2. Real(rows'[AdminUsername])
      <4>1. CASE rows[th[t].user] # None /\ rows' = rows
        BY <1>2, <2>3, <3>1, <4>1 DEF Real, SeedRow
      <4>2. CASE rows' = [rows EXCEPT ![th[t].user] = th[t].got]
        <5>1. rows'[AdminUsername] = th[t].got
          BY <1>1, <1>2, <2>3, <4>2 DEF Typed, AccountsType
        <5> QED BY <3>1, <5>1
      <4> QED BY <2>1, <4>1, <4>2
    <3>3. th'[t].pc = "store" => th'[t].got = th[t].got
      BY <1>2, <2>1, <2>3 DEF Moved, Reset
    <3>4. th'[t].pc \in {"store", "idle"}
      BY <1>2, <2>1, <2>3 DEF Moved, Reset
    <3> QED BY <2>2, <3>1, <3>2, <3>3, <3>4, ThereAdmin
  <2>4. CASE t \in Call
    <3>1. t \notin Replica /\ Real(th[t].got)
      BY <1>2, <2>1, <2>4 DEF AdminInv
    <3>2. CASE th[t].user = AdminUsername /\ rows[AdminUsername] = None
      <4>1. rows'[AdminUsername] = th[t].got /\ th'[t].got = th[t].got
        BY <1>1, <2>1, <3>2 DEF Typed, AccountsType, Moved
      <4> QED BY <2>2, <3>1, <4>1, ThereAdmin
    <3>3. CASE ~(th[t].user = AdminUsername /\ rows[AdminUsername] = None)
      <4>1. rows'[AdminUsername] = rows[AdminUsername]
        BY <1>1, <2>1, <3>3 DEF Typed, AccountsType
      <4>2. ~Knows(t)'
        BY <2>1, <3>1, <3>3 DEF Knows, Moved, Reset
      <4>3. th'[t].pc = "refused" \/ (th'[t].pc = "store" /\ th'[t].got = th[t].got)
        BY <2>1, <3>1 DEF Moved, Reset
      <4> QED BY <1>4, <2>1, <2>2, <3>1, <4>1, <4>2, <4>3, KeptAdmin
    <3> QED BY <3>2, <3>3
  <2> QED BY <2>3, <2>4 DEF Thread
<1>11. CASE Delete(t)
  <2>1. /\ th[t].pc = "delete" /\ rows' = [rows EXCEPT ![th[t].user] = None]
        /\ \A s \in Thread : /\ th'[s].pc = IF s = t THEN "invalidate" ELSE th[s].pc
                             /\ Deleted(rows[th[t].user], th[s].got, th'[s].got)
    BY <1>11, DeleteMoved
  <2>2. t \in Replica /\ th[t].user = AdminUsername
    BY <1>1, <1>2, <2>1 DEF Placed, Thread
  <2>3. rows'[AdminUsername] = None
    BY <1>1, <2>1, <2>2 DEF Typed, AccountsType
  <2>4. ~SeedRow' /\ Settled'
    BY <2>1, <2>2, <2>3 DEF SeedRow, Settled, Thread
  <2>5. \A s \in Thread : Real(th[s].got) => Real(th'[s].got)
    BY <2>1 DEF Deleted, Copied, Real
  <2>6. \A r \in Thread : th'[r].pc \in {"delete", "invalidate", "insert", "store"} => Real(th'[r].got)
    BY <2>1, <2>5 DEF AdminInv, Thread
  <2> HIDE DEF Settled, SeedRow
  <2> QED BY <2>4, <2>6 DEF AdminInv, Real
<1> QED BY <1>5, <1>6, <1>7, <1>8, <1>9, <1>10, <1>11 DEF Repository

\* all the steps,
LEMMA NextAdmin == ASSUME Typed, AdminInv, [ConsoleNext]_accountVars PROVE AdminInv'
<1>0. deaths = 0 /\ entry[AdminUsername] # None /\ Real(entry[AdminUsername].user) => Settled
  BY DEF AdminInv
<1>1. CASE \E t \in Thread : Repository(t)
  BY <1>1, RepositoryAdmin
<1>2. CASE \E r \in Replica : Startup(r)
  <2>1. PICK r \in Replica : Startup(r)
    BY <1>2
  <2>2. r \in Thread /\ th[r].user = AdminUsername /\ (deaths = 0 /\ Knows(r) => Settled)
    BY DEF Thread, Typed, Placed, AdminInv
  <2>3. rows' = rows /\ entry' = entry /\ deaths' = deaths
        /\ \A s \in Thread : s # r => th'[s] = th[s]
    BY <2>1, StartMoved, BootstrapMoved, SignerMoved DEF Startup, Still, Moved, Reset
  <2>4. th[r].pc \in {"idle", "got", "signer"}
    BY <2>1, StartMoved, BootstrapMoved, SignerMoved DEF Startup
  <2>5. CASE Start(r)
    <3>1. th'[r].pc = "lookup" /\ ~Knows(r)'
      BY <2>5, StartMoved DEF Reset, Knows
    <3> QED BY <1>0, <2>2, <2>3, <2>4, <3>1, KeptAdmin
  <2>6. CASE ConfigureSigner(r)
    <3>1. th'[r].pc \in {"idle", "up"} /\ (Knows(r)' => Knows(r))
      BY <2>6, SignerMoved DEF Reset, Knows
    <3> QED BY <1>0, <2>2, <2>3, <2>4, <3>1, KeptAdmin
  <2>7. CASE Bootstrap(r)
    <3>1. CASE th[r].got # None /\ th[r].got.hash # SeedAdminHash /\ Moved(r, "signer", th[r].got)
      <4>1. Knows(r) /\ th'[r].pc = "signer"
        BY <2>2, <2>7, <3>1, BootstrapMoved DEF Knows, Real, Moved
      <4> QED BY <1>0, <2>2, <2>3, <2>4, <4>1, KeptAdmin
    <3>2. CASE Moved(r, "delete", NewAdmin)
      <4>1. th'[r].pc = "delete" /\ Real(th'[r].got) /\ ~Knows(r)'
        BY <3>2, NewAdminType, NoneApart DEF Knows, Real, Moved
      <4> QED BY <1>0, <2>2, <2>3, <2>4, <4>1, KeptAdmin
    <3>3. CASE th[r].got = None /\ Moved(r, "insert", NewAdmin)
      <4>1. th'[r].pc = "insert" /\ Real(th'[r].got) /\ ~Knows(r)'
        BY <3>3, NewAdminType, NoneApart DEF Knows, Real, Moved
      <4>2. ~SeedRow
        BY <2>7, <3>3, BootstrapMoved DEF AdminInv
      <4> QED BY <1>0, <2>2, <2>3, <2>4, <4>1, <4>2, KeptAdmin
    <3>4. CASE Reset(r, "idle")
      <4>1. th'[r].pc = "idle" /\ ~Knows(r)'
        BY <3>4 DEF Reset, Knows
      <4> QED BY <1>0, <2>2, <2>3, <2>4, <4>1, KeptAdmin
    <3> QED BY <2>7, <3>1, <3>2, <3>3, <3>4, BootstrapMoved
  <2> QED BY <2>1, <2>5, <2>6, <2>7 DEF Startup
<1>3. CASE \E r \in Replica : Die(r)
  <2>1. PICK r \in Replica : Die(r)
    BY <1>3
  <2>2. deaths' # 0 /\ rows' = rows
    BY <2>1, DieMoved DEF Typed, AccountsType
  <2>3. \A s \in Thread : th'[s] = th[s] \/ th'[s].pc \in {"idle", "refused"}
    BY <2>1, DieMoved, IdleFields
  <2>4. SeedRow' <=> SeedRow
    BY <2>2 DEF SeedRow
  <2>5. \A s \in Thread : th'[s].pc \in {"delete", "invalidate", "insert", "store"} => Real(th'[s].got)
    BY <2>3 DEF AdminInv
  <2> HIDE DEF SeedRow
  <2>6. \A s \in Replica :
          th'[s].pc \in {"invalidate", "insert", "store"} \/ (th'[s].pc = "got" /\ th'[s].got = None)
            => ~SeedRow'
    BY <2>3, <2>4 DEF AdminInv, Thread
  <2> HIDE DEF Settled
  <2> QED BY <2>2, <2>5, <2>6 DEF AdminInv, Real
<1>4. CASE \E c \in Call : Console(c)
  <2>1. PICK c \in Call : Console(c)
    BY <1>4
  <2>2. c \in Thread /\ c \notin Replica /\ rows' = rows /\ entry' = entry /\ deaths' = deaths
    BY <2>1, ConsoleMoved, AccountsAssumption DEF Thread, Still
  <2>3. /\ th'[c].pc \notin {"populate", "got", "delete", "invalidate", "store"}
        /\ th'[c].pc = "insert" => Real(th'[c].got)
        /\ \A s \in Thread : s # c => th'[s] = th[s]
    BY <2>1, ConsoleMoved, NoneApart DEF Begun, SignedIn, Creating, Reset, Real
  <2>4. ~Knows(c)'
    BY <2>2, <2>3 DEF Knows
  <2> QED BY <1>0, <2>2, <2>3, <2>4, KeptAdmin
<1>5. CASE Tick
  <2>1. rows' = rows /\ deaths' = deaths
    BY <1>5, TickMoved
  <2>2. \A s \in Thread : /\ th'[s].pc = th[s].pc /\ th'[s].user = th[s].user
                          /\ Real(th'[s].got) <=> Real(th[s].got)
                          /\ th'[s].got = None <=> th[s].got = None
    BY <1>5, TickMoved DEF Elapsed, Copied, Real
  <2>3. entry'[AdminUsername] # None =>
          /\ entry[AdminUsername] # None
          /\ Real(entry'[AdminUsername].user) => Real(entry[AdminUsername].user)
    BY <1>5, TickMoved DEF Elapsed, Copied, Real, Username
  <2>4. (SeedRow' <=> SeedRow) /\ (Settled => Settled')
    BY <2>1, <2>2 DEF SeedRow, Settled, Real, Thread
  <2>5. \A s \in Thread : Knows(s)' <=> Knows(s)
    BY <2>2 DEF Knows, Real
  <2>6. \A s \in Thread : th'[s].pc \in {"delete", "invalidate", "insert", "store"} => Real(th'[s].got)
    BY <2>2 DEF AdminInv, Thread
  <2> HIDE DEF SeedRow, Settled, Knows
  <2>7. \A s \in Replica :
          th'[s].pc \in {"invalidate", "insert", "store"} \/ (th'[s].pc = "got" /\ th'[s].got = None)
            => ~SeedRow'
    BY <2>2, <2>4 DEF AdminInv, Thread
  <2>8. deaths' = 0 /\ ((\E s \in Thread : Knows(s)')
                        \/ (entry'[AdminUsername] # None /\ Real(entry'[AdminUsername].user)))
          => Settled'
    BY <2>1, <2>3, <2>4, <2>5 DEF AdminInv
  <2> QED BY <2>6, <2>7, <2>8 DEF AdminInv, Real
<1>6. CASE UNCHANGED accountVars
  BY <1>6 DEF accountVars, AdminInv, Knows, Settled, SeedRow, Real
<1> QED BY <1>1, <1>2, <1>3, <1>4, <1>5, <1>6 DEF ConsoleNext

\* and the initial states.
LEMMA InitAdmin == ASSUME AccountsInit PROVE AdminInv
<1>1. \A s \in Thread : th[s].pc = "idle"
  BY IdleFields DEF AccountsInit
<1>2. entry[AdminUsername] = None
  BY DEF AccountsInit, Username
<1>3. \A s \in Thread : ~Knows(s)
  BY <1>1 DEF Knows
<1> HIDE DEF Knows, Settled, SeedRow
<1> QED BY <1>1, <1>2, <1>3 DEF AdminInv, Thread

-----------------------------------------------------------------------------
(* A database without a seed admin *)

\* Without a seed admin in the table, nobody has ever seen one, so nobody
\* deletes.
Unseeded ==
  ~seeded =>
    /\ \A t \in Thread : /\ th[t].got # None => Real(th[t].got)
                         /\ th[t].pc # "delete"
    /\ \A u \in Username : /\ rows[u] # None => Real(rows[u])
                           /\ entry[u] # None => Real(entry[u].user)

\* A step of one thread to a stage other than the deletion, with a user that
\* is none or no seed admin
LEMMA KeptUnseeded ==
  ASSUME Unseeded, seeded' = seeded, NEW t \in Thread,
         \A s \in Thread : s # t => th'[s] = th[s],
         ~seeded => /\ th'[t].got # None => Real(th'[t].got)
                    /\ th'[t].pc # "delete",
         ~seeded => \A u \in Username : /\ rows'[u] # None => Real(rows'[u])
                                        /\ entry'[u] # None => Real(entry'[u].user)
  PROVE  Unseeded'
BY DEF Unseeded, Real

\* What is put in the cache is no seed admin either.
LEMMA PutUnseeded ==
  ASSUME Typed, Unseeded, NEW t \in Thread, th[t].pc \in Holding,
         PutCache(th[t].user, th[t].got), ~seeded, NEW u \in Username, entry'[u] # None
  PROVE  Real(entry'[u].user)
<1>1. th[t].got \in Account /\ th[t].user \in Username
  BY HeldType
<1>2. entry'[u] = entry[u] \/ entry'[u].user = th[t].got
  BY <1>1, PutOwn
<1>3. Real(th[t].got)
  BY <1>1, NoneApart DEF Unseeded
<1> QED BY <1>2, <1>3 DEF Unseeded

\* Unseeded is inductive: the repository's steps,
LEMMA RepositoryUnseeded ==
  ASSUME Typed, Unseeded, NEW t \in Thread, Repository(t)
  PROVE  Unseeded'
<1> SUFFICES ASSUME ~seeded, seeded' = seeded PROVE Unseeded'
  <2>1. seeded' = seeded
    BY LookupMoved, SelectMoved, PopulateMoved, InvalidateMoved, InsertMoved, StoreMoved, DeleteMoved
       DEF Repository, Still
  <2> QED BY <2>1 DEF Unseeded
<1>1. th[t].user \in Username
  BY Numbers
<1>2. /\ th[t].got # None => Real(th[t].got)
      /\ \A u \in Username : /\ rows[u] # None => Real(rows[u])
                             /\ entry[u] # None => Real(entry[u].user)
  BY DEF Unseeded
<1>3. CASE LookupUser(t)
  <2>1. rows' = rows /\ entry' = entry /\ \A s \in Thread : s # t => th'[s] = th[s]
    BY <1>3, LookupMoved DEF Still, Moved
  <2>2. (th'[t].got # None => Real(th'[t].got)) /\ th'[t].pc # "delete"
    BY <1>1, <1>2, <1>3, LookupMoved DEF Moved
  <2> QED BY <1>2, <2>1, <2>2, KeptUnseeded
<1>4. CASE Select(t)
  <2>1. rows' = rows /\ entry' = entry /\ \A s \in Thread : s # t => th'[s] = th[s]
    BY <1>4, SelectMoved DEF Still, Moved
  <2>2. (th'[t].got # None => Real(th'[t].got)) /\ th'[t].pc # "delete"
    BY <1>1, <1>2, <1>4, SelectMoved DEF Moved
  <2> QED BY <1>2, <2>1, <2>2, KeptUnseeded
<1>5. CASE Populate(t)
  <2>1. /\ rows' = rows /\ th[t].pc \in Holding /\ PutCache(th[t].user, th[t].got)
        /\ \A s \in Thread : s # t => th'[s] = th[s]
    BY <1>5, PopulateMoved DEF Moved, Holding
  <2>2. (th'[t].got # None => Real(th'[t].got)) /\ th'[t].pc # "delete"
    BY <1>2, <1>5, PopulateMoved DEF Moved
  <2>3. \A u \in Username : entry'[u] # None => Real(entry'[u].user)
    BY <2>1, PutUnseeded
  <2> QED BY <1>2, <2>1, <2>2, <2>3, KeptUnseeded
<1>6. CASE Invalidate(t)
  <2>1. rows' = rows /\ \A s \in Thread : s # t => th'[s] = th[s]
    BY <1>6, InvalidateMoved DEF Moved
  <2>2. (th'[t].got # None => Real(th'[t].got)) /\ th'[t].pc # "delete"
    BY <1>2, <1>6, InvalidateMoved DEF Moved
  <2>3. \A u \in Username : entry'[u] # None => entry'[u] = entry[u]
    BY <1>1, <1>6, InvalidateMoved DEF Typed, AccountsType
  <2> QED BY <1>2, <2>1, <2>2, <2>3, KeptUnseeded
<1>7. CASE Insert(t)
  <2>1. entry' = entry /\ \A s \in Thread : s # t => th'[s] = th[s]
    BY <1>7, InsertMoved DEF Moved, Reset
  <2>2. (th'[t].got # None => Real(th'[t].got)) /\ th'[t].pc # "delete"
    BY <1>2, <1>7, InsertMoved DEF Moved, Reset
  <2>3. \A u \in Username : rows'[u] = rows[u] \/ rows'[u] = th[t].got
    BY <1>1, <1>7, InsertMoved DEF Typed, AccountsType
  <2> QED BY <1>2, <2>1, <2>2, <2>3, KeptUnseeded
<1>8. CASE Store(t)
  <2>1. /\ rows' = rows /\ th[t].pc \in Holding /\ PutCache(th[t].user, th[t].got)
        /\ \A s \in Thread : s # t => th'[s] = th[s]
    BY <1>8, StoreMoved DEF Moved, Reset, Holding
  <2>2. (th'[t].got # None => Real(th'[t].got)) /\ th'[t].pc # "delete"
    BY <1>2, <1>8, StoreMoved DEF Moved, Reset
  <2>3. \A u \in Username : entry'[u] # None => Real(entry'[u].user)
    BY <2>1, PutUnseeded
  <2> QED BY <1>2, <2>1, <2>2, <2>3, KeptUnseeded
<1>9. CASE Delete(t)
  BY <1>9, DeleteMoved DEF Unseeded
<1> QED BY <1>3, <1>4, <1>5, <1>6, <1>7, <1>8, <1>9 DEF Repository

\* and all the others.
LEMMA NextUnseeded == ASSUME Typed, Unseeded, [ConsoleNext]_accountVars PROVE Unseeded'
<1>0. ~seeded => \A u \in Username : /\ rows[u] # None => Real(rows[u])
                                     /\ entry[u] # None => Real(entry[u].user)
  BY DEF Unseeded
<1>1. CASE \E t \in Thread : Repository(t)
  BY <1>1, RepositoryUnseeded
<1>2. CASE \E r \in Replica : Startup(r)
  <2>1. PICK r \in Replica : Startup(r)
    BY <1>2
  <2>2. r \in Thread /\ (~seeded /\ th[r].got # None => Real(th[r].got))
    BY DEF Thread, Unseeded
  <2>3. rows' = rows /\ entry' = entry /\ seeded' = seeded
        /\ \A s \in Thread : s # r => th'[s] = th[s]
    BY <2>1, StartMoved, BootstrapMoved, SignerMoved DEF Startup, Still, Moved, Reset
  <2>4. Real(NewAdmin)
    BY NewAdminType, NoneApart DEF Real
  <2>5. ~seeded => (th'[r].got # None => Real(th'[r].got)) /\ th'[r].pc # "delete"
    <3>1. CASE Start(r) \/ ConfigureSigner(r)
      BY <3>1, StartMoved, SignerMoved DEF Reset
    <3>2. CASE Bootstrap(r)
      BY <2>2, <2>4, <3>2, BootstrapMoved DEF Moved, Reset, Real
    <3> QED BY <2>1, <3>1, <3>2 DEF Startup
  <2> QED BY <1>0, <2>2, <2>3, <2>5, KeptUnseeded
<1>3. CASE \E r \in Replica : Die(r)
  <2>1. PICK r \in Replica : Die(r)
    BY <1>3
  <2>2. rows' = rows /\ entry' = entry /\ seeded' = seeded
    BY <2>1, DieMoved
  <2>3. \A s \in Thread : th'[s] = th[s] \/ (th'[s].got = None /\ th'[s].pc # "delete")
    BY <2>1, DieMoved, IdleFields
  <2> QED BY <2>2, <2>3 DEF Unseeded, Real
<1>4. CASE \E c \in Call : Console(c)
  <2>1. PICK c \in Call : Console(c)
    BY <1>4
  <2>2. c \in Thread /\ rows' = rows /\ entry' = entry /\ seeded' = seeded
    BY <2>1, ConsoleMoved DEF Thread, Still
  <2>3. /\ th'[c].got # None => Real(th'[c].got)
        /\ th'[c].pc # "delete"
        /\ \A s \in Thread : s # c => th'[s] = th[s]
    BY <2>1, ConsoleMoved DEF Begun, SignedIn, Creating, Reset, Real
  <2> QED BY <1>0, <2>2, <2>3, KeptUnseeded
<1>5. CASE Tick
  <2>1. rows' = rows /\ seeded' = seeded
    BY <1>5, TickMoved
  <2>2. \A s \in Thread : /\ th'[s].pc = th[s].pc
                          /\ th'[s].got # None => th[s].got # None
                          /\ Real(th[s].got) => Real(th'[s].got)
    BY <1>5, TickMoved DEF Elapsed, Copied, Real
  <2>3. \A u \in Username : entry'[u] # None =>
          /\ entry[u] # None
          /\ Real(entry[u].user) => Real(entry'[u].user)
    BY <1>5, TickMoved DEF Elapsed, Copied, Real
  <2> QED BY <2>1, <2>2, <2>3 DEF Unseeded, Real
<1>6. CASE UNCHANGED accountVars
  BY <1>6 DEF accountVars, Unseeded, Real
<1> QED BY <1>1, <1>2, <1>3, <1>4, <1>5, <1>6 DEF ConsoleNext

\* The initial states
LEMMA InitUnseeded == ASSUME AccountsInit PROVE Unseeded
<1>1. \A s \in Thread : th[s].got = None /\ th[s].pc = "idle"
  BY IdleFields DEF AccountsInit
<1>2. ~seeded => \A u \in Username : rows[u] = None /\ entry[u] = None
  BY DEF AccountsInit
<1> QED BY <1>1, <1>2 DEF Unseeded

\* Thread t is where only a user with the admin's name lets it be.
Relies(t) ==
  \/ t \in Replica /\ th[t].pc \in {"store", "signer", "up"}
  \/ t \in Call /\ th[t].pc \notin {"idle", "served", "refused"}
  \/ th[t].pc \in {"populate", "got"} /\ th[t].user = AdminUsername /\ th[t].got # None

\* The first user with the admin's name is the one a replica creates, an
\* admin, for nobody can call before a replica serves and none serves before.
Manned ==
  ~seeded =>
    /\ \A r \in Replica : th[r].pc \in {"invalidate", "insert", "store"} => th[r].got.admin = TRUE
    /\ rows[AdminUsername] # None => rows[AdminUsername].admin = TRUE
    /\ (\E t \in Thread : Relies(t)) \/ entry[AdminUsername] # None => rows[AdminUsername] # None

\* A step of one thread that leaves the rows
LEMMA KeptManned ==
  ASSUME Manned, seeded' = seeded, NEW t \in Thread,
         \A s \in Thread : s # t => th'[s] = th[s],
         rows'[AdminUsername] = rows[AdminUsername],
         ~seeded /\ t \in Replica /\ th'[t].pc \in {"invalidate", "insert", "store"}
           => th'[t].got.admin = TRUE,
         ~seeded /\ Relies(t)' => rows[AdminUsername] # None,
         ~seeded /\ entry'[AdminUsername] # None => rows[AdminUsername] # None
  PROVE  Manned'
<1> SUFFICES ASSUME ~seeded PROVE Manned'
  BY DEF Manned
<1>1. \A s \in Thread : s # t => (Relies(s)' <=> Relies(s))
  BY DEF Relies
<1>2. (\E s \in Thread : Relies(s)') => rows[AdminUsername] # None
  BY <1>1 DEF Manned
<1>3. \A r \in Replica : th'[r].pc \in {"invalidate", "insert", "store"} => th'[r].got.admin = TRUE
  BY DEF Manned, Thread
<1> HIDE DEF Relies
<1> QED BY <1>2, <1>3 DEF Manned

\* A step after which there is an admin
LEMMA ThereManned ==
  ASSUME Manned, seeded' = seeded, NEW t \in Thread,
         \A s \in Thread : s # t => th'[s] = th[s],
         rows'[AdminUsername] # None, rows'[AdminUsername].admin = TRUE,
         ~seeded /\ t \in Replica /\ th'[t].pc \in {"invalidate", "insert", "store"}
           => th'[t].got.admin = TRUE
  PROVE  Manned'
<1>1. ~seeded => \A r \in Replica : th'[r].pc \in {"invalidate", "insert", "store"} => th'[r].got.admin = TRUE
  BY DEF Manned, Thread
<1> HIDE DEF Relies
<1> QED BY <1>1 DEF Manned

\* Manned is inductive: the repository's steps,
LEMMA RepositoryManned ==
  ASSUME Typed, Unseeded, Manned, NEW t \in Thread, Repository(t)
  PROVE  Manned'
<1> SUFFICES ASSUME ~seeded, seeded' = seeded PROVE Manned'
  <2>1. seeded' = seeded
    BY LookupMoved, SelectMoved, PopulateMoved, InvalidateMoved, InsertMoved, StoreMoved, DeleteMoved
       DEF Repository, Still
  <2> QED BY <2>1 DEF Manned
<1>1. th[t].user \in Username /\ AdminUsername \in Username /\ Placed(t, th[t])
  BY Numbers DEF Username, Typed
<1>2. t \in Replica => t \notin Call /\ th[t].user = AdminUsername
  BY <1>1, AccountsAssumption DEF Placed
<1>3. Relies(t) \/ entry[AdminUsername] # None => rows[AdminUsername] # None
  BY DEF Manned
<1>4. /\ t \in Replica /\ th[t].pc \in {"invalidate", "insert", "store"} => th[t].got.admin = TRUE
      /\ rows[AdminUsername] # None => rows[AdminUsername].admin = TRUE
  BY DEF Manned
<1>5. CASE LookupUser(t)
  <2>1. /\ rows' = rows /\ entry' = entry /\ \A s \in Thread : s # t => th'[s] = th[s]
        /\ th'[t].pc \in {"got", "select"} /\ th'[t].user = th[t].user
    BY <1>5, LookupMoved DEF Still, Moved
  <2>2. t \in Call => rows[AdminUsername] # None
    BY <1>3, <1>5, LookupMoved DEF Relies
  <2>3. t \in Replica /\ th'[t].pc = "got" => rows[AdminUsername] # None
    BY <1>2, <1>3, <1>5, LookupMoved DEF Moved
  <2>4. Relies(t)' => rows[AdminUsername] # None
    BY <2>1, <2>2, <2>3 DEF Relies, Thread
  <2> QED BY <1>3, <2>1, <2>4, KeptManned
<1>6. CASE Select(t)
  <2>1. /\ rows' = rows /\ entry' = entry /\ \A s \in Thread : s # t => th'[s] = th[s]
        /\ th'[t].pc \in {"got", "populate"} /\ th'[t].got = rows[th[t].user]
    BY <1>6, SelectMoved DEF Still, Moved
  <2>2. t \in Call => rows[AdminUsername] # None
    BY <1>3, <1>6, SelectMoved DEF Relies
  <2>3. Relies(t)' => rows[AdminUsername] # None
    BY <1>2, <2>1, <2>2 DEF Relies, Thread
  <2> QED BY <1>3, <2>1, <2>3, KeptManned
<1>7. CASE Populate(t)
  <2>1. /\ rows' = rows /\ th[t].pc = "populate" /\ PutCache(th[t].user, th[t].got)
        /\ th'[t].pc = "got" /\ \A s \in Thread : s # t => th'[s] = th[s]
    BY <1>7, PopulateMoved DEF Moved
  <2>2. th[t].got # None
    BY <1>1, <2>1 DEF Placed, Holding
  <2>3. rows[AdminUsername] # None
    BY <1>2, <1>3, <2>1, <2>2 DEF Relies, Thread
  <2> QED BY <2>1, <2>3, KeptManned
<1>8. CASE Invalidate(t)
  <2>1. /\ rows' = rows /\ th[t].pc = "invalidate" /\ th'[t].pc = "insert" /\ th'[t].got = th[t].got
        /\ \A s \in Thread : s # t => th'[s] = th[s]
        /\ entry' = entry \/ entry' = [entry EXCEPT ![th[t].user] = None]
    BY <1>8, InvalidateMoved DEF Moved
  <2>2. t \in Replica /\ ~Relies(t)'
    BY <1>1, <1>2, <2>1 DEF Placed, Relies, Thread
  <2>3. entry'[AdminUsername] # None => entry[AdminUsername] # None
    BY <1>1, <2>1 DEF Typed, AccountsType
  <2> QED BY <1>3, <1>4, <2>1, <2>2, <2>3, KeptManned
<1>9. CASE Store(t)
  <2>1. /\ rows' = rows /\ th[t].pc = "store" /\ th'[t].pc \in {"signer", "served"}
        /\ \A s \in Thread : s # t => th'[s] = th[s]
    BY <1>9, StoreMoved DEF Moved, Reset
  <2>2. rows[AdminUsername] # None
    BY <1>3, <2>1 DEF Relies, Thread
  <2> QED BY <2>1, <2>2, KeptManned
<1>10. CASE Insert(t)
  <2>1. /\ th[t].pc = "insert" /\ entry' = entry
        /\ \/ /\ rows[th[t].user] = None /\ rows' = [rows EXCEPT ![th[t].user] = th[t].got]
              /\ Moved(t, "store", th[t].got)
           \/ /\ rows[th[t].user] # None /\ rows' = rows
              /\ \/ t \in Replica /\ Reset(t, "idle")
                 \/ t \in Call /\ Reset(t, "refused")
    BY <1>10, InsertMoved
  <2>2. \A s \in Thread : s # t => th'[s] = th[s]
    BY <2>1 DEF Moved, Reset
  <2>3. th'[t].pc = "store" => th'[t].got = th[t].got
    BY <2>1 DEF Moved, Reset
  <2>4. th'[t].pc \in {"store", "idle", "refused"}
    BY <2>1 DEF Moved, Reset
  <2>5. CASE rows[AdminUsername] # None
    <3>1. rows'[AdminUsername] = rows[AdminUsername]
      BY <1>1, <2>1, <2>5 DEF Typed, AccountsType
    <3> QED BY <1>4, <2>1, <2>2, <2>3, <2>4, <2>5, <3>1, KeptManned
  <2>6. CASE rows[AdminUsername] = None
    <3>1. t \in Replica /\ th[t].got # None
      BY <1>1, <1>3, <2>1, <2>6 DEF Relies, Thread, Placed, Holding
    <3>2. rows'[AdminUsername] = th[t].got
      BY <1>1, <1>2, <2>1, <2>6, <3>1 DEF Typed, AccountsType
    <3> QED BY <1>4, <2>1, <2>2, <2>3, <2>4, <3>1, <3>2, ThereManned
  <2> QED BY <2>5, <2>6
<1>11. CASE Delete(t)
  BY <1>11, DeleteMoved DEF Unseeded
<1> QED BY <1>5, <1>6, <1>7, <1>8, <1>9, <1>10, <1>11 DEF Repository

\* and all the others.
LEMMA NextManned ==
  ASSUME Typed, Unseeded, Manned, [ConsoleNext]_accountVars PROVE Manned'
<1>0. ~seeded /\ entry[AdminUsername] # None => rows[AdminUsername] # None
  BY DEF Manned
<1>1. CASE \E t \in Thread : Repository(t)
  BY <1>1, RepositoryManned
<1>2. CASE \E r \in Replica : Startup(r)
  <2>1. PICK r \in Replica : Startup(r)
    BY <1>2
  <2>2. /\ r \in Thread /\ r \notin Call /\ th[r].user = AdminUsername
        /\ ~seeded /\ Relies(r) => rows[AdminUsername] # None
    BY AccountsAssumption DEF Thread, Typed, Placed, Manned
  <2>3. rows' = rows /\ entry' = entry /\ seeded' = seeded
        /\ \A s \in Thread : s # r => th'[s] = th[s]
    BY <2>1, StartMoved, BootstrapMoved, SignerMoved DEF Startup, Still, Moved, Reset
  <2>4. CASE Start(r)
    <3>1. th'[r].pc = "lookup" /\ ~Relies(r)'
      BY <2>2, <2>4, StartMoved DEF Reset, Relies
    <3> QED BY <1>0, <2>2, <2>3, <3>1, KeptManned
  <2>5. CASE ConfigureSigner(r)
    <3>1. th'[r].pc \in {"idle", "up"} /\ Relies(r)
      BY <2>5, SignerMoved DEF Reset, Relies
    <3> QED BY <1>0, <2>2, <2>3, <3>1, KeptManned
  <2>6. CASE Bootstrap(r)
    <3>1. CASE th[r].got # None /\ Moved(r, "signer", th[r].got)
      <4>1. Relies(r) /\ th'[r].pc = "signer"
        BY <2>2, <2>6, <3>1, BootstrapMoved DEF Relies, Moved
      <4> QED BY <1>0, <2>2, <2>3, <4>1, KeptManned
    <3>2. CASE Moved(r, "delete", NewAdmin) \/ Moved(r, "insert", NewAdmin)
      <4>1. th'[r].got.admin = TRUE /\ ~Relies(r)'
        BY <2>2, <3>2, NewAdminType DEF Moved, Relies
      <4> QED BY <1>0, <2>2, <2>3, <4>1, KeptManned
    <3>3. CASE Reset(r, "idle")
      <4>1. th'[r].pc = "idle" /\ ~Relies(r)'
        BY <2>2, <3>3 DEF Reset, Relies
      <4> QED BY <1>0, <2>2, <2>3, <4>1, KeptManned
    <3> QED BY <2>6, <3>1, <3>2, <3>3, BootstrapMoved
  <2> QED BY <2>1, <2>4, <2>5, <2>6 DEF Startup
<1>3. CASE \E r \in Replica : Die(r)
  <2>1. PICK r \in Replica : Die(r)
    BY <1>3
  <2>2. rows' = rows /\ entry' = entry /\ seeded' = seeded
    BY <2>1, DieMoved
  <2>3. \A s \in Thread : \/ th'[s] = th[s]
                          \/ s \in Replica /\ s \notin Call /\ th'[s].pc = "idle"
                          \/ th'[s].pc = "refused"
    BY <2>1, DieMoved, IdleFields, AccountsAssumption
  <2>4. \A s \in Thread : Relies(s)' => Relies(s)
    BY <2>3 DEF Relies
  <2>5. ~seeded => \A s \in Replica :
          th'[s].pc \in {"invalidate", "insert", "store"} => th'[s].got.admin = TRUE
    BY <2>3 DEF Manned, Thread
  <2> HIDE DEF Relies
  <2> QED BY <2>2, <2>4, <2>5 DEF Manned
<1>4. CASE \E c \in Call : Console(c)
  <2>1. PICK c \in Call : Console(c)
    BY <1>4
  <2>2. c \in Thread /\ c \notin Replica /\ rows' = rows /\ entry' = entry /\ seeded' = seeded
    BY <2>1, ConsoleMoved, AccountsAssumption DEF Thread, Still
  <2>3. \A s \in Thread : s # c => th'[s] = th[s]
    BY <2>1, ConsoleMoved DEF Begun, SignedIn, Creating, Reset
  <2>4. ~seeded /\ Relies(c)' => rows[AdminUsername] # None
    <3>1. CASE \E r \in Replica, u \in Username : Begun(c, r, u)
      <4>1. PICK r \in Replica : Serving(r)
        BY <3>1 DEF Begun
      <4>2. r \in Thread /\ Relies(r)
        BY <4>1 DEF Serving, Relies, Thread
      <4> QED BY <4>2 DEF Manned
    <3>2. CASE th[c].pc \in {"got", "signed in"}
      <4>1. Relies(c)
        BY <3>2 DEF Relies
      <4> QED BY <2>2, <4>1 DEF Manned
    <3>3. CASE Reset(c, "refused")
      BY <2>2, <3>3 DEF Reset, Relies
    <3> QED BY <2>1, <3>1, <3>2, <3>3, ConsoleMoved
  <2> QED BY <1>0, <2>2, <2>3, <2>4, KeptManned
<1>5. CASE Tick
  <2>1. rows' = rows /\ seeded' = seeded
    BY <1>5, TickMoved
  <2>2. \A s \in Thread : /\ th'[s].pc = th[s].pc /\ th'[s].user = th[s].user
                          /\ th'[s].got # None <=> th[s].got # None
    BY <1>5, TickMoved DEF Elapsed, Copied
  <2>3. \A s \in Thread : th[s].got.admin = TRUE /\ th[s].got # None => th'[s].got.admin = TRUE
    BY <1>5, TickMoved DEF Elapsed, Copied
  <2>4. entry'[AdminUsername] # None => entry[AdminUsername] # None
    BY <1>5, TickMoved DEF Username
  <2>5. \A s \in Thread : Relies(s)' <=> Relies(s)
    BY <2>2 DEF Relies
  <2>6. ~seeded => \A s \in Replica :
          th'[s].pc \in {"invalidate", "insert", "store"} => th'[s].got.admin = TRUE
    BY <2>2, <2>3 DEF Manned, Thread, Typed, Placed, Holding
  <2> HIDE DEF Relies
  <2> QED BY <2>1, <2>4, <2>5, <2>6 DEF Manned
<1>6. CASE UNCHANGED accountVars
  BY <1>6 DEF accountVars, Manned, Relies
<1> QED BY <1>1, <1>2, <1>3, <1>4, <1>5, <1>6 DEF ConsoleNext

\* The initial states
LEMMA InitManned == ASSUME AccountsInit PROVE Manned
<1>1. \A s \in Thread : th[s].pc = "idle" /\ th[s].got = None
  BY IdleFields DEF AccountsInit
<1>2. ~seeded => rows[AdminUsername] = None /\ entry[AdminUsername] = None
  BY DEF AccountsInit, Username
<1>3. \A s \in Thread : ~Relies(s)
  BY <1>1, AccountsAssumption DEF Relies, Thread
<1> HIDE DEF Relies
<1> QED BY <1>1, <1>2, <1>3 DEF Manned, Thread

-----------------------------------------------------------------------------
(* AdminOrPending *)

\* A replica that serves knows of an admin, and relies on one.
LEMMA AdminSettled == ASSUME Typed, AdminInv, Unseeded, Manned PROVE AdminOrPending
<1> DEFINE row == rows[AdminUsername]
<1> SUFFICES ASSUME NEW r \in Replica, Serving(r)
             PROVE  /\ seeded /\ deaths = 0 =>
                         \/ row # None /\ row.admin /\ row.hash # SeedAdminHash
                         \/ \E s \in Replica : th[s].pc \in {"invalidate", "insert"}
                         \/ NameTaken
                    /\ ~seeded => row # None /\ row.admin /\ row.hash # SeedAdminHash
  BY DEF AdminOrPending
<1>1. r \in Thread /\ Knows(r) /\ Relies(r)
  BY DEF Serving, Knows, Relies, Thread
<1>2. deaths = 0 => Real(row) \/ \E s \in Replica : th[s].pc \in {"invalidate", "insert"}
  BY <1>1 DEF AdminInv, Settled
<1>3. ~seeded => row # None /\ row.admin = TRUE /\ Real(row)
  BY <1>1 DEF Manned, Unseeded, Username
<1> QED BY <1>2, <1>3 DEF Real, NameTaken

\* Bootstrap: for any number of replicas that start together and any calls.  On
\* a database without a seed admin a replica that serves does so with a real
\* admin in the table, however many die.  On one with a seed admin and while
\* none dies, with a real admin, with a replica about to insert one, or with a
\* created user who took the name.
THEOREM AdminOrPendingHolds == ConsoleSpec => []AdminOrPending
<1> DEFINE Inv == Typed /\ AdminInv /\ Unseeded /\ Manned
<1>1. AccountsInit => Inv
  BY InitTyped, InitAdmin, InitUnseeded, InitManned
<1>2. Inv /\ [ConsoleNext]_accountVars => Inv'
  BY NextTyped, NextAdmin, NextUnseeded, NextManned
<1>3. Inv => AdminOrPending
  BY AdminSettled
<1> QED BY <1>1, <1>2, <1>3, PTL DEF ConsoleSpec
=============================================================================
