------------------------------ MODULE Settings ------------------------------
(***************************************************************************)
(* Where the settings of the process come from: the secrets provider       *)
(* (internal/platform/secrets), and config.Load (config/config.go) with    *)
(* viper's layers.  A few keys stand for all of their kind.  A raw value   *)
(* has the kind that YAML or the environment gives it; the input `in` of   *)
(* an operator has the raw values flag, env, local and file (the config    *)
(* files) and dir (the secret files) of every key, the provider, whether   *)
(* the config files parse and whether a signing key is set.                *)
(***************************************************************************)
EXTENDS Integers, TLC

Unset == <<"none", "">>
Str(s) == <<"string", s>>
Int64(n) == <<"int", n>>
Bool(b) == <<"bool", b>>
Kind(raw) == raw[1]
Val(raw) == raw[2]

\* setupDefaults
Default == [profile |-> Str("local"), dbPass |-> Str(""), brokers |-> Str(""),
            tls |-> Bool(FALSE), certFile |-> Str(""), maxSize |-> Int64(3)]
Key == DOMAIN Default

\* init declares flags for the profile and the like, but not for these others.
FlagKey == {"profile"}

\* bindSensitiveEnv: the keys that have an environment variable
EnvKey == {"dbPass", "brokers", "tls", "certFile"}

\* secrets.Required
Required == {"dbPass"}

-----------------------------------------------------------------------------
\* LoadFromEnv and selectProvider: whether the provider finds what is
\* required.  An empty file counts as found.
SecretsLoaded(in) ==
  \/ in.provider = "env" /\ \A k \in Required : Val(in.env[k]) # ""
  \/ in.provider = "file" /\ \A k \in Required : Kind(in.dir[k]) # "none"

\* Mutant: only variables that are not set yet are exported.
ExportedIfUnset(in) ==
  [k \in Key |-> IF in.provider = "file" /\ k \in Required /\ Kind(in.env[k]) = "none"
                 THEN in.dir[k] ELSE in.env[k]]

\* FileProvider.Load exports the files' contents (`dir`, trailing newlines trimmed).
Exported(in) ==
  IF in.provider = "file" THEN [k \in Key |-> IF k \in Required THEN in.dir[k] ELSE in.env[k]]
  ELSE in.env

-----------------------------------------------------------------------------
\* viper: the environment (an empty variable does not count), the local
\* file merged over the base file, the default
Lookup(in, env, k) ==
  IF k \in EnvKey /\ Val(env[k]) # "" THEN env[k]
  ELSE IF Kind(in.local[k]) # "none" THEN in.local[k]
  ELSE IF Kind(in.file[k]) # "none" THEN in.file[k]
  ELSE Default[k]

\* strconv.ParseInt, on the texts that are used here
Numeral == "0" :> 0 @@ "2" :> 2

\* ValueToConfigValue: only a text that is no number cannot be decoded.
CanDecode(k, raw) ==
  Kind(Default[k]) = "int" /\ Kind(raw) = "string" => Val(raw) \in DOMAIN Numeral

getString(raw) == CASE Kind(raw) = "bool" -> IF Val(raw) THEN "true" ELSE "false"
                    [] Kind(raw) = "int" -> ToString(Val(raw))
                    [] OTHER -> Val(raw)
getBool(raw) == CASE Kind(raw) = "int" -> Val(raw) > 0
                  [] Kind(raw) = "string" -> Val(raw) = "true"
                  [] OTHER -> Val(raw)
getInt(raw) == CASE Kind(raw) = "bool" -> IF Val(raw) THEN 1 ELSE 0
                 [] Kind(raw) = "string" -> Numeral[Val(raw)]
                 [] OTHER -> Val(raw)

Decode(k, raw) ==
  CASE Kind(Default[k]) = "bool" -> getBool(raw)
    [] Kind(Default[k]) = "int" -> getInt(raw)
    [] OTHER -> getString(raw)

\* loadLocalConfigs fails on a file that does not parse or decode; so Load
\* ends the process.
CanLoad(in, env) == in.parses /\ \A k \in Key : CanDecode(k, Lookup(in, env, k))

\* loadCommandLineOverrides: a flag that is not its default wins.
Override(in, k, value) ==
  IF k \in FlagKey /\ in.flag[k] \notin {Unset, Default[k]} THEN Val(in.flag[k]) ELSE value

\* Load
Load(in, env) == [k \in Key |-> Override(in, k, Decode(k, Lookup(in, env, k)))]

=============================================================================
