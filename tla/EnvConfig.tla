------------------------------ MODULE EnvConfig ------------------------------
(***************************************************************************)
(* The configuration read from the environment (config/config.go).        *)
(*                                                                         *)
(* An environment is [dashboard, required, parses, vars, host, keyVars,    *)
(* opts]: CONFIG_IN_DASHBOARD, whether every required variable is set and  *)
(* whether all numbers, booleans and the naming mode are valid, the        *)
(* IAF_TARGET_* variables in the order of os.Environ, ICINGA2_HOST_NAME,   *)
(* the WEBHOOK_KEY_* variables and the options the store keeps.  Target    *)
(* ids, sources and API keys are numbers, so that they can be sorted.      *)
(***************************************************************************)
EXTENDS Integers, Sequences, FiniteSets, Functions

CONSTANTS
  Normalize,      \* normalizeTargetID: spelling of a target -> its id
  LegacyTarget,   \* the id "default"
  HostValues,     \* host names, the empty one included
  NoHost          \* the empty host name

ASSUME NamesAssumption ==
  /\ LegacyTarget \in Int /\ \A t \in DOMAIN Normalize : Normalize[t] \in Int
  /\ NoHost \in HostValues

DrySettings == {"dry", "delete"}
EnvVar ==
  [target : DOMAIN Normalize, field : {"host"}, value : HostValues]
    \cup [target : DOMAIN Normalize, field : {"source"}, value : Int]
    \cup [target : DOMAIN Normalize, field : {"keys"}, value : Seq(Int)]
Environments ==
  [dashboard : BOOLEAN, required : BOOLEAN, parses : BOOLEAN, vars : Seq(EnvVar), host : HostValues,
   keyVars : Seq([key : Int, source : Int]),
   opts : [addr : Int, force : BOOLEAN, secret : Int, dry : DrySettings]]

Lowest(S) == CHOOSE x \in S : \A y \in S : x <= y
Latest(S) == CHOOSE x \in S : \A y \in S : y <= x
EmptyMap == [x \in {} |-> 0]

(* loadTargetSpecs: the last variable of a field wins, empty ones are      *)
(* passed over; two spellings may name one target.                         *)
SpecIds(vars) == {Normalize[vars[i].target] : i \in DOMAIN vars}
Field(vars, id, field, absent) ==
  LET set == {i \in DOMAIN vars : Normalize[vars[i].target] = id /\ vars[i].field = field}
  IN  IF set = {} THEN absent ELSE vars[Latest(set)].value

NotLoaded == [ok |-> FALSE, targets |-> EmptyMap, routes |-> EmptyMap, default |-> 0]

(* loadLegacyWebhookKeys: key -> source; of two variables with the same    *)
(* key the last one counts.                                                *)
LegacyWebhookKeys(vars) ==
  [k \in {vars[i].key : i \in DOMAIN vars} |->
     vars[Latest({i \in DOMAIN vars : vars[i].key = k})].source]

(* loadLegacyTargetAndRoutes: one target, a source per key.                *)
LoadLegacyTargetAndRoutes(env) ==
  LET keys == LegacyWebhookKeys(env.keyVars)
  IN  IF env.host = NoHost \/ DOMAIN keys = {} THEN NotLoaded
      ELSE [ok |-> TRUE, default |-> LegacyTarget,
            targets |-> [t \in {LegacyTarget} |-> [source |-> LegacyTarget, host |-> env.host]],
            routes |-> [k \in DOMAIN keys |-> [source |-> keys[k], target |-> LegacyTarget]]]

(* loadTargetsAndRoutes: an unnamed host, a key listed twice or no key at  *)
(* all is an error.  A target without a source has its id for one.         *)
LoadTargetsAndRoutes(env) ==
  LET ids == SpecIds(env.vars)
      host(id) == Field(env.vars, id, "host", NoHost)
      source(id) == Field(env.vars, id, "source", id)
      keys(id) == Field(env.vars, id, "keys", <<>>)
      owners(k) == UNION {{<<id, i>> : i \in {j \in DOMAIN keys(id) : keys(id)[j] = k}} : id \in ids}
      routed == UNION {Range(keys(id)) : id \in ids}
  IN  IF ids = {} THEN LoadLegacyTargetAndRoutes(env)
      ELSE IF (\E id \in ids : host(id) = NoHost) \/ routed = {}
                \/ (\E k \in routed : Cardinality(owners(k)) > 1) THEN NotLoaded
      ELSE [ok |-> TRUE, default |-> Lowest(ids),
            targets |-> [id \in ids |-> [source |-> source(id), host |-> host(id)]],
            routes |-> [k \in routed |->
              LET id == (CHOOSE o \in owners(k) : TRUE)[1]
              IN  [source |-> source(id), target |-> id]]]

(* Load: requireEnv, optBool, optInt and the check of the naming mode.     *)
WellFormed(env) == env.required /\ env.parses

(* Load: in dashboard mode the bridge may start without any target, and    *)
(* does so when the targets of the environment are in error.               *)
LoadEnv(env) ==
  LET l == LoadTargetsAndRoutes(env)
  IN  [ok |-> WellFormed(env) /\ (l.ok \/ env.dashboard),
       targets |-> l.targets, routes |-> l.routes, default |-> l.default, opts |-> env.opts]
-----------------------------------------------------------------------------
(* When targets are loaded, every key the environment lists for a target   *)
(* goes to that target and to no other, and the default target is among    *)
(* them: no key silently changes hands.                                    *)
KeysGoWhereListed(env) ==
  LET l == LoadEnv(env)
  IN  l.ok /\ DOMAIN l.targets # {} =>
        /\ l.default \in DOMAIN l.targets
        /\ \A i \in DOMAIN env.vars :
             LET v == env.vars[i]
                 id == Normalize[v.target]
             IN  v.field = "keys" /\ v.value = Field(env.vars, id, "keys", <<>>) =>
                   \A k \in Range(v.value) : k \in DOMAIN l.routes /\ l.routes[k].target = id
=============================================================================
