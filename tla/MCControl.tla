------------------------------ MODULE MCControl ------------------------------
(***************************************************************************)
(* Model checking of what decides who may do what and under which          *)
(* configuration: the stored configuration and its hot reload, the         *)
(* dashboard accounts, the limiter in front of the webhook handler and the *)
(* preparation of the target hosts.  These parts share no state, so a      *)
(* behaviour of the module is a behaviour of one of them: focus, chosen    *)
(* once, says which one moves while the others stay as they were started.  *)
(***************************************************************************)
EXTENDS ConfigStore, Accounts, IngressLimiter, TargetHosts, TLC

CONSTANTS
  u1,             \* a user name
  p1, p2,         \* passwords
  t1, t2, t3,     \* targets
  h1, h2          \* host names

VARIABLE focus

controlVars == <<focus, storeVars, accessVars, ingressVars, hostVars>>
-----------------------------------------------------------------------------
(* Environments: two spellings of one target, a key listed twice, the      *)
(* variables of earlier releases only, and nothing but those without       *)
(* dashboard mode and in error.                                            *)
MCNormalize == "A" :> 1 @@ "a" :> 1 @@ "B" :> 2
Var(target, field, value) == [target |-> target, field |-> field, value |-> value]
Environment(vars, dry) ==
  [dashboard |-> TRUE, required |-> TRUE, parses |-> TRUE, vars |-> vars, host |-> "hd",
   keyVars |-> <<[key |-> 5, source |-> 100], [key |-> 6, source |-> 101]>>,
   opts |-> [addr |-> 1, force |-> FALSE, secret |-> 1, dry |-> dry]]
MCEnvs ==
  {Environment(<<Var("A", "host", "h1"), Var("B", "keys", <<2, 1>>), Var("B", "host", "h2"),
                 Var("a", "host", "h3")>>, "dry"),
   Environment(<<Var("A", "host", "h1"), Var("A", "keys", <<1>>), Var("B", "keys", <<1>>),
                 Var("B", "host", "h2")>>, "dry"),
   Environment(<<>>, "delete"),
   [Environment(<<>>, "dry") EXCEPT !.dashboard = FALSE, !.host = ""]}

Patch(addr, secret, dry) ==
  [do |-> "patch", valid |-> TRUE, addr |-> addr, force |-> TRUE, secret |-> secret, dry |-> dry]
MCEdits ==
  {Patch(2, Mask, "unset"), Patch(0, 3, "delete"), [Patch(0, 3, "dry") EXCEPT !.valid = FALSE],
   [do |-> "add", target |-> [id |-> 2, source |-> 7, host |-> "h9", keys |-> <<>>]],
   [do |-> "drop", id |-> 1],
   [do |-> "unkey", id |-> 2, index |-> 1], [do |-> "mint", id |-> 2],
   [do |-> "import", masked |-> FALSE], [do |-> "import", masked |-> TRUE],
   [do |-> "account", name |-> "u", pass |-> 1], [do |-> "account", name |-> "u", pass |-> 0]}

(* A user with an old hash and the role viewer, whom somebody may set      *)
(* again as an administrator with another password, or remove.             *)
MCLegacy == u1 :> [pass |-> p1, role |-> "viewer"]
MCOperations ==
  {[do |-> "login"], [do |-> "config"],
   [do |-> "add", name |-> u1, form |-> "plain", pass |-> p2, role |-> "admin"],
   [do |-> "remove", name |-> u1], [do |-> "remove", name |-> Primary]}

(* Two targets share a host.                                               *)
MCHostOf == t1 :> h1 @@ t2 :> h1 @@ t3 :> h2

ControlSymmetry == Permutations(Editors) \cup Permutations(Dialogs)
-----------------------------------------------------------------------------
(* What the pure operators compute, evaluated on bounded inputs before the *)
(* behaviours.  Environments of up to three variables of two targets, one  *)
(* of which has two spellings.                                             *)
SomeVars ==
  {Var(t, "host", "h1") : t \in {"A", "a", "B"}}
    \cup {Var(t, "keys", ks) : t \in {"A", "a", "B"}, ks \in {<<1>>, <<2, 1>>, <<2, 2>>}}
ASSUME KeysAlwaysGoWhereListed ==
  \A n \in 0..3 : \A vars \in [1..n -> SomeVars] : KeysGoWhereListed(Environment(vars, "dry"))

ASSUME EveryRetryAfterHonest == \A tokens \in 0..(One - 1) : RetryAfterHonest(tokens)
-----------------------------------------------------------------------------
(* A part that does not move has one initial state.                        *)
ControlInit ==
  /\ focus \in {"config", "accounts", "ingress", "hosts"}
  /\ StoreInit /\ AccessInit /\ IngressInit /\ HostsInit
  /\ focus # "config" => env = Environment(<<>>, "delete")
  /\ focus # "hosts" => /\ autoCreate = (CHOOSE a \in AutoCreates : TRUE)
                        /\ policy = (CHOOSE p \in Policies : TRUE)
                        /\ object = [h \in HostNames |-> "absent"]

ControlNext ==
  /\ UNCHANGED focus
  /\ \/ focus = "config" /\ StoreNext /\ UNCHANGED <<accessVars, ingressVars, hostVars>>
     \/ focus = "accounts" /\ AccessNext /\ UNCHANGED <<storeVars, ingressVars, hostVars>>
     \/ focus = "ingress" /\ IngressNext /\ UNCHANGED <<storeVars, accessVars, hostVars>>
     \/ focus = "hosts" /\ HostsNext /\ UNCHANGED <<storeVars, accessVars, ingressVars>>

ControlSpec == ControlInit /\ [][ControlNext]_controlVars
=============================================================================
