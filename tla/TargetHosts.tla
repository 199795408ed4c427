------------------------------ MODULE TargetHosts ------------------------------
(***************************************************************************)
(* Preparing the Icinga2 hosts of the configured targets (main.go,         *)
(* ensureConfiguredHosts; icinga/api.go, GetHostInfo and CreateHost): one  *)
(* goroutine per target looks its host up and creates it when it is        *)
(* missing.  At startup an error ends the process, on a reload it is only  *)
(* logged.  Two targets may name the same host, operators create and       *)
(* delete hosts, and calls fail.                                           *)
(*                                                                         *)
(* unverified, disturbed and lost are history variables: hosts whose       *)
(* lookup failed in this pass, whether a create call failed or an operator *)
(* interfered in it, and hosts deleted since.                              *)
(***************************************************************************)
EXTENDS FiniteSets, Integers

CONSTANTS
  Targets,        \* target ids
  HostNames,
  HostOf,         \* [Targets -> HostNames]
  AutoCreates,    \* values of ICINGA2_HOST_AUTO_CREATE
  Policies,       \* values of ICINGA2_CONFLICT_POLICY; ICINGA2_FORCE acts like "warn"
  MaxPasses,      \* bound: startup and reloads
  MaxMeddling     \* bound: failing calls and operators' changes

ASSUME HostsAssumption ==
  /\ HostOf \in [Targets -> HostNames]
  /\ AutoCreates \subseteq BOOLEAN /\ Policies \subseteq {"skip", "fail", "warn"}
  /\ MaxPasses \in Nat \ {0} /\ MaxMeddling \in Nat

VARIABLES
  autoCreate, policy,   \* configuration
  object,               \* "absent", "ours", "dummy" or "foreign" for each host
  phase,                \* "starting", "serving", "reloading" or "exited"
  task,                 \* what the goroutine of each target does next
  firstErr,             \* "none" or why the pass fails
  passes, meddling,
  unverified, disturbed, lost

hostVars == <<autoCreate, policy, object, phase, task, firstErr, passes, meddling,
              unverified, disturbed, lost>>

HostsInit ==
  /\ autoCreate \in AutoCreates /\ policy \in Policies
  /\ object \in [HostNames -> {"absent", "ours", "dummy", "foreign"}]
  /\ phase = "starting" /\ task = [t \in Targets |-> "query"] /\ firstErr = "none"
  /\ passes = 1 /\ meddling = 0
  /\ unverified = {} /\ disturbed = FALSE /\ lost = {}
-----------------------------------------------------------------------------
Preparing == phase \in {"starting", "reloading"}

(* getHostInfo, checkHostConflict: what Icinga2 has under the name.        *)
Exists(h) == object[h] # "absent"
Conflict(h) == object[h] = "foreign" /\ policy # "warn"

(* The goroutine of a target goes on, or records its error and ends.       *)
Proceed(t, what) == task' = [task EXCEPT ![t] = what]
Fail(t, why) ==
  /\ Proceed(t, "done")
  /\ firstErr' = IF firstErr = "none" THEN why ELSE firstErr

(* GetHostInfo fails (only logged), finds the host (whoever owns it), or   *)
(* does not find it: an error without auto-create, else CreateHost.        *)
LookUp(t) ==
  /\ task[t] = "query" /\ Preparing
  /\ \/ /\ meddling < MaxMeddling /\ meddling' = meddling + 1
        /\ Proceed(t, "done") /\ unverified' = unverified \cup {HostOf[t]}
        /\ UNCHANGED firstErr
     \/ /\ Exists(HostOf[t])
        /\ Proceed(t, "done") /\ UNCHANGED <<firstErr, meddling, unverified>>
     \/ /\ ~Exists(HostOf[t]) /\ ~autoCreate
        /\ Fail(t, "missing") /\ UNCHANGED <<meddling, unverified>>
     \/ /\ ~Exists(HostOf[t]) /\ autoCreate
        /\ Proceed(t, "check") /\ UNCHANGED <<firstErr, meddling, unverified>>
  /\ UNCHANGED <<autoCreate, policy, object, phase, passes, disturbed, lost>>

(* CreateHost looks again: a host that is there by now and is neither      *)
(* ours nor a dummy is a conflict, which the warn policy overrides.        *)
ConflictCheck(t) ==
  /\ task[t] = "check" /\ Preparing
  /\ \/ /\ meddling < MaxMeddling /\ meddling' = meddling + 1
        /\ Fail(t, "create") /\ disturbed' = TRUE
     \/ /\ Conflict(HostOf[t])
        /\ Fail(t, "conflict") /\ UNCHANGED <<meddling, disturbed>>
     \/ /\ ~Conflict(HostOf[t])
        /\ Proceed(t, "put") /\ UNCHANGED <<firstErr, meddling, disturbed>>
  /\ UNCHANGED <<autoCreate, policy, object, phase, passes, unverified, lost>>

\* Faulty variant: the status of the answer is not looked at.
PutHostUnchecked(t) ==
  /\ task[t] = "put" /\ Preparing
  /\ \/ /\ ~Exists(HostOf[t])
        /\ object' = [object EXCEPT ![HostOf[t]] = "ours"]
        /\ Proceed(t, "done") /\ UNCHANGED <<firstErr, meddling, disturbed>>
     \/ /\ Exists(HostOf[t])
        /\ Proceed(t, "done") /\ UNCHANGED <<firstErr, object, meddling, disturbed>>
     \/ /\ meddling < MaxMeddling /\ meddling' = meddling + 1 /\ disturbed' = TRUE
        /\ Proceed(t, "done") /\ UNCHANGED <<firstErr, object>>
  /\ UNCHANGED <<autoCreate, policy, phase, passes, unverified, lost>>

(* The PUT: Icinga2 creates the host, or refuses because it exists.  A     *)
(* failed call may have been carried out.                                  *)
PutHost(t) ==
  /\ task[t] = "put" /\ Preparing
  /\ \/ /\ ~Exists(HostOf[t])
        /\ object' = [object EXCEPT ![HostOf[t]] = "ours"]
        /\ Proceed(t, "done") /\ UNCHANGED <<firstErr, meddling, disturbed>>
     \/ /\ Exists(HostOf[t])
        /\ Fail(t, "create") /\ UNCHANGED <<object, meddling, disturbed>>
     \/ /\ meddling < MaxMeddling /\ meddling' = meddling + 1 /\ disturbed' = TRUE
        /\ Fail(t, "create")
        /\ object' \in {object, [object EXCEPT ![HostOf[t]] = IF @ = "absent" THEN "ours" ELSE @]}
  /\ UNCHANGED <<autoCreate, policy, phase, passes, unverified, lost>>

(* wg.Wait: at startup an error exits, a reload goes on.                   *)
PassEnds ==
  /\ Preparing /\ \A t \in Targets : task[t] = "done"
  /\ phase' = IF phase = "starting" /\ firstErr # "none" THEN "exited" ELSE "serving"
  /\ UNCHANGED <<autoCreate, policy, object, task, firstErr, passes, meddling, unverified,
                 disturbed, lost>>

(* OnReload prepares the hosts again, possibly under another policy.       *)
ReloadHosts ==
  /\ phase = "serving" /\ passes < MaxPasses
  /\ phase' = "reloading" /\ passes' = passes + 1
  /\ autoCreate' \in AutoCreates /\ policy' \in Policies
  /\ task' = [t \in Targets |-> "query"] /\ firstErr' = "none"
  /\ unverified' = {} /\ disturbed' = FALSE /\ lost' = {}
  /\ UNCHANGED <<object, meddling>>

(* Operators and Director.                                                 *)
OperatorCreates(h) ==
  /\ ~Exists(h) /\ meddling < MaxMeddling /\ phase # "exited"
  /\ object' = [object EXCEPT ![h] = "foreign"]
  /\ meddling' = meddling + 1 /\ disturbed' = TRUE
  /\ UNCHANGED <<autoCreate, policy, phase, task, firstErr, passes, unverified, lost>>

OperatorRemoves(h) ==
  /\ Exists(h) /\ meddling < MaxMeddling /\ phase # "exited"
  /\ object' = [object EXCEPT ![h] = "absent"] /\ lost' = lost \cup {h}
  /\ meddling' = meddling + 1 /\ disturbed' = TRUE
  /\ UNCHANGED <<autoCreate, policy, phase, task, firstErr, passes, unverified>>

HostsNext ==
  \/ \E t \in Targets : LookUp(t) \/ ConflictCheck(t) \/ PutHost(t)
  \/ PassEnds \/ ReloadHosts
  \/ \E h \in HostNames : OperatorCreates(h) \/ OperatorRemoves(h)

HostsSpec == HostsInit /\ [][HostsNext]_hostVars
-----------------------------------------------------------------------------
SharedHost == \E t, u \in Targets : t # u /\ HostOf[t] = HostOf[u]

(* A pass that reports no error leaves every target with a host, unless    *)
(* the lookup of that host failed or an operator removed it meanwhile.     *)
(* And the process gives up at startup only for a reason: a missing host   *)
(* it may not create, a create call that failed, an operator who was       *)
(* faster, or two targets that raced to create the same host.  A failed    *)
(* lookup alone is no reason.                                              *)
PreparationExplained ==
  /\ phase = "serving" /\ firstErr = "none" =>
       \A t \in Targets : HostOf[t] \in unverified \cup lost \/ Exists(HostOf[t])
  /\ phase = "exited" =>
       \/ firstErr = "missing" /\ ~autoCreate
       \/ firstErr \in {"create", "conflict"} /\ autoCreate /\ (disturbed \/ SharedHost)
=============================================================================
