----------------------------- MODULE HealthChecker -----------------------------
(***************************************************************************)
(* The reverse health check (health/checker.go): a goroutine that probes   *)
(* the Icinga2 API, keeps a status for /health, and reports to a service   *)
(* of its own in Icinga2, which it creates again when Icinga2 has lost it. *)
(* A check is cut at every call of the API.  The API may be unreachable    *)
(* for a while, a call may fail, and operators may delete the service.     *)
(*                                                                         *)
(* streak and reportedStreak are history variables: the failed probes      *)
(* since the last good one, now and when the last report was accepted.     *)
(***************************************************************************)
EXTENDS Integers

CONSTANTS
  FailLimit,      \* consecutive failures that make the bridge unhealthy
  MaxTrouble,     \* bound: outages, failing calls and lost services
  MaxFails        \* bound of the failure counters

ASSUME HealthAssumption ==
  /\ FailLimit \in Nat \ {0}
  /\ MaxTrouble \in Nat /\ MaxFails \in Nat /\ MaxFails >= FailLimit

VARIABLES
  registers,            \* cfg.Register, with a host and a service name
  doing,                \* what the checker's goroutine does next
  healthy, fails,       \* status.Healthy, status.ConsecutiveFails
  icingaUp,             \* status.IcingaUp
  registered,
  reachable,            \* whether the API answers
  service, result,      \* whether the service exists; its last check result
  trouble, streak, reportedStreak

checkerVars == <<doing, healthy, fails, icingaUp, registered>>
icingaVars == <<reachable, service, result>>
healthVars == <<registers, checkerVars, icingaVars, trouble, streak, reportedStreak>>

HealthInit ==
  /\ registers \in BOOLEAN
  /\ doing = "start" /\ healthy = TRUE /\ fails = 0 /\ icingaUp = FALSE
  /\ registered = FALSE
  /\ reachable \in BOOLEAN /\ service \in BOOLEAN /\ result = "none"
  /\ trouble = 0 /\ streak = 0 /\ reportedStreak = 0
-----------------------------------------------------------------------------
(* A call fails when the API is unreachable, and now and then otherwise.   *)
CallFails ==
  \/ ~reachable /\ UNCHANGED trouble
  \/ reachable /\ trouble < MaxTrouble /\ trouble' = trouble + 1
CallWorks == reachable /\ UNCHANGED trouble

(* registerService: CreateService answers "already exists" for a service   *)
(* that is there, ours or not, and that counts as registered.  A failed    *)
(* call may have been carried out.                                         *)
RegisterService(next) ==
  /\ \/ /\ CallWorks
        /\ service' = TRUE /\ registered' = TRUE
        /\ result' = IF service THEN result ELSE "none"
     \/ /\ CallFails
        /\ UNCHANGED registered
        /\ \/ UNCHANGED <<service, result>>
           \/ reachable /\ ~service /\ service' = TRUE /\ result' = "none"
  /\ doing' = next
  /\ UNCHANGED <<healthy, fails, icingaUp, reachable, streak, reportedStreak>>

(* Start: register if so configured, then check at once.                   *)
StartChecker ==
  /\ doing = "start"
  /\ \/ registers /\ RegisterService("probe")
     \/ /\ ~registers /\ doing' = "probe"
        /\ UNCHANGED <<healthy, fails, icingaUp, registered, icingaVars, trouble, streak,
                       reportedStreak>>

AfterProbe == IF ~registers THEN "wait" ELSE IF registered THEN "report" ELSE "register"
Capped(n) == IF n < MaxFails THEN n + 1 ELSE n

\* Faulty variant: a good probe leaves the failures of earlier outages.
ProbeKeepsCount ==
  /\ doing = "probe"
  /\ \/ /\ CallWorks
        /\ icingaUp' = TRUE /\ healthy' = TRUE /\ fails' = fails /\ streak' = 0
     \/ /\ CallFails
        /\ icingaUp' = FALSE /\ fails' = Capped(fails) /\ streak' = Capped(streak)
        /\ healthy' = (healthy /\ fails' < FailLimit)
  /\ doing' = AfterProbe
  /\ UNCHANGED <<registered, icingaVars, reportedStreak>>

(* runCheck: probe with GetHostInfo and update the status.                 *)
Probe ==
  /\ doing = "probe"
  /\ \/ /\ CallWorks
        /\ icingaUp' = TRUE /\ healthy' = TRUE /\ fails' = 0 /\ streak' = 0
     \/ /\ CallFails
        /\ icingaUp' = FALSE /\ fails' = Capped(fails) /\ streak' = Capped(streak)
        /\ healthy' = (healthy /\ fails' < FailLimit)
  /\ doing' = AfterProbe
  /\ UNCHANGED <<registered, icingaVars, reportedStreak>>

(* runCheck: the service is not known to exist; try to create it.          *)
RetryRegister == doing = "register" /\ RegisterService("report")

\* Faulty variant: a 404 is logged and forgotten.
ReportIgnores404 ==
  /\ doing = "report" /\ doing' = "wait"
  /\ \/ /\ CallWorks /\ service
        /\ result' = IF healthy THEN "ok" ELSE "critical"
        /\ reportedStreak' = streak
     \/ /\ CallFails \/ (CallWorks /\ ~service)
        /\ UNCHANGED <<result, reportedStreak>>
  /\ UNCHANGED <<healthy, fails, icingaUp, registered, reachable, service, streak>>

(* runCheck: report the health.  404 means that the service is gone.       *)
Report ==
  /\ doing = "report" /\ doing' = "wait"
  /\ \/ /\ CallWorks /\ service
        /\ result' = IF healthy THEN "ok" ELSE "critical"
        /\ reportedStreak' = streak
        /\ UNCHANGED registered
     \/ /\ CallFails
        /\ UNCHANGED <<result, reportedStreak, registered>>
     \/ /\ CallWorks /\ ~service
        /\ registered' = FALSE
        /\ UNCHANGED <<result, reportedStreak>>
  /\ UNCHANGED <<healthy, fails, icingaUp, reachable, service, streak>>

(* The ticker starts the next check.                                       *)
NextCheck ==
  /\ doing = "wait" /\ doing' = "probe"
  /\ UNCHANGED <<healthy, fails, icingaUp, registered, icingaVars, trouble, streak,
                 reportedStreak>>

(* The context is cancelled: a last UNKNOWN is sent if so configured.      *)
StopChecker ==
  /\ doing = "wait"
  /\ doing' = IF registers THEN "farewell" ELSE "stopped"
  /\ UNCHANGED <<healthy, fails, icingaUp, registered, icingaVars, trouble, streak,
                 reportedStreak>>

(* The UNKNOWN is accepted, or lost: main does not wait for the checker,   *)
(* so the process may be gone before the call.                             *)
Farewell ==
  /\ doing = "farewell" /\ doing' = "stopped"
  /\ \/ reachable /\ service /\ result' = "unknown"
     \/ UNCHANGED result
  /\ UNCHANGED <<healthy, fails, icingaUp, registered, reachable, service, trouble, streak,
                 reportedStreak>>
-----------------------------------------------------------------------------
(* The environment: outages, and an operator who deletes the service.      *)
GoDown ==
  /\ reachable /\ trouble < MaxTrouble
  /\ reachable' = FALSE /\ trouble' = trouble + 1
  /\ UNCHANGED <<checkerVars, service, result, streak, reportedStreak>>

ComeUp ==
  /\ ~reachable /\ reachable' = TRUE
  /\ UNCHANGED <<checkerVars, service, result, trouble, streak, reportedStreak>>

LoseService ==
  /\ service /\ trouble < MaxTrouble
  /\ service' = FALSE /\ result' = "none" /\ trouble' = trouble + 1
  /\ UNCHANGED <<checkerVars, reachable, streak, reportedStreak>>

CheckerStep ==
  /\ StartChecker \/ Probe \/ RetryRegister \/ Report \/ NextCheck \/ Farewell
  /\ UNCHANGED registers

Recover == ComeUp /\ UNCHANGED registers

HealthNext ==
  \/ CheckerStep \/ Recover
  \/ (StopChecker \/ GoDown \/ LoseService) /\ UNCHANGED registers

HealthSpec == HealthInit /\ [][HealthNext]_healthVars

(* The checker's goroutine goes on and its ticker ticks; an outage ends.   *)
HealthFairness == WF_healthVars(CheckerStep) /\ WF_healthVars(Recover)
FairHealthSpec == HealthSpec /\ HealthFairness
-----------------------------------------------------------------------------
(* What Icinga2 shows is what the probes found: critical only after        *)
(* FailLimit failures in a row, ok only after fewer; and /health says      *)
(* unhealthy in exactly the same states, never while it says that Icinga2  *)
(* is up.                                                                  *)
ReportMatchesProbes ==
  /\ result = "critical" => reportedStreak >= FailLimit
  /\ result = "ok" => reportedStreak < FailLimit
  /\ healthy <=> streak < FailLimit
  /\ icingaUp => healthy

(* The self-monitoring service comes back: whatever was lost, unless the   *)
(* checker is stopped it exists again and shows ok in the end.             *)
ServiceRestored ==
  registers => <>(doing = "stopped" \/ [](service /\ result = "ok"))
=============================================================================
