----------------------------- MODULE AlertPipeline -----------------------------
(***************************************************************************)
(* What happens to an alert between the webhook and Icinga2, together with *)
(* everything that works on the same services at the same time:            *)
(*   work        a firing or resolved alert (handler/work_mode.go)         *)
(*   testCreate  test mode, create          (handler/test_mode.go)         *)
(*   delete      test-mode or admin delete  (test_mode.go, admin.go)       *)
(*   bulkDelete  one entry of a bulk delete (admin.go)                     *)
(*   setStatus   a manual check result      (admin.go)                     *)
(*   resync      reload of the cache        (main.go)                      *)
(*   prune       removal of idle services   (main.go)                      *)
(* Each job is a goroutine that runs its handler once.  A handler is cut   *)
(* at every lock of the cache, every slot of the limiter and every call of *)
(* the Icinga2 API, because others may run there.                          *)
(***************************************************************************)
EXTENDS ServiceCache, FiniteSets

CONSTANTS
  Jobs,        \* the goroutines
  Kind,        \* [Jobs -> Kinds]
  Svc,         \* [Jobs -> Services]: the service a job is about
  Status,      \* [Jobs -> {"OK", "PROBLEM", "unknown"}]: what the alert says
  After,       \* [Jobs -> SUBSET Jobs]: jobs answered before the sender
               \* sends this one
  MaxMutate, MaxStatus, MaxQueue,  \* the limiter
  ConflictPolicy,  \* "skip", "fail" or "warn"
  Icinga2Force,    \* ICINGA2_FORCE
  RetryEnabled,    \* RETRY_QUEUE_ENABLED
  Unreliable,      \* whether a call to Icinga2 can fail, applied or not
  Deadlines,       \* whether a wait can hit its 10 s or 30 s limit
  OperatorDeletes, \* whether services are also deleted in Icinga2 itself
  Freezes,         \* whether operators freeze services
  Ours, Foreign    \* services that exist at first, with and without our mark

Kinds == {"work", "testCreate", "delete", "bulkDelete", "setStatus", "resync",
          "prune"}
Creates == {"work", "testCreate"}
Lists == {"resync", "prune"}

ASSUME JobsAssumption ==
  /\ Kind \in [Jobs -> Kinds] /\ Svc \in [Jobs -> Services]
  /\ Status \in [Jobs -> {"OK", "PROBLEM", "unknown"}]
  /\ After \in [Jobs -> SUBSET Jobs]
  /\ Ours \subseteq Services /\ Foreign \subseteq Services
  /\ Ours \cap Foreign = {}
  /\ MaxMutate \in Nat /\ MaxStatus \in Nat /\ MaxQueue \in Nat

(* Needed only to count the jobs inside the limiter.                       *)
ASSUME FinitelyManyJobs == IsFiniteSet(Jobs)

VARIABLES
  icinga,     \* the service objects of Icinga2
  pc,         \* where each job is
  reply,      \* the last answer of the API to each job
  cur,        \* the service a job works on
  list,       \* services of a ListServices answer not handled yet
  queued, statusSem, mutateSem,  \* the limiter
  retryQueue, \* work jobs whose result is in the retry queue
  \* history variables
  fate,       \* what became of each alert
  gaveUp,     \* alerts sent although creating their service had failed
  missed,     \* alerts Icinga2 refused because the service did not exist
  deleted     \* services that have been deleted since the start

limiter == <<queued, statusSem, mutateSem>>
cache == <<entries, frozenUntil>>
history == <<fate, gaveUp, missed, deleted>>
vars == <<icinga, pc, reply, cur, list, queued, statusSem, mutateSem,
          retryQueue, entries, frozenUntil, fate, gaveUp, missed, deleted>>

Object == [owner : {"absent", "ours", "foreign"},
           result : {"none", "OK", "PROBLEM"}, idle : BOOLEAN]
Absent == [owner |-> "absent", result |-> "none", idle |-> FALSE]
Created == [owner |-> "ours", result |-> "none", idle |-> FALSE]
WithResult(o, r) == [o EXCEPT !.result = r, !.idle = FALSE]

(* The server starts once every target has been scanned, so the cache      *)
(* knows our services unless the scan failed.                              *)
Init ==
  /\ icinga = [s \in Services |->
                 IF s \in Ours THEN Created
                 ELSE IF s \in Foreign THEN [Created EXCEPT !.owner = "foreign"]
                 ELSE Absent]
  /\ pc = [j \in Jobs |-> "start"]
  /\ reply = [j \in Jobs |-> "none"]
  /\ cur = Svc
  /\ list = [j \in Jobs |-> {}]
  /\ queued = 0 /\ statusSem = 0 /\ mutateSem = 0
  /\ retryQueue = {}
  /\ frozenUntil = [s \in Services |-> "no"]
  /\ entries \in {[s \in Services |-> IF s \in known THEN "ready" ELSE "not_found"] :
                   known \in {{}, Ours}}
  /\ fate = [j \in Jobs |-> "none"]
  /\ gaveUp = {} /\ missed = {} /\ deleted = {}

Goto(j, label) == pc' = [pc EXCEPT ![j] = label]
At(j, label, kinds) == pc[j] = label /\ Kind[j] \in kinds
Decide(j, what) == fate' = [fate EXCEPT ![j] = what]
Answer(j, what) == reply' = [reply EXCEPT ![j] = what]
TakeMutateSlot == mutateSem < MaxMutate /\ mutateSem' = mutateSem + 1
GiveMutateSlot == mutateSem' = mutateSem - 1
Ready(j) == pc[j] = "start" /\ \A k \in After[j] : pc[k] = "done"
-----------------------------------------------------------------------------
(* A job begins.  An alert or a request that makes no sense (unknown       *)
(* status or test action, exit status out of range) is answered with an    *)
(* error before anything else happens.                                     *)
Invalid(j) ==
  /\ Ready(j) /\ Kind[j] \notin Lists /\ Status[j] = "unknown"
  /\ Decide(j, "invalid") /\ Goto(j, "done")
  /\ UNCHANGED <<icinga, reply, cur, list, limiter, retryQueue, cache, gaveUp,
                 missed, deleted>>

(* Work mode, AcquireStatus: rejected at the limit of the counter, else    *)
(* counted and waiting for a slot, for at most 30 s.                       *)
RejectStatus(j) ==
  /\ Ready(j) /\ Kind[j] = "work" /\ Status[j] # "unknown"
  /\ queued >= MaxQueue
  /\ Decide(j, "rejected") /\ Goto(j, "done")
  /\ UNCHANGED <<icinga, reply, cur, list, limiter, retryQueue, cache, gaveUp,
                 missed, deleted>>

CountIn(j) ==
  /\ Ready(j) /\ Kind[j] = "work" /\ Status[j] # "unknown"
  /\ queued < MaxQueue
  /\ queued' = queued + 1 /\ Goto(j, "counted")
  /\ UNCHANGED <<icinga, reply, cur, list, statusSem, mutateSem, retryQueue,
                 cache, history>>

TakeStatus(j) ==
  /\ pc[j] = "counted" /\ statusSem < MaxStatus
  /\ statusSem' = statusSem + 1 /\ Goto(j, "check")
  /\ UNCHANGED <<icinga, reply, cur, list, queued, mutateSem, retryQueue, cache,
                 history>>

\* Faulty variant: the timeout returns without decrementing the counter.
ExpireStatusLeaks(j) ==
  /\ Deadlines /\ pc[j] = "counted"
  /\ Decide(j, "rejected") /\ Goto(j, "done")
  /\ UNCHANGED <<icinga, reply, cur, list, limiter, retryQueue, cache, gaveUp,
                 missed, deleted>>

ExpireStatus(j) ==
  /\ Deadlines /\ pc[j] = "counted"
  /\ Decide(j, "rejected") /\ Goto(j, "leave")
  /\ UNCHANGED <<icinga, reply, cur, list, limiter, retryQueue, cache, gaveUp,
                 missed, deleted>>

(* needsCreate, called before ("check") and after ("recheck") the wait for *)
(* a mutate slot: a pending entry is polled until another job settles it   *)
(* or the deadline passes.                                                 *)
AfterCheck(j, state) ==
  CASE state = "pending" -> IF pc[j] \in {"check", "poll"} THEN "poll" ELSE "repoll"
    [] state = "not_found" -> IF pc[j] \in {"check", "poll"} THEN "mutate" ELSE "pend"
    [] state = "ready" -> "freeze"

\* Faulty variant: a pending entry is taken for an existing service.
NeedsCreateImpatient(j) ==
  /\ pc[j] \in {"check", "poll", "recheck", "repoll"}
  /\ LET next == AfterCheck(j, IF Exists(cur[j]) THEN "ready" ELSE "not_found") IN
       /\ Goto(j, next)
       /\ IF next = "freeze" /\ pc[j] \in {"recheck", "repoll"}
          THEN GiveMutateSlot ELSE UNCHANGED mutateSem
  /\ UNCHANGED <<icinga, reply, cur, list, queued, statusSem, retryQueue, cache,
                 history>>

NeedsCreate(j) ==
  /\ pc[j] \in {"check", "poll", "recheck", "repoll"}
  /\ ~(pc[j] \in {"poll", "repoll"} /\ GetState(cur[j]) = "pending")
  /\ LET next == AfterCheck(j, GetState(cur[j])) IN
       /\ Goto(j, next)
       /\ IF next = "freeze" /\ pc[j] \in {"recheck", "repoll"}
          THEN GiveMutateSlot ELSE UNCHANGED mutateSem
  /\ UNCHANGED <<icinga, reply, cur, list, queued, statusSem, retryQueue, cache,
                 history>>

PollDeadline(j) ==
  /\ Deadlines /\ pc[j] \in {"poll", "repoll"} /\ GetState(cur[j]) = "pending"
  /\ Goto(j, IF pc[j] = "poll" THEN "mutate" ELSE "pend")
  /\ UNCHANGED <<icinga, reply, cur, list, limiter, retryQueue, cache, history>>

(* Test mode, create: skipped when the service is cached in any state.     *)
TestCreateStart(j) ==
  /\ Ready(j) /\ Kind[j] = "testCreate" /\ Status[j] # "unknown"
  /\ Goto(j, IF Exists(cur[j]) THEN "done" ELSE "mutate")
  /\ UNCHANGED <<icinga, reply, cur, list, limiter, retryQueue, cache, history>>

AdminStart(j) ==
  /\ Ready(j) /\ Kind[j] \in {"delete", "bulkDelete", "setStatus"}
  /\ Status[j] # "unknown"
  /\ Goto(j, "mutate")
  /\ UNCHANGED <<icinga, reply, cur, list, limiter, retryQueue, cache, history>>

(* AcquireMutate.  Without a slot an alert goes on as if its service       *)
(* existed; any other request is answered with an error.                   *)
AfterMutate(j) ==
  CASE Kind[j] = "work" -> "recheck"
    [] Kind[j] = "testCreate" -> "pend"
    [] Kind[j] = "setStatus" -> "send"
    [] OTHER -> "query"

TakeMutate(j) ==
  /\ pc[j] = "mutate" /\ TakeMutateSlot /\ Goto(j, AfterMutate(j))
  /\ UNCHANGED <<icinga, reply, cur, list, queued, statusSem, retryQueue, cache,
                 history>>

ExpireMutate(j) ==
  /\ Deadlines /\ pc[j] = "mutate"
  /\ Goto(j, IF Kind[j] = "work" THEN "freeze" ELSE "done")
  /\ gaveUp' = IF Kind[j] = "work" THEN gaveUp \cup {j} ELSE gaveUp
  /\ UNCHANGED <<icinga, reply, cur, list, limiter, retryQueue, cache, fate,
                 missed, deleted>>

MarkPending(j) ==
  /\ pc[j] = "pend"
  /\ SetPending(cur[j]) /\ Goto(j, "query")
  /\ UNCHANGED <<icinga, reply, cur, list, limiter, retryQueue, frozenUntil,
                 history>>
-----------------------------------------------------------------------------
(* CreateService and DeleteService first ask for the object and refuse to  *)
(* touch one that is not ours; creating it anyway is the "warn" policy.    *)
Conflict(s) == icinga[s].owner = "foreign" /\ ~Icinga2Force
Refused(j) ==
  Conflict(cur[j]) /\ (Kind[j] \in Creates => ConflictPolicy \in {"skip", "fail"})

\* Faulty variant: the object is not looked at before the call.
QueryUnchecked(j) ==
  /\ pc[j] = "query"
  /\ Goto(j, "call")
  /\ UNCHANGED <<icinga, reply, cur, list, limiter, retryQueue, cache, history>>

Query(j) ==
  /\ pc[j] = "query"
  /\ \/ Unreliable /\ Answer(j, "error") /\ Goto(j, "settle")
     \/ Refused(j) /\ Answer(j, "conflict") /\ Goto(j, "settle")
     \/ ~Refused(j) /\ Goto(j, "call") /\ UNCHANGED reply
  /\ UNCHANGED <<icinga, cur, list, limiter, retryQueue, cache, history>>

(* PUT and DELETE on the object.  A call that fails on the way may or may  *)
(* not have taken effect.                                                  *)
Put(j) ==
  /\ At(j, "call", Creates) /\ Goto(j, "settle")
  /\ LET made == [icinga EXCEPT ![cur[j]] = Created]
         there == icinga[cur[j]].owner # "absent"
     IN \/ there /\ Answer(j, "exists") /\ UNCHANGED icinga
        \/ ~there /\ Answer(j, "ok") /\ icinga' = made
        \/ Unreliable /\ Answer(j, "error")
              /\ icinga' \in {icinga, IF there THEN icinga ELSE made}
  /\ UNCHANGED <<cur, list, limiter, retryQueue, cache, history>>

Delete(j) ==
  /\ At(j, "call", Kinds \ Creates) /\ Goto(j, "settle")
  /\ LET there == icinga[cur[j]].owner # "absent"
         gone == [icinga EXCEPT ![cur[j]] = Absent]
     IN \/ there /\ Answer(j, "ok") /\ icinga' = gone
        \/ ~there /\ Answer(j, "error") /\ UNCHANGED icinga
        \/ Unreliable /\ Answer(j, "error") /\ icinga' \in {icinga, gone}
  /\ deleted' = IF icinga' = icinga THEN deleted ELSE deleted \cup {cur[j]}
  /\ UNCHANGED <<cur, list, limiter, retryQueue, cache, fate, gaveUp, missed>>

(* The cache learns what the call did, then the mutate slot is given back  *)
(* (in one step: a waiter gains nothing from the moment in between).       *)
(* Work mode takes any proof that the service exists for success and sends *)
(* the result in any case; test mode takes every error for a failure.      *)
\* Faulty variant: an error leaves the pending entry in place.
SettleWorkForgetful(j) ==
  /\ At(j, "settle", {"work"}) /\ Goto(j, "freeze") /\ GiveMutateSlot
  /\ IF reply[j] \in {"ok", "exists", "conflict"}
     THEN Register(cur[j]) /\ UNCHANGED gaveUp
     ELSE UNCHANGED entries /\ gaveUp' = gaveUp \cup {j}
  /\ UNCHANGED <<icinga, reply, cur, list, queued, statusSem, retryQueue,
                 frozenUntil, fate, missed, deleted>>

\* Faulty variant: the service is registered whatever the API answered.
SettleWorkOptimistic(j) ==
  /\ At(j, "settle", {"work"}) /\ Goto(j, "freeze") /\ GiveMutateSlot
  /\ Register(cur[j])
  /\ gaveUp' = IF reply[j] = "error" THEN gaveUp \cup {j} ELSE gaveUp
  /\ UNCHANGED <<icinga, reply, cur, list, queued, statusSem, retryQueue,
                 frozenUntil, fate, missed, deleted>>

SettleWork(j) ==
  /\ At(j, "settle", {"work"}) /\ Goto(j, "freeze") /\ GiveMutateSlot
  /\ IF reply[j] \in {"ok", "exists", "conflict"}
     THEN Register(cur[j]) /\ UNCHANGED gaveUp
     ELSE Remove(cur[j]) /\ gaveUp' = gaveUp \cup {j}
  /\ UNCHANGED <<icinga, reply, cur, list, queued, statusSem, retryQueue,
                 frozenUntil, fate, missed, deleted>>

SettleTestCreate(j) ==
  /\ At(j, "settle", {"testCreate"}) /\ Goto(j, "done") /\ GiveMutateSlot
  /\ IF reply[j] = "ok" THEN Register(cur[j]) ELSE Remove(cur[j])
  /\ UNCHANGED <<icinga, reply, cur, list, queued, statusSem, retryQueue,
                 frozenUntil, history>>

\* Faulty variant: the early return on an error keeps the slot.
SettleDeleteLeaks(j) ==
  /\ At(j, "settle", {"delete"}) /\ Goto(j, "done")
  /\ IF reply[j] = "ok" THEN Remove(cur[j]) /\ GiveMutateSlot
     ELSE UNCHANGED <<entries, mutateSem>>
  /\ UNCHANGED <<icinga, reply, cur, list, queued, statusSem, retryQueue,
                 frozenUntil, history>>

SettleDelete(j) ==
  /\ At(j, "settle", {"delete"}) /\ Goto(j, "done") /\ GiveMutateSlot
  /\ IF reply[j] = "ok" THEN Remove(cur[j]) ELSE UNCHANGED entries
  /\ UNCHANGED <<icinga, reply, cur, list, queued, statusSem, retryQueue,
                 frozenUntil, history>>

(* The bulk delete gives the slot back before it updates the cache.        *)
SettleBulk(j) ==
  /\ At(j, "settle", {"bulkDelete"}) /\ GiveMutateSlot
  /\ Goto(j, IF reply[j] = "ok" THEN "forget" ELSE "done")
  /\ UNCHANGED <<icinga, reply, cur, list, queued, statusSem, retryQueue, cache,
                 history>>

Forget(j) ==
  /\ pc[j] = "forget" /\ Remove(cur[j]) /\ Goto(j, "done")
  /\ UNCHANGED <<icinga, reply, cur, list, limiter, retryQueue, frozenUntil,
                 history>>

SettlePrune(j) ==
  /\ At(j, "settle", {"prune"}) /\ Goto(j, "each")
  /\ IF reply[j] = "ok" THEN Remove(cur[j]) ELSE UNCHANGED entries
  /\ UNCHANGED <<icinga, reply, cur, list, limiter, retryQueue, frozenUntil,
                 history>>
-----------------------------------------------------------------------------
(* An alert for a frozen service ends here.                                *)
CheckFrozen(j) ==
  /\ pc[j] = "freeze"
  /\ IF IsFrozen(cur[j]) THEN Decide(j, "frozen") /\ Goto(j, "release")
     ELSE Goto(j, "send") /\ UNCHANGED fate
  /\ UNCHANGED <<icinga, reply, cur, list, limiter, retryQueue, cache, gaveUp,
                 missed, deleted>>

(* process-check-result: a service that does not exist is refused (404).   *)
SendOK(j) ==
  /\ icinga[cur[j]].owner # "absent"
  /\ icinga' = [icinga EXCEPT ![cur[j]] = WithResult(@, Status[j])]

SendFails(j) ==
  \/ icinga[cur[j]].owner = "absent" /\ UNCHANGED icinga
  \/ Unreliable /\ (UNCHANGED icinga \/ SendOK(j))

SendResult(j) ==
  /\ At(j, "send", {"work"})
  /\ \/ SendOK(j) /\ Decide(j, "delivered") /\ Goto(j, "release")
     \/ SendFails(j) /\ Goto(j, "enqueue") /\ UNCHANGED fate
  /\ missed' = IF icinga[cur[j]].owner = "absent" THEN missed \cup {j} ELSE missed
  /\ UNCHANGED <<reply, cur, list, limiter, retryQueue, cache, gaveUp, deleted>>

\* Faulty variant: a failed result is not handed to the retry queue.
EnqueueNothing(j) ==
  /\ pc[j] = "enqueue" /\ Goto(j, "release")
  /\ UNCHANGED <<icinga, reply, cur, list, limiter, retryQueue, cache, history>>

EnqueueResult(j) ==
  /\ pc[j] = "enqueue" /\ Goto(j, "release")
  /\ IF RetryEnabled
     THEN retryQueue' = retryQueue \cup {j} /\ Decide(j, "queued")
     ELSE Decide(j, "failed") /\ UNCHANGED retryQueue
  /\ UNCHANGED <<icinga, reply, cur, list, limiter, cache, gaveUp, missed,
                 deleted>>

(* A manual result is sent while holding a mutate slot, frozen or not.     *)
SetStatus(j) ==
  /\ At(j, "send", {"setStatus"}) /\ Goto(j, "done") /\ GiveMutateSlot
  /\ SendOK(j) \/ SendFails(j)
  /\ UNCHANGED <<reply, cur, list, queued, statusSem, retryQueue, cache, history>>

ReleaseStatus(j) ==
  /\ pc[j] = "release" /\ statusSem' = statusSem - 1 /\ Goto(j, "leave")
  /\ UNCHANGED <<icinga, reply, cur, list, queued, mutateSem, retryQueue, cache,
                 history>>

CountOut(j) ==
  /\ pc[j] = "leave" /\ queued' = queued - 1 /\ Goto(j, "done")
  /\ UNCHANGED <<icinga, reply, cur, list, statusSem, mutateSem, retryQueue,
                 cache, history>>

(* The retry queue sends a result again; it neither creates the service    *)
(* nor looks at the freeze.  (RetryQueue has the details.)                 *)
Retry(j) ==
  /\ j \in retryQueue
  /\ \/ /\ SendOK(j) /\ Decide(j, "delivered")
        /\ retryQueue' = retryQueue \ {j}
     \/ Unreliable /\ SendOK(j) /\ UNCHANGED <<fate, retryQueue>>
  /\ UNCHANGED <<pc, reply, cur, list, limiter, cache, gaveUp, missed, deleted>>
-----------------------------------------------------------------------------
(* ListServices, by the resync and by the pruner.  The pruner picks the    *)
(* managed services whose last result is OK and older than the threshold.  *)
Candidates(j) ==
  {s \in Services : /\ icinga[s].owner = "ours"
                    /\ Kind[j] = "prune" => icinga[s].result = "OK" /\ icinga[s].idle}

ListServices(j) ==
  /\ Ready(j) /\ Kind[j] \in Lists
  /\ \/ list' = [list EXCEPT ![j] = Candidates(j)] /\ Goto(j, "each")
     \/ Unreliable /\ Goto(j, "done") /\ UNCHANGED list
  /\ UNCHANGED <<icinga, reply, cur, limiter, retryQueue, cache, history>>

ResyncOne(j, s) ==
  /\ At(j, "each", {"resync"}) /\ s \in list[j]
  /\ Register(s) /\ list' = [list EXCEPT ![j] = @ \ {s}]
  /\ UNCHANGED <<icinga, pc, reply, cur, limiter, retryQueue, frozenUntil, history>>

PruneOne(j, s) ==
  /\ At(j, "each", {"prune"}) /\ s \in list[j]
  /\ list' = [list EXCEPT ![j] = @ \ {s}]
  /\ IF IsFrozen(s) THEN UNCHANGED <<pc, cur>>
     ELSE cur' = [cur EXCEPT ![j] = s] /\ Goto(j, "query")
  /\ UNCHANGED <<icinga, reply, limiter, retryQueue, cache, history>>

PassEnds(j) ==
  /\ At(j, "each", Lists) /\ list[j] = {} /\ Goto(j, "done")
  /\ UNCHANGED <<icinga, reply, cur, list, limiter, retryQueue, cache, history>>
-----------------------------------------------------------------------------
(* The environment: operators, Icinga2 and time.                           *)
OperatorDelete(s) ==
  /\ OperatorDeletes /\ icinga[s].owner # "absent"
  /\ icinga' = [icinga EXCEPT ![s] = Absent] /\ deleted' = deleted \cup {s}
  /\ UNCHANGED <<pc, reply, cur, list, limiter, retryQueue, cache, fate, gaveUp,
                 missed>>

GrowIdle(s) ==
  /\ icinga[s].result # "none" /\ ~icinga[s].idle
  /\ \E j \in Jobs : Kind[j] = "prune" /\ pc[j] = "start"
  /\ icinga' = [icinga EXCEPT ![s].idle = TRUE]
  /\ UNCHANGED <<pc, reply, cur, list, limiter, retryQueue, cache, history>>

CacheStep(s) ==
  /\ \/ Expire(s)
     \/ Freezes /\ (Freeze(s) \/ (IsFrozen(s) /\ Unfreeze(s)) \/ Thaw(s))
  /\ UNCHANGED <<icinga, pc, reply, cur, list, limiter, retryQueue, history>>

Handler(j) ==
  \/ Invalid(j) \/ RejectStatus(j) \/ CountIn(j) \/ TakeStatus(j)
  \/ ExpireStatus(j) \/ NeedsCreate(j) \/ PollDeadline(j)
  \/ TestCreateStart(j) \/ AdminStart(j) \/ TakeMutate(j) \/ ExpireMutate(j)
  \/ MarkPending(j) \/ Query(j) \/ Put(j) \/ Delete(j)
  \/ SettleWork(j) \/ SettleTestCreate(j) \/ SettleDelete(j)
  \/ SettleBulk(j) \/ Forget(j) \/ SettlePrune(j)
  \/ CheckFrozen(j) \/ SendResult(j) \/ EnqueueResult(j) \/ SetStatus(j)
  \/ ReleaseStatus(j) \/ CountOut(j) \/ ListServices(j) \/ PassEnds(j)
  \/ \E s \in Services : ResyncOne(j, s) \/ PruneOne(j, s)

Finished == (\A j \in Jobs : pc[j] = "done") /\ UNCHANGED vars

Next ==
  \/ Finished
  \/ \E j \in Jobs : Handler(j) \/ Retry(j)
  \/ \E s \in Services : OperatorDelete(s) \/ GrowIdle(s) \/ CacheStep(s)

Spec == Init /\ [][Next]_vars

(* Every goroutine keeps running and every call to Icinga2 returns (the    *)
(* client has a timeout).  Nothing is assumed about the retry queue, the   *)
(* operators or the order in which waiters are served.                     *)
Fairness == \A j \in Jobs : WF_vars(Handler(j))
FairSpec == Spec /\ Fairness
-----------------------------------------------------------------------------
Labels == {"start", "counted", "check", "poll", "mutate", "recheck", "repoll",
           "pend", "query", "call", "settle", "forget", "freeze", "send",
           "enqueue", "release", "leave", "each", "done"}
Fates == {"none", "invalid", "rejected", "frozen", "queued", "failed", "delivered"}
WorkJobs == {j \in Jobs : Kind[j] = "work"}

TypeOK ==
  /\ CacheTypeOK
  /\ icinga \in [Services -> Object]
  /\ pc \in [Jobs -> Labels]
  /\ reply \in [Jobs -> {"none", "ok", "exists", "conflict", "error"}]
  /\ cur \in [Jobs -> Services] /\ list \in [Jobs -> SUBSET Services]
  /\ queued \in Int /\ statusSem \in Int /\ mutateSem \in Int
  /\ retryQueue \subseteq WorkJobs /\ fate \in [Jobs -> Fates]
  /\ gaveUp \subseteq WorkJobs /\ missed \subseteq WorkJobs
  /\ deleted \subseteq Services

\* A pending entry always has a live creator that will settle it, so the
\* pollers of needsCreate never wait for nobody.
PendingHasCreator ==
  \A s \in Services : entries[s] = "pending" =>
    \E j \in Jobs : /\ Kind[j] \in Creates /\ cur[j] = s
                    /\ pc[j] \in {"query", "call", "settle"}

Real == {s \in Services : icinga[s].owner # "absent"} \cup deleted
Unmanaged == {s \in Services : icinga[s].owner = "foreign"}

\* "transient API failures do not poison the cache": a service cached as
\* ready exists in Icinga2, unless somebody deleted it.
ReadyIsReal == \A s \in Services : entries[s] = "ready" => s \in Real

\* No check result overtakes the creation of its service: Icinga2 answers
\* "No objects found" only to an alert that gave up creating the service,
\* or for a service somebody deleted.
MissesExplained ==
  \A j \in missed : j \in gaveUp \/ cur[j] \in deleted

\* An answered alert was delivered, frozen, refused, or is in the retry
\* queue; with the queue enabled none is dropped after a failed send.
AlertsAccounted ==
  \A j \in WorkJobs :
    /\ pc[j] = "done" => fate[j] # "none"
    /\ fate[j] = "queued" <=> j \in retryQueue
    /\ RetryEnabled => fate[j] # "failed"

\* Without ICINGA2_FORCE, no operation of the bridge deletes or takes over a
\* service that is not managed by it.
ForeignKept == [][~Icinga2Force /\ ~OperatorDeletes => Unmanaged \subseteq Unmanaged']_vars

\* Whatever waits for a slot or for another job's creation, every request is
\* answered, even if no deadline ever fires.
EveryRequestAnswered == \A j \in Jobs : <>(pc[j] = "done")
-----------------------------------------------------------------------------
(* The handlers use the limiter as RateLimiter describes its clients.      *)
HoldsMutate(j) ==
  \/ Kind[j] # "prune" /\ pc[j] \in {"recheck", "repoll", "pend", "query", "call",
                                    "settle"}
  \/ At(j, "send", {"setStatus"})

StatusStep(j) ==
  CASE Kind[j] # "work" \/ pc[j] \in {"start", "done"} -> "out"
    [] At(j, "counted", {"work"}) -> "counted"
    [] At(j, "leave", {"work"}) -> IF fate[j] = "rejected" THEN "expired" ELSE "leaving"
    [] OTHER -> "holding"

MutateStep(j) ==
  CASE pc[j] = "mutate" -> "waiting"
    [] HoldsMutate(j) -> "holding"
    [] OTHER -> "out"

statusSteps == [j \in Jobs |-> StatusStep(j)]
mutateSteps == [j \in Jobs |-> MutateStep(j)]

Lim == INSTANCE RateLimiter WITH
         Clients <- Jobs, st <- statusSteps, mt <- mutateSteps

\* Every handler acquires and releases its slots in the order the limiter
\* expects, on every path.
LimiterUsage == Lim!LimiterSpec

\* The counter and the slots in use are those of the handlers inside, whatever
\* path each has taken, and never more than configured.
SlotsAccounted == Lim!Accounting /\ Lim!Limits
-----------------------------------------------------------------------------
(* What the documentation says and the program does not do.                *)
\* "Firing/critical/warning services and frozen services are never pruned."
PrunerSpares ==
  [][\A j \in Jobs : At(j, "call", {"prune"}) /\ icinga' # icinga =>
       icinga[cur[j]].result # "PROBLEM" /\ ~IsFrozen(cur[j])]_vars

\* "When Grafana sends a "resolved" status, IcingaAlertForge tells Icinga2
\* the service is OK again", and "Re-sending is harmless": once everything is
\* delivered, Icinga2 shows what the last alert of each service said.
NewestWins ==
  (\A j \in WorkJobs : pc[j] = "done" /\ fate[j] = "delivered") =>
    \A k \in WorkJobs :
      (\A j \in WorkJobs : Svc[j] = Svc[k] /\ k \in After[j] => j = k) =>
        icinga[Svc[k]].result = Status[k]
=============================================================================
