------------------------------ MODULE RateLimiter ------------------------------
(***************************************************************************)
(* The limiter in front of Icinga2 (icinga/ratelimiter.go): a semaphore    *)
(* for create and delete calls, one for status updates, and a counter that *)
(* bounds how many status updates are inside at once.  A client may hold a *)
(* status slot while it waits for a mutate slot (handler/work_mode.go),    *)
(* never the other way round.                                              *)
(*                                                                         *)
(* The counter is guarded by rl.mu, the semaphores are channels, so        *)
(* AcquireStatus and ReleaseStatus are two steps each.                     *)
(***************************************************************************)
EXTENDS Integers, FiniteSets

CONSTANTS
  Clients,    \* goroutines that use the limiter
  MaxMutate,  \* capacity of mutateSem
  MaxStatus,  \* capacity of statusSem
  MaxQueue    \* maxQueue

ASSUME LimiterAssumption ==
  /\ IsFiniteSet(Clients)
  /\ MaxMutate \in Nat /\ MaxStatus \in Nat /\ MaxQueue \in Nat

VARIABLES
  queued,     \* rl.queued
  statusSem,  \* len(rl.statusSem)
  mutateSem,  \* len(rl.mutateSem)
  st,         \* where each client is in Acquire/ReleaseStatus
  mt          \* where each client is in Acquire/ReleaseMutate

limiterVars == <<queued, statusSem, mutateSem, st, mt>>

StatusSteps == {"out", "counted", "holding", "leaving", "expired", "rejected"}
MutateSteps == {"out", "waiting", "holding"}

InStatus(S) == {c \in Clients : st[c] \in S}
InMutate(S) == {c \in Clients : mt[c] \in S}
-----------------------------------------------------------------------------
LimiterInit ==
  /\ queued = 0 /\ statusSem = 0 /\ mutateSem = 0
  /\ st = [c \in Clients |-> "out"]
  /\ mt = [c \in Clients |-> "out"]

(* AcquireStatus under the lock: reject when the counter is at its limit.  *)
Reject(c) ==
  /\ st[c] = "out" /\ mt[c] = "out"
  /\ queued >= MaxQueue
  /\ st' = [st EXCEPT ![c] = "rejected"]
  /\ UNCHANGED <<queued, statusSem, mutateSem, mt>>

CountIn(c) ==
  /\ st[c] = "out" /\ mt[c] = "out"
  /\ queued < MaxQueue
  /\ queued' = queued + 1
  /\ st' = [st EXCEPT ![c] = "counted"]
  /\ UNCHANGED <<statusSem, mutateSem, mt>>

(* The send on statusSem went through.                                     *)
TakeStatus(c) ==
  /\ st[c] = "counted"
  /\ statusSem < MaxStatus
  /\ statusSem' = statusSem + 1
  /\ st' = [st EXCEPT ![c] = "holding"]
  /\ UNCHANGED <<queued, mutateSem, mt>>

(* The 30 s context ended first; the counter is taken back in a second     *)
(* critical section.                                                       *)
ExpireStatus(c) ==
  /\ st[c] = "counted"
  /\ st' = [st EXCEPT ![c] = "expired"]
  /\ UNCHANGED <<queued, statusSem, mutateSem, mt>>

\* Faulty variant: the early return forgets the counter.
CountOutForgetful(c) ==
  /\ st[c] \in {"leaving", "expired"}
  /\ queued' = IF st[c] = "expired" THEN queued ELSE queued - 1
  /\ st' = [st EXCEPT ![c] = "out"]
  /\ UNCHANGED <<statusSem, mutateSem, mt>>

CountOut(c) ==
  /\ st[c] \in {"leaving", "expired"}
  /\ queued' = queued - 1
  /\ st' = [st EXCEPT ![c] = "out"]
  /\ UNCHANGED <<statusSem, mutateSem, mt>>

(* ReleaseStatus: first the semaphore, then the counter (CountOut).  It is *)
(* deferred after ReleaseMutate.                                           *)
ReleaseStatus(c) ==
  /\ st[c] = "holding" /\ mt[c] = "out"
  /\ statusSem' = statusSem - 1
  /\ st' = [st EXCEPT ![c] = "leaving"]
  /\ UNCHANGED <<queued, mutateSem, mt>>

(* The caller of a rejected AcquireStatus answers its request.             *)
ReturnRejected(c) ==
  /\ st[c] = "rejected"
  /\ st' = [st EXCEPT ![c] = "out"]
  /\ UNCHANGED <<queued, statusSem, mutateSem, mt>>

(* AcquireMutate: by a work-mode alert that holds a status slot, or by a   *)
(* test-mode or admin request that holds nothing.                          *)
WaitMutate(c) ==
  /\ mt[c] = "out" /\ st[c] \in {"out", "holding"}
  /\ mt' = [mt EXCEPT ![c] = "waiting"]
  /\ UNCHANGED <<queued, statusSem, mutateSem, st>>

\* Faulty variant: off by one at the capacity.
TakeMutateLate(c) ==
  /\ mt[c] = "waiting"
  /\ mutateSem <= MaxMutate
  /\ mutateSem' = mutateSem + 1
  /\ mt' = [mt EXCEPT ![c] = "holding"]
  /\ UNCHANGED <<queued, statusSem, st>>

TakeMutate(c) ==
  /\ mt[c] = "waiting"
  /\ mutateSem < MaxMutate
  /\ mutateSem' = mutateSem + 1
  /\ mt' = [mt EXCEPT ![c] = "holding"]
  /\ UNCHANGED <<queued, statusSem, st>>

(* The context of AcquireMutate ended.                                     *)
ExpireMutate(c) ==
  /\ mt[c] = "waiting"
  /\ mt' = [mt EXCEPT ![c] = "out"]
  /\ UNCHANGED <<queued, statusSem, mutateSem, st>>

\* Faulty variant: a path that returns without giving the slot back.
ReleaseMutateLeaks(c) ==
  /\ mt[c] = "holding"
  /\ mt' = [mt EXCEPT ![c] = "out"]
  /\ UNCHANGED <<queued, statusSem, mutateSem, st>>

ReleaseMutate(c) ==
  /\ mt[c] = "holding"
  /\ mutateSem' = mutateSem - 1
  /\ mt' = [mt EXCEPT ![c] = "out"]
  /\ UNCHANGED <<queued, statusSem, st>>

LimiterStep(c) ==
  \/ Reject(c) \/ CountIn(c) \/ TakeStatus(c) \/ ExpireStatus(c)
  \/ CountOut(c) \/ ReleaseStatus(c) \/ ReturnRejected(c)
  \/ WaitMutate(c) \/ TakeMutate(c) \/ ExpireMutate(c) \/ ReleaseMutate(c)

LimiterNext == \E c \in Clients : LimiterStep(c)

LimiterSpec == LimiterInit /\ [][LimiterNext]_limiterVars

(* Goroutines run and release what they hold (every call to Icinga2 is     *)
(* bounded by the client timeout, and a handler asks for a mutate slot     *)
(* once before it returns), and a Go channel serves its blocked senders in *)
(* order: a waiter that could be served again and again is.  No context is *)
(* assumed to expire.                                                      *)
LimiterFairness ==
  \A c \in Clients :
    /\ SF_limiterVars(TakeStatus(c)) /\ SF_limiterVars(TakeMutate(c))
    /\ WF_limiterVars(CountOut(c)) /\ SF_limiterVars(ReleaseStatus(c))
    /\ WF_limiterVars(ReleaseMutate(c))

LimiterFairSpec == LimiterSpec /\ LimiterFairness
-----------------------------------------------------------------------------
LimiterTypeOK ==
  /\ queued \in Nat /\ statusSem \in Nat /\ mutateSem \in Nat
  /\ st \in [Clients -> StatusSteps]
  /\ mt \in [Clients -> MutateSteps]

\* Nothing leaks: the counter and both semaphores are exactly the clients
\* inside, on every path out (served, rejected, expired).
Accounting ==
  /\ queued = Cardinality(InStatus({"counted", "holding", "leaving", "expired"}))
  /\ statusSem = Cardinality(InStatus({"holding"}))
  /\ mutateSem = Cardinality(InMutate({"holding"}))

\* Icinga2 never sees more concurrent calls than configured, and never more
\* than MaxQueue status updates are inside the limiter.
Limits ==
  /\ Cardinality(InMutate({"holding"})) <= MaxMutate
  /\ Cardinality(InStatus({"holding"})) <= MaxStatus
  /\ Cardinality(InStatus({"counted", "holding", "leaving", "expired"})) <= MaxQueue

\* Holding a status slot while waiting for a mutate slot never deadlocks:
\* every waiter is served even if no context ever expires.
WaitersAreServed ==
  \A c \in Clients : /\ st[c] = "counted" ~> st[c] # "counted"
                     /\ mt[c] = "waiting" ~> mt[c] # "waiting"
=============================================================================
