--------------------------- MODULE RateLimiterProofs ---------------------------
(***************************************************************************)
(* Theorems about RateLimiter, for every finite set of clients and all     *)
(* capacities, zero included.                                              *)
(***************************************************************************)
EXTENDS RateLimiter, FiniteSetTheorems, TLAPS

(* Moving one client into or out of a set of clients changes its size by   *)
(* one.                                                                    *)
LEMMA CountMoves ==
  ASSUME NEW A \in SUBSET Clients, NEW B \in SUBSET Clients, NEW c \in Clients
  PROVE  /\ Cardinality(A) \in Nat
         /\ c \notin A /\ B = A \cup {c} => Cardinality(B) = Cardinality(A) + 1
         /\ c \in A /\ B = A \ {c} => Cardinality(B) = Cardinality(A) - 1
                                      /\ Cardinality(A) > 0
<1>1. IsFiniteSet(A)
  BY LimiterAssumption, FS_Subset
<1>2. ASSUME c \in A PROVE Cardinality(A) > 0
  BY <1>1, <1>2, FS_EmptySet, FS_CardinalityType
<1>. QED
  BY <1>1, <1>2, FS_CardinalityType, FS_AddElement, FS_RemoveElement

(* The inductive invariant: types, exact accounting and the capacities.    *)
LimiterInv == LimiterTypeOK /\ Accounting /\ Limits

Inside == {"counted", "holding", "leaving", "expired"}

LEMMA LimiterInductive == LimiterInv /\ [LimiterNext]_limiterVars => LimiterInv'
<1> SUFFICES ASSUME LimiterInv, [LimiterNext]_limiterVars PROVE LimiterInv'
  OBVIOUS
<1> DEFINE I == InStatus(Inside)
<1> DEFINE H == InStatus({"holding"})
<1> DEFINE M == InMutate({"holding"})
<1>0. /\ I \subseteq Clients /\ H \subseteq Clients /\ M \subseteq Clients
      /\ I' \subseteq Clients /\ H' \subseteq Clients /\ M' \subseteq Clients
  BY DEF InStatus, InMutate
<1>1. /\ queued = Cardinality(I) /\ statusSem = Cardinality(H)
      /\ mutateSem = Cardinality(M)
      /\ Cardinality(M) <= MaxMutate /\ Cardinality(H) <= MaxStatus
      /\ Cardinality(I) <= MaxQueue
  BY DEF LimiterInv, Accounting, Limits, Inside
<1>2. SUFFICES /\ LimiterTypeOK'
               /\ queued' = Cardinality(I') /\ statusSem' = Cardinality(H')
               /\ mutateSem' = Cardinality(M')
               /\ mutateSem' <= MaxMutate /\ statusSem' <= MaxStatus
               /\ queued' <= MaxQueue
  BY DEF LimiterInv, Accounting, Limits, Inside
<1> DEFINE Goal == /\ LimiterTypeOK'
                   /\ queued' = Cardinality(I') /\ statusSem' = Cardinality(H')
                   /\ mutateSem' = Cardinality(M')
                   /\ mutateSem' <= MaxMutate /\ statusSem' <= MaxStatus
                   /\ queued' <= MaxQueue
<1>3. LimiterTypeOK
  BY DEF LimiterInv
<1>4. ASSUME NEW c \in Clients,
             Reject(c) \/ ReturnRejected(c) \/ ExpireStatus(c)
      PROVE  Goal
  <2>1. I' = I /\ H' = H /\ M' = M
    BY <1>3, <1>4 DEF Reject, ReturnRejected, ExpireStatus, InStatus, InMutate,
                      Inside, LimiterTypeOK
  <2>2. LimiterTypeOK'
    BY <1>3, <1>4 DEF Reject, ReturnRejected, ExpireStatus, LimiterTypeOK,
                      StatusSteps
  <2>. QED
    BY <1>1, <1>4, <2>1, <2>2 DEF Reject, ReturnRejected, ExpireStatus
<1>5. ASSUME NEW c \in Clients, CountIn(c) PROVE Goal
  <2>1. I' = I \cup {c} /\ c \notin I /\ H' = H /\ M' = M
    BY <1>3, <1>5 DEF CountIn, InStatus, InMutate, Inside, LimiterTypeOK
  <2>2. LimiterTypeOK' /\ queued' = queued + 1 /\ queued < MaxQueue
        /\ UNCHANGED <<statusSem, mutateSem>>
    BY <1>3, <1>5 DEF CountIn, LimiterTypeOK, StatusSteps
  <2>3. Cardinality(I') = Cardinality(I) + 1
    BY <1>0, <2>1, CountMoves
  <2> HIDE DEF I, H, M
  <2>. QED
    BY <1>1, <1>3, <2>1, <2>2, <2>3, LimiterAssumption DEF LimiterTypeOK
<1>6. ASSUME NEW c \in Clients, CountOut(c) PROVE Goal
  <2>1. I' = I \ {c} /\ c \in I /\ H' = H /\ M' = M
    BY <1>3, <1>6 DEF CountOut, InStatus, InMutate, Inside, LimiterTypeOK
  <2>2. Cardinality(I') = Cardinality(I) - 1 /\ Cardinality(I) > 0 /\ Cardinality(I) \in Nat
    BY <1>0, <2>1, CountMoves
  <2>3. queued' = queued - 1 /\ UNCHANGED <<statusSem, mutateSem, mt>>
        /\ st' \in [Clients -> StatusSteps]
    BY <1>3, <1>6 DEF CountOut, LimiterTypeOK, StatusSteps
  <2> HIDE DEF I, H, M
  <2>. QED
    BY <1>1, <1>3, <2>1, <2>2, <2>3, LimiterAssumption DEF LimiterTypeOK
<1>7. ASSUME NEW c \in Clients, TakeStatus(c) PROVE Goal
  <2>1. I' = I /\ H' = H \cup {c} /\ c \notin H /\ M' = M
    BY <1>3, <1>7 DEF TakeStatus, InStatus, InMutate, Inside, LimiterTypeOK
  <2>2. Cardinality(H') = Cardinality(H) + 1
    BY <1>0, <2>1, CountMoves
  <2>3. LimiterTypeOK' /\ statusSem' = statusSem + 1 /\ statusSem < MaxStatus
        /\ UNCHANGED <<queued, mutateSem>>
    BY <1>3, <1>7 DEF TakeStatus, LimiterTypeOK, StatusSteps
  <2> HIDE DEF I, H, M
  <2>. QED
    BY <1>1, <1>3, <2>1, <2>2, <2>3, LimiterAssumption DEF LimiterTypeOK
<1>8. ASSUME NEW c \in Clients, ReleaseStatus(c) PROVE Goal
  <2>1. I' = I /\ H' = H \ {c} /\ c \in H /\ M' = M
    BY <1>3, <1>8 DEF ReleaseStatus, InStatus, InMutate, Inside, LimiterTypeOK
  <2>2. Cardinality(H') = Cardinality(H) - 1 /\ Cardinality(H) > 0 /\ Cardinality(H) \in Nat
    BY <1>0, <2>1, CountMoves
  <2>3. statusSem' = statusSem - 1 /\ UNCHANGED <<queued, mutateSem, mt>>
        /\ st' \in [Clients -> StatusSteps]
    BY <1>3, <1>8 DEF ReleaseStatus, LimiterTypeOK, StatusSteps
  <2> HIDE DEF I, H, M
  <2>. QED
    BY <1>1, <1>3, <2>1, <2>2, <2>3, LimiterAssumption DEF LimiterTypeOK
<1>9. ASSUME NEW c \in Clients, WaitMutate(c) \/ ExpireMutate(c) PROVE Goal
  <2>1. I' = I /\ H' = H /\ M' = M
    BY <1>3, <1>9 DEF WaitMutate, ExpireMutate, InStatus, InMutate, LimiterTypeOK
  <2>2. LimiterTypeOK' /\ UNCHANGED <<queued, statusSem, mutateSem>>
    BY <1>3, <1>9 DEF WaitMutate, ExpireMutate, LimiterTypeOK, MutateSteps
  <2> HIDE DEF I, H, M
  <2>. QED
    BY <1>1, <2>1, <2>2
<1>10. ASSUME NEW c \in Clients, TakeMutate(c) PROVE Goal
  <2>1. I' = I /\ H' = H /\ M' = M \cup {c} /\ c \notin M
    BY <1>3, <1>10 DEF TakeMutate, InStatus, InMutate, LimiterTypeOK
  <2>2. Cardinality(M') = Cardinality(M) + 1
    BY <1>0, <2>1, CountMoves
  <2>3. LimiterTypeOK' /\ mutateSem' = mutateSem + 1 /\ mutateSem < MaxMutate
        /\ UNCHANGED <<queued, statusSem>>
    BY <1>3, <1>10 DEF TakeMutate, LimiterTypeOK, MutateSteps
  <2> HIDE DEF I, H, M
  <2>. QED
    BY <1>1, <1>3, <2>1, <2>2, <2>3, LimiterAssumption DEF LimiterTypeOK
<1>11. ASSUME NEW c \in Clients, ReleaseMutate(c) PROVE Goal
  <2>1. I' = I /\ H' = H /\ M' = M \ {c} /\ c \in M
    BY <1>3, <1>11 DEF ReleaseMutate, InStatus, InMutate, LimiterTypeOK
  <2>2. Cardinality(M') = Cardinality(M) - 1 /\ Cardinality(M) > 0 /\ Cardinality(M) \in Nat
    BY <1>0, <2>1, CountMoves
  <2>3. mutateSem' = mutateSem - 1 /\ UNCHANGED <<queued, statusSem, st>>
        /\ mt' \in [Clients -> MutateSteps]
    BY <1>3, <1>11 DEF ReleaseMutate, LimiterTypeOK, MutateSteps
  <2> HIDE DEF I, H, M
  <2>. QED
    BY <1>1, <1>3, <2>1, <2>2, <2>3, LimiterAssumption DEF LimiterTypeOK
<1>12. CASE UNCHANGED limiterVars
  <2>1. I' = I /\ H' = H /\ M' = M
    BY <1>12 DEF limiterVars, InStatus, InMutate
  <2>2. LimiterTypeOK' /\ UNCHANGED <<queued, statusSem, mutateSem>>
    BY <1>3, <1>12 DEF limiterVars, LimiterTypeOK
  <2> HIDE DEF I, H, M
  <2>. QED
    BY <1>1, <2>1, <2>2
<1>. QED
  BY <1>4, <1>5, <1>6, <1>7, <1>8, <1>9, <1>10, <1>11, <1>12
     DEF LimiterNext, LimiterStep

LEMMA LimiterInitial == LimiterInit => LimiterInv
<1> SUFFICES ASSUME LimiterInit PROVE LimiterInv
  OBVIOUS
<1>1. LimiterTypeOK
  BY DEF LimiterInit, LimiterTypeOK, StatusSteps, MutateSteps
<1>2. /\ InStatus({"counted", "holding", "leaving", "expired"}) = {}
      /\ InStatus({"holding"}) = {} /\ InMutate({"holding"}) = {}
  BY DEF LimiterInit, InStatus, InMutate
<1>3. Cardinality({}) = 0
  BY FS_EmptySet
<1>. QED
  BY <1>1, <1>2, <1>3, LimiterAssumption
     DEF LimiterInit, LimiterInv, Accounting, Limits

LEMMA LimiterAlways == LimiterSpec => []LimiterInv
BY LimiterInitial, LimiterInductive, PTL DEF LimiterSpec

(* Every variable of the limiter keeps its type: in particular no counter  *)
(* is ever taken below zero.                                               *)
THEOREM LimiterTypes == LimiterSpec => []LimiterTypeOK
<1>1. LimiterInv => LimiterTypeOK
  BY DEF LimiterInv
<1>. QED
  BY <1>1, LimiterAlways, PTL

(* No path through the limiter leaks a slot or a count.                    *)
THEOREM NothingLeaks == LimiterSpec => []Accounting
<1>1. LimiterInv => Accounting
  BY DEF LimiterInv
<1>. QED
  BY <1>1, LimiterAlways, PTL

(* The configured limits hold for every number of clients.                 *)
THEOREM LimitsHold == LimiterSpec => []Limits
<1>1. LimiterInv => Limits
  BY DEF LimiterInv
<1>. QED
  BY <1>1, LimiterAlways, PTL
=============================================================================
