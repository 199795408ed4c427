-------------------------- MODULE AlertPipelineProofs --------------------------
(* Theorems about AlertPipeline, for every set of jobs of any kinds, every *)
(* set of services and every configuration.                                *)
EXTENDS AlertPipeline, TLAPS

WorkLabels == {"counted", "check", "poll", "recheck", "repoll", "freeze",
               "enqueue", "release", "leave"}

(* Which jobs can be where, and that an alert nobody understood went no    *)
(* further than the start.                                                 *)
KindInv ==
  /\ \A j \in Jobs :
       /\ pc[j] \in WorkLabels => Kind[j] = "work"
       /\ pc[j] = "pend" => Kind[j] \in Creates
       /\ pc[j] = "mutate" => Kind[j] \notin Lists
       /\ pc[j] = "forget" => Kind[j] = "bulkDelete"
       /\ pc[j] \notin {"start", "done"} => Kind[j] \in Lists \/ Status[j] # "unknown"
  /\ \A j \in retryQueue : Status[j] # "unknown"

(* Icinga2 objects stay well-typed.                                       *)
LEMMA ObjectFacts ==
  /\ Absent \in Object /\ Created \in Object
  /\ \A o \in Object, r \in {"OK", "PROBLEM"} : WithResult(o, r) \in Object
  /\ \A o \in Object : [o EXCEPT !.idle = TRUE] \in Object
BY Zenon DEF Object, Absent, Created, WithResult

(* Sending a result leaves a well-typed object.                            *)
LEMMA SendTypes ==
  ASSUME TypeOK, NEW j \in Jobs, Status[j] # "unknown", SendOK(j) \/ SendFails(j)
  PROVE  icinga' \in [Services -> Object]
<1>1. Status[j] \in {"OK", "PROBLEM"}
  BY JobsAssumption
<1>2. icinga[cur[j]] \in Object /\ cur[j] \in Services
  BY DEF TypeOK
<1>3. WithResult(icinga[cur[j]], Status[j]) \in Object
  BY <1>1, <1>2, ObjectFacts
<1>4. CASE SendOK(j)
  BY <1>3, <1>4 DEF SendOK, TypeOK
<1>. QED
  BY <1>4 DEF SendFails, TypeOK

(* Every handler keeps the types.                                          *)
LEMMA TypeStep ==
  ASSUME TypeOK, KindInv, NEW j \in Jobs, Handler(j)
  PROVE  TypeOK'
<1>1. CASE Invalid(j) \/ RejectStatus(j) \/ CountIn(j)
  BY <1>1 DEF Invalid, RejectStatus, CountIn, Lists, Decide, Goto, limiter,
      cache, history, TypeOK, CacheTypeOK, Labels, Fates, WorkJobs
<1>2. CASE TakeStatus(j) \/ ExpireStatus(j) \/ PollDeadline(j)
  BY <1>2 DEF TakeStatus, ExpireStatus, PollDeadline, Goto, cache, history,
      Decide, limiter, TypeOK, CacheTypeOK, Labels, Fates, WorkJobs
<1>3. CASE NeedsCreate(j)
  <2>1. GetState(cur[j]) \in {"not_found", "pending", "ready"}
    BY DEF GetState, TypeOK, CacheTypeOK
  <2>2. AfterCheck(j, GetState(cur[j])) \in Labels
    BY <2>1 DEF AfterCheck, Labels
  <2>. QED
    BY <1>3, <2>2 DEF NeedsCreate, Goto, GiveMutateSlot, TypeOK, CacheTypeOK,
                      Fates, WorkJobs, history, cache
<1>4. CASE TestCreateStart(j) \/ AdminStart(j)
  BY <1>4 DEF TestCreateStart, AdminStart, Goto, limiter, cache, history,
      TypeOK, CacheTypeOK, Labels, Fates, WorkJobs
<1>5. CASE TakeMutate(j) \/ ExpireMutate(j)
  BY <1>5 DEF TakeMutate, ExpireMutate, TakeMutateSlot, Goto, AfterMutate,
      cache, history, limiter, TypeOK, CacheTypeOK, Labels, Fates, WorkJobs
<1>6. CASE MarkPending(j)
  BY <1>6 DEF MarkPending, SetPending, Goto, limiter, history, TypeOK,
      CacheTypeOK, Labels, Fates, WorkJobs, cache
<1>7. CASE Query(j)
  BY <1>7 DEF Query, Answer, Goto, Creates, limiter, cache, history, TypeOK,
      CacheTypeOK, Labels, Fates, WorkJobs
<1>8. CASE Put(j)
  BY <1>8, ObjectFacts DEF Put, At, Creates, Goto, Answer, limiter, cache,
      history, TypeOK, CacheTypeOK, Labels, Fates, WorkJobs
<1>9. CASE Delete(j)
  BY <1>9, ObjectFacts DEF Delete, At, Creates, Goto, Answer, limiter, cache,
      TypeOK, CacheTypeOK, Labels, Fates, WorkJobs, history
<1>10. CASE SettleWork(j) \/ SettleTestCreate(j)
  BY <1>10 DEF SettleWork, SettleTestCreate, At, Goto, GiveMutateSlot,
      Register, Remove, history, TypeOK, CacheTypeOK, Labels, Fates, WorkJobs,
      limiter, cache
<1>11. CASE SettleDelete(j) \/ SettleBulk(j) \/ Forget(j) \/ SettlePrune(j)
  BY <1>11 DEF SettleDelete, SettleBulk, Forget, SettlePrune, At, Goto,
      GiveMutateSlot, Remove, history, cache, limiter, TypeOK, CacheTypeOK,
      Labels, Fates, WorkJobs
<1>12. CASE CheckFrozen(j)
  BY <1>12 DEF CheckFrozen, Decide, Goto, limiter, cache, TypeOK, CacheTypeOK,
      Labels, Fates, WorkJobs, history
<1>13. CASE SendResult(j)
  <2>1. Status[j] # "unknown"
    BY <1>13 DEF SendResult, At, KindInv, Lists
  <2>2. icinga' \in [Services -> Object]
    BY <1>13, <2>1, SendTypes DEF SendResult
  <2>. QED
    BY <1>13, <2>2 DEF SendResult, At, Goto, Decide, TypeOK, CacheTypeOK, Labels, Fates,
                      WorkJobs, history, limiter, cache
<1>14. CASE EnqueueResult(j)
  <2>1. Kind[j] = "work"
    BY <1>14 DEF EnqueueResult, KindInv, WorkLabels
  <2>. QED
    BY <1>14, <2>1 DEF EnqueueResult, Goto, Decide, TypeOK, CacheTypeOK, Labels,
                      Fates, WorkJobs, limiter, cache
<1>15. CASE SetStatus(j)
  <2>1. Status[j] # "unknown"
    BY <1>15 DEF SetStatus, At, KindInv, Lists
  <2>2. icinga' \in [Services -> Object]
    BY <1>15, <2>1, SendTypes DEF SetStatus
  <2>. QED
    BY <1>15, <2>2 DEF SetStatus, At, Goto, GiveMutateSlot, TypeOK, CacheTypeOK, Labels, Fates,
                      WorkJobs, history, limiter, cache
<1>16. CASE ReleaseStatus(j) \/ CountOut(j) \/ PassEnds(j)
  BY <1>16 DEF ReleaseStatus, CountOut, PassEnds, Goto, cache, history, At,
      Lists, limiter, TypeOK, CacheTypeOK, Labels, Fates, WorkJobs
<1>17. CASE ListServices(j)
  <2>1. Candidates(j) \in SUBSET Services
    BY DEF Candidates
  <2>. QED
    BY <1>17, <2>1 DEF ListServices, Goto, TypeOK, CacheTypeOK, Labels, Fates,
                      WorkJobs, limiter, cache, history
<1>18. ASSUME NEW s \in Services, ResyncOne(j, s) \/ PruneOne(j, s) PROVE TypeOK'
  <2>1. CASE ResyncOne(j, s)
    BY <1>18, <2>1 DEF ResyncOne, At, Register, limiter, history, TypeOK,
        CacheTypeOK, Labels
  <2>2. CASE PruneOne(j, s)
    BY <1>18, <2>2 DEF PruneOne, At, Goto, limiter, cache, history, TypeOK,
        CacheTypeOK, Labels
  <2>. QED
    BY <1>18, <2>1, <2>2
<1>. QED
  BY <1>1, <1>2, <1>3, <1>4, <1>5, <1>6, <1>7, <1>8, <1>9, <1>10, <1>11,
      <1>12, <1>13, <1>14, <1>15, <1>16, <1>17, <1>18 DEF Handler

(* Every handler keeps KindInv.                                            *)
LEMMA KindStep ==
  ASSUME TypeOK, KindInv, NEW j \in Jobs, Handler(j)
  PROVE  KindInv'
<1>1. CASE Invalid(j) \/ RejectStatus(j) \/ CountIn(j)
  BY <1>1 DEF Invalid, RejectStatus, CountIn, Ready, Lists, Goto, cache,
      KindInv, WorkLabels, TypeOK, CacheTypeOK, Creates
<1>2. CASE TakeStatus(j) \/ ExpireStatus(j) \/ PollDeadline(j)
  BY <1>2 DEF TakeStatus, ExpireStatus, PollDeadline, Goto, cache, GetState,
      KindInv, WorkLabels, TypeOK, CacheTypeOK, Creates, Lists
<1>3. CASE NeedsCreate(j)
  BY <1>3 DEF NeedsCreate, GetState, AfterCheck, Goto, cache, KindInv,
      WorkLabels, TypeOK, CacheTypeOK, Creates, Lists
<1>4. CASE TestCreateStart(j) \/ AdminStart(j)
  BY <1>4 DEF TestCreateStart, AdminStart, Ready, Goto, GetState, cache,
      KindInv, WorkLabels, TypeOK, CacheTypeOK, Creates, Lists
<1>5. CASE TakeMutate(j) \/ ExpireMutate(j)
  BY <1>5 DEF TakeMutate, ExpireMutate, Goto, AfterMutate, cache, KindInv,
      WorkLabels, TypeOK, CacheTypeOK, Creates, Lists
<1>6. CASE MarkPending(j)
  BY <1>6 DEF MarkPending, Goto, KindInv, WorkLabels, TypeOK, CacheTypeOK,
      Creates, Lists
<1>7. CASE Query(j)
  BY <1>7 DEF Query, Goto, Creates, cache, KindInv, WorkLabels, TypeOK,
      CacheTypeOK, Lists
<1>8. CASE Put(j) \/ Delete(j)
  BY <1>8 DEF Put, Delete, At, Creates, Goto, cache, KindInv, WorkLabels,
      TypeOK, CacheTypeOK, Lists
<1>9. CASE SettleWork(j) \/ SettleTestCreate(j)
  BY <1>9 DEF SettleWork, SettleTestCreate, At, Goto, KindInv, WorkLabels,
      TypeOK, CacheTypeOK, Creates, Lists
<1>10. CASE SettleDelete(j) \/ SettleBulk(j) \/ Forget(j) \/ SettlePrune(j)
  BY <1>10 DEF SettleDelete, SettleBulk, Forget, SettlePrune, At, Goto, cache,
      KindInv, WorkLabels, TypeOK, CacheTypeOK, Creates, Lists
<1>11. CASE CheckFrozen(j)
  BY <1>11 DEF CheckFrozen, Goto, cache, KindInv, WorkLabels, TypeOK,
      CacheTypeOK, Creates, Lists
<1>12. CASE SendResult(j)
  BY <1>12 DEF SendResult, At, Goto, cache, KindInv, WorkLabels, TypeOK,
      CacheTypeOK, Creates, Lists
<1>13. CASE EnqueueResult(j)
  BY <1>13 DEF EnqueueResult, Goto, cache, KindInv, WorkLabels, TypeOK,
      CacheTypeOK, Creates, Lists
<1>14. CASE SetStatus(j)
  BY <1>14 DEF SetStatus, At, Goto, cache, KindInv, WorkLabels, TypeOK,
      CacheTypeOK, Creates, Lists
<1>15. CASE ReleaseStatus(j) \/ CountOut(j) \/ ListServices(j) \/ PassEnds(j)
  BY <1>15 DEF ReleaseStatus, CountOut, ListServices, PassEnds, Goto, cache,
      Ready, Lists, At, KindInv, WorkLabels, TypeOK, CacheTypeOK, Creates
<1>16. ASSUME NEW s \in Services, ResyncOne(j, s) \/ PruneOne(j, s) PROVE KindInv'
  BY <1>16 DEF ResyncOne, PruneOne, At, Goto, cache, KindInv, WorkLabels,
      TypeOK, CacheTypeOK, Creates, Lists
<1>. QED
  BY <1>1, <1>2, <1>3, <1>4, <1>5, <1>6, <1>7, <1>8, <1>9, <1>10, <1>11,
      <1>12, <1>13, <1>14, <1>15, <1>16 DEF Handler

-----------------------------------------------------------------------------
(* Every handler leaves each pending entry with a creator: a creator that  *)
(* leaves settles its own entry.                                           *)
LEMMA PendingStep ==
  ASSUME TypeOK, KindInv, PendingHasCreator, NEW j \in Jobs, Handler(j)
  PROVE  PendingHasCreator'
<1>1. CASE Invalid(j) \/ RejectStatus(j) \/ CountIn(j)
  BY <1>1 DEF Invalid, RejectStatus, CountIn, Ready, Lists, Goto, cache,
      TypeOK, CacheTypeOK, KindInv, WorkLabels, PendingHasCreator, Creates
<1>2. CASE TakeStatus(j) \/ ExpireStatus(j) \/ PollDeadline(j)
  BY <1>2 DEF TakeStatus, ExpireStatus, PollDeadline, Goto, cache, GetState,
      TypeOK, CacheTypeOK, KindInv, WorkLabels, PendingHasCreator, Creates,
      Lists
<1>3. CASE NeedsCreate(j)
  BY <1>3 DEF NeedsCreate, GetState, AfterCheck, Goto, cache, TypeOK,
      CacheTypeOK, KindInv, WorkLabels, PendingHasCreator, Creates, Lists
<1>4. CASE TestCreateStart(j) \/ AdminStart(j)
  BY <1>4 DEF TestCreateStart, AdminStart, Ready, Goto, Exists, GetState,
      cache, TypeOK, CacheTypeOK, KindInv, WorkLabels, PendingHasCreator,
      Creates, Lists
<1>5. CASE TakeMutate(j) \/ ExpireMutate(j)
  BY <1>5 DEF TakeMutate, ExpireMutate, Goto, AfterMutate, cache, TypeOK,
      CacheTypeOK, KindInv, WorkLabels, PendingHasCreator, Creates, Lists
<1>6. CASE MarkPending(j)
  BY <1>6 DEF MarkPending, SetPending, Goto, TypeOK, CacheTypeOK, KindInv,
      WorkLabels, PendingHasCreator, cache, Creates, Lists
<1>7. CASE Query(j)
  BY <1>7 DEF Query, Goto, Creates, cache, TypeOK, CacheTypeOK, KindInv,
      WorkLabels, PendingHasCreator, Lists
<1>8. CASE Put(j) \/ Delete(j)
  BY <1>8 DEF Put, Delete, At, Creates, Goto, cache, TypeOK, CacheTypeOK,
      KindInv, WorkLabels, PendingHasCreator, Lists
<1>9. CASE SettleWork(j) \/ SettleTestCreate(j)
  BY <1>9 DEF SettleWork, SettleTestCreate, At, Goto, Register, Remove,
      TypeOK, CacheTypeOK, KindInv, WorkLabels, PendingHasCreator, cache,
      Creates, Lists
<1>10. CASE SettleDelete(j) \/ SettleBulk(j) \/ Forget(j) \/ SettlePrune(j)
  BY <1>10 DEF SettleDelete, SettleBulk, Forget, SettlePrune, At, Goto,
      Remove, cache, TypeOK, CacheTypeOK, KindInv, WorkLabels,
      PendingHasCreator, Creates, Lists
<1>11. CASE CheckFrozen(j)
  BY <1>11 DEF CheckFrozen, Goto, cache, TypeOK, CacheTypeOK, KindInv,
      WorkLabels, PendingHasCreator, Creates, Lists
<1>12. CASE SendResult(j)
  BY <1>12 DEF SendResult, At, Goto, cache, TypeOK, CacheTypeOK, KindInv,
      WorkLabels, PendingHasCreator, Creates, Lists
<1>13. CASE EnqueueResult(j)
  BY <1>13 DEF EnqueueResult, Goto, cache, TypeOK, CacheTypeOK, KindInv,
      WorkLabels, PendingHasCreator, Creates, Lists
<1>14. CASE SetStatus(j)
  BY <1>14 DEF SetStatus, At, Goto, cache, TypeOK, CacheTypeOK, KindInv,
      WorkLabels, PendingHasCreator, Creates, Lists
<1>15. CASE ReleaseStatus(j) \/ CountOut(j) \/ ListServices(j) \/ PassEnds(j)
  BY <1>15 DEF ReleaseStatus, CountOut, ListServices, PassEnds, Goto, cache,
      Ready, Lists, At, TypeOK, CacheTypeOK, KindInv, WorkLabels,
      PendingHasCreator, Creates
<1>16. ASSUME NEW s \in Services, ResyncOne(j, s) \/ PruneOne(j, s) PROVE PendingHasCreator'
  BY <1>16 DEF ResyncOne, PruneOne, At, Register, Goto, cache, TypeOK,
      CacheTypeOK, KindInv, WorkLabels, PendingHasCreator, Creates, Lists
<1>. QED
  BY <1>1, <1>2, <1>3, <1>4, <1>5, <1>6, <1>7, <1>8, <1>9, <1>10, <1>11,
      <1>12, <1>13, <1>14, <1>15, <1>16 DEF Handler

(* An alert has no outcome before it is answered, a rejected one never     *)
(* held a slot, and only the retry queue holds the ones called queued.     *)
FateInv ==
  \A j \in WorkJobs :
    /\ pc[j] \in {"release", "leave", "done"} <=> fate[j] # "none"
    /\ fate[j] = "rejected" => pc[j] \in {"leave", "done"}
    /\ fate[j] = "queued" <=> j \in retryQueue
    /\ RetryEnabled => fate[j] # "failed"

(* Every handler keeps FateInv.                                            *)
LEMMA FateStep ==
  ASSUME TypeOK, KindInv, FateInv, NEW j \in Jobs, Handler(j)
  PROVE  FateInv'
<1>1. CASE Invalid(j) \/ RejectStatus(j) \/ CountIn(j)
  BY <1>1 DEF Invalid, RejectStatus, CountIn, Ready, Lists, Decide, Goto,
      history, TypeOK, CacheTypeOK, KindInv, WorkLabels, FateInv, WorkJobs
<1>2. CASE TakeStatus(j) \/ ExpireStatus(j) \/ PollDeadline(j)
  BY <1>2 DEF TakeStatus, ExpireStatus, PollDeadline, Goto, history, Decide,
      GetState, TypeOK, CacheTypeOK, KindInv, WorkLabels, FateInv, WorkJobs
<1>3. CASE NeedsCreate(j)
  BY <1>3 DEF NeedsCreate, GetState, AfterCheck, Goto, history, TypeOK,
      CacheTypeOK, KindInv, WorkLabels, FateInv, WorkJobs
<1>4. CASE TestCreateStart(j) \/ AdminStart(j)
  BY <1>4 DEF TestCreateStart, AdminStart, Ready, Goto, GetState, history,
      TypeOK, CacheTypeOK, KindInv, WorkLabels, FateInv, WorkJobs
<1>5. CASE TakeMutate(j) \/ ExpireMutate(j)
  BY <1>5 DEF TakeMutate, ExpireMutate, Goto, AfterMutate, history, TypeOK,
      CacheTypeOK, KindInv, WorkLabels, FateInv, WorkJobs
<1>6. CASE MarkPending(j)
  BY <1>6 DEF MarkPending, Goto, history, TypeOK, CacheTypeOK, KindInv,
      WorkLabels, FateInv, WorkJobs
<1>7. CASE Query(j)
  BY <1>7 DEF Query, Goto, Creates, history, TypeOK, CacheTypeOK, KindInv,
      WorkLabels, FateInv, WorkJobs
<1>8. CASE Put(j) \/ Delete(j)
  <2>1. CASE Put(j)
    BY <2>1 DEF Put, At, Creates, Goto, history, TypeOK, CacheTypeOK,
        KindInv, WorkLabels, FateInv, WorkJobs
  <2>2. CASE Delete(j)
    BY <2>2 DEF Delete, At, Creates, Goto, history, TypeOK, CacheTypeOK,
        KindInv, WorkLabels, FateInv, WorkJobs
  <2>. QED
    BY <1>8, <2>1, <2>2
<1>9. CASE SettleWork(j) \/ SettleTestCreate(j)
  BY <1>9 DEF SettleWork, SettleTestCreate, At, Goto, history, TypeOK,
      CacheTypeOK, KindInv, WorkLabels, FateInv, WorkJobs
<1>10. CASE SettleDelete(j) \/ SettleBulk(j) \/ Forget(j) \/ SettlePrune(j)
  <2>1. CASE SettleDelete(j) \/ SettleBulk(j)
    BY <2>1 DEF SettleDelete, SettleBulk, At, Goto, history, TypeOK, CacheTypeOK,
        KindInv, WorkLabels, FateInv, WorkJobs
  <2>2. CASE Forget(j) \/ SettlePrune(j)
    BY <2>2 DEF Forget, SettlePrune, At, Goto, history, TypeOK, CacheTypeOK,
        KindInv, WorkLabels, FateInv, WorkJobs
  <2>. QED
    BY <1>10, <2>1, <2>2
<1>11. CASE CheckFrozen(j)
  BY <1>11 DEF CheckFrozen, Decide, Goto, TypeOK, CacheTypeOK, KindInv,
      WorkLabels, FateInv, WorkJobs, history
<1>12. CASE SendResult(j)
  BY <1>12 DEF SendResult, At, Decide, Goto, TypeOK, CacheTypeOK, KindInv,
      WorkLabels, FateInv, WorkJobs, history
<1>13. CASE EnqueueResult(j)
  BY <1>13 DEF EnqueueResult, Goto, Decide, TypeOK, CacheTypeOK, KindInv,
      WorkLabels, FateInv, WorkJobs, history
<1>14. CASE SetStatus(j)
  BY <1>14 DEF SetStatus, At, Goto, history, TypeOK, CacheTypeOK, KindInv,
      WorkLabels, FateInv, WorkJobs
<1>15. CASE ReleaseStatus(j) \/ CountOut(j) \/ ListServices(j) \/ PassEnds(j)
  BY <1>15 DEF ReleaseStatus, CountOut, ListServices, PassEnds, Goto, history,
      Ready, Lists, At, TypeOK, CacheTypeOK, KindInv, WorkLabels, FateInv,
      WorkJobs
<1>16. ASSUME NEW s \in Services, ResyncOne(j, s) \/ PruneOne(j, s) PROVE FateInv'
  BY <1>16 DEF ResyncOne, PruneOne, At, history, Goto, TypeOK, CacheTypeOK,
      KindInv, WorkLabels, FateInv, WorkJobs
<1>. QED
  BY <1>1, <1>2, <1>3, <1>4, <1>5, <1>6, <1>7, <1>8, <1>9, <1>10, <1>11,
      <1>12, <1>13, <1>14, <1>15, <1>16 DEF Handler

-----------------------------------------------------------------------------
(* What the bridge acts on is real: cached entries, answers of a create    *)
(* call, listed services and the service an alert is sent to.              *)
RealInv ==
  /\ ReadyIsReal
  /\ \A j \in Jobs :
       /\ Kind[j] \in Creates /\ pc[j] = "settle" /\ reply[j] \notin {"none", "error"}
            => cur[j] \in Real
       /\ list[j] \subseteq Real
       /\ Kind[j] = "work" /\ pc[j] \in {"freeze", "send"} => j \in gaveUp \/ cur[j] \in Real
  /\ MissesExplained

(* A result changes no owner.                                              *)
LEMMA SendKeepsOwner ==
  ASSUME TypeOK, NEW j \in Jobs, SendOK(j) \/ SendFails(j), NEW s \in Services
  PROVE  icinga'[s].owner = icinga[s].owner
<1>1. \A o \in Object : \A r : WithResult(o, r).owner = o.owner
  BY DEF WithResult, Object
<1>2. icinga[cur[j]] \in Object /\ cur[j] \in Services
  BY DEF TypeOK
<1>3. CASE SendOK(j)
  <2>1. icinga'[s] = IF s = cur[j] THEN WithResult(icinga[cur[j]], Status[j])
                     ELSE icinga[s]
    BY <1>3 DEF SendOK, TypeOK
  <2>. QED
    BY <1>1, <1>2, <2>1
<1>. QED
  BY <1>3 DEF SendFails

(* No handler makes a real service unreal: it deletes only into deleted.   *)
LEMMA RealStays ==
  ASSUME TypeOK, NEW j \in Jobs, Handler(j)
  PROVE  /\ Real \subseteq Real'
         /\ deleted \subseteq deleted'
<1>1. CASE Invalid(j) \/ RejectStatus(j) \/ CountIn(j) \/ TakeStatus(j)
         \/ ExpireStatus(j) \/ NeedsCreate(j) \/ PollDeadline(j)
         \/ TestCreateStart(j) \/ AdminStart(j) \/ TakeMutate(j)
         \/ ExpireMutate(j) \/ MarkPending(j) \/ Query(j) \/ SettleWork(j)
         \/ SettleTestCreate(j) \/ SettleDelete(j) \/ SettleBulk(j)
         \/ Forget(j) \/ SettlePrune(j) \/ CheckFrozen(j) \/ EnqueueResult(j)
         \/ ReleaseStatus(j) \/ CountOut(j) \/ ListServices(j) \/ PassEnds(j)
  BY <1>1, Zenon DEF Invalid, RejectStatus, CountIn, TakeStatus, ExpireStatus,
      NeedsCreate, PollDeadline, TestCreateStart, AdminStart, TakeMutate,
      ExpireMutate, MarkPending, Query, SettleWork, SettleTestCreate,
      SettleDelete, SettleBulk, Forget, SettlePrune, CheckFrozen,
      EnqueueResult, ReleaseStatus, CountOut, ListServices, PassEnds, Lists,
      history, Creates, At, TypeOK, Real
<1>2. CASE Put(j)
  BY <1>2 DEF Put, At, Creates, Created, history, TypeOK, Real
<1>3. CASE Delete(j)
  BY <1>3 DEF Delete, At, Creates, Absent, TypeOK, Real, history
<1>4. CASE SendResult(j) \/ SetStatus(j)
  BY <1>4, SendKeepsOwner DEF SendResult, SetStatus, At, history, TypeOK, Real
<1>5. ASSUME NEW t \in Services, ResyncOne(j, t) \/ PruneOne(j, t)
      PROVE  Real \subseteq Real' /\ deleted \subseteq deleted'
  BY <1>5 DEF ResyncOne, PruneOne, At, history, TypeOK, Real
<1>. QED
  BY <1>1, <1>2, <1>3, <1>4, <1>5 DEF Handler

(* Every handler keeps RealInv.                                            *)
LEMMA RealStep ==
  ASSUME TypeOK, KindInv, RealInv, NEW j \in Jobs, Handler(j)
  PROVE  RealInv'
<1>0. /\ pc \in [Jobs -> Labels] /\ cur \in [Jobs -> Services]
      /\ reply \in [Jobs -> {"none", "ok", "exists", "conflict", "error"}]
      /\ list \in [Jobs -> SUBSET Services] /\ missed \subseteq Jobs
      /\ entries \in [Services -> {"not_found", "pending", "ready"}]
      /\ Real \subseteq Real' /\ deleted \subseteq deleted'
  BY RealStays DEF TypeOK, CacheTypeOK, WorkJobs
<1>1. CASE Invalid(j) \/ RejectStatus(j) \/ CountIn(j)
  BY <1>1, <1>0 DEF Invalid, RejectStatus, CountIn, Lists, Goto, cache,
      history, KindInv, WorkLabels, RealInv, ReadyIsReal, MissesExplained,
      WorkJobs, Creates
<1>2. CASE TakeStatus(j) \/ ExpireStatus(j) \/ PollDeadline(j)
  BY <1>2, <1>0 DEF TakeStatus, ExpireStatus, PollDeadline, Goto, cache,
      history, GetState, KindInv, WorkLabels, RealInv, ReadyIsReal,
      MissesExplained, WorkJobs, Creates
<1>3. CASE NeedsCreate(j)
  BY <1>3, <1>0 DEF NeedsCreate, GetState, AfterCheck, Goto, cache, history,
      KindInv, WorkLabels, RealInv, ReadyIsReal, MissesExplained, WorkJobs,
      Creates
<1>4. CASE TestCreateStart(j) \/ AdminStart(j)
  BY <1>4, <1>0 DEF TestCreateStart, AdminStart, Goto, GetState, cache,
      history, KindInv, WorkLabels, RealInv, ReadyIsReal, MissesExplained,
      WorkJobs, Creates
<1>5. CASE TakeMutate(j) \/ ExpireMutate(j)
  BY <1>5, <1>0 DEF TakeMutate, ExpireMutate, Goto, AfterMutate, cache,
      history, KindInv, WorkLabels, RealInv, ReadyIsReal, MissesExplained,
      WorkJobs, Creates
<1>6. CASE MarkPending(j)
  BY <1>6, <1>0 DEF MarkPending, SetPending, Goto, history, KindInv,
      WorkLabels, RealInv, ReadyIsReal, MissesExplained, cache, WorkJobs,
      Creates
<1>7. CASE Query(j)
  <2>1. Refused(j) => cur[j] \in Real
    BY <1>0 DEF Refused, Conflict, Real
  <2>. QED
    BY <1>7, <1>0, <2>1 DEF Query, Answer, Goto, cache, history, RealInv,
        ReadyIsReal, MissesExplained
<1>8. CASE Put(j)
  <2>1. reply'[j] # "error" => cur[j] \in Real'
    BY <1>8, <1>0 DEF Put, Answer, Real, Created, TypeOK
  <2>. QED
    BY <1>8, <1>0, <2>1 DEF Put, Goto, Answer, cache, history, RealInv,
        ReadyIsReal, MissesExplained
<1>9. CASE Delete(j)
  BY <1>9, <1>0 DEF Delete, At, Creates, Goto, Answer, cache, KindInv,
      WorkLabels, RealInv, ReadyIsReal, MissesExplained, history, WorkJobs
<1>10. CASE SettleWork(j) \/ SettleTestCreate(j)
  BY <1>10, <1>0 DEF SettleWork, SettleTestCreate, At, Goto, Register, Remove,
      history, KindInv, WorkLabels, RealInv, ReadyIsReal, MissesExplained,
      cache, WorkJobs, Creates
<1>11. CASE SettleDelete(j) \/ SettleBulk(j)
  BY <1>11, <1>0 DEF SettleDelete, SettleBulk, At, Goto, Remove, history,
      cache, KindInv, WorkLabels, RealInv, ReadyIsReal, MissesExplained,
      WorkJobs, Creates
<1>12. CASE Forget(j) \/ SettlePrune(j)
  BY <1>12, <1>0 DEF Forget, SettlePrune, Remove, Goto, history, At, KindInv,
      WorkLabels, RealInv, ReadyIsReal, MissesExplained, cache, WorkJobs,
      Creates
<1>13. CASE CheckFrozen(j) \/ EnqueueResult(j)
  BY <1>13, <1>0 DEF CheckFrozen, EnqueueResult, Goto, cache, KindInv,
      WorkLabels, RealInv, ReadyIsReal, MissesExplained, history, WorkJobs,
      Creates
<1>14. CASE SendResult(j)
  <2>1. cur[j] \in Real /\ icinga[cur[j]].owner = "absent" => cur[j] \in deleted
    BY DEF Real
  <2>2. Kind[j] = "work" /\ pc[j] = "send"
    BY <1>14, Zenon DEF SendResult, At
  <2>. QED
    BY <1>14, <1>0, <2>1, <2>2 DEF SendResult, Goto, cache, RealInv, ReadyIsReal,
        MissesExplained
<1>15. CASE SetStatus(j)
  BY <1>15, <1>0 DEF SetStatus, At, Goto, cache, history, KindInv, WorkLabels,
      RealInv, ReadyIsReal, MissesExplained, WorkJobs, Creates
<1>16. CASE ReleaseStatus(j)
  BY <1>16, <1>0 DEF ReleaseStatus, Goto, cache, history, KindInv, WorkLabels,
      RealInv, ReadyIsReal, MissesExplained, WorkJobs, Creates
<1>17. CASE CountOut(j)
  BY <1>17, <1>0 DEF CountOut, Goto, cache, history, KindInv, WorkLabels,
      RealInv, ReadyIsReal, MissesExplained, WorkJobs, Creates
<1>18. CASE ListServices(j)
  <2>1. Candidates(j) \subseteq Real
    BY DEF Candidates, Real
  <2>. QED
    BY <1>18, <1>0, <2>1 DEF ListServices, Goto, cache, history, RealInv,
        ReadyIsReal, MissesExplained
<1>19. CASE PassEnds(j)
  BY <1>19, <1>0 DEF PassEnds, At, Lists, Goto, cache, history, KindInv,
      WorkLabels, RealInv, ReadyIsReal, MissesExplained, WorkJobs, Creates
<1>20. ASSUME NEW s \in Services, ResyncOne(j, s) \/ PruneOne(j, s) PROVE RealInv'
  <2>1. CASE ResyncOne(j, s)
    BY <1>0, <2>1 DEF ResyncOne, Register, history, RealInv, ReadyIsReal,
        MissesExplained
  <2>2. CASE PruneOne(j, s)
    <3>1. Kind[j] = "prune" /\ pc'[j] \in {"each", "query"}
      BY <1>0, <2>2 DEF PruneOne, At, Goto
    <3>2. \A k \in Jobs : /\ list'[k] \subseteq list[k]
                         /\ k # j => pc'[k] = pc[k] /\ cur'[k] = cur[k]
      BY <1>0, <2>2 DEF PruneOne, Goto
    <3>3. ReadyIsReal'
      BY <1>0, <2>2 DEF PruneOne, cache, RealInv, ReadyIsReal
    <3>4. MissesExplained'
      BY <1>0, <2>2, <3>1, <3>2 DEF PruneOne, history, RealInv, MissesExplained,
          TypeOK, WorkJobs
    <3>. QED
      BY <1>0, <2>2, <3>1, <3>2, <3>3, <3>4 DEF PruneOne, history, RealInv, Creates
  <2>. QED
    BY <1>20, <2>1, <2>2
<1>. QED
  BY <1>1, <1>2, <1>3, <1>4, <1>5, <1>6, <1>7, <1>8, <1>9, <1>10, <1>11,
      <1>12, <1>13, <1>14, <1>15, <1>16, <1>17, <1>18, <1>19, <1>20 DEF
      Handler

-----------------------------------------------------------------------------
(* Without force, a delete call is under way only for a service that is    *)
(* not foreign: Query looked, and nothing becomes foreign later.           *)
ForeignInv ==
  \A j \in Jobs : pc[j] = "call" /\ Kind[j] \notin Creates /\ ~Icinga2Force =>
                    cur[j] \notin Unmanaged

(* No handler makes a service foreign, and without force none takes a      *)
(* foreign one away.                                                       *)
LEMMA OwnerStep ==
  ASSUME TypeOK, ForeignInv, NEW j \in Jobs, Handler(j)
  PROVE  /\ Unmanaged' \subseteq Unmanaged
         /\ ~Icinga2Force => Unmanaged \subseteq Unmanaged'
<1>1. CASE Invalid(j) \/ RejectStatus(j) \/ CountIn(j) \/ TakeStatus(j)
         \/ ExpireStatus(j) \/ NeedsCreate(j) \/ PollDeadline(j)
         \/ TestCreateStart(j) \/ AdminStart(j) \/ TakeMutate(j)
         \/ ExpireMutate(j) \/ MarkPending(j) \/ Query(j) \/ SettleWork(j)
         \/ SettleTestCreate(j) \/ SettleDelete(j) \/ SettleBulk(j)
         \/ Forget(j) \/ SettlePrune(j) \/ CheckFrozen(j) \/ EnqueueResult(j)
         \/ ReleaseStatus(j) \/ CountOut(j) \/ ListServices(j) \/ PassEnds(j)
  BY <1>1, Zenon DEF Invalid, RejectStatus, CountIn, TakeStatus, ExpireStatus,
      NeedsCreate, PollDeadline, TestCreateStart, AdminStart, TakeMutate,
      ExpireMutate, MarkPending, Query, SettleWork, SettleTestCreate,
      SettleDelete, SettleBulk, Forget, SettlePrune, CheckFrozen,
      EnqueueResult, ReleaseStatus, CountOut, ListServices, PassEnds, Lists,
      history, Creates, At, TypeOK, Unmanaged
<1>2. CASE Put(j)
  BY <1>2 DEF Put, At, Creates, Created, history, TypeOK, Unmanaged
<1>3. CASE Delete(j)
  BY <1>3 DEF Delete, At, ForeignInv, Creates, Absent, TypeOK, Unmanaged
<1>4. CASE SendResult(j) \/ SetStatus(j)
  BY <1>4, SendKeepsOwner DEF SendResult, SetStatus, At, history, TypeOK,
      Unmanaged
<1>5. ASSUME NEW t \in Services, ResyncOne(j, t) \/ PruneOne(j, t)
      PROVE  Unmanaged' = Unmanaged
  BY <1>5 DEF ResyncOne, PruneOne, At, history, TypeOK, Unmanaged
<1>. QED
  BY <1>1, <1>2, <1>3, <1>4, <1>5 DEF Handler

(* Every handler keeps ForeignInv.                                         *)
LEMMA ForeignStep ==
  ASSUME TypeOK, ForeignInv, NEW j \in Jobs, Handler(j)
  PROVE  ForeignInv'
<1>0. /\ pc \in [Jobs -> Labels] /\ cur \in [Jobs -> Services]
      /\ entries \in [Services -> {"not_found", "pending", "ready"}]
      /\ Unmanaged' \subseteq Unmanaged
  BY OwnerStep DEF TypeOK, CacheTypeOK
<1>1. CASE Invalid(j) \/ RejectStatus(j) \/ CountIn(j)
  BY <1>1, <1>0 DEF Invalid, RejectStatus, CountIn, Lists, Goto, ForeignInv,
      Creates
<1>2. CASE TakeStatus(j) \/ ExpireStatus(j) \/ PollDeadline(j)
  BY <1>2, <1>0 DEF TakeStatus, ExpireStatus, PollDeadline, Goto, GetState,
      ForeignInv, Creates
<1>3. CASE NeedsCreate(j)
  BY <1>3, <1>0 DEF NeedsCreate, GetState, AfterCheck, Goto, ForeignInv,
      Creates
<1>4. CASE TestCreateStart(j) \/ AdminStart(j)
  BY <1>4, <1>0 DEF TestCreateStart, AdminStart, Goto, GetState, ForeignInv,
      Creates
<1>5. CASE TakeMutate(j) \/ ExpireMutate(j)
  BY <1>5, <1>0 DEF TakeMutate, ExpireMutate, Goto, AfterMutate, ForeignInv,
      Creates
<1>6. CASE MarkPending(j)
  BY <1>6, <1>0 DEF MarkPending, Goto, ForeignInv, Creates
<1>7. CASE Query(j)
  BY <1>7, <1>0 DEF Query, Answer, Goto, Creates, ForeignInv, Refused,
      Conflict, Unmanaged
<1>8. CASE Put(j) \/ Delete(j)
  BY <1>8, <1>0 DEF Put, Delete, At, Creates, Goto, Answer, ForeignInv
<1>9. CASE SettleWork(j) \/ SettleTestCreate(j)
  BY <1>9, <1>0, Zenon DEF SettleWork, SettleTestCreate, At, Goto, ForeignInv,
      Creates
<1>10. CASE SettleDelete(j) \/ SettleBulk(j) \/ Forget(j) \/ SettlePrune(j)
  BY <1>10, <1>0 DEF SettleDelete, SettleBulk, Forget, SettlePrune, At, Goto,
      ForeignInv, Creates
<1>11. CASE CheckFrozen(j) \/ EnqueueResult(j)
  BY <1>11, <1>0 DEF CheckFrozen, EnqueueResult, Goto, ForeignInv, Creates
<1>12. CASE SendResult(j) \/ SetStatus(j)
  BY <1>12, <1>0, Zenon DEF SendResult, SetStatus, At, Goto, ForeignInv, Creates
<1>13. CASE ReleaseStatus(j) \/ CountOut(j) \/ ListServices(j) \/ PassEnds(j)
  BY <1>13, <1>0 DEF ReleaseStatus, CountOut, ListServices, PassEnds, Goto,
      Lists, At, ForeignInv, Creates
<1>14. ASSUME NEW s \in Services, ResyncOne(j, s) \/ PruneOne(j, s) PROVE ForeignInv'
  BY <1>14, <1>0 DEF ResyncOne, PruneOne, At, Goto, ForeignInv, Creates
<1>. QED
  BY <1>1, <1>2, <1>3, <1>4, <1>5, <1>6, <1>7, <1>8, <1>9, <1>10, <1>11,
      <1>12, <1>13, <1>14 DEF Handler

-----------------------------------------------------------------------------
(* The inductive invariant.                                                *)
PipelineInv ==
  TypeOK /\ KindInv /\ PendingHasCreator /\ FateInv /\ RealInv /\ ForeignInv

(* It holds when the server starts.                                       *)
LEMMA InitInv == Init => PipelineInv
<1>. SUFFICES ASSUME Init PROVE PipelineInv
  OBVIOUS
<1>1. icinga \in [Services -> Object]
  BY ObjectFacts, Zenon DEF Init, Object, Created, Absent
<1>2. TypeOK
  <2>1. CacheTypeOK
    BY DEF Init, CacheTypeOK
  <2>2. pc \in [Jobs -> Labels] /\ fate \in [Jobs -> Fates]
    BY DEF Init, Labels, Fates
  <2>3. cur \in [Jobs -> Services] /\ list \in [Jobs -> SUBSET Services]
    BY JobsAssumption DEF Init
  <2>4. reply \in [Jobs -> {"none", "ok", "exists", "conflict", "error"}]
    BY DEF Init
  <2>5. /\ queued = 0 /\ statusSem = 0 /\ mutateSem = 0
        /\ retryQueue = {} /\ gaveUp = {} /\ missed = {} /\ deleted = {}
    BY DEF Init
  <2>. QED
    BY <1>1, <2>1, <2>2, <2>3, <2>4, <2>5 DEF TypeOK
<1>3. KindInv /\ PendingHasCreator /\ FateInv /\ ForeignInv
  BY DEF Init, KindInv, WorkLabels, PendingHasCreator, FateInv, WorkJobs, ForeignInv
<1>4. RealInv
  BY JobsAssumption DEF Init, RealInv, ReadyIsReal, MissesExplained, Real, Created
<1>. QED
  BY <1>2, <1>3, <1>4 DEF PipelineInv

(* A retry changes one result and the fate of its alert.                   *)
LEMMA RetryStep ==
  ASSUME PipelineInv, NEW j \in Jobs, Retry(j)
  PROVE  PipelineInv'
<1>1. /\ j \in WorkJobs /\ Status[j] # "unknown"
      /\ SendOK(j) \/ SendFails(j)
  BY DEF PipelineInv, TypeOK, KindInv, Retry, SendFails
<1>2. icinga' \in [Services -> Object]
  BY <1>1, SendTypes DEF PipelineInv
<1>3. \A s \in Services : icinga'[s].owner = icinga[s].owner
  BY <1>1, SendKeepsOwner DEF PipelineInv
<1>4. TypeOK'
  BY <1>2 DEF PipelineInv, TypeOK, CacheTypeOK, Retry, Decide, Fates, WorkJobs,
      limiter, cache
<1>5. KindInv'
  BY DEF PipelineInv, KindInv, Retry
<1>6. PendingHasCreator'
  BY DEF PipelineInv, PendingHasCreator, Retry, cache
<1>7. FateInv'
  BY <1>1 DEF PipelineInv, FateInv, TypeOK, WorkJobs, Retry, Decide
<1>8. RealInv'
  <2>1. Real' = Real
    BY <1>3 DEF Retry, Real
  <2>. QED
    BY <2>1 DEF PipelineInv, RealInv, ReadyIsReal, MissesExplained, Retry, cache
<1>9. ForeignInv'
  BY <1>3 DEF PipelineInv, ForeignInv, Unmanaged, TypeOK, Retry
<1>. QED
  BY <1>4, <1>5, <1>6, <1>7, <1>8, <1>9 DEF PipelineInv

(* Operators and time change owners only to "absent" and entries only to   *)
(* "not_found".                                                            *)
LEMMA EnvironmentStep ==
  ASSUME PipelineInv, NEW s \in Services,
         OperatorDelete(s) \/ GrowIdle(s) \/ CacheStep(s)
  PROVE  PipelineInv'
<1>1. icinga' \in [Services -> Object]
  <2>1. CASE OperatorDelete(s)
    BY <2>1, ObjectFacts DEF PipelineInv, TypeOK, OperatorDelete
  <2>2. CASE GrowIdle(s)
    BY <2>2, ObjectFacts DEF PipelineInv, TypeOK, GrowIdle
  <2>3. CASE CacheStep(s)
    BY <2>3 DEF PipelineInv, TypeOK, CacheStep
  <2>. QED
    BY <2>1, <2>2, <2>3
<1>2. /\ frozenUntil' \in [Services -> {"no", "until", "forever"}]
      /\ entries' \in [Services -> {"not_found", "pending", "ready"}]
      /\ \A t \in Services : entries'[t] \in {entries[t], "not_found"}
  BY DEF PipelineInv, TypeOK, CacheTypeOK, OperatorDelete, GrowIdle, CacheStep,
      Expire, Remove, Freeze, Unfreeze, Thaw, cache
<1>3. /\ UNCHANGED <<pc, reply, cur, list, limiter, retryQueue, fate, gaveUp, missed>>
      /\ deleted \subseteq deleted' /\ deleted' \subseteq Services
  BY DEF OperatorDelete, GrowIdle, CacheStep, history, PipelineInv, TypeOK
<1>4. \A t \in Services : \/ icinga'[t].owner = icinga[t].owner
                          \/ icinga'[t].owner = "absent" /\ t \in deleted'
  <2>1. CASE OperatorDelete(s)
    BY <2>1 DEF PipelineInv, TypeOK, OperatorDelete, Absent
  <2>2. CASE GrowIdle(s)
    BY <2>2 DEF PipelineInv, TypeOK, Object, GrowIdle
  <2>3. CASE CacheStep(s)
    BY <2>3, Zenon DEF CacheStep
  <2>. QED
    BY <2>1, <2>2, <2>3
<1>5. TypeOK'
  BY <1>1, <1>2, <1>3 DEF PipelineInv, TypeOK, CacheTypeOK, limiter
<1>6. KindInv' /\ FateInv'
  BY <1>3 DEF PipelineInv, KindInv, FateInv
<1>7. PendingHasCreator'
  <2>1. \A t \in Services : entries'[t] = "pending" => entries[t] = "pending"
    BY <1>2
  <2>2. UNCHANGED <<pc, cur>>
    BY <1>3
  <2>. QED
    BY <2>1, <2>2 DEF PipelineInv, PendingHasCreator
<1>8. RealInv'
  <2>1. Real \subseteq Real'
    BY <1>3, <1>4, Zenon DEF Real
  <2>. QED
    BY <1>2, <1>3, <2>1, Zenon DEF PipelineInv, RealInv, ReadyIsReal, MissesExplained
<1>9. ForeignInv'
  BY <1>3, <1>4, Zenon DEF PipelineInv, ForeignInv, Unmanaged, TypeOK
<1>. QED
  BY <1>5, <1>6, <1>7, <1>8, <1>9 DEF PipelineInv

(* Every step keeps it.                                                   *)
LEMMA NextInv == PipelineInv /\ [Next]_vars => PipelineInv'
<1>. SUFFICES ASSUME PipelineInv, [Next]_vars PROVE PipelineInv'
  OBVIOUS
<1>1. ASSUME NEW j \in Jobs, Handler(j) PROVE PipelineInv'
  BY <1>1, TypeStep, KindStep, PendingStep, FateStep, RealStep, ForeignStep
     DEF PipelineInv
<1>2. CASE UNCHANGED vars
  <2>1. TypeOK' /\ KindInv' /\ PendingHasCreator' /\ FateInv'
    BY <1>2 DEF PipelineInv, TypeOK, CacheTypeOK, KindInv, PendingHasCreator,
        FateInv, vars
  <2>2. RealInv' /\ ForeignInv'
    BY <1>2, Zenon DEF PipelineInv, RealInv, ReadyIsReal, MissesExplained, Real,
        ForeignInv, Unmanaged, vars
  <2>. QED
    BY <2>1, <2>2 DEF PipelineInv
<1>. QED
  BY <1>1, <1>2, RetryStep, EnvironmentStep DEF Next, Finished

(* So it always holds.                                                    *)
LEMMA Invariance == Spec => []PipelineInv
BY InitInv, NextInv, PTL DEF Spec

(* Every variable keeps its type in any mix of handlers.                   *)
THEOREM PipelineTypes == Spec => []TypeOK
<1>1. PipelineInv => TypeOK
  BY DEF PipelineInv
<1>. QED
  BY <1>1, Invariance, PTL

(* A pending cache entry always has a running creator that will replace or *)
(* remove it, so no poller of needsCreate waits for nobody.                *)
THEOREM PendingIsOwned == Spec => []PendingHasCreator
<1>1. PipelineInv => PendingHasCreator
  BY DEF PipelineInv
<1>. QED
  BY <1>1, Invariance, PTL

(* A service cached as ready exists in Icinga2 unless it was deleted, even *)
(* when calls fail after taking effect.                                    *)
THEOREM CacheIsTruthful == Spec => []ReadyIsReal
<1>1. PipelineInv => ReadyIsReal
  BY DEF PipelineInv, RealInv
<1>. QED
  BY <1>1, Invariance, PTL

(* No check result is sent before its service has been created, except by  *)
(* an alert that gave up creating it or after somebody deleted it.         *)
THEOREM CreateBeforeSend == Spec => []MissesExplained
<1>1. PipelineInv => MissesExplained
  BY DEF PipelineInv, RealInv
<1>. QED
  BY <1>1, Invariance, PTL

(* Every answered alert has a fate, and the ones said to be queued are     *)
(* exactly those in the retry queue.                                       *)
THEOREM NoAlertForgotten == Spec => []AlertsAccounted
<1>1. PipelineInv => AlertsAccounted
  BY DEF PipelineInv, FateInv, AlertsAccounted
<1>. QED
  BY <1>1, Invariance, PTL

(* Without ICINGA2_FORCE the bridge never deletes or takes over a service  *)
(* that is not its own.                                                    *)
THEOREM ForeignUntouched == Spec => ForeignKept
<1>1. ASSUME PipelineInv, [Next]_vars
      PROVE  [~Icinga2Force /\ ~OperatorDeletes => Unmanaged \subseteq Unmanaged']_vars
  <2>. SUFFICES ASSUME ~Icinga2Force, ~OperatorDeletes, Next
                PROVE  Unmanaged \subseteq Unmanaged'
    BY <1>1
  <2>1. ASSUME NEW j \in Jobs, Handler(j) PROVE Unmanaged \subseteq Unmanaged'
    BY <1>1, <2>1, OwnerStep DEF PipelineInv
  <2>2. ASSUME NEW j \in Jobs, Retry(j) PROVE Unmanaged \subseteq Unmanaged'
    <3>1. SendOK(j)
      BY <2>2 DEF Retry
    <3>. QED
      BY <1>1, <3>1, SendKeepsOwner DEF PipelineInv, Unmanaged
  <2>3. ASSUME NEW s \in Services, OperatorDelete(s) \/ GrowIdle(s) \/ CacheStep(s)
        PROVE  Unmanaged \subseteq Unmanaged'
    BY <1>1, <2>3 DEF PipelineInv, TypeOK, Object, OperatorDelete, GrowIdle,
        CacheStep, Unmanaged
  <2>. QED
    BY <2>1, <2>2, <2>3 DEF Next, Finished, vars, Unmanaged
<1>. QED
  BY <1>1, Invariance, PTL DEF Spec, ForeignKept
-----------------------------------------------------------------------------
(* A handler moves its own job and decides the fate of no other.           *)
LEMMA OwnJobOnly ==
  ASSUME TypeOK, NEW j \in Jobs, Handler(j)
  PROVE  \A k \in Jobs \ {j} : pc'[k] = pc[k] /\ fate'[k] = fate[k]
<1>1. CASE \/ Invalid(j) \/ RejectStatus(j) \/ CountIn(j) \/ TakeStatus(j)
           \/ ExpireStatus(j) \/ NeedsCreate(j) \/ PollDeadline(j)
           \/ TestCreateStart(j) \/ AdminStart(j) \/ TakeMutate(j) \/ ExpireMutate(j)
  BY <1>1, Zenon DEF TypeOK, Invalid, RejectStatus, CountIn, TakeStatus, ExpireStatus,
      NeedsCreate, PollDeadline, TestCreateStart, AdminStart, TakeMutate,
      ExpireMutate, Goto, Decide, history
<1>2. CASE \/ MarkPending(j) \/ Query(j) \/ Put(j) \/ Delete(j)
           \/ SettleWork(j) \/ SettleTestCreate(j) \/ SettleDelete(j)
           \/ SettleBulk(j) \/ Forget(j) \/ SettlePrune(j)
  BY <1>2, Zenon DEF TypeOK, MarkPending, Query, Put, Delete, SettleWork,
      SettleTestCreate, SettleDelete, SettleBulk, Forget, SettlePrune, Goto,
      history
<1>3. CASE \/ CheckFrozen(j) \/ SendResult(j) \/ EnqueueResult(j) \/ SetStatus(j)
           \/ ReleaseStatus(j) \/ CountOut(j) \/ ListServices(j) \/ PassEnds(j)
  BY <1>3 DEF TypeOK, CheckFrozen, SendResult, EnqueueResult, SetStatus,
      ReleaseStatus, CountOut, ListServices, PassEnds, Goto, Decide, history
<1>4. ASSUME NEW s \in Services, ResyncOne(j, s) \/ PruneOne(j, s)
      PROVE  \A k \in Jobs \ {j} : pc'[k] = pc[k] /\ fate'[k] = fate[k]
  BY <1>4 DEF TypeOK, ResyncOne, PruneOne, Goto, history
<1>. QED
  BY <1>1, <1>2, <1>3, <1>4, Zenon DEF Handler

(* The limiter sees the step of a handler as a move of one client.         *)
LEMMA OneClientMoves ==
  ASSUME NEW j \in Jobs,
         \A k \in Jobs \ {j} : pc'[k] = pc[k] /\ fate'[k] = fate[k]
  PROVE  /\ statusSteps[j] = StatusStep(j) /\ mutateSteps[j] = MutateStep(j)
         /\ statusSteps' = [statusSteps EXCEPT ![j] = StatusStep(j)']
         /\ mutateSteps' = [mutateSteps EXCEPT ![j] = MutateStep(j)']
         /\ StatusStep(j)' = StatusStep(j) => statusSteps' = statusSteps
         /\ MutateStep(j)' = MutateStep(j) => mutateSteps' = mutateSteps
<1>1. \A k \in Jobs \ {j} : /\ StatusStep(k)' = StatusStep(k)
                            /\ MutateStep(k)' = MutateStep(k)
  BY DEF StatusStep, MutateStep, HoldsMutate, At
<1>. QED
  BY <1>1, Zenon DEF statusSteps, mutateSteps


(* What each handler does with the limiter is a step of one client, or     *)
(* nothing.                                                                *)
LEMMA HandlerIsClient ==
  ASSUME PipelineInv, NEW j \in Jobs, Handler(j)
  PROVE  Lim!LimiterStep(j) \/ UNCHANGED Lim!limiterVars
<1>0. /\ statusSteps[j] = StatusStep(j) /\ mutateSteps[j] = MutateStep(j)
      /\ statusSteps' = [statusSteps EXCEPT ![j] = StatusStep(j)']
      /\ mutateSteps' = [mutateSteps EXCEPT ![j] = MutateStep(j)']
      /\ StatusStep(j)' = StatusStep(j) => statusSteps' = statusSteps
      /\ MutateStep(j)' = MutateStep(j) => mutateSteps' = mutateSteps
  BY OwnJobOnly, OneClientMoves DEF PipelineInv
<1>1. TypeOK /\ KindInv /\ FateInv
  BY DEF PipelineInv
<1>2. ASSUME UNCHANGED limiter, StatusStep(j)' = StatusStep(j),
             MutateStep(j)' = MutateStep(j)
      PROVE  UNCHANGED Lim!limiterVars
  BY <1>0, <1>2, Zenon DEF limiter, Lim!limiterVars
<1>3. ASSUME UNCHANGED limiter, StatusStep(j)' = StatusStep(j),
             StatusStep(j) \in {"out", "holding"}, MutateStep(j) = "out",
             MutateStep(j)' = "waiting"
      PROVE  Lim!WaitMutate(j)
  BY <1>0, <1>3, Zenon DEF limiter, Lim!WaitMutate
<1>4. ASSUME GiveMutateSlot, UNCHANGED <<queued, statusSem>>,
             StatusStep(j)' = StatusStep(j), MutateStep(j) = "holding",
             MutateStep(j)' = "out"
      PROVE  Lim!ReleaseMutate(j)
  BY <1>0, <1>4, Zenon DEF GiveMutateSlot, Lim!ReleaseMutate
<1>5. CASE Invalid(j) \/ RejectStatus(j)
  <2>1. UNCHANGED limiter /\ pc[j] = "start" /\ pc'[j] = "done"
    BY <1>1, <1>5, Zenon DEF Invalid, RejectStatus, Ready, Goto, TypeOK
  <2>2. StatusStep(j)' = StatusStep(j) /\ MutateStep(j)' = MutateStep(j)
    BY <2>1 DEF StatusStep, MutateStep, HoldsMutate, At
  <2>. QED
    BY <1>2, <2>1, <2>2, Zenon
<1>6. CASE CountIn(j)
  <2>1. /\ pc[j] = "start" /\ pc'[j] = "counted" /\ Kind[j] = "work"
        /\ queued < MaxQueue /\ queued' = queued + 1
        /\ UNCHANGED <<statusSem, mutateSem>>
    BY <1>1, <1>6 DEF CountIn, Ready, Goto, TypeOK
  <2>2. /\ StatusStep(j) = "out" /\ StatusStep(j)' = "counted"
        /\ MutateStep(j) = "out" /\ MutateStep(j)' = "out"
    BY <2>1 DEF StatusStep, MutateStep, HoldsMutate, At
  <2>3. Lim!CountIn(j)
    BY <1>0, <2>1, <2>2 DEF Lim!CountIn
  <2>. QED
    BY <2>3 DEF Lim!LimiterStep
<1>7. CASE TakeStatus(j)
  <2>1. /\ pc[j] = "counted" /\ pc'[j] = "check" /\ Kind[j] = "work"
        /\ statusSem < MaxStatus /\ statusSem' = statusSem + 1
        /\ UNCHANGED <<queued, mutateSem>>
    BY <1>1, <1>7 DEF TakeStatus, Goto, TypeOK, KindInv, WorkLabels
  <2>2. /\ StatusStep(j) = "counted" /\ StatusStep(j)' = "holding"
        /\ MutateStep(j) = "out" /\ MutateStep(j)' = "out"
    BY <2>1 DEF StatusStep, MutateStep, HoldsMutate, At
  <2>3. Lim!TakeStatus(j)
    BY <1>0, <2>1, <2>2 DEF Lim!TakeStatus
  <2>. QED
    BY <2>3 DEF Lim!LimiterStep
<1>8. CASE ExpireStatus(j)
  <2>1. /\ pc[j] = "counted" /\ pc'[j] = "leave" /\ Kind[j] = "work"
        /\ fate'[j] = "rejected" /\ UNCHANGED limiter
    BY <1>1, <1>8, Zenon DEF ExpireStatus, Goto, Decide, TypeOK, KindInv, WorkLabels
  <2>2. /\ StatusStep(j) = "counted" /\ StatusStep(j)' = "expired"
        /\ MutateStep(j) = "out" /\ MutateStep(j)' = "out"
    BY <2>1 DEF StatusStep, MutateStep, HoldsMutate, At
  <2>3. Lim!ExpireStatus(j)
    BY <1>0, <2>1, <2>2 DEF Lim!ExpireStatus, limiter
  <2>. QED
    BY <2>3 DEF Lim!LimiterStep
<1>9. CASE NeedsCreate(j)
  <2>1. /\ Kind[j] = "work" /\ UNCHANGED <<queued, statusSem>>
        /\ \/ /\ pc[j] \in {"check", "poll"} /\ pc'[j] \in {"poll", "freeze"}
              /\ UNCHANGED mutateSem
           \/ /\ pc[j] \in {"check", "poll"} /\ pc'[j] = "mutate"
              /\ UNCHANGED mutateSem
           \/ /\ pc[j] \in {"recheck", "repoll"} /\ pc'[j] \in {"repoll", "pend"}
              /\ UNCHANGED mutateSem
           \/ /\ pc[j] \in {"recheck", "repoll"} /\ pc'[j] = "freeze"
              /\ GiveMutateSlot
    BY <1>1, <1>9 DEF NeedsCreate, AfterCheck, GetState, Goto, TypeOK, CacheTypeOK,
        KindInv, WorkLabels
  <2>2. StatusStep(j) = "holding" /\ StatusStep(j)' = "holding"
    BY <2>1 DEF StatusStep, At
  <2>3. CASE pc[j] \in {"check", "poll"} /\ pc'[j] \in {"poll", "freeze"}
    <3>1. MutateStep(j)' = MutateStep(j)
      BY <2>1, <2>3 DEF MutateStep, HoldsMutate, At
    <3>. QED
      BY <1>2, <2>1, <2>2, <2>3, <3>1 DEF limiter
  <2>4. CASE pc[j] \in {"check", "poll"} /\ pc'[j] = "mutate"
    <3>1. MutateStep(j) = "out" /\ MutateStep(j)' = "waiting"
      BY <2>1, <2>4 DEF MutateStep, HoldsMutate, At
    <3>. QED
      BY <1>3, <2>1, <2>2, <2>4, <3>1, Zenon DEF limiter, Lim!LimiterStep
  <2>5. CASE pc[j] \in {"recheck", "repoll"} /\ pc'[j] \in {"repoll", "pend"}
    <3>1. MutateStep(j)' = MutateStep(j)
      BY <2>1, <2>5 DEF MutateStep, HoldsMutate, At
    <3>. QED
      BY <1>2, <2>1, <2>2, <2>5, <3>1, Zenon DEF limiter
  <2>6. CASE pc[j] \in {"recheck", "repoll"} /\ pc'[j] = "freeze"
    <3>1. MutateStep(j) = "holding" /\ MutateStep(j)' = "out"
      BY <2>1, <2>6 DEF MutateStep, HoldsMutate, At
    <3>. QED
      BY <1>4, <2>1, <2>2, <2>6, <3>1, Zenon DEF Lim!LimiterStep
  <2>. QED
    BY <2>1, <2>3, <2>4, <2>5, <2>6
<1>10. CASE PollDeadline(j)
  <2>1. /\ Kind[j] = "work" /\ UNCHANGED limiter
        /\ \/ pc[j] = "poll" /\ pc'[j] = "mutate"
           \/ pc[j] = "repoll" /\ pc'[j] = "pend"
    BY <1>1, <1>10, Zenon DEF PollDeadline, Goto, TypeOK, KindInv, WorkLabels
  <2>2. StatusStep(j) = "holding" /\ StatusStep(j)' = "holding"
    BY <2>1 DEF StatusStep, At
  <2>3. \/ MutateStep(j) = "out" /\ MutateStep(j)' = "waiting"
        \/ MutateStep(j)' = MutateStep(j)
    BY <2>1 DEF MutateStep, HoldsMutate, At
  <2>. QED
    BY <1>2, <1>3, <2>1, <2>2, <2>3, Zenon DEF Lim!LimiterStep
<1>11. CASE TestCreateStart(j) \/ AdminStart(j)
  <2>1. /\ pc[j] = "start" /\ pc'[j] \in {"mutate", "done"} /\ UNCHANGED limiter
        /\ Kind[j] # "work"
    BY <1>1, <1>11, Zenon DEF TestCreateStart, AdminStart, Ready, Goto, TypeOK
  <2>2. StatusStep(j) = "out" /\ StatusStep(j)' = "out"
    BY <2>1 DEF StatusStep, At
  <2>3. \/ MutateStep(j) = "out" /\ MutateStep(j)' = "waiting"
        \/ MutateStep(j)' = MutateStep(j)
    BY <2>1 DEF MutateStep, HoldsMutate, At
  <2>. QED
    BY <1>2, <1>3, <2>1, <2>2, <2>3, Zenon DEF Lim!LimiterStep
<1>12. CASE TakeMutate(j)
  <2>1. /\ pc[j] = "mutate" /\ Kind[j] \notin Lists
        /\ pc'[j] = AfterMutate(j) /\ UNCHANGED <<queued, statusSem>>
        /\ mutateSem < MaxMutate /\ mutateSem' = mutateSem + 1
    BY <1>1, <1>12, Zenon DEF TakeMutate, TakeMutateSlot, Goto, TypeOK, KindInv
  <2>2. MutateStep(j) = "waiting" /\ MutateStep(j)' = "holding"
    BY <2>1 DEF AfterMutate, MutateStep, HoldsMutate, At, Lists
  <2>3. StatusStep(j)' = StatusStep(j)
    BY <2>1 DEF AfterMutate, StatusStep, At
  <2>4. Lim!TakeMutate(j)
    BY <1>0, <2>1, <2>2, <2>3 DEF Lim!TakeMutate
  <2>. QED
    BY <2>4 DEF Lim!LimiterStep
<1>13. CASE ExpireMutate(j)
  <2>1. /\ pc[j] = "mutate" /\ UNCHANGED limiter
        /\ pc'[j] = IF Kind[j] = "work" THEN "freeze" ELSE "done"
    BY <1>1, <1>13 DEF ExpireMutate, Goto, TypeOK
  <2>2. /\ MutateStep(j) = "waiting" /\ MutateStep(j)' = "out"
        /\ StatusStep(j)' = StatusStep(j)
    BY <2>1 DEF MutateStep, StatusStep, HoldsMutate, At
  <2>3. Lim!ExpireMutate(j)
    BY <1>0, <2>1, <2>2 DEF Lim!ExpireMutate, limiter
  <2>. QED
    BY <2>3 DEF Lim!LimiterStep
<1>14. CASE MarkPending(j) \/ Query(j) \/ Put(j) \/ Delete(j)
  <2>1. /\ pc[j] \in {"pend", "query", "call"} /\ UNCHANGED limiter
        /\ pc'[j] \in {"query", "call", "settle"}
        /\ pc[j] = "pend" => Kind[j] # "prune"
    BY <1>1, <1>14, Zenon DEF MarkPending, Query, Put, Delete, At, Goto, TypeOK, KindInv,
        Creates
  <2>2. MutateStep(j)' = MutateStep(j) /\ StatusStep(j)' = StatusStep(j)
    BY <2>1 DEF MutateStep, StatusStep, HoldsMutate, At
  <2>. QED
    BY <1>2, <2>1, <2>2
<1>15. CASE SettleWork(j) \/ SettleTestCreate(j) \/ SettleDelete(j) \/ SettleBulk(j)
  <2>1. /\ pc[j] = "settle" /\ Kind[j] # "prune"
        /\ pc'[j] \in IF Kind[j] = "work" THEN {"freeze"} ELSE {"done", "forget"}
        /\ GiveMutateSlot /\ UNCHANGED <<queued, statusSem>>
    BY <1>1, <1>15 DEF SettleWork, SettleTestCreate, SettleDelete, SettleBulk, At,
        Goto, TypeOK
  <2>2. /\ MutateStep(j) = "holding" /\ MutateStep(j)' = "out"
        /\ StatusStep(j)' = StatusStep(j)
    BY <2>1 DEF MutateStep, StatusStep, HoldsMutate, At
  <2>. QED
    BY <1>4, <2>1, <2>2, Zenon DEF Lim!LimiterStep
<1>16. CASE Forget(j) \/ SettlePrune(j) \/ ListServices(j) \/ PassEnds(j)
  <2>1. /\ UNCHANGED limiter /\ Kind[j] # "work"
        /\ \/ /\ pc[j] \in {"forget", "each", "start"} /\ pc'[j] \in {"each", "done"}
           \/ pc[j] = "settle" /\ pc'[j] = "each" /\ Kind[j] = "prune"
    BY <1>1, <1>16, Zenon DEF Forget, SettlePrune, ListServices, PassEnds, Ready, Lists,
        At, Goto, TypeOK, KindInv
  <2>2. MutateStep(j)' = MutateStep(j) /\ StatusStep(j)' = StatusStep(j)
    BY <2>1 DEF MutateStep, StatusStep, HoldsMutate, At
  <2>. QED
    BY <1>2, <2>1, <2>2, Zenon
<1>17. CASE CheckFrozen(j) \/ SendResult(j) \/ EnqueueResult(j)
  <2>1. /\ UNCHANGED limiter /\ Kind[j] = "work"
        /\ pc[j] \in {"freeze", "send", "enqueue"}
        /\ pc'[j] \in {"send", "enqueue", "release"}
    BY <1>1, <1>17, Zenon DEF CheckFrozen, SendResult, EnqueueResult, At, Goto, TypeOK,
        KindInv, WorkLabels
  <2>2. MutateStep(j)' = MutateStep(j) /\ StatusStep(j)' = StatusStep(j)
    BY <2>1 DEF MutateStep, StatusStep, HoldsMutate, At
  <2>. QED
    BY <1>2, <2>1, <2>2
<1>18. CASE SetStatus(j)
  <2>1. /\ pc[j] = "send" /\ pc'[j] = "done" /\ Kind[j] = "setStatus"
        /\ GiveMutateSlot /\ UNCHANGED <<queued, statusSem>>
    BY <1>1, <1>18 DEF SetStatus, At, Goto, TypeOK
  <2>2. /\ MutateStep(j) = "holding" /\ MutateStep(j)' = "out"
        /\ StatusStep(j)' = StatusStep(j)
    BY <2>1 DEF MutateStep, StatusStep, HoldsMutate, At
  <2>. QED
    BY <1>4, <2>1, <2>2, Zenon DEF Lim!LimiterStep
<1>19. CASE ReleaseStatus(j)
  <2>1. /\ pc[j] = "release" /\ pc'[j] = "leave" /\ Kind[j] = "work"
        /\ statusSem' = statusSem - 1 /\ UNCHANGED <<queued, mutateSem, fate>>
    BY <1>1, <1>19 DEF ReleaseStatus, Goto, TypeOK, KindInv, WorkLabels, history
  <2>2. fate'[j] # "rejected"
    BY <1>1, <2>1 DEF FateInv, WorkJobs
  <2>3. /\ StatusStep(j) = "holding" /\ StatusStep(j)' = "leaving"
        /\ MutateStep(j) = "out" /\ MutateStep(j)' = "out"
    BY <2>1, <2>2 DEF StatusStep, MutateStep, HoldsMutate, At
  <2>4. Lim!ReleaseStatus(j)
    BY <1>0, <2>1, <2>3 DEF Lim!ReleaseStatus
  <2>. QED
    BY <2>4 DEF Lim!LimiterStep
<1>20. CASE CountOut(j)
  <2>1. /\ pc[j] = "leave" /\ pc'[j] = "done" /\ Kind[j] = "work"
        /\ queued' = queued - 1 /\ UNCHANGED <<statusSem, mutateSem>>
    BY <1>1, <1>20, Zenon DEF CountOut, Goto, TypeOK, KindInv, WorkLabels
  <2>2. /\ StatusStep(j) \in {"leaving", "expired"} /\ StatusStep(j)' = "out"
        /\ MutateStep(j) = "out" /\ MutateStep(j)' = "out"
    BY <2>1 DEF StatusStep, MutateStep, HoldsMutate, At
  <2>3. Lim!CountOut(j)
    BY <1>0, <2>1, <2>2, Zenon DEF Lim!CountOut
  <2>. QED
    BY <2>3 DEF Lim!LimiterStep
<1>21. ASSUME NEW s \in Services, ResyncOne(j, s) \/ PruneOne(j, s)
       PROVE  UNCHANGED Lim!limiterVars
  <2>1. /\ UNCHANGED limiter
        /\ pc[j] = "each" /\ Kind[j] \in Lists
        /\ pc'[j] = "each" \/ (pc'[j] = "query" /\ Kind[j] = "prune")
    BY <1>1, <1>21 DEF ResyncOne, PruneOne, At, Goto, TypeOK, Lists
  <2>2. MutateStep(j)' = MutateStep(j) /\ StatusStep(j)' = StatusStep(j)
    BY <2>1 DEF MutateStep, StatusStep, HoldsMutate, At, Lists
  <2>. QED
    BY <1>2, <2>1, <2>2
<1>. QED
  BY <1>5, <1>6, <1>7, <1>8, <1>9, <1>10, <1>11, <1>12, <1>13, <1>14, <1>15,
      <1>16, <1>17, <1>18, <1>19, <1>20, <1>21 DEF Handler

(* Every handler acquires and releases its slots in the order RateLimiter  *)
(* describes, on every path through work mode, test mode, the admin        *)
(* requests and the pruner.                                                *)
THEOREM HandlersUseLimiter == Spec => LimiterUsage
<1>1. Init => Lim!LimiterInit
  BY DEF Init, Lim!LimiterInit, statusSteps, mutateSteps, StatusStep, MutateStep,
      HoldsMutate, At
<1>2. ASSUME PipelineInv, [Next]_vars
      PROVE  [Lim!LimiterNext]_(Lim!limiterVars)
  <2>1. ASSUME NEW j \in Jobs, Handler(j)
        PROVE  Lim!LimiterNext \/ UNCHANGED Lim!limiterVars
    BY <1>2, <2>1, HandlerIsClient, Zenon DEF Lim!LimiterNext
  <2>2. ASSUME NEW j \in Jobs, Retry(j) PROVE UNCHANGED Lim!limiterVars
    <3>1. /\ UNCHANGED limiter /\ pc'[j] = pc[j]
          /\ fate[j] # "rejected" /\ fate'[j] # "rejected"
      BY <1>2, <2>2 DEF PipelineInv, TypeOK, FateInv, Retry, Decide
    <3>2. \A k \in Jobs \ {j} : pc'[k] = pc[k] /\ fate'[k] = fate[k]
      BY <1>2, <2>2 DEF PipelineInv, TypeOK, Retry, Decide
    <3>3. StatusStep(j)' = StatusStep(j) /\ MutateStep(j)' = MutateStep(j)
      BY <3>1 DEF StatusStep, MutateStep, HoldsMutate, At
    <3>. QED
      BY <3>1, <3>2, <3>3, OneClientMoves, Zenon DEF limiter, Lim!limiterVars
  <2>3. ASSUME UNCHANGED <<limiter, pc, fate>> PROVE UNCHANGED Lim!limiterVars
    <3>1. \A k \in Jobs : /\ StatusStep(k)' = StatusStep(k)
                          /\ MutateStep(k)' = MutateStep(k)
      BY <2>3 DEF StatusStep, MutateStep, HoldsMutate, At
    <3>. QED
      BY <2>3, <3>1, Zenon DEF limiter, Lim!limiterVars, statusSteps, mutateSteps
  <2>4. ASSUME NEW s \in Services, OperatorDelete(s) \/ GrowIdle(s) \/ CacheStep(s)
        PROVE  UNCHANGED <<limiter, pc, fate>>
    BY <2>4 DEF OperatorDelete, GrowIdle, CacheStep, history
  <2>5. CASE UNCHANGED vars
    BY <2>5, <2>3 DEF vars, limiter
  <2>. QED
    BY <1>2, <2>1, <2>2, <2>3, <2>4, <2>5, Zenon DEF Next, Finished
<1>. QED
  BY <1>1, <1>2, Invariance, PTL DEF Spec, LimiterUsage, Lim!LimiterSpec

LimP == INSTANCE RateLimiterProofs WITH
          Clients <- Jobs, st <- statusSteps, mt <- mutateSteps

(* The counter and both semaphores are exactly the handlers inside, and    *)
(* never more than configured: what is proved of the limiter holds of its  *)
(* real clients.                                                           *)
THEOREM EverySlotAccounted == Spec => []SlotsAccounted
<1>1. /\ LimP!IsFiniteSet(Jobs)
      /\ MaxMutate \in Nat /\ MaxStatus \in Nat /\ MaxQueue \in Nat
  BY JobsAssumption, FinitelyManyJobs DEF IsFiniteSet, LimP!IsFiniteSet
<1>2. LimP!LimiterSpec => [](LimP!Accounting /\ LimP!Limits)
  BY <1>1, LimP!NothingLeaks, LimP!LimitsHold, PTL
<1>3. Lim!LimiterInit => LimP!LimiterInit
  BY DEF Lim!LimiterInit, LimP!LimiterInit
<1>4. [Lim!LimiterNext]_(Lim!limiterVars) => [LimP!LimiterNext]_(LimP!limiterVars)
  BY DEF Lim!limiterVars, LimP!limiterVars, Lim!LimiterNext, LimP!LimiterNext,
      Lim!LimiterStep, LimP!LimiterStep, Lim!Reject, LimP!Reject, Lim!CountIn,
      LimP!CountIn, Lim!TakeStatus, LimP!TakeStatus, Lim!ExpireStatus,
      LimP!ExpireStatus, Lim!CountOut, LimP!CountOut, Lim!ReleaseStatus,
      LimP!ReleaseStatus, Lim!ReturnRejected, LimP!ReturnRejected,
      Lim!WaitMutate, LimP!WaitMutate, Lim!TakeMutate, LimP!TakeMutate,
      Lim!ExpireMutate, LimP!ExpireMutate, Lim!ReleaseMutate, LimP!ReleaseMutate
<1>5. LimP!Accounting /\ LimP!Limits => SlotsAccounted
  BY Zenon DEF SlotsAccounted, Lim!Accounting, LimP!Accounting, Lim!Limits, LimP!Limits,
      Lim!InStatus, LimP!InStatus, Lim!InMutate, LimP!InMutate,
      Lim!Cardinality, LimP!Cardinality
<1>. QED
  BY <1>2, <1>3, <1>4, <1>5, HandlersUseLimiter, PTL
     DEF LimiterUsage, Lim!LimiterSpec, LimP!LimiterSpec
=============================================================================
