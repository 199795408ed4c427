--------------------------- MODULE RetryQueueProofs ---------------------------
(* Theorems about RetryQueue, for every set of alerts and of Flush          *)
(* requests, every configuration and any number of stops.                   *)
EXTENDS RetryQueue, FiniteSetTheorems, WellFoundedInduction, TLAPS

(* Min, the oldest id of the queue, is an element of a non-empty set.       *)
LEMMA LeastNatural ==
  ASSUME NEW S \in SUBSET Nat, S # {}
  PROVE  Min(S) \in S /\ \A j \in S : Min(S) <= j
<1> DEFINE R == {ss \in Nat \X Nat : ss[1] < ss[2]}
<1>1. OpToRel(<, Nat) = R
  BY Zenon DEF OpToRel
<1>2. PICK x \in S : \A y \in S : ~(<<y, x>> \in R)
  BY <1>1, NatLessThanWellFounded, WFMin, Zenon
<1>3. ASSUME NEW y \in S PROVE x <= y
  <2>1. ~(y < x)
    <3>1. SUFFICES ASSUME y < x PROVE <<y, x>> \in R
      BY <1>2
    <3>. QED BY <3>1
  <2>. QED BY <2>1
<1>. QED
  BY <1>3, Zenon DEF Min

(* Min and Max of two numbers are one of them and bound both.               *)
LEMMA MinMaxOfTwo ==
  ASSUME NEW a \in Int, NEW b \in Int
  PROVE  /\ Min({a, b}) \in {a, b} /\ Min({a, b}) <= a /\ Min({a, b}) <= b
         /\ Max({a, b}) \in {a, b} /\ Max({a, b}) >= a /\ Max({a, b}) >= b
<1>1. \E x \in {a, b} : \A y \in {a, b} : x <= y
  BY a <= b \/ b <= a
<1>2. \E x \in {a, b} : \A y \in {a, b} : x >= y
  BY a >= b \/ b >= a
<1>. QED
  BY <1>1, <1>2 DEF Min, Max

(* MaxWait bounds both limits of the backoff.                               *)
LEMMA MaxWaitFacts ==
  MaxWait \in Nat /\ RetryBase <= MaxWait /\ RetryMax <= MaxWait
<1>1. RetryBase \in Int /\ RetryMax \in Int
  BY ConstantsAssumption
<1>2. MaxWait \in {RetryBase, RetryMax} /\ MaxWait >= RetryBase /\ MaxWait >= RetryMax
  BY <1>1, MinMaxOfTwo, Zenon DEF MaxWait
<1>. QED
  BY <1>2, ConstantsAssumption

(* MakeRoom drops at most one item, and only an item that is queued.        *)
LEMMA MakeRoomFacts ==
  ASSUME TypeOK, ~(Held(items) = {} /\ maxSize = 0)
  PROVE  /\ MakeRoom \subseteq Held(items)
         /\ MakeRoom = {} <=> Cardinality(Held(items)) < maxSize
         /\ MakeRoom # {} => \E i \in Held(items) : MakeRoom = {i}
<1>1. Held(items) \subseteq Nat /\ Held(items) \subseteq Ids
  BY ConstantsAssumption DEF Held
<1>2. Cardinality(Held(items)) \in Nat
  BY <1>1, ConstantsAssumption, FS_Subset, FS_CardinalityType
<1>3. Held(items) = {} => Cardinality(Held(items)) = 0
  BY FS_EmptySet
<1>4. Held(items) # {} => Min(Held(items)) \in Held(items)
  BY <1>1, LeastNatural
<1>5. maxSize \in Nat
  BY ConstantsAssumption DEF TypeOK
<1>. QED
  BY <1>2, <1>3, <1>4, <1>5 DEF MakeRoom

(* The attempts are counted up to MaxAttempts.                              *)
LEMMA NextAttempt ==
  ASSUME NEW e \in Entry
  PROVE  Min({e.attempts + 1, MaxAttempts}) \in 0..MaxAttempts
<1> DEFINE n == Min({e.attempts + 1, MaxAttempts})
<1>1. e.attempts + 1 \in Nat /\ e.attempts + 1 \in Int /\ MaxAttempts \in Int
  BY ConstantsAssumption DEF Entry
<1>2. n \in {e.attempts + 1, MaxAttempts} /\ n <= MaxAttempts
  BY <1>1, MinMaxOfTwo, Zenon
<1>. QED
  BY <1>1, <1>2, ConstantsAssumption

(* A failed attempt leaves a well-formed entry.                             *)
LEMMA IncrementAttemptType ==
  ASSUME NEW e \in Entry
  PROVE  IncrementAttempt(e) \in Entry
<1> DEFINE n == Min({e.attempts + 1, MaxAttempts})
<1>1. n \in 0..MaxAttempts
  BY NextAttempt
<1>2. RetryBase * 2^n \in Nat
  BY <1>1, PowerAssumption
<1>3. MaxWait \in Nat /\ RetryBase <= MaxWait /\ RetryMax <= MaxWait
  BY MaxWaitFacts
<1> HIDE DEF n
<1>4. backoff(n) \in 0..MaxWait
  BY <1>2, <1>3, ConstantsAssumption DEF backoff
<1>. QED
  BY <1>1, <1>4 DEF IncrementAttempt, Entry, n

(* The delay a failed attempt sets is at least the smaller of the two       *)
(* limits, where an overflowing conversion saturates.                       *)
LEMMA IncrementAttemptDelay ==
  ASSUME Saturates, NEW e \in Entry
  PROVE  IncrementAttempt(e).wait >= Min({RetryBase, RetryMax})
<1> DEFINE n == Min({e.attempts + 1, MaxAttempts})
           least == Min({RetryBase, RetryMax})
           d == RetryBase * 2^n
<1>1. n \in 0..MaxAttempts
  BY NextAttempt
<1>2. d \in Nat /\ d >= RetryBase
  BY <1>1, PowerAssumption
<1>3. RetryBase \in Int /\ RetryMax \in Int
  BY ConstantsAssumption
<1>4. least \in {RetryBase, RetryMax} /\ least <= RetryBase /\ least <= RetryMax
  BY <1>3, MinMaxOfTwo, Zenon
<1>5. backoff(n) \in {d, RetryMax}
  BY Zenon DEF backoff
<1>6. IncrementAttempt(e).wait = backoff(n)
  BY DEF IncrementAttempt
<1> HIDE DEF n, least, d
<1>. QED
  BY <1>2, <1>3, <1>4, <1>5, <1>6 DEF least

(* Time keeps every entry and its type.                                     *)
LEMMA ElapseFacts ==
  ASSUME NEW q \in [Ids -> Entry \cup {NoEntry}]
  PROVE  /\ Elapse(q) \in [Ids -> Entry \cup {NoEntry}]
         /\ Held(Elapse(q)) = Held(q)
<1>1. MaxWait \in Nat
  BY MaxWaitFacts
<1>2. ASSUME NEW i \in Ids
      PROVE  /\ Elapse(q)[i] \in Entry \cup {NoEntry}
             /\ Elapse(q)[i] = NoEntry <=> q[i] = NoEntry
  <2>1. CASE q[i] = NoEntry
    BY <2>1 DEF Elapse
  <2>2. CASE q[i] # NoEntry
    <3>1. q[i] \in Entry
      BY <2>2
    <3>2. Elapse(q)[i] \in Entry
      BY <1>1, <2>2, <3>1 DEF Elapse, Entry
    <3>. QED
      BY <2>2, <3>2, ConstantsAssumption
  <2>. QED BY <2>1, <2>2
<1>3. Elapse(q) = [i \in Ids |-> Elapse(q)[i]]
  BY DEF Elapse
<1>. QED
  BY <1>2, <1>3 DEF Held

(* A new entry waits RetryBase.                                             *)
LEMMA NewEntryType == [attempts |-> 0, wait |-> RetryBase] \in Entry
BY MaxWaitFacts, ConstantsAssumption DEF Entry

(* Stop leaves a well-typed state.                                          *)
LEMMA StopType ==
  ASSUME TypeOK, Stop, atDrain' \in (SUBSET Ids) \cup {NoExpectation}
  PROVE  TypeOK'
<1>1. disk' \in [Ids -> Entry \cup {NoEntry}] /\ items' \in [Ids -> Entry \cup {NoEntry}]
  BY DEF Stop, FileAtStop, Empty, TypeOK
<1>2. lost' \in SUBSET Ids
  BY DEF Stop, Held, TypeOK
<1>. QED
  BY <1>1, <1>2 DEF Stop, TypeOK
-----------------------------------------------------------------------------
(* Every step of the bridge keeps the types.                                *)
LEMMA TypeInductive == TypeOK /\ [Next]_vars => TypeOK'
<1> SUFFICES ASSUME TypeOK, [Next]_vars PROVE TypeOK'
  OBVIOUS
<1>1. ASSUME NEW id \in Ids, Enqueue(id) PROVE TypeOK'
  <2>1. items' \in [Ids -> Entry \cup {NoEntry}]
    BY <1>1, NewEntryType DEF Enqueue, TypeOK
  <2>2. MakeRoom \subseteq Ids
    BY <1>1, MakeRoomFacts DEF Enqueue, Held
  <2>. QED
    BY <1>1, <2>1, <2>2 DEF Enqueue, TypeOK
<1>2. ASSUME NEW id \in Ids, EnqueuePanic(id) PROVE TypeOK'
  BY <1>2, StopType DEF EnqueuePanic, NoExpectation
<1>3. ASSUME NEW w \in Workers, NEW snapshot \in SUBSET Ids, StartPass(w, snapshot)
      PROVE  TypeOK'
  BY <1>3 DEF StartPass, TypeOK
<1>4. ASSUME NEW w \in Workers, NEW id \in Ids, SendOK(w, id) PROVE TypeOK'
  BY <1>4 DEF SendOK, TypeOK
<1>5. ASSUME NEW w \in Workers, NEW id \in Ids, SendFail(w, id) PROVE TypeOK'
  <2>1. items' \in [Ids -> Entry \cup {NoEntry}]
    BY <1>5, IncrementAttemptType DEF SendFail, TypeOK
  <2>. QED
    BY <1>5, <2>1 DEF SendFail, TypeOK
<1>6. ASSUME NEW w \in Workers, RemoveByIDs(w) PROVE TypeOK'
  BY <1>6 DEF RemoveByIDs, TypeOK
<1>7. ASSUME SaveToDisk
      PROVE  disk' \in [Ids -> Entry \cup {NoEntry}] /\ saved' \in SUBSET Ids
  BY <1>7 DEF SaveToDisk, WriteOutcomes, Empty, Held, TypeOK
<1>8. CASE SaveAfterPass
  BY <1>7, <1>8 DEF SaveAfterPass, TypeOK
<1>9. CASE Drain
  <2>1. atDrain' \in (SUBSET Ids) \cup {NoExpectation}
    BY <1>9 DEF Drain, Held
  <2>. QED
    BY <1>7, <1>9, <2>1 DEF Drain, TypeOK
<1>10. CASE Exit
  BY <1>10, StopType DEF Exit, TypeOK
<1>11. CASE Crash
  BY <1>11, StopType DEF Crash, TypeOK
<1>12. CASE Restart
  BY <1>12 DEF Restart, Empty, TypeOK
<1>13. CASE Tick
  BY <1>13, ElapseFacts DEF Tick, history, TypeOK
<1>14. CASE UNCHANGED vars
  BY <1>14 DEF vars, TypeOK
<1>15. Processor \in Workers /\ Flushers \subseteq Workers
  BY DEF Workers
<1>16. Due \subseteq Ids /\ Held(items) \subseteq Ids
  BY DEF Due, Held
<1>. QED
  BY <1>1, <1>2, <1>3, <1>4, <1>5, <1>6, <1>8, <1>9, <1>10, <1>11, <1>12,
     <1>13, <1>14, <1>15, <1>16 DEF Next, ProcessReady, Flush

LEMMA TypeInitial == Init => TypeOK
<1> SUFFICES ASSUME Init PROVE TypeOK
  OBVIOUS
<1>1. Empty \in [Ids -> Entry \cup {NoEntry}]
  BY DEF Empty
<1>. QED
  BY <1>1 DEF Init, TypeOK

(* Every variable keeps the type of the field or history it stands for.     *)
THEOREM TypeCorrect == Spec => []TypeOK
BY TypeInitial, TypeInductive, PTL DEF Spec
-----------------------------------------------------------------------------
(* How the passes of the workers relate to the queue.  What a worker has    *)
(* seen succeed and the queue still holds is what its current pass is going *)
(* to remove, and a pass never has such an item left to send.               *)
PassInv ==
  /\ \A w \in Workers : done[w] # {} \/ todo[w] # {} => pc[w] = "sending"
  /\ \A w \in Workers, i \in Ids :
       /\ i \in done[w] => i \in applied /\ w \in ackedBy[i]
       /\ i \in Held(items) /\ w \in ackedBy[i] => i \in done[w]
       /\ i \in todo[w] => w \notin ackedBy[i]
       /\ i \in todo[w] \/ w \in ackedBy[i] => i \in enqueued
  /\ Held(items) \subseteq enqueued
  /\ Held(disk) \subseteq enqueued
  /\ phase = "down" =>
       /\ items = Empty
       /\ \A w \in Workers : pc[w] = "idle"
       /\ \A i \in Ids : ackedBy[i] = {}
  /\ pc[Processor] = "saving" => Persist
  /\ ~Persist => disk = Empty

(* When writes are not cut short, what was once in the file is in the file  *)
(* and in memory until it is settled.                                       *)
SavedInv ==
  /\ saved \subseteq Held(disk) \cup applied \cup dropped
  /\ phase # "down" => saved \subseteq Held(items) \cup applied \cup dropped
  /\ ~Persist => saved = {}

(* The expectation recorded by Drain is in the file until the next start,   *)
(* and no pass begins meanwhile.                                            *)
DrainInv ==
  atDrain # NoExpectation =>
    /\ phase # "up"
    /\ \A w \in Workers : pc[w] = "idle"
    /\ Persist => atDrain \subseteq Held(disk)

(* Both the queue and the file are within some configured limit.            *)
DepthInv ==
  /\ \E m \in MaxSizes : Cardinality(Held(items)) <= m
  /\ \E m \in MaxSizes : Cardinality(Held(disk)) <= m

(* Enqueue, a failed send and removeByIDs change the held ids as named.     *)
LEMMA HeldFacts ==
  ASSUME TypeOK
  PROVE  /\ Held(Empty) = {}
         /\ \A id \in Ids : Enqueue(id) =>
              Held(items') = (Held(items) \ MakeRoom) \cup {id}
         /\ \A w \in Workers, id \in Ids : SendFail(w, id) =>
              Held(items') = Held(items)
         /\ \A w \in Workers : RemoveByIDs(w) =>
              Held(items') = Held(items) \ done[w]
<1>1. Held(Empty) = {}
  BY DEF Held, Empty
<1>2. ASSUME NEW id \in Ids, Enqueue(id)
      PROVE  Held(items') = (Held(items) \ MakeRoom) \cup {id}
  <2>1. id \notin MakeRoom \/ id \in MakeRoom
    OBVIOUS
  <2>. QED
    BY <1>2, NewEntryType, ConstantsAssumption DEF Enqueue, Held, TypeOK
<1>3. ASSUME NEW w \in Workers, NEW id \in Ids, SendFail(w, id)
      PROVE  Held(items') = Held(items)
  BY <1>3, IncrementAttemptType, ConstantsAssumption DEF SendFail, Held, TypeOK
<1>4. ASSUME NEW w \in Workers, RemoveByIDs(w)
      PROVE  Held(items') = Held(items) \ done[w]
  BY <1>4 DEF RemoveByIDs, Held, TypeOK
<1>. QED
  BY <1>1, <1>2, <1>3, <1>4

(* Every step keeps PassInv.                                                *)
LEMMA PassInductive == TypeOK /\ PassInv /\ [Next]_vars => PassInv'
<1> SUFFICES ASSUME TypeOK, PassInv, [Next]_vars PROVE PassInv'
  OBVIOUS
<1>1. ASSUME NEW id \in Ids, Enqueue(id) PROVE PassInv'
  <2>1. Held(items') \subseteq Held(items) \cup {id}
    BY <1>1, HeldFacts
  <2>2. Held(items)' \subseteq Held(items) \cup {id} /\ Held(disk)' = Held(disk)
    BY <1>1, <2>1 DEF Held, Enqueue
  <2>. QED
    BY <1>1, <2>2 DEF Enqueue, Running, PassInv, TypeOK
<1>2. ASSUME Stop PROVE PassInv'
  <2>1. Held(items)' = {} /\ Held(disk)' \subseteq Held(disk)
    BY <1>2 DEF Stop, FileAtStop, Held, Empty
  <2>2. ~Persist => disk' = Empty
    BY <1>2 DEF Stop, FileAtStop, PassInv
  <2>. QED
    BY <1>2, <2>1, <2>2 DEF Stop, PassInv, Workers
<1>3. ASSUME NEW w \in Workers, NEW snapshot \in SUBSET Held(items),
             StartPass(w, snapshot)
      PROVE  PassInv'
  <2>1. Held(items)' = Held(items) /\ Held(disk)' = Held(disk) /\ Held(items) \subseteq Ids
    BY <1>3 DEF StartPass, Held
  <2>2. done[w] = {} /\ todo[w] = {}
    BY <1>3 DEF StartPass, PassInv
  <2>3. \A i \in snapshot : w \notin ackedBy[i] /\ i \in enqueued
    BY <2>1, <2>2 DEF PassInv
  <2>4. CASE snapshot = {}
    BY <1>3, <2>1, <2>4 DEF StartPass, Running, PassInv
  <2>5. CASE snapshot # {}
    <3>1. /\ \A v \in Workers : v # w => todo'[v] = todo[v] /\ pc'[v] = pc[v]
          /\ todo'[w] = snapshot /\ pc'[w] = "sending"
      BY <1>3, <2>5 DEF StartPass, TypeOK
    <3>2. pc'[Processor] = "saving" => pc[Processor] = "saving"
      BY <3>1 DEF Workers
    <3>. QED
      BY <1>3, <2>1, <2>2, <2>3, <3>1, <3>2 DEF StartPass, Running, PassInv
  <2>. QED
    BY <2>4, <2>5
<1>4. ASSUME NEW w \in Workers, NEW id \in Ids, SendOK(w, id) PROVE PassInv'
  <2>1. Held(items)' = Held(items) /\ Held(disk)' = Held(disk)
    BY <1>4 DEF SendOK, Held
  <2>. QED
    BY <1>4, <2>1 DEF SendOK, Running, PassInv, TypeOK
<1>5. ASSUME NEW w \in Workers, NEW id \in Ids, SendFail(w, id) PROVE PassInv'
  <2>1. Held(items)' = Held(items) /\ Held(disk)' = Held(disk)
    BY <1>5, HeldFacts DEF SendFail, Held
  <2>. QED
    BY <1>5, <2>1 DEF SendFail, Running, PassInv, TypeOK
<1>6. ASSUME NEW w \in Workers, RemoveByIDs(w) PROVE PassInv'
  <2>1. Held(items)' = Held(items) \ done[w] /\ Held(disk)' = Held(disk)
    BY <1>6, HeldFacts DEF RemoveByIDs, Held
  <2>2. /\ \A v \in Workers : v # w => done'[v] = done[v] /\ pc'[v] = pc[v]
        /\ done'[w] = {} /\ todo[w] = {} /\ todo' = todo
        /\ pc'[Processor] = "saving" => pc[Processor] = "saving" \/ Persist
    BY <1>6 DEF RemoveByIDs, TypeOK, Workers
  <2>. QED
    BY <1>6, <2>1, <2>2 DEF RemoveByIDs, Running, PassInv
<1>7. CASE SaveAfterPass
  <2>1. Held(disk)' \subseteq Held(disk) \cup Held(items) /\ Held(items)' = Held(items)
    BY <1>7 DEF SaveAfterPass, SaveToDisk, WriteOutcomes, Held, Empty
  <2>2. Persist
    BY <1>7 DEF SaveAfterPass, PassInv
  <2>. QED
    BY <1>7, <2>1, <2>2 DEF SaveAfterPass, Running, PassInv, TypeOK, Workers
<1>8. CASE Drain
  <2>1. Held(disk)' \subseteq Held(disk) \cup Held(items) /\ Held(items)' = Held(items)
    BY <1>8 DEF Drain, SaveToDisk, WriteOutcomes, Held, Empty
  <2>2. ~Persist => disk' = disk
    BY <1>8 DEF Drain
  <2>. QED
    BY <1>8, <2>1, <2>2 DEF Drain, PassInv, TypeOK
<1>9. CASE Restart
  <2>1. Held(items)' \subseteq Held(disk) /\ Held(disk)' = Held(disk)
    BY <1>9 DEF Restart, Held, Empty
  <2>. QED
    BY <1>9, <2>1 DEF Restart, PassInv, TypeOK
<1>10. CASE Tick
  <2>1. Held(items)' = Held(items) /\ Held(disk)' = Held(disk)
    BY <1>10, ElapseFacts DEF Tick, Held, TypeOK
  <2>2. (items = Empty => items' = Empty) /\ (disk = Empty => disk' = Empty)
    BY <1>10 DEF Tick, Elapse, Empty
  <2>. QED
    BY <1>10, <2>1, <2>2 DEF Tick, history, PassInv, TypeOK
<1>11. CASE UNCHANGED vars
  <2>1. Held(items)' = Held(items) /\ Held(disk)' = Held(disk)
    BY <1>11 DEF vars, Held
  <2>. QED
    BY <1>11, <2>1 DEF vars, PassInv
<1>12. Processor \in Workers /\ Flushers \subseteq Workers
  BY DEF Workers
<1>13. Due \subseteq Held(items)
  BY DEF Due
<1>. QED
  BY <1>1, <1>2, <1>3, <1>4, <1>5, <1>6, <1>7, <1>8, <1>9, <1>10, <1>11,
     <1>12, <1>13 DEF Next, ProcessReady, Flush, EnqueuePanic, Exit, Crash

LEMMA PassInitial == Init => PassInv
BY HeldFacts, TypeInitial DEF Init, PassInv, Workers

(* The types and PassInv hold in every reachable state.                     *)
LEMMA PassAlways == Spec => [](TypeOK /\ PassInv)
BY TypeInitial, TypeInductive, PassInitial, PassInductive, PTL DEF Spec
-----------------------------------------------------------------------------
(* The ids in memory and in the file after the steps that only move         *)
(* through a pass, let time pass or stutter.                                *)
QuietStep ==
  \/ \E w \in Workers, snapshot \in SUBSET Held(items) : StartPass(w, snapshot)
  \/ \E w \in Workers, id \in Ids : SendOK(w, id) \/ SendFail(w, id)
  \/ Tick
  \/ UNCHANGED vars

LEMMA QuietSteps ==
  ASSUME TypeOK, QuietStep
  PROVE  /\ Held(items)' = Held(items) /\ Held(disk)' = Held(disk)
         /\ applied \subseteq applied'
         /\ UNCHANGED <<phase, enqueued, dropped, lost, saved, stops, maxSize>>
<1>1. ASSUME NEW w \in Workers, NEW id \in Ids, SendFail(w, id)
      PROVE  Held(items)' = Held(items)
  BY <1>1, HeldFacts DEF Held
<1>2. Tick => Held(items)' = Held(items) /\ Held(disk)' = Held(disk)
  BY ElapseFacts DEF Tick, Held, TypeOK
<1>. QED
  BY <1>1, <1>2 DEF QuietStep, StartPass, SendOK, SendFail, Tick, history, vars, Held

(* Next is a quiet step or one of the steps that move items.                *)
LEMMA StepCases ==
  ASSUME [Next]_vars
  PROVE  \/ QuietStep
         \/ \E id \in Ids : Enqueue(id)
         \/ \E w \in Workers : RemoveByIDs(w)
         \/ SaveAfterPass
         \/ Drain
         \/ Running /\ Stop
         \/ Restart
<1>1. Due \subseteq Held(items) /\ Processor \in Workers /\ Flushers \subseteq Workers
  BY DEF Due, Workers
<1>. QED
  BY <1>1 DEF Next, QuietStep, ProcessReady, Flush, EnqueuePanic, Exit,
              Crash, Running

(* Every step accounts for every enqueued alert.                            *)
LEMMA ConservationInductive ==
  ASSUME TypeOK, PassInv, Conservation, [Next]_vars
  PROVE  Conservation'
<1>1. CASE QuietStep
  BY <1>1, QuietSteps DEF Conservation, Recoverable
<1>2. ASSUME NEW id \in Ids, Enqueue(id) PROVE Conservation'
  <2>1. Held(items)' = (Held(items) \ MakeRoom) \cup {id}
    BY <1>2, HeldFacts DEF Held
  <2>. QED
    BY <1>2, <2>1 DEF Enqueue, Running, Conservation, Recoverable
<1>3. ASSUME NEW w \in Workers, RemoveByIDs(w) PROVE Conservation'
  <2>1. Held(items)' = Held(items) \ done[w]
    BY <1>3, HeldFacts DEF Held
  <2>2. done[w] \subseteq applied
    BY DEF PassInv, TypeOK
  <2>. QED
    BY <1>3, <2>1, <2>2 DEF RemoveByIDs, Running, Conservation, Recoverable
<1>4. CASE SaveAfterPass
  BY <1>4 DEF SaveAfterPass, Running, Conservation, Recoverable, Held
<1>5. CASE Drain
  BY <1>5 DEF Drain, Conservation, Recoverable, Held
<1>6. CASE Running /\ Stop
  <2>a. Held(items)' = {}
    BY <1>6 DEF Stop, Held, Empty
  <2>b. disk' \in {disk, Empty} /\ (~Persist => disk = Empty)
    BY <1>6 DEF Stop, FileAtStop, PassInv
  <2>1. Held(items)' = {} /\ (~Persist => Held(disk') = {})
    BY <2>a, <2>b DEF Held, Empty
  <2>2. Held(items) \subseteq Recoverable' \cup lost'
    BY <1>6, <2>1 DEF Stop, Recoverable, Held
  <2>. QED
    BY <1>6, <2>2 DEF Stop, Running, Conservation, Recoverable
<1>7. CASE Restart
  BY <1>7 DEF Restart, Conservation, Recoverable, Held, PassInv, Empty
<1>. QED
  BY <1>1, <1>2, <1>3, <1>4, <1>5, <1>6, <1>7, StepCases

(* No alert vanishes, whatever the configuration, the faults and the stops. *)
THEOREM NoAlertVanishes == Spec => []Conservation
<1>1. Init => Conservation
  BY DEF Init, Conservation
<1>2. TypeOK /\ PassInv /\ Conservation /\ [Next]_vars => Conservation'
  BY ConservationInductive
<1>. QED
  BY <1>1, <1>2, PassAlways, PTL DEF Spec
-----------------------------------------------------------------------------
(* A worker never sends an item again that it has already seen succeed.     *)
THEOREM NoWorkerResends == Spec => NoResend
<1>1. ASSUME TypeOK, PassInv, [Next]_vars
      PROVE  [\A w \in Workers, i \in Ids :
                i \in done'[w] \ done[w] => w \notin ackedBy[i]]_vars
  <2>1. ASSUME NEW w \in Workers, NEW id \in Ids, SendOK(w, id)
        PROVE  \A v \in Workers, i \in Ids :
                 i \in done'[v] \ done[v] => v \notin ackedBy[i]
    BY <1>1, <2>1 DEF SendOK, PassInv, TypeOK
  <2>2. \/ \E w \in Workers, id \in Ids : SendOK(w, id)
        \/ \A w \in Workers : done'[w] \subseteq done[w]
        \/ UNCHANGED vars
    BY <1>1 DEF Next, Enqueue, EnqueuePanic, ProcessReady, Flush, StartPass,
                SendFail, RemoveByIDs, SaveAfterPass, Drain, Exit, Crash, Stop,
                Restart, Tick, TypeOK, Workers
  <2>. QED
    BY <2>1, <2>2
<1>. QED
  BY <1>1, PassAlways, PTL DEF Spec, NoResend

(* While the process lives, only a success or the size limit removes.       *)
THEOREM OnlySettledItemsLeave == Spec => LeavesWhenSettled
<1>1. ASSUME TypeOK, PassInv, [Next]_vars
      PROVE  [phase' # "down" => \A i \in Held(items) \ Held(items') :
                                   ackedBy[i] # {} \/ i \in dropped']_vars
  <2> DEFINE Settled == \A i \in Held(items) \ Held(items') :
                          ackedBy[i] # {} \/ i \in dropped'
  <2>1. CASE QuietStep
    BY <1>1, <2>1, QuietSteps DEF Held
  <2>2. ASSUME NEW id \in Ids, Enqueue(id) PROVE Settled
    BY <1>1, <2>2, HeldFacts DEF Enqueue
  <2>3. ASSUME NEW w \in Workers, RemoveByIDs(w) PROVE Settled
    <3>1. Held(items') = Held(items) \ done[w] /\ Held(items) \subseteq Ids
      BY <1>1, <2>3, HeldFacts DEF Held
    <3>2. \A i \in Ids : i \in done[w] => w \in ackedBy[i]
      BY <1>1 DEF PassInv
    <3>. QED
      BY <3>1, <3>2
  <2>4. SaveAfterPass \/ Drain => Settled
    BY DEF SaveAfterPass, Drain
  <2>5. Running /\ Stop => phase' = "down"
    BY DEF Stop
  <2>6. Restart => Settled
    BY <1>1 DEF Restart, PassInv, Held, Empty
  <2>. QED
    BY <1>1, <2>1, <2>2, <2>3, <2>4, <2>5, <2>6, StepCases
<1>. QED
  BY <1>1, PassAlways, PTL DEF Spec, LeavesWhenSettled

(* Where an overflowing conversion saturates, a failed retry of the         *)
(* processor is never due sooner than the first one was.  The other builds  *)
(* violate this (see the amd64 configuration).                              *)
THEOREM FailedRetriesBackOff == Saturates => (Spec => RetriesBackOff)
<1> DEFINE BacksOff == \A i \in todo[Processor] \ todo'[Processor] :
             i \in Held(items') /\ i \notin done'[Processor] /\ phase' # "down"
               => items'[i].wait >= Min({RetryBase, RetryMax})
<1> SUFFICES ASSUME Saturates PROVE Spec => RetriesBackOff
  OBVIOUS
<1>1. ASSUME TypeOK, PassInv, [Next]_vars PROVE [BacksOff]_vars
  <2>1. Processor \in Workers
    BY DEF Workers
  <2>2. ASSUME NEW w \in Workers, NEW id \in Ids, SendOK(w, id) PROVE BacksOff
    BY <1>1, <2>1, <2>2 DEF SendOK, TypeOK
  <2>3. ASSUME NEW w \in Workers, NEW id \in Ids, SendFail(w, id) PROVE BacksOff
    <3>1. ASSUME w = Processor, id \in Held(items')
          PROVE  items'[id].wait >= Min({RetryBase, RetryMax})
      <4>1. Held(items') = Held(items)
        BY <1>1, <2>3, HeldFacts
      <4>2. items[id] # NoEntry /\ items[id] \in Entry
        BY <1>1, <3>1, <4>1, Zenon DEF Held, TypeOK
      <4>3. items'[id] = IncrementAttempt(items[id])
        BY <1>1, <2>3, <3>1, <4>2 DEF SendFail, TypeOK
      <4>. QED
        BY <4>2, <4>3, IncrementAttemptDelay
    <3>2. \A i \in todo[Processor] \ todo'[Processor] : w = Processor /\ i = id
      BY <1>1, <2>1, <2>3 DEF SendFail, TypeOK
    <3>. QED
      BY <3>1, <3>2
  <2>4. ASSUME NEW w \in Workers, NEW snapshot, StartPass(w, snapshot) PROVE BacksOff
    <3>1. todo[w] = {}
      BY <1>1, <2>4 DEF StartPass, PassInv
    <3>. QED
      BY <1>1, <2>1, <2>4, <3>1 DEF StartPass, TypeOK
  <2>5. Stop => BacksOff
    BY DEF Stop
  <2>6. UNCHANGED todo => BacksOff
    OBVIOUS
  <2>7. \/ \E id \in Ids : Enqueue(id)
        \/ \E w \in Workers : RemoveByIDs(w)
        \/ SaveAfterPass \/ Drain \/ Restart \/ Tick \/ UNCHANGED vars
        => UNCHANGED todo
    BY DEF Enqueue, RemoveByIDs, SaveAfterPass, Drain, Restart, Tick, vars
  <2>. QED
    BY <1>1, <2>2, <2>3, <2>4, <2>5, <2>6, <2>7, StepCases DEF QuietStep
<1>. QED
  BY <1>1, PassAlways, PTL DEF Spec, RetriesBackOff
-----------------------------------------------------------------------------
(* When writes are not cut short, what the file once held stays settled or  *)
(* recoverable.                                                             *)
LEMMA SavedInductive ==
  ASSUME ~WriteFaults, TypeOK, PassInv, SavedInv, [Next]_vars
  PROVE  SavedInv'
<1>1. CASE QuietStep
  BY <1>1, QuietSteps DEF SavedInv
<1>2. ASSUME NEW id \in Ids, Enqueue(id) PROVE SavedInv'
  <2>1. Held(items)' = (Held(items) \ MakeRoom) \cup {id} /\ Held(disk)' = Held(disk)
    BY <1>2, HeldFacts DEF Held, Enqueue
  <2>. QED
    BY <1>2, <2>1 DEF Enqueue, SavedInv
<1>3. ASSUME NEW w \in Workers, RemoveByIDs(w) PROVE SavedInv'
  <2>1. Held(items)' = Held(items) \ done[w] /\ Held(disk)' = Held(disk)
    BY <1>3, HeldFacts DEF Held, RemoveByIDs
  <2>2. done[w] \subseteq applied
    BY DEF PassInv, TypeOK
  <2>. QED
    BY <1>3, <2>1, <2>2 DEF RemoveByIDs, SavedInv
<1>4. ASSUME SaveToDisk, UNCHANGED <<items, applied, dropped>>, Persist,
             phase # "down"
      PROVE  SavedInv'
  <2>1. Held(disk)' = Held(items) /\ Held(items)' = Held(items)
        /\ saved' = saved \cup Held(items)
    BY <1>4 DEF SaveToDisk, WriteOutcomes, Held
  <2>. QED
    BY <1>4, <2>1 DEF SavedInv
<1>5. CASE SaveAfterPass
  BY <1>4, <1>5 DEF SaveAfterPass, Running, PassInv
<1>6. CASE Drain
  BY <1>4, <1>6 DEF Drain, SavedInv, Held
<1>7. CASE Running /\ Stop
  BY <1>7 DEF Stop, FileAtStop, SavedInv, Held
<1>8. CASE Restart
  BY <1>8 DEF Restart, SavedInv, Held
<1>. QED
  BY <1>1, <1>2, <1>3, <1>5, <1>6, <1>7, <1>8, StepCases

(* An alert that has been in the file is not lost by a later save, crash or *)
(* restart, as long as no write of the file is cut short.                   *)
THEOREM SavedAlertsAreKept ==
  ASSUME ~WriteFaults
  PROVE  Spec => []SavedAlertsSurvive
<1>1. Init => SavedInv
  BY DEF Init, SavedInv
<1>2. TypeOK /\ PassInv /\ SavedInv /\ [Next]_vars => SavedInv'
  BY SavedInductive
<1>3. SavedInv => SavedAlertsSurvive
  BY DEF SavedInv, SavedAlertsSurvive, Recoverable
<1>. QED
  BY <1>1, <1>2, <1>3, PassAlways, PTL DEF Spec
-----------------------------------------------------------------------------
(* Enqueue keeps the depth within the limit of the running process, or      *)
(* leaves the depth it found when a restart loaded more than that.          *)
LEMMA EnqueueDepth ==
  ASSUME TypeOK, PassInv, NEW id \in Ids, Enqueue(id)
  PROVE  \/ Cardinality(Held(items')) <= maxSize
         \/ Cardinality(Held(items')) = Cardinality(Held(items))
<1> DEFINE H == Held(items)
<1>1. H \subseteq Ids /\ IsFiniteSet(H) /\ Cardinality(H) \in Nat
  BY ConstantsAssumption, FS_Subset, FS_CardinalityType DEF Held
<1>2. id \notin H
  BY DEF Enqueue, PassInv
<1>3. Held(items') = (H \ MakeRoom) \cup {id}
  BY HeldFacts
<1>4. MakeRoom = {} \/ \E i \in H : MakeRoom = {i}
  BY MakeRoomFacts DEF Enqueue
<1>5. MakeRoom = {} <=> Cardinality(H) < maxSize
  BY MakeRoomFacts DEF Enqueue
<1>6. maxSize \in Nat
  BY ConstantsAssumption DEF TypeOK
<1> HIDE DEF H
<1>7. CASE MakeRoom = {}
  <2>1. Held(items') = H \cup {id}
    BY <1>3, <1>7
  <2>2. Cardinality(H \cup {id}) = Cardinality(H) + 1
    BY <1>1, <1>2, FS_AddElement
  <2>. QED
    BY <1>1, <1>5, <1>6, <1>7, <2>1, <2>2
<1>8. ASSUME NEW i \in H, MakeRoom = {i}
      PROVE  Cardinality(Held(items')) = Cardinality(H)
  <2>1. IsFiniteSet(H \ {i}) /\ Cardinality(H \ {i}) = Cardinality(H) - 1
    BY <1>1, FS_RemoveElement
  <2>2. Cardinality((H \ {i}) \cup {id}) = Cardinality(H \ {i}) + 1
    BY <1>2, <2>1, FS_AddElement
  <2>. QED
    BY <1>1, <1>3, <1>8, <2>1, <2>2
<1>. QED
  BY <1>4, <1>7, <1>8 DEF H

(* Every step keeps queue and file within some configured limit.            *)
LEMMA DepthInductive ==
  ASSUME TypeOK, PassInv, DepthInv, [Next]_vars
  PROVE  DepthInv'
<1>1. \A q : IsFiniteSet(Held(q))
  BY ConstantsAssumption, FS_Subset DEF Held
<1>2. ASSUME NEW S, NEW T, IsFiniteSet(T), S \subseteq T,
             \E m \in MaxSizes : Cardinality(T) <= m
      PROVE  \E m \in MaxSizes : Cardinality(S) <= m
  <2>1. Cardinality(S) <= Cardinality(T)
    BY <1>2, FS_Subset
  <2>2. Cardinality(S) \in Nat /\ Cardinality(T) \in Nat
    BY <1>2, FS_Subset, FS_CardinalityType
  <2>. QED
    BY <1>2, <2>1, <2>2, ConstantsAssumption
<1>3. CASE QuietStep
  BY <1>3, QuietSteps DEF DepthInv
<1>4. ASSUME NEW id \in Ids, Enqueue(id) PROVE DepthInv'
  <2>1. \/ Cardinality(Held(items)') <= maxSize
        \/ Cardinality(Held(items)') = Cardinality(Held(items))
    BY <1>4, EnqueueDepth DEF Held
  <2>2. Held(disk)' = Held(disk)
    BY <1>4 DEF Enqueue, Held
  <2>. QED
    BY <2>1, <2>2 DEF DepthInv, TypeOK
<1>5. ASSUME NEW w \in Workers, RemoveByIDs(w) PROVE DepthInv'
  <2>1. Held(items)' \subseteq Held(items) /\ Held(disk)' = Held(disk)
    BY <1>5, HeldFacts DEF Held, RemoveByIDs
  <2>. QED
    BY <1>1, <1>2, <2>1 DEF DepthInv
<1>6. ASSUME SaveAfterPass \/ Drain PROVE DepthInv'
  <2>1. /\ Held(items)' = Held(items)
        /\ Held(disk)' \subseteq Held(items) \/ Held(disk)' \subseteq Held(disk)
    BY <1>6 DEF SaveAfterPass, Drain, SaveToDisk, WriteOutcomes, Held, Empty
  <2>. QED
    BY <1>1, <1>2, <2>1 DEF DepthInv
<1>7. CASE Running /\ Stop
  <2>1. Held(items)' \subseteq Held(items) /\ Held(disk)' \subseteq Held(disk)
    BY <1>7 DEF Stop, FileAtStop, Held, Empty
  <2>. QED
    BY <1>1, <1>2, <2>1 DEF DepthInv
<1>8. CASE Restart
  <2>1. Held(items)' \subseteq Held(disk) /\ Held(disk)' = Held(disk)
    BY <1>8 DEF Restart, Held, Empty
  <2>. QED
    BY <1>1, <1>2, <2>1 DEF DepthInv
<1>. QED
  BY <1>3, <1>4, <1>5, <1>6, <1>7, <1>8, StepCases

(* The queue never outgrows the largest limit it was ever configured with.  *)
THEOREM DepthIsBounded == Spec => []DepthBound
<1>1. Init => DepthInv
  <2>1. Init => Held(items) = {} /\ Held(disk) = {}
    BY HeldFacts, TypeInitial DEF Init
  <2>2. Cardinality({}) = 0
    BY FS_EmptySet
  <2>. QED
    BY <2>1, <2>2, ConstantsAssumption DEF Init, DepthInv
<1>2. TypeOK /\ PassInv /\ DepthInv /\ [Next]_vars => DepthInv'
  BY DepthInductive
<1>3. DepthInv => DepthBound
  BY DEF DepthInv, DepthBound
<1>. QED
  BY <1>1, <1>2, <1>3, PassAlways, PTL DEF Spec
-----------------------------------------------------------------------------
(* What Drain recorded on an idle queue stays in the file until the next    *)
(* start.                                                                   *)
LEMMA DrainInductive ==
  ASSUME ~WriteFaults, TypeOK, DrainInv, [Next]_vars
  PROVE  DrainInv'
<1>1. CASE atDrain' = NoExpectation
  BY <1>1 DEF DrainInv
<1>2. ASSUME atDrain' = atDrain, phase = "up" <=> phase' = "up",
             Held(disk) \subseteq Held(disk)',
             \A w \in Workers : pc[w] = "idle" => pc'[w] = "idle"
      PROVE  DrainInv'
  BY <1>2 DEF DrainInv
<1>3. CASE QuietStep
  <2>1. Held(disk)' = Held(disk) /\ phase' = phase
    BY <1>3, QuietSteps
  <2>2. \/ atDrain' = NoExpectation
        \/ atDrain' = atDrain /\ UNCHANGED pc
    BY <1>3 DEF QuietStep, StartPass, SendOK, SendFail, Tick, history, vars
  <2>. QED
    BY <1>1, <1>2, <2>1, <2>2
<1>4. ASSUME NEW w \in Workers, RemoveByIDs(w) PROVE DrainInv'
  <2>1. pc[w] # "idle" /\ atDrain' = atDrain
    BY <1>4 DEF RemoveByIDs
  <2>. QED
    BY <1>1, <2>1 DEF DrainInv
<1>5. CASE SaveAfterPass
  <2>1. pc[Processor] # "idle" /\ atDrain' = atDrain /\ Processor \in Workers
    BY <1>5 DEF SaveAfterPass, Workers
  <2>. QED
    BY <1>1, <2>1 DEF DrainInv
<1>6. CASE Drain
  <2>1. Persist => Held(items) \subseteq Held(disk)'
    BY <1>6 DEF Drain, SaveToDisk, WriteOutcomes, Held
  <2>. QED
    BY <1>6, <2>1 DEF Drain, Idle, DrainInv
<1>7. CASE Exit
  <2>1. /\ atDrain' = atDrain /\ phase # "up" /\ phase' # "up"
        /\ Held(disk)' = Held(disk)
        /\ \A w \in Workers : pc'[w] = "idle"
    BY <1>7 DEF Exit, Stop, FileAtStop, Held
  <2>. QED
    BY <1>2, <2>1
<1>8. ASSUME NEW id \in Ids, Enqueue(id) \/ EnqueuePanic(id) PROVE DrainInv'
  BY <1>1, <1>8 DEF Enqueue, EnqueuePanic
<1>9. CASE Crash \/ Restart
  BY <1>1, <1>9 DEF Crash, Restart
<1>10. Due \subseteq Held(items) /\ Processor \in Workers /\ Flushers \subseteq Workers
  BY DEF Due, Workers
<1>. QED
  BY <1>3, <1>4, <1>5, <1>6, <1>7, <1>8, <1>9, <1>10
     DEF Next, QuietStep, ProcessReady, Flush

(* A process stopped by Drain on an idle queue hands all its items over.    *)
THEOREM CleanShutdownKeepsItems ==
  ASSUME ~WriteFaults
  PROVE  Spec => CleanShutdownLosesNothing
<1>1. Init => DrainInv
  BY DEF Init, DrainInv
<1>2. TypeOK /\ DrainInv /\ [Next]_vars => DrainInv'
  BY DrainInductive
<1>3. ASSUME TypeOK, DrainInv, [Next]_vars
      PROVE  [phase = "down" /\ phase' = "up" /\ atDrain # NoExpectation /\ Persist
                => atDrain \subseteq Held(items')]_vars
  <2>1. phase = "down" /\ phase' = "up" => Restart \/ UNCHANGED vars
    BY <1>3 DEF Next, vars, Enqueue, EnqueuePanic, ProcessReady, Flush,
                StartPass, SendOK, SendFail, RemoveByIDs, SaveAfterPass, Drain,
                Exit, Crash, Stop, Running, Tick
  <2>2. Restart /\ Persist => Held(items') = Held(disk)
    BY DEF Restart
  <2>. QED
    BY <1>3, <2>1, <2>2 DEF DrainInv
<1>. QED
  BY <1>1, <1>2, <1>3, TypeCorrect, PTL DEF Spec, CleanShutdownLosesNothing
=============================================================================
