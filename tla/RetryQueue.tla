------------------------------ MODULE RetryQueue ------------------------------
(***************************************************************************)
(* The retry queue (queue/queue.go): check results that could not be sent  *)
(* to Icinga2 are buffered, re-sent with exponential backoff by one        *)
(* background processor, re-sent at once by any number of Flush requests,  *)
(* persisted to a JSON file and restored by the next process.              *)
(*                                                                         *)
(* The slice q.items is a function from alert ids to entries.  Ids are     *)
(* numbered in the order Enqueue accepts them, which is the order of the   *)
(* slice: Enqueue appends, items[1:] drops the first element, removeByIDs  *)
(* filters in place and the JSON file keeps the order.                     *)
(*                                                                         *)
(* q.mu makes Enqueue, each snapshot, incrementAttempt, removeByIDs, Drain *)
(* and saveToDisk atomic.  The sends happen outside the lock, so a pass of *)
(* the processor or of Flush is several steps and everything else may come *)
(* between them.                                                           *)
(***************************************************************************)
EXTENDS Integers, FiniteSets, FiniteSetsExt

CONSTANTS
  Ids,          \* alert ids, in the order of their Enqueue
  Processor,    \* the background goroutine started by Start
  Flushers,     \* HTTP requests that call Flush
  MaxSizes,     \* values of Config.MaxSize a (re)started process may be given
  RetryBase,    \* Config.RetryBase, in clock ticks
  RetryMax,     \* Config.RetryMax, in clock ticks
  DurationMax,  \* largest time.Duration, in clock ticks
  Saturates,    \* whether the build saturates an overflowing float-to-int
                \* conversion (arm64) or wraps it to the minimum (amd64)
  Persist,      \* Config.FilePath # ""
  WriteFaults,  \* whether os.WriteFile can be cut short (crash, full disk)
  MaxAttempts,  \* bound: Attempts is counted up to here
  MaxStops,     \* bound: number of crashes and shutdowns
  NoEntry       \* no item with this id

Workers == {Processor} \cup Flushers
MaxWait == Max({RetryBase, RetryMax})
Entry == [attempts : 0..MaxAttempts, wait : 0..MaxWait]
Empty == [i \in Ids |-> NoEntry]
NoExpectation == {-1}

ASSUME ConstantsAssumption ==
  /\ Ids \subseteq Nat /\ IsFiniteSet(Ids)
  /\ Processor \notin Flushers
  /\ MaxSizes \subseteq Nat /\ MaxSizes # {}
  /\ RetryBase \in Nat /\ RetryMax \in Nat /\ DurationMax \in Nat
  /\ MaxAttempts \in Nat /\ MaxStops \in Nat
  /\ Saturates \in BOOLEAN /\ Persist \in BOOLEAN /\ WriteFaults \in BOOLEAN
  /\ NoEntry \notin Entry

\* Arithmetic of the doubling, which the provers do not know: the product is
\* a natural number and no smaller than RetryBase.
ASSUME PowerAssumption ==
  \A a \in 0..MaxAttempts :
    RetryBase * 2^a \in Nat /\ RetryBase * 2^a >= RetryBase

\* MaxAttempts loses nothing: every further attempt gets the same delay.
ASSUME AttemptsAssumption ==
  RetryBase = 0 \/
  RetryBase * 2^MaxAttempts > (IF Saturates THEN RetryMax ELSE DurationMax)

VARIABLES
  items,      \* q.items
  disk,       \* what loadFromDisk would restore (empty: no or torn file)
  maxSize,    \* q.config.MaxSize of the running process
  phase,      \* "up", "drained" (Drain has run) or "down"
  pc,         \* where each worker is in its pass
  todo,       \* snapshot items a worker has yet to send
  done,       \* successfulIDs of a worker's pass
  \* history variables
  stops,      \* crashes and shutdowns so far
  enqueued,   \* ids accepted by Enqueue
  applied,    \* ids whose check result Icinga2 has processed
  ackedBy,    \* workers of this process that saw an id succeed
  dropped,    \* ids dropped to make room
  lost,       \* ids that died with a process's memory
  saved,      \* ids that have been in the file
  atDrain     \* ids held when Drain ran on an otherwise idle queue

history == <<stops, enqueued, applied, ackedBy, dropped, lost, saved,
             atDrain>>
vars == <<items, disk, maxSize, phase, pc, todo, done, stops, enqueued,
          applied, ackedBy, dropped, lost, saved, atDrain>>

Held(q) == {i \in Ids : q[i] # NoEntry}
Running == phase \in {"up", "drained"}
Idle == \A w \in Workers : pc[w] = "idle"
-----------------------------------------------------------------------------
Init ==
  /\ items = Empty
  /\ disk = Empty
  /\ maxSize \in MaxSizes
  /\ phase = "up"
  /\ pc = [w \in Workers |-> "idle"]
  /\ todo = [w \in Workers |-> {}]
  /\ done = [w \in Workers |-> {}]
  /\ stops = 0
  /\ enqueued = {}
  /\ applied = {}
  /\ ackedBy = [i \in Ids |-> {}]
  /\ dropped = {}
  /\ lost = {}
  /\ saved = {}
  /\ atDrain = NoExpectation
-----------------------------------------------------------------------------
(* What the file restores after the process stops now: a WriteFile under   *)
(* way may have truncated it.                                              *)
FileAtStop ==
  {disk} \cup (IF WriteFaults /\ pc[Processor] = "saving" THEN {Empty} ELSE {})

(* The process stops: everything in memory is gone and what the file does  *)
(* not hold is lost.                                                       *)
Stop ==
  /\ stops' = stops + 1
  /\ disk' \in FileAtStop
  /\ phase' = "down"
  /\ items' = Empty
  /\ pc' = [w \in Workers |-> "idle"]
  /\ todo' = [w \in Workers |-> {}]
  /\ done' = [w \in Workers |-> {}]
  /\ ackedBy' = [i \in Ids |-> {}]
  /\ lost' = lost \cup (Held(items) \ Held(disk'))
  /\ UNCHANGED <<maxSize, enqueued, applied, dropped, saved>>

(* Enqueue on a full queue makes room by dropping the oldest item.  Called *)
(* from the webhook handlers, which may still run after Drain when         *)
(* server.Shutdown has timed out.                                          *)
\* Faulty variant: off by one at the limit.
MakeRoomLate ==
  IF Cardinality(Held(items)) > maxSize THEN {Min(Held(items))} ELSE {}

MakeRoom ==
  IF Cardinality(Held(items)) >= maxSize THEN {Min(Held(items))} ELSE {}

Enqueue(id) ==
  /\ Running
  /\ id \notin enqueued
  /\ \A j \in Ids : j < id => j \in enqueued
  /\ ~(Held(items) = {} /\ maxSize = 0)
  /\ items' = [i \in Ids |->
                 IF i = id THEN [attempts |-> 0, wait |-> RetryBase]
                 ELSE IF i \in MakeRoom THEN NoEntry ELSE items[i]]
  /\ dropped' = dropped \cup MakeRoom
  /\ enqueued' = enqueued \cup {id}
  /\ atDrain' = NoExpectation
  /\ UNCHANGED <<disk, maxSize, phase, pc, todo, done, stops, applied,
                 ackedBy, lost, saved>>

(* MaxSize 0 and no item: q.items[0] panics in the goroutine of one alert, *)
(* where nothing recovers, and the process ends.                           *)
EnqueuePanic(id) ==
  /\ Running
  /\ stops < MaxStops
  /\ id \notin enqueued
  /\ \A j \in Ids : j < id => j \in enqueued
  /\ Held(items) = {} /\ maxSize = 0
  /\ atDrain' = NoExpectation
  /\ Stop
-----------------------------------------------------------------------------
(* One tick of the processor: copy the items that are due.  With none due  *)
(* processReady returns.  After Drain the cancelled context and a pending  *)
(* tick may both be ready, and select takes either.                        *)
\* Faulty variant: an item is given up after MaxAttempts failures.
DueWithGiveUp ==
  {i \in Held(items) : items[i].wait = 0 /\ items[i].attempts < MaxAttempts}

Due == {i \in Held(items) : items[i].wait = 0}

StartPass(w, snapshot) ==
  /\ Running
  /\ pc[w] = "idle"
  /\ IF snapshot = {} THEN UNCHANGED <<pc, todo, atDrain>>
     ELSE /\ pc' = [pc EXCEPT ![w] = "sending"]
          /\ todo' = [todo EXCEPT ![w] = snapshot]
          /\ atDrain' = NoExpectation
  /\ UNCHANGED <<items, disk, maxSize, phase, done, stops, enqueued, applied,
                 ackedBy, dropped, lost, saved>>

ProcessReady == StartPass(Processor, Due)
Flush(f) == StartPass(f, Held(items))

(* SendCheckResult returned nil for one item of the snapshot.              *)
SendOK(w, id) ==
  /\ Running
  /\ id \in todo[w]
  /\ todo' = [todo EXCEPT ![w] = @ \ {id}]
  /\ done' = [done EXCEPT ![w] = @ \cup {id}]
  /\ applied' = applied \cup {id}
  /\ ackedBy' = [ackedBy EXCEPT ![id] = @ \cup {w}]
  /\ UNCHANGED <<items, disk, maxSize, phase, pc, stops, enqueued, dropped,
                 lost, saved, atDrain>>

(* backoff: float64(base) * 2^attempts as a Duration, capped at RetryMax.  *)
(* A product that does not fit is DurationMax on builds that saturate and  *)
(* negative on the others: the retry is then due at once.                  *)
backoff(attempts) ==
  LET d == RetryBase * 2^attempts IN
    IF d > DurationMax THEN (IF Saturates THEN RetryMax ELSE 0)
    ELSE IF d > RetryMax THEN RetryMax ELSE d

\* Faulty variant: NextRetry is not moved.
IncrementAttemptOnly(entry) ==
  [entry EXCEPT !.attempts = Min({@ + 1, MaxAttempts})]

IncrementAttempt(entry) ==
  LET n == Min({entry.attempts + 1, MaxAttempts}) IN
    [attempts |-> n, wait |-> backoff(n)]

(* SendCheckResult failed: the processor counts the attempt if the item is *)
(* still queued, Flush does nothing.  Icinga2 may have applied the result  *)
(* although the answer did not arrive.                                     *)
\* Faulty variant: a failed item is collected with the successful ones.
SendFailCollected(w, id) ==
  /\ Running
  /\ id \in todo[w]
  /\ todo' = [todo EXCEPT ![w] = @ \ {id}]
  /\ done' = [done EXCEPT ![w] = @ \cup {id}]
  /\ UNCHANGED <<items, disk, maxSize, phase, pc, stops, enqueued, applied,
                 ackedBy, dropped, lost, saved, atDrain>>

SendFail(w, id) ==
  /\ Running
  /\ id \in todo[w]
  /\ todo' = [todo EXCEPT ![w] = @ \ {id}]
  /\ applied' \in {applied, applied \cup {id}}
  /\ items' = IF w = Processor /\ items[id] # NoEntry
              THEN [items EXCEPT ![id] = IncrementAttempt(@)]
              ELSE items
  /\ UNCHANGED <<disk, maxSize, phase, pc, done, stops, enqueued, ackedBy,
                 dropped, lost, saved, atDrain>>

(* After wg.Wait: removeByIDs(successfulIDs).  Flush ends here.            *)
\* Faulty variant: the delivered items stay queued.
RemoveNothing(w) ==
  /\ Running
  /\ pc[w] = "sending" /\ todo[w] = {}
  /\ done' = [done EXCEPT ![w] = {}]
  /\ pc' = [pc EXCEPT ![w] =
              IF w = Processor /\ Persist THEN "saving" ELSE "idle"]
  /\ UNCHANGED <<items, disk, maxSize, phase, todo, stops, enqueued, applied,
                 ackedBy, dropped, lost, saved, atDrain>>

RemoveByIDs(w) ==
  /\ Running
  /\ pc[w] = "sending" /\ todo[w] = {}
  /\ items' = [i \in Ids |-> IF i \in done[w] THEN NoEntry ELSE items[i]]
  /\ done' = [done EXCEPT ![w] = {}]
  /\ pc' = [pc EXCEPT ![w] =
              IF w = Processor /\ Persist THEN "saving" ELSE "idle"]
  /\ UNCHANGED <<disk, maxSize, phase, todo, stops, enqueued, applied,
                 ackedBy, dropped, lost, saved, atDrain>>

(* saveToDisk: WriteFile truncates the file and then writes it.  A write   *)
(* that is cut short leaves JSON that loadFromDisk cannot parse.           *)
WriteOutcomes == {items} \cup (IF WriteFaults THEN {disk, Empty} ELSE {})

SaveToDisk ==
  /\ disk' \in WriteOutcomes
  /\ saved' = saved \cup Held(disk')

SaveAfterPass ==
  /\ Running
  /\ pc[Processor] = "saving"
  /\ pc' = [pc EXCEPT ![Processor] = "idle"]
  /\ SaveToDisk
  /\ UNCHANGED <<items, maxSize, phase, todo, done, stops, enqueued, applied,
                 ackedBy, dropped, lost, atDrain>>
-----------------------------------------------------------------------------
(* Drain, called once by main after server.Shutdown.  An empty queue is    *)
(* not written.                                                            *)
\* Faulty variant: the processor is cancelled but nothing is written.
DrainUnsaved ==
  /\ phase = "up"
  /\ stops < MaxStops
  /\ phase' = "drained"
  /\ atDrain' = IF Idle THEN Held(items) ELSE NoExpectation
  /\ UNCHANGED <<items, disk, maxSize, pc, todo, done, stops, enqueued,
                 applied, ackedBy, dropped, lost, saved>>

Drain ==
  /\ phase = "up"
  /\ stops < MaxStops
  /\ phase' = "drained"
  /\ atDrain' = IF Idle THEN Held(items) ELSE NoExpectation
  /\ IF Persist /\ Held(items) # {} THEN SaveToDisk
     ELSE UNCHANGED <<disk, saved>>
  /\ UNCHANGED <<items, maxSize, pc, todo, done, stops, enqueued, applied,
                 ackedBy, dropped, lost>>

(* main returns some time after Drain; nothing waits for the goroutines.   *)
Exit ==
  /\ phase = "drained"
  /\ Stop
  /\ UNCHANGED atDrain

(* The process is killed.                                                  *)
Crash ==
  /\ phase = "up"
  /\ stops < MaxStops
  /\ Stop
  /\ atDrain' = NoExpectation

(* New: loadFromDisk replaces the items; MaxSize is not applied to them.   *)
\* Faulty variant: the file is not loaded.
RestartEmpty ==
  /\ phase = "down"
  /\ phase' = "up"
  /\ maxSize' \in MaxSizes
  /\ items' = Empty
  /\ atDrain' = NoExpectation
  /\ UNCHANGED <<disk, pc, todo, done, stops, enqueued, applied, ackedBy,
                 dropped, lost, saved>>

Restart ==
  /\ phase = "down"
  /\ phase' = "up"
  /\ maxSize' \in MaxSizes
  /\ items' = IF Persist THEN disk ELSE Empty
  /\ atDrain' = NoExpectation
  /\ UNCHANGED <<disk, pc, todo, done, stops, enqueued, applied, ackedBy,
                 dropped, lost, saved>>

(* Time passes for the absolute NextRetry stamps, on disk too.             *)
Elapse(q) ==
  [i \in Ids |-> IF q[i] = NoEntry \/ q[i].wait = 0 THEN q[i]
                 ELSE [q[i] EXCEPT !.wait = @ - 1]]

Tick ==
  /\ items' = Elapse(items)
  /\ disk' = Elapse(disk)
  /\ <<items, disk>>' # <<items, disk>>
  /\ UNCHANGED <<maxSize, phase, pc, todo, done>>
  /\ UNCHANGED history

Next ==
  \/ \E id \in Ids : Enqueue(id) \/ EnqueuePanic(id)
  \/ ProcessReady
  \/ \E f \in Flushers : Flush(f)
  \/ \E w \in Workers, id \in Ids : SendOK(w, id) \/ SendFail(w, id)
  \/ \E w \in Workers : RemoveByIDs(w)
  \/ SaveAfterPass
  \/ Drain
  \/ Exit
  \/ Crash
  \/ Restart
  \/ Tick

Spec == Init /\ [][Next]_vars

(* The goroutines run, every call to Icinga2 returns (10 s client timeout), *)
(* a stopped process ends and is restarted (Restart=always), time passes,  *)
(* and Icinga2 accepts a result the processor keeps sending.               *)
Fairness ==
  /\ WF_vars(ProcessReady)
  /\ \A w \in Workers : WF_vars(RemoveByIDs(w))
  /\ \A w \in Workers, id \in Ids : WF_vars(SendOK(w, id) \/ SendFail(w, id))
  /\ \A id \in Ids : SF_vars(SendOK(Processor, id))
  /\ WF_vars(SaveAfterPass)
  /\ WF_vars(Exit)
  /\ WF_vars(Restart)
  /\ WF_vars(Tick)

FairSpec == Spec /\ Fairness
-----------------------------------------------------------------------------
TypeOK ==
  /\ items \in [Ids -> Entry \cup {NoEntry}]
  /\ disk \in [Ids -> Entry \cup {NoEntry}]
  /\ maxSize \in MaxSizes
  /\ phase \in {"up", "drained", "down"}
  /\ pc \in [Workers -> {"idle", "sending", "saving"}]
  /\ todo \in [Workers -> SUBSET Ids]
  /\ done \in [Workers -> SUBSET Ids]
  /\ stops \in Nat
  /\ enqueued \in SUBSET Ids
  /\ applied \in SUBSET Ids
  /\ ackedBy \in [Ids -> SUBSET Workers]
  /\ dropped \in SUBSET Ids
  /\ lost \in SUBSET Ids
  /\ saved \in SUBSET Ids
  /\ atDrain \in (SUBSET Ids) \cup {NoExpectation}

\* The alerts the bridge can still deliver, now or after the next start.
Recoverable == IF phase = "down" /\ Persist THEN Held(disk) ELSE Held(items)

\* No alert vanishes: an enqueued alert is recoverable, or Icinga2 has
\* processed it, or it was dropped as the oldest of a full queue, or a stop
\* destroyed it before it reached the file.
Conservation == enqueued \subseteq Recoverable \cup applied \cup dropped \cup lost

\* While the process lives, an item leaves the queue only after a worker saw
\* it succeed or to make room for a newer one; a failed send never removes.
LeavesWhenSettled ==
  [][phase' # "down" => \A i \in Held(items) \ Held(items') :
                          ackedBy[i] # {} \/ i \in dropped']_vars

\* Whatever limits the restarts were configured with, the queue never holds
\* more than the largest of them.
DepthBound == \E m \in MaxSizes : Cardinality(Held(items)) <= m

\* Within one process no worker sends an item again after it saw that item
\* succeed, however its passes interleave with those of other workers.
NoResend ==
  [][\A w \in Workers, i \in Ids :
       i \in done'[w] \ done[w] => w \notin ackedBy[i]]_vars

\* An alert that has once been written to the file does not die with a
\* process: later saves and restarts keep it until it is delivered or dropped.
SavedAlertsSurvive == saved \subseteq Recoverable \cup applied \cup dropped

\* A process stopped by Drain with no pass under way is followed by one that
\* holds at least the items the queue held then.
CleanShutdownLosesNothing ==
  [][phase = "down" /\ phase' = "up" /\ atDrain # NoExpectation /\ Persist
       => atDrain \subseteq Held(items')]_vars

\* A failed retry of the processor is never due again sooner than the first
\* retry was: the delays grow from RetryBase up to RetryMax.
RetriesBackOff ==
  [][\A i \in todo[Processor] \ todo'[Processor] :
       i \in Held(items') /\ i \notin done'[Processor] /\ phase' # "down"
         => items'[i].wait >= Min({RetryBase, RetryMax})]_vars

\* If Icinga2 keeps accepting results from time to time, every enqueued alert
\* is in the end processed, unless it was dropped or lost.
EventuallySettled ==
  \A i \in Ids : i \in enqueued ~> i \in applied \cup dropped \cup lost
=============================================================================
