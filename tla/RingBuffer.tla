------------------------------ MODULE RingBuffer ------------------------------
(***************************************************************************)
(* The ring buffer idiom of the repository: a slice of fixed length, the   *)
(* position of the next write, the number of valid entries.  It keeps the  *)
(* last entries of a stream and is read newest first.  icinga/debug.go     *)
(* keeps one for the API traffic; history/logger.go builds one per query   *)
(* and two per statistics request.                                         *)
(***************************************************************************)
EXTENDS Integers, Sequences

\* A slice element that was never written.
Unwritten == -1

EmptyRing(size) ==
  [entries |-> [i \in 0..(size - 1) |-> Unwritten], pos |-> 0, count |-> 0]

Push(ring, size, e) ==
  [entries |-> [ring.entries EXCEPT ![ring.pos] = e],
   pos |-> (ring.pos + 1) % size,
   count |-> IF ring.count < size THEN ring.count + 1 ELSE ring.count]

(* The last n entries, newest first.                                       *)
Recent(ring, size, n) ==
  [i \in 1..(IF n > ring.count THEN ring.count ELSE n) |->
     ring.entries[(ring.pos - 1 - (i - 1) + size) % size]]
=============================================================================
