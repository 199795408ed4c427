----------------------------- MODULE HistoryQuery -----------------------------
(***************************************************************************)
(* Reading the history (history/logger.go Query, Stats, processAll and     *)
(* history/handler.go): the answers are computed in one pass over the file *)
(* with ring buffers.  A filter is represented by the set of entries it    *)
(* lets through, an entry by its number, the file by its lines.            *)
(***************************************************************************)
EXTENDS HistoryLog, RingBuffer, SequencesExt

CONSTANTS
  DefaultLimit,     \* 100, when the request names no limit
  MaxHistoryLimit,  \* maxHistoryLimit
  RecentEntriesLimit, RecentErrorsLimit,
  NotOK,            \* entries that Icinga2 did not take (icinga_ok is false)
  WithError         \* entries with an error text

(* processAll: malformed and empty lines are skipped, an unterminated last *)
(* line is read like any other.                                            *)
Entries(lines) == SelectSeq(lines, LAMBDA line : line # Malformed)

(* HandleHistory: an absent, unparsable or non-positive limit (here 0) is  *)
(* the default, a large one is cut.                                        *)
RequestLimit(n) ==
  IF n <= 0 THEN DefaultLimit ELSE IF n > MaxHistoryLimit THEN MaxHistoryLimit ELSE n

LastMatching(lines, limit, filter) ==
  FoldLeft(LAMBDA ring, e : IF e \in filter THEN Push(ring, limit, e) ELSE ring,
           EmptyRing(limit), Entries(lines))

Query(lines, n, filter) ==
  LET limit == IF n < MaxHistoryLimit THEN n ELSE MaxHistoryLimit
  IN  IF limit > 0
      THEN Recent(LastMatching(lines, limit, filter), limit, limit)
      ELSE Reverse(SelectSeq(Entries(lines), LAMBDA e : e \in filter))

Stats(lines) ==
  [total |-> Len(Entries(lines)),
   errors |-> Len(SelectSeq(Entries(lines), LAMBDA e : e \in NotOK)),
   recentEntries |-> Recent(LastMatching(lines, RecentEntriesLimit, Nat), RecentEntriesLimit,
                            RecentEntriesLimit),
   recentErrors |-> Recent(LastMatching(lines, RecentErrorsLimit, NotOK \cup WithError),
                           RecentErrorsLimit, RecentErrorsLimit)]
-----------------------------------------------------------------------------
(* The newest k elements of s, newest first.                               *)
Newest(s, k) ==
  LET r == Reverse(s) IN SubSeq(r, 1, IF k < Len(r) THEN k ELSE Len(r))

(* GET /history answers the newest matching entries of the file, newest    *)
(* first and at most as many as the limit, however often the ring wrapped  *)
(* and whatever torn lines the file holds (logger.go 189-214).             *)
QueryNewestFirst(lines, n, filter) ==
  Query(lines, RequestLimit(n), filter) =
    Newest(SelectSeq(Entries(lines), LAMBDA e : e \in filter), RequestLimit(n))

(* The two lists of the statistics are the newest entries and the newest   *)
(* errors, and the list of errors is long enough for the errors counted    *)
(* (logger.go 495-533).                                                    *)
StatsShowNewest(lines) ==
  LET stats == Stats(lines)
      erroneous == SelectSeq(Entries(lines), LAMBDA e : e \in NotOK \cup WithError)
  IN  /\ stats.recentEntries = Newest(Entries(lines), RecentEntriesLimit)
      /\ stats.recentErrors = Newest(erroneous, RecentErrorsLimit)
      /\ Len(stats.recentErrors) < RecentErrorsLimit => stats.errors <= Len(stats.recentErrors)
=============================================================================
