---------------------------- MODULE MCAlertPipeline ----------------------------
(* Small sets of requests for AlertPipeline.                               *)
EXTENDS AlertPipeline, TLC

CONSTANTS
  w1, w2, w3, tc, del, bulk, set, rs, pr,   \* names of jobs
  s1, s2                                    \* names of services

Named(j) ==
  CASE j \in {w1, w2, w3} -> "work" [] j = tc -> "testCreate"
    [] j = del -> "delete" [] j = bulk -> "bulkDelete" [] j = set -> "setStatus"
    [] j = rs -> "resync" [] j = pr -> "prune"

MCKind == [j \in Jobs |-> Named(j)]
OneService == [j \in Jobs |-> s1]
(* w2, a delete and a manual status are about s2, the rest about s1. *)
TwoServices == [j \in Jobs |-> IF j \in {w2, del, set} THEN s2 ELSE s1]
(* w1 fires, the others say OK. *)
FirstFires == [j \in Jobs |-> IF j = w1 THEN "PROBLEM" ELSE "OK"]
(* w1 says OK, w2 fires. *)
SecondFires == [j \in Jobs |-> IF j = w2 THEN "PROBLEM" ELSE "OK"]
(* w2 fires, w3 cannot be understood. *)
ThirdInvalid == [j \in Jobs |-> IF j = w2 THEN "PROBLEM"
                                ELSE IF j = w3 THEN "unknown" ELSE "OK"]
NoOrder == [j \in Jobs |-> {}]
(* w2 is sent when w1 has been answered. *)
InTurn == [j \in Jobs |-> IF j = w2 THEN {w1} \cap Jobs ELSE {}]
(* One operator deletes, sets a status and bulk deletes, one after the other;
   the delete waits for w3 only to keep the number of interleavings small. *)
OneAdmin == [j \in Jobs |-> CASE j = del -> {w3} [] j = set -> {del}
                              [] j = bulk -> {set} [] OTHER -> {}]
=============================================================================
