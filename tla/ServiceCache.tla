----------------------------- MODULE ServiceCache -----------------------------
(***************************************************************************)
(* The service cache (cache/services.go): what the bridge believes about   *)
(* each host/service pair, and which pairs an operator has frozen.  c.mu   *)
(* makes every operator below one atomic step.                             *)
(*                                                                         *)
(* Time is abstracted to the two facts readers see: an entry older than    *)
(* the TTL counts as missing for every reader (so EvictExpired, which      *)
(* deletes it, changes nothing they can see), and a freeze with an end     *)
(* counts as none after it.  StatePendingDelete is never set by the        *)
(* program.                                                                *)
(***************************************************************************)
EXTENDS Integers

CONSTANT Services   \* host/service pairs (ServiceKey)

VARIABLES
  entries,      \* c.entries: state of each unexpired entry
  frozenUntil   \* c.frozenUntil: "no", "until" (has an end) or "forever"

CacheTypeOK ==
  /\ entries \in [Services -> {"not_found", "pending", "ready"}]
  /\ frozenUntil \in [Services -> {"no", "until", "forever"}]

GetState(s) == entries[s]
Exists(s) == GetState(s) # "not_found"
IsFrozen(s) == frozenUntil[s] # "no"

Register(s) == entries' = [entries EXCEPT ![s] = "ready"]
SetPending(s) == entries' = [entries EXCEPT ![s] = "pending"]
Remove(s) == entries' = [entries EXCEPT ![s] = "not_found"]

(* The TTL of an entry runs out.                                           *)
Expire(s) ==
  /\ Exists(s)
  /\ Remove(s)
  /\ UNCHANGED frozenUntil

Freeze(s) ==
  /\ frozenUntil' \in {[frozenUntil EXCEPT ![s] = f] : f \in {"until", "forever"}}
  /\ UNCHANGED entries

Unfreeze(s) ==
  /\ frozenUntil' = [frozenUntil EXCEPT ![s] = "no"]
  /\ UNCHANGED entries

(* The end of a freeze passes.                                             *)
Thaw(s) ==
  /\ frozenUntil[s] = "until"
  /\ Unfreeze(s)
=============================================================================
