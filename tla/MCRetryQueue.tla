----------------------------- MODULE MCRetryQueue -----------------------------
(* Instances of RetryQueue for TLC.                                        *)
EXTENDS RetryQueue

TwoIds == 1..2
=============================================================================
