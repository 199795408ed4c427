----------------------------- MODULE MCRateLimiter -----------------------------
(* RateLimiter on a small set of clients.                                  *)
EXTENDS RateLimiter
=============================================================================
