---------------------------- MODULE IngressLimiter ----------------------------
(***************************************************************************)
(* The per-client token buckets in front of the webhook handler            *)
(* (ratelimit/limiter.go) and the Retry-After header the handler makes of  *)
(* a refusal (handler/webhook.go).                                         *)
(*                                                                         *)
(* The code counts tokens in floating point; here they are counted in      *)
(* units of 1/One token, and a clock tick is the resolution of             *)
(* time.Duration.  l.mu makes Allow and evictIdle atomic, and both read    *)
(* the clock under the lock.                                               *)
(*                                                                         *)
(* windowStart and admitted are history variables: an instant picked at    *)
(* will, and the requests of each client let through since.                *)
(***************************************************************************)
EXTENDS Integers

CONSTANTS
  Addresses,      \* client addresses, the keys of l.buckets
  One,            \* units in one token
  Rate,           \* l.rate: units added per tick
  Burst,          \* l.burst: capacity of a bucket, in units
  TTL,            \* l.ttl, in ticks
  Interval,       \* eviction interval, in ticks
  Second,         \* ticks in a second
  MaxTime         \* bound: ticks of the clock

ASSUME IngressAssumption ==
  /\ One \in Nat \ {0} /\ Rate \in Nat \ {0} /\ Second \in Nat \ {0}
  /\ Burst \in Nat /\ Burst >= One
  /\ TTL \in Nat /\ Interval \in Nat \ {0} /\ MaxTime \in Nat

(* A bucket idle for l.ttl is full: 10 minutes at the default 50 tokens a  *)
(* second refill far more than the default burst of 100.                   *)
ASSUME IdleBucketIsFull == Rate * TTL >= Burst

VARIABLES
  now,
  buckets,       \* l.buckets: a function on the clients that have one
  evictedAt,     \* last tick of the eviction ticker
  windowStart, admitted

ingressVars == <<now, buckets, evictedAt, windowStart, admitted>>

Bucket == [tokens : 0..Burst, lastSeen : Nat]

IngressTypeOK ==
  /\ now \in Nat /\ evictedAt \in 0..now /\ windowStart \in 0..now
  /\ admitted \in [Addresses -> Nat]
  /\ DOMAIN buckets \subseteq Addresses
  /\ buckets \in [DOMAIN buckets -> Bucket]
  /\ \A c \in DOMAIN buckets : buckets[c].lastSeen <= now

IngressInit ==
  /\ now = 0 /\ evictedAt = 0 /\ windowStart = 0
  /\ buckets = [c \in {} |-> [tokens |-> 0, lastSeen |-> 0]]
  /\ admitted = [c \in Addresses |-> 0]
-----------------------------------------------------------------------------
Least(a, b) == IF a < b THEN a ELSE b

(* The tokens of a client's bucket, refilled for the time since it was     *)
(* last touched.                                                           *)
Available(c) ==
  IF c \in DOMAIN buckets
    THEN Least(Burst, buckets[c].tokens + (now - buckets[c].lastSeen) * Rate)
    ELSE Burst

WithBucket(c, b) == [d \in DOMAIN buckets \cup {c} |-> IF d = c THEN b ELSE buckets[d]]

\* Faulty variant: a refused request refills the bucket but leaves lastSeen.
AllowKeepsLastSeen(c) ==
  LET tokens == Available(c)
      allowed == tokens >= One
      seen == IF allowed \/ c \notin DOMAIN buckets THEN now ELSE buckets[c].lastSeen
  IN  /\ buckets' = WithBucket(c, [tokens |-> IF allowed THEN tokens - One ELSE tokens,
                                   lastSeen |-> seen])
      /\ admitted' = IF allowed THEN [admitted EXCEPT ![c] = @ + 1] ELSE admitted
      /\ UNCHANGED <<now, evictedAt, windowStart>>

(* Allow: a token pays for the request, or the request is refused.         *)
Allow(c) ==
  LET tokens == Available(c)
      allowed == tokens >= One
  IN  /\ buckets' = WithBucket(c, [tokens |-> IF allowed THEN tokens - One ELSE tokens,
                                   lastSeen |-> now])
      /\ admitted' = IF allowed THEN [admitted EXCEPT ![c] = @ + 1] ELSE admitted
      /\ UNCHANGED <<now, evictedAt, windowStart>>

Idle(c) == now - buckets[c].lastSeen > TTL

(* evictIdle, on a tick of the eviction ticker.                            *)
EvictIdle ==
  /\ now > evictedAt /\ evictedAt' = now
  /\ buckets' = [c \in {d \in DOMAIN buckets : ~Idle(d)} |-> buckets[c]]
  /\ UNCHANGED <<now, windowStart, admitted>>

(* The clock.  The ticker is served at least once in every interval.       *)
Tick ==
  /\ now < MaxTime /\ now - evictedAt < Interval
  /\ now' = now + 1
  /\ UNCHANGED <<buckets, evictedAt, windowStart, admitted>>

(* History only: start counting admissions from here.                      *)
OpenWindow ==
  /\ windowStart' = now /\ admitted' = [c \in Addresses |-> 0]
  /\ UNCHANGED <<now, buckets, evictedAt>>

IngressNext ==
  \/ \E c \in Addresses : Allow(c)
  \/ EvictIdle \/ Tick \/ OpenWindow

IngressSpec == IngressInit /\ [][IngressNext]_ingressVars
-----------------------------------------------------------------------------
CeilDiv(a, b) == (a + b - 1) \div b

(* The Retry-After header of a refusal that found this many tokens: the    *)
(* wait is cut to clock resolution and rounded up to whole seconds, at     *)
(* least one.                                                              *)
RetryAfter(tokens) ==
  LET seconds == CeilDiv((One - tokens) \div Rate, Second)
  IN  IF seconds < 1 THEN 1 ELSE seconds

(* In every window of time, whenever it started, a client gets no more     *)
(* requests through than one burst plus the refill of the window; evicting *)
(* a client's bucket and giving it a new full one does not change that.    *)
AdmittedBounded ==
  \A c \in Addresses : admitted[c] * One <= Burst + Rate * (now - windowStart)

(* The inductive form: what was let through and what is still available.   *)
CreditBounded ==
  \A c \in Addresses : admitted[c] * One + Available(c) <= Burst + Rate * (now - windowStart)

(* Churning client addresses do not pile up: no bucket outlives its last   *)
(* request by more than the TTL and one eviction interval.                 *)
IdleBounded ==
  \A c \in DOMAIN buckets : now - buckets[c].lastSeen <= TTL + Interval

(* The Retry-After a client with too few tokens is given is honest:        *)
(* waiting for it (and one tick of clock resolution) earns a token, and    *)
(* one second less would not have.                                         *)
RetryAfterHonest(tokens) ==
  LET retry == RetryAfter(tokens)
  IN  /\ tokens + Rate * (retry * Second + 1) >= One
      /\ retry = 1 \/ tokens + Rate * (retry - 1) * Second < One
=============================================================================
