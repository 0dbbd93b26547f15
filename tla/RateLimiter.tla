---------------------------- MODULE RateLimiter ----------------------------
(***************************************************************************)
(* The request limiter (internal/ratelimit): a bucket per caller, refilled  *)
(* when the caller asks rather than as time passes, and forgotten once it   *)
(* has been idle for long; the forgetting happens when a new caller appears.*)
(*                                                                          *)
(* Tokens are counted in units, Cost units to the token of the code, so     *)
(* that a rate may be a fraction of a token per unit of time.               *)
(***************************************************************************)
EXTENDS Integers, FiniteSets

CONSTANTS Caller,   \* bucket keys: a guest token, or an address without one
          Rate, Burst, Cost,
          IdleTTL,
          MaxTime   \* bound: the last moment looked at

\* With the defaults (10 requests a second, 30 at once, ten minutes) a bucket
\* is full long before it is forgotten.
ASSUME RateAssumption ==
  /\ Rate \in Nat \ {0} /\ Burst \in Nat /\ Cost \in Nat \ {0} /\ IdleTTL \in Nat
  /\ Burst <= IdleTTL * Rate
  /\ MaxTime \in Nat

VARIABLES clock,
          buckets,  \* buckets: tokens and lastSeen of every caller tracked
          allowed   \* history: the answer to the last request

limiterVars == <<clock, buckets, allowed>>

Capped(n) == IF n > Burst THEN Burst ELSE n

\* What is in a bucket now, its refill included.
Tokens(b) == Capped(b.tokens + (clock - b.lastSeen) * Rate)

\* mutant: a bucket is forgotten although it is in use.
SweptAll == {}

\* sweep: the callers whose bucket survives.
Swept == {k \in DOMAIN buckets : clock - buckets[k].lastSeen <= IdleTTL}

\* The buckets a request of caller k finds: a new caller gets a full one, and
\* makes the limiter sweep the others.
Found(k) ==
  IF k \in DOMAIN buckets THEN buckets
  ELSE [j \in Swept \union {k} |-> IF j = k THEN [tokens |-> Burst, lastSeen |-> clock]
                                   ELSE buckets[j]]

\* Allow
Allow(k) ==
  LET tokens == Tokens(Found(k)[k])
  IN  /\ allowed' = (tokens >= Cost)
      /\ buckets' = [Found(k) EXCEPT ![k] =
                       [tokens   |-> IF tokens >= Cost THEN tokens - Cost ELSE tokens,
                        lastSeen |-> clock]]
      /\ UNCHANGED clock

Elapse ==
  /\ clock < MaxTime
  /\ clock' = clock + 1
  /\ UNCHANGED <<buckets, allowed>>

LimiterInit ==
  /\ clock = 0
  /\ buckets = [k \in {} |-> 0]
  /\ allowed = TRUE

LimiterNext == Elapse \/ \E k \in Caller : Allow(k)

LimiterSpec == LimiterInit /\ [][LimiterNext]_limiterVars

-----------------------------------------------------------------------------
\* The types of the limiter's state.
LimiterTypeOK ==
  /\ clock \in Nat
  /\ DOMAIN buckets \subseteq Caller
  /\ buckets \in [DOMAIN buckets -> [tokens : 0..Burst, lastSeen : 0..clock]]
  /\ allowed \in BOOLEAN

\* The allowance of a caller: full for one the limiter does not know.
Level(k) == IF k \in DOMAIN buckets THEN Tokens(buckets[k]) ELSE Burst

\* Refilling on demand and forgetting idle callers cannot be noticed: every
\* request gets the answer of a bucket that is refilled all the time and kept
\* for ever.
Bucket == INSTANCE TokenBucket WITH level <- [k \in Caller |-> Level(k)]

ImplementsTokenBucket == Bucket!Spec

=============================================================================
