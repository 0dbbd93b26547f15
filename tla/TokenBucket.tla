---------------------------- MODULE TokenBucket ----------------------------
(***************************************************************************)
(* What the rate limiter promises (ratelimit/limiter.go:20-21): every       *)
(* caller has an allowance that refills at a fixed rate up to a burst, and  *)
(* a request is let through exactly when the allowance covers it.           *)
(***************************************************************************)
EXTENDS Integers

CONSTANTS Caller,
          Rate,    \* units of allowance per unit of time
          Burst,   \* units a caller may save up
          Cost     \* units a request takes

VARIABLES level,   \* level[k]: the allowance of caller k
          allowed  \* the answer to the last request

bucketVars == <<level, allowed>>

Capped(n) == IF n > Burst THEN Burst ELSE n

Init ==
  /\ level = [k \in Caller |-> Burst]
  /\ allowed = TRUE

Take(k) ==
  /\ allowed' = (level[k] >= Cost)
  /\ level' = [level EXCEPT ![k] = IF allowed' THEN @ - Cost ELSE @]

Refill ==
  /\ level' = [k \in Caller |-> Capped(level[k] + Rate)]
  /\ UNCHANGED allowed

Next == Refill \/ \E k \in Caller : Take(k)

Spec == Init /\ [][Next]_bucketVars

=============================================================================
