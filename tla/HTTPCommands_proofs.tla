------------------------- MODULE HTTPCommands_proofs -------------------------
(***************************************************************************)
(* The middleware a command passes, for any visitors, keys, requests in     *)
(* flight and size of the cache: the cache stays within its bound, what is  *)
(* answered of a command is its own outcome, a command is applied again     *)
(* only for one of the reasons the cache is known to have, and the limiter  *)
(* in front is a token bucket here, too.                                    *)
(***************************************************************************)
EXTENDS HTTPCommands, FiniteSetTheorems, TLAPS

-----------------------------------------------------------------------------
(***************************************************************************)
(* The limiter implements a token bucket per caller, whatever the callers,  *)
(* the rate, the burst and the time after which a bucket is forgotten, as   *)
(* long as a bucket is full by then (RateAssumption).                       *)
(***************************************************************************)

-----------------------------------------------------------------------------
\* Refilling over m + 1 units of time is refilling over m and then over one.
LEMMA RefillStep ==
  ASSUME NEW t \in Nat, NEW m \in Nat
  PROVE  Capped(t + (m + 1) * Rate) = Capped(Capped(t + m * Rate) + Rate)
<1> DEFINE p == m * Rate
<1>1. Rate \in Nat /\ Burst \in Nat
  BY RateAssumption
<1>2. (m + 1) * Rate = p + Rate
  BY <1>1
<1>3. p \in Nat
  BY <1>1
<1> HIDE DEF p
<1>4. Capped(t + (p + Rate)) = Capped(Capped(t + p) + Rate)
  BY <1>1, <1>3 DEF Capped
<1> QED
  BY <1>2, <1>4 DEF p

\* What a refill leaves is an allowance.
LEMMA CappedType ==
  ASSUME NEW n \in Nat
  PROVE  Capped(n) \in 0..Burst
BY RateAssumption DEF Capped

\* A bucket idle for longer than IdleTTL is full.
LEMMA IdleIsFull ==
  ASSUME NEW t \in Nat, NEW m \in Nat, m > IdleTTL
  PROVE  Capped(t + m * Rate) = Burst
<1>1. Rate \in Nat \ {0} /\ Burst \in Nat /\ IdleTTL \in Nat /\ Burst <= IdleTTL * Rate
  BY RateAssumption
<1>2. PICK j \in Nat : m = IdleTTL + j
  <2>1. m - IdleTTL \in Nat /\ m = IdleTTL + (m - IdleTTL)
    BY <1>1
  <2> QED BY <2>1
<1> DEFINE a == IdleTTL * Rate
           b == j * Rate
<1>3. m * Rate = a + b /\ a \in Nat /\ b \in Nat
  BY <1>1, <1>2
<1>4. CASE t + (a + b) > Burst
  BY <1>3, <1>4 DEF Capped
<1>5. CASE ~(t + (a + b) > Burst)
  <2>1. t + (a + b) = Burst
    BY <1>1, <1>3, <1>5
  <2> QED
    BY <1>3, <1>5, <2>1 DEF Capped
<1> QED
  BY <1>4, <1>5

-----------------------------------------------------------------------------
\* A bucket of a state with correct types.
LEMMA BucketType ==
  ASSUME LimiterTypeOK, NEW k \in DOMAIN buckets
  PROVE  /\ buckets[k].tokens \in 0..Burst
         /\ buckets[k].lastSeen \in 0..clock
         /\ clock - buckets[k].lastSeen \in Nat
<1>1. buckets[k] \in [tokens : 0..Burst, lastSeen : 0..clock]
  BY DEF LimiterTypeOK
<1>2. clock \in Nat
  BY DEF LimiterTypeOK
<1> QED
  BY <1>1, <1>2

LEMMA TokensType ==
  ASSUME LimiterTypeOK, NEW k \in DOMAIN buckets
  PROVE  Tokens(buckets[k]) \in 0..Burst
<1> DEFINE m == clock - buckets[k].lastSeen
<1>1. m \in Nat /\ buckets[k].tokens \in Nat
  BY BucketType, RateAssumption
<1>2. m * Rate \in Nat
  BY <1>1, RateAssumption
<1>3. buckets[k].tokens + m * Rate \in Nat
  BY <1>1, <1>2
<1> QED
  BY <1>3, CappedType DEF Tokens

\* A request finds its caller's level in the bucket, and leaves every other
\* caller's level as it was, whether or not it makes the limiter sweep.
LEMMA FoundLevels ==
  ASSUME LimiterTypeOK, NEW k \in Caller
  PROVE  /\ DOMAIN Found(k) \subseteq Caller
         /\ k \in DOMAIN Found(k)
         /\ Found(k) \in [DOMAIN Found(k) -> [tokens : 0..Burst, lastSeen : 0..clock]]
         /\ Tokens(Found(k)[k]) = Level(k)
         /\ \A j \in Caller : j # k =>
              (IF j \in DOMAIN Found(k) THEN Tokens(Found(k)[j]) ELSE Burst) = Level(j)
<1>1. clock \in Nat /\ DOMAIN buckets \subseteq Caller
      /\ buckets \in [DOMAIN buckets -> [tokens : 0..Burst, lastSeen : 0..clock]]
  BY DEF LimiterTypeOK
<1>2. Burst \in Nat /\ Rate \in Nat /\ IdleTTL \in Nat
  BY RateAssumption
<1>3. CASE k \in DOMAIN buckets
  BY <1>1, <1>3 DEF Found, Level
<1>4. CASE k \notin DOMAIN buckets
  <2> DEFINE new == [tokens |-> Burst, lastSeen |-> clock]
  <2>1. /\ DOMAIN Found(k) = Swept \union {k}
        /\ Found(k)[k] = new
        /\ \A j \in Swept : Found(k)[j] = buckets[j]
        /\ Found(k) = [j \in Swept \union {k} |-> IF j = k THEN new ELSE buckets[j]]
    BY <1>4 DEF Found, Swept
  <2>2. Swept \subseteq DOMAIN buckets
    BY DEF Swept
  <2>3. new \in [tokens : 0..Burst, lastSeen : 0..clock]
    BY <1>1, <1>2
  <2>4. Tokens(new) = Burst
    <3>1. (clock - clock) * Rate = 0
      BY <1>1, <1>2
    <3> QED
      BY <1>2, <3>1 DEF Tokens, Capped
  <2>5. ASSUME NEW j \in Caller, j # k, j \notin Swept
        PROVE  Level(j) = Burst
    <3>1. CASE j \in DOMAIN buckets
      <4> DEFINE m == clock - buckets[j].lastSeen
      <4>1. m \in Nat /\ buckets[j].tokens \in Nat
        BY <3>1, BucketType, <1>2
      <4>2. m > IdleTTL
        BY <4>1, <1>2, <3>1, <2>5 DEF Swept
      <4> QED
        BY <3>1, <4>1, <4>2, IdleIsFull DEF Level, Tokens
    <3>2. CASE j \notin DOMAIN buckets
      BY <3>2 DEF Level
    <3> QED
      BY <3>1, <3>2
  <2>6. ASSUME NEW j \in Caller, j # k
        PROVE  (IF j \in DOMAIN Found(k) THEN Tokens(Found(k)[j]) ELSE Burst) = Level(j)
    BY <2>1, <2>2, <2>5, <2>6 DEF Level
  <2>7. Found(k) \in [DOMAIN Found(k) -> [tokens : 0..Burst, lastSeen : 0..clock]]
    BY <1>1, <2>1, <2>2, <2>3
  <2>8. Level(k) = Burst
    BY <1>4 DEF Level
  <2> QED
    BY <1>1, <2>1, <2>2, <2>4, <2>6, <2>7, <2>8
<1> QED
  BY <1>3, <1>4

-----------------------------------------------------------------------------
\* The limiter's state keeps its types: no bucket holds more than the burst or
\* less than nothing, and none was seen in the future.
THEOREM LimiterTypeCorrect == LimiterSpec => []LimiterTypeOK
<1>1. LimiterInit => LimiterTypeOK
  BY DEF LimiterInit, LimiterTypeOK
<1>2. LimiterTypeOK /\ [LimiterNext]_limiterVars => LimiterTypeOK'
  <2> SUFFICES ASSUME LimiterTypeOK, [LimiterNext]_limiterVars
               PROVE  LimiterTypeOK'
    OBVIOUS
  <2>1. CASE Elapse
    <3>1. clock \in Nat /\ clock' = clock + 1 /\ buckets' = buckets /\ allowed' = allowed
      BY <2>1 DEF Elapse, LimiterTypeOK
    <3>2. 0..clock \subseteq 0..clock'
      BY <3>1
    <3> QED
      BY <3>1, <3>2 DEF LimiterTypeOK
  <2>2. ASSUME NEW k \in Caller, Allow(k)
        PROVE  LimiterTypeOK'
    <3> DEFINE tokens == Tokens(Found(k)[k])
               left   == IF tokens >= Cost THEN tokens - Cost ELSE tokens
    <3>1. clock' = clock /\ clock \in Nat
          /\ buckets' = [Found(k) EXCEPT ![k] = [tokens |-> left, lastSeen |-> clock]]
          /\ allowed' = (tokens >= Cost)
      BY <2>2 DEF Allow, LimiterTypeOK
    <3>2. tokens \in 0..Burst
      <4>1. CASE k \in DOMAIN buckets
        BY <4>1, TokensType, FoundLevels DEF Level
      <4>2. CASE k \notin DOMAIN buckets
        BY <4>2, FoundLevels, RateAssumption DEF Level
      <4> QED BY <4>1, <4>2
    <3>3. left \in 0..Burst
      BY <3>2, RateAssumption
    <3>4. [tokens |-> left, lastSeen |-> clock] \in [tokens : 0..Burst, lastSeen : 0..clock]
      BY <3>1, <3>3
    <3>5. DOMAIN buckets' = DOMAIN Found(k)
      BY <3>1
    <3>6. buckets' \in [DOMAIN buckets' -> [tokens : 0..Burst, lastSeen : 0..clock]]
      <4> HIDE DEF left, tokens
      <4> QED BY <3>1, <3>4, <3>5, FoundLevels
    <3> QED
      BY <3>1, <3>5, <3>6, FoundLevels DEF LimiterTypeOK
  <2>3. CASE UNCHANGED limiterVars
    BY <2>3 DEF limiterVars, LimiterTypeOK
  <2> QED
    BY <2>1, <2>2, <2>3 DEF LimiterNext
<1> QED
  BY <1>1, <1>2, PTL DEF LimiterSpec

-----------------------------------------------------------------------------
\* The state function the refinement puts in the place of level.
LEMMA InitRefines == LimiterInit => Bucket!Init
BY DEF LimiterInit, Bucket!Init, Level

\* A unit of time is a refill of every bucket.
LEMMA ElapseRefines ==
  ASSUME LimiterTypeOK, Elapse
  PROVE  Bucket!Refill
<1>1. clock \in Nat /\ clock' = clock + 1 /\ buckets' = buckets /\ allowed' = allowed
  BY DEF Elapse, LimiterTypeOK
<1>2. ASSUME NEW k \in Caller
      PROVE  Level(k)' = Bucket!Capped(Level(k) + Rate)
  <2>1. CASE k \in DOMAIN buckets
    <3> DEFINE m == clock - buckets[k].lastSeen
               t == buckets[k].tokens
    <3>1. m \in Nat /\ t \in Nat
      BY <2>1, BucketType, RateAssumption
    <3>2. clock' - buckets[k].lastSeen = m + 1
      <4>1. buckets[k].lastSeen \in Nat
        BY <2>1, <1>1, BucketType
      <4> QED BY <1>1, <4>1
    <3>3. Level(k)' = Capped(t + (m + 1) * Rate)
      BY <1>1, <2>1, <3>2 DEF Level, Tokens, Capped
    <3>4. Level(k) = Capped(t + m * Rate)
      BY <2>1 DEF Level, Tokens
    <3> QED
      BY <3>1, <3>3, <3>4, RefillStep DEF Capped, Bucket!Capped
  <2>2. CASE k \notin DOMAIN buckets
    BY <2>2, <1>1, RateAssumption DEF Level, Bucket!Capped
  <2> QED
    BY <2>1, <2>2
<1>3. [k \in Caller |-> Level(k)]' = [k \in Caller |-> Bucket!Capped([j \in Caller |-> Level(j)][k] + Rate)]
  BY <1>2
<1> QED
  BY <1>1, <1>3 DEF Bucket!Refill

\* A request is a request: it gets the bucket's answer and costs the same.
LEMMA AllowRefines ==
  ASSUME LimiterTypeOK, NEW k \in Caller, Allow(k)
  PROVE  Bucket!Take(k)
<1> DEFINE tokens == Tokens(Found(k)[k])
           left   == IF tokens >= Cost THEN tokens - Cost ELSE tokens
<1>1. clock' = clock /\ clock \in Nat
      /\ buckets' = [Found(k) EXCEPT ![k] = [tokens |-> left, lastSeen |-> clock]]
      /\ allowed' = (tokens >= Cost)
  BY DEF Allow, LimiterTypeOK
<1>2. tokens = Level(k) /\ tokens \in 0..Burst
  <2>1. CASE k \in DOMAIN buckets
    BY <2>1, TokensType, FoundLevels DEF Level
  <2>2. CASE k \notin DOMAIN buckets
    BY <2>2, FoundLevels, RateAssumption DEF Level
  <2> QED BY <2>1, <2>2
<1>3. left \in 0..Burst
  BY <1>2, RateAssumption
<1>4. DOMAIN buckets' = DOMAIN Found(k) /\ k \in DOMAIN Found(k)
  BY <1>1, FoundLevels
<1>5. Level(k)' = left
  <2>1. buckets'[k] = [tokens |-> left, lastSeen |-> clock]
    BY <1>1, <1>4
  <2>2. Tokens(buckets[k])' = Capped(left + (clock - clock) * Rate)
    BY <1>1, <2>1 DEF Tokens, Capped
  <2>3. (clock - clock) * Rate = 0
    BY <1>1, RateAssumption
  <2> QED
    BY <1>3, <1>4, <2>2, <2>3, RateAssumption DEF Level, Capped
<1>6. ASSUME NEW j \in Caller, j # k
      PROVE  Level(j)' = Level(j)
  <2>1. CASE j \in DOMAIN Found(k)
    <3>1. buckets'[j] = Found(k)[j]
      BY <1>1, <1>6, <2>1
    <3> QED
      BY <1>1, <1>4, <1>6, <2>1, <3>1, FoundLevels DEF Level, Tokens, Capped
  <2>2. CASE j \notin DOMAIN Found(k)
    BY <1>4, <1>6, <2>2, FoundLevels DEF Level
  <2> QED
    BY <2>1, <2>2
<1>7. \A j \in Caller : Level(j)' = IF j = k THEN left ELSE Level(j)
  BY <1>5, <1>6
<1> DEFINE level == [j \in Caller |-> Level(j)]
<1>8. level' = [level EXCEPT ![k] = IF allowed' THEN @ - Cost ELSE @]
  <2>1. left = IF allowed' THEN level[k] - Cost ELSE level[k]
    BY <1>1, <1>2
  <2> HIDE DEF left
  <2> QED BY <1>7, <2>1
<1>9. allowed' = (level[k] >= Cost)
  BY <1>1, <1>2
<1> QED
  BY <1>8, <1>9 DEF Bucket!Take

\* Refilling on demand and forgetting idle callers cannot be noticed.
THEOREM LimiterImplementsBucket == LimiterSpec => ImplementsTokenBucket
<1>1. LimiterInit => Bucket!Init
  BY InitRefines
<1>2. LimiterTypeOK /\ [LimiterNext]_limiterVars => [Bucket!Next]_(Bucket!bucketVars)
  <2> SUFFICES ASSUME LimiterTypeOK, [LimiterNext]_limiterVars
               PROVE  [Bucket!Next]_(Bucket!bucketVars)
    OBVIOUS
  <2>1. CASE Elapse
    BY <2>1, ElapseRefines DEF Bucket!Next
  <2>2. ASSUME NEW k \in Caller, Allow(k)
        PROVE  Bucket!Next
    BY <2>2, AllowRefines DEF Bucket!Next
  <2>3. CASE UNCHANGED limiterVars
    BY <2>3 DEF limiterVars, Bucket!bucketVars, Level, Tokens, Capped
  <2> QED
    BY <2>1, <2>2, <2>3 DEF LimiterNext
<1> QED
  BY <1>1, <1>2, LimiterTypeCorrect, PTL DEF LimiterSpec, ImplementsTokenBucket, Bucket!Spec

-----------------------------------------------------------------------------
Stage == {"authenticating", "deduping", "serving", "remembering"}

\* The state of the cache and the requests, besides the limiter's.
CacheInv ==
  /\ clock \in Nat
  /\ requests \in [Request -> {NoRequest} \union [at : Stage, command : Command]]
  /\ IsFiniteSet(DOMAIN cache) /\ Cardinality(DOMAIN cache) <= MaxEntries
  /\ DOMAIN cache \subseteq Command
  /\ cache \in [DOMAIN cache -> [of : Command, storedAt : 0..clock]]
  /\ sends \in 0..MaxSends

\* What is remembered, or about to be, has taken effect, and is remembered under
\* its own key; so is what has been answered.
OutcomeInv ==
  /\ applied \in [Command -> Nat]
  /\ told \in [Command -> SUBSET Command]
  /\ \A k \in DOMAIN cache : cache[k].of = k /\ applied[k] > 0
  /\ \A r \in Request : At(r, "remembering") => applied[requests[r].command] > 0
  /\ OutcomesAreOwn

CommandsInv == CacheInv /\ OutcomeInv

-----------------------------------------------------------------------------
\* A command's way never touches the limiter but for its request to it.
LEMMA CommandsRunLimiter == Spec => LimiterSpec
<1>1. Init => LimiterInit
  BY DEF Init
<1>2. [Next]_commandVars => [LimiterNext]_limiterVars
  BY DEF Next, Wait, Post, Authenticate, Dedupe, Refuse, Serve, Remember,
         LimiterNext, limiterVars, commandVars, Command
<1> QED
  BY <1>1, <1>2, PTL DEF Spec, LimiterSpec

\* A request that is somewhere has a command.
LEMMA RequestType ==
  ASSUME CacheInv, NEW r \in Request, NEW s \in Stage, At(r, s)
  PROVE  requests[r] \in [at : Stage, command : Command] /\ requests[r].command \in Command
  BY DEF CacheInv, At, NoRequest, Stage

\* The two ways a request moves on.
LEMMA AdvanceType ==
  ASSUME CacheInv, NEW r \in Request, NEW s \in Stage, At(r, s)
  PROVE  /\ \A t \in Stage : Advance(r, t) =>
              /\ requests' \in [Request -> {NoRequest} \union [at : Stage, command : Command]]
              /\ requests'[r].command = requests[r].command
              /\ \A q \in Request \ {r} : requests'[q] = requests[q]
         /\ Over(r) =>
              /\ requests' \in [Request -> {NoRequest} \union [at : Stage, command : Command]]
              /\ requests'[r] = NoRequest
              /\ \A q \in Request \ {r} : requests'[q] = requests[q]
  BY RequestType DEF CacheInv, Advance, Over

\* Taking entries out of the cache keeps it what it is.
LEMMA WithoutType ==
  ASSUME CacheInv, NEW gone, NEW smaller, smaller = Without(cache, gone)
  PROVE  /\ DOMAIN smaller = DOMAIN cache \ gone
         /\ IsFiniteSet(DOMAIN smaller) /\ Cardinality(DOMAIN smaller) <= MaxEntries
         /\ smaller \in [DOMAIN smaller -> [of : Command, storedAt : 0..clock]]
         /\ \A k \in DOMAIN smaller : smaller[k] = cache[k]
<1>1. DOMAIN smaller = DOMAIN cache \ gone /\ \A k \in DOMAIN smaller : smaller[k] = cache[k]
  BY DEF Without
<1>2. /\ IsFiniteSet(DOMAIN cache) /\ Cardinality(DOMAIN cache) <= MaxEntries
      /\ cache \in [DOMAIN cache -> [of : Command, storedAt : 0..clock]]
  BY DEF CacheInv
<1>3. /\ IsFiniteSet(DOMAIN smaller)
      /\ Cardinality(DOMAIN smaller) <= Cardinality(DOMAIN cache)
      /\ Cardinality(DOMAIN smaller) \in Nat /\ Cardinality(DOMAIN cache) \in Nat
  BY <1>1, <1>2, FS_Subset, FS_CardinalityType
<1>4. smaller \in [DOMAIN smaller -> [of : Command, storedAt : 0..clock]]
  <2>1. smaller = [k \in DOMAIN smaller |-> cache[k]]
    BY <1>1 DEF Without
  <2> QED BY <2>1, <1>1, <1>2
<1> QED
  BY <1>1, <1>2, <1>3, <1>4, CommandsAssumption

\* Eviction from a full cache leaves room for one.
LEMMA EvictedMakesRoom ==
  ASSUME CacheInv, Cardinality(DOMAIN cache) >= MaxEntries,
         NEW gone \in Evicted
  PROVE  /\ IsFiniteSet(DOMAIN cache \ gone)
         /\ Cardinality(DOMAIN cache \ gone) < MaxEntries
<1> DEFINE fresh == {k \in DOMAIN cache : ~Expired(k)}
<1>1. IsFiniteSet(DOMAIN cache) /\ Cardinality(DOMAIN cache) \in Nat
      /\ Cardinality(DOMAIN cache) = MaxEntries /\ MaxEntries \in Nat \ {0}
  BY FS_CardinalityType, CommandsAssumption DEF CacheInv
<1>2. CASE Cardinality(fresh) < MaxEntries
  <2>1. gone = DOMAIN cache \ fresh
    BY <1>2 DEF Evicted
  <2>2. DOMAIN cache \ gone = fresh
    BY <2>1
  <2> QED
    BY <1>1, <1>2, <2>2, FS_Subset
<1>3. CASE ~(Cardinality(fresh) < MaxEntries)
  <2>1. PICK k \in fresh : gone = {k}
    BY <1>3 DEF Evicted, Oldest
  <2>2. k \in DOMAIN cache
    OBVIOUS
  <2>3. /\ IsFiniteSet(DOMAIN cache \ {k})
        /\ Cardinality(DOMAIN cache \ {k}) = Cardinality(DOMAIN cache) - 1
    BY <1>1, <2>2, FS_RemoveElement
  <2> QED
    BY <1>1, <2>1, <2>3
<1> QED
  BY <1>2, <1>3

-----------------------------------------------------------------------------
(***************************************************************************)
(* The cache and the requests.                                              *)
(***************************************************************************)
LEMMA InitCommands == Init => CommandsInv
<1> SUFFICES ASSUME Init PROVE CommandsInv
  OBVIOUS
<1>1. DOMAIN cache = {}
  BY DEF Init
<1>2. CacheInv
  BY <1>1, FS_EmptySet, CommandsAssumption DEF CacheInv, Init, LimiterInit
<1>3. OutcomeInv
  BY <1>1 DEF OutcomeInv, OutcomesAreOwn, Init, At, NoRequest
<1> QED
  BY <1>2, <1>3 DEF CommandsInv

\* Remembering an outcome takes the room that eviction has made.
LEMMA RememberKeeps ==
  ASSUME CommandsInv, NEW r \in Request, Remember(r)
  PROVE  CommandsInv'
<1> DEFINE c == requests[r].command
           full == Cardinality(DOMAIN cache) >= MaxEntries
<1>1. c \in Command /\ At(r, "remembering") /\ applied[c] > 0
  BY RequestType DEF Remember, CommandsInv, OutcomeInv, Stage
<1>2. /\ requests' \in [Request -> {NoRequest} \union [at : Stage, command : Command]]
      /\ requests'[r] = NoRequest
      /\ \A q \in Request \ {r} : requests'[q] = requests[q]
  BY <1>1, AdvanceType DEF Remember, CommandsInv, Stage
<1>3. PICK gone \in IF full THEN Evicted ELSE {{}} :
        cache' = [k \in (DOMAIN cache \ gone) \union {c} |->
                    IF k = c THEN [of |-> c, storedAt |-> clock] ELSE cache[k]]
  BY DEF Remember, Scoped
<1>4. UNCHANGED <<clock, sends, applied, told>>
  BY DEF Remember, limiterVars
<1>5. DOMAIN cache' = (DOMAIN cache \ gone) \union {c}
  BY <1>3
<1>6. /\ IsFiniteSet(DOMAIN cache \ gone) /\ Cardinality(DOMAIN cache \ gone) < MaxEntries
  <2>1. CASE full
    BY <1>3, <2>1, EvictedMakesRoom DEF CommandsInv
  <2>2. CASE ~full
    <3>1. DOMAIN cache \ gone = DOMAIN cache
      BY <1>3, <2>2
    <3>2. IsFiniteSet(DOMAIN cache) /\ Cardinality(DOMAIN cache) \in Nat
      BY FS_CardinalityType DEF CommandsInv, CacheInv
    <3> QED
      BY <2>2, <3>1, <3>2, CommandsAssumption
  <2> QED
    BY <2>1, <2>2
<1>7. IsFiniteSet(DOMAIN cache') /\ Cardinality(DOMAIN cache') <= MaxEntries
  <2>1. /\ IsFiniteSet((DOMAIN cache \ gone) \union {c})
        /\ Cardinality((DOMAIN cache \ gone) \union {c}) =
             IF c \in DOMAIN cache \ gone THEN Cardinality(DOMAIN cache \ gone)
             ELSE Cardinality(DOMAIN cache \ gone) + 1
    BY <1>6, FS_AddElement, Zenon
  <2>2. Cardinality(DOMAIN cache \ gone) \in Nat
    BY <1>6, FS_CardinalityType
  <2> HIDE DEF c
  <2> QED
    BY <1>5, <1>6, <2>1, <2>2, CommandsAssumption
<1>8. CacheInv'
  <2>1. DOMAIN cache' \subseteq Command
    BY <1>1, <1>5 DEF CommandsInv, CacheInv
  <2>2. ASSUME NEW k \in DOMAIN cache'
        PROVE  cache'[k] \in [of : Command, storedAt : 0..clock]
    <3>1. clock \in Nat /\ cache \in [DOMAIN cache -> [of : Command, storedAt : 0..clock]]
      BY DEF CommandsInv, CacheInv
    <3>2. [of |-> c, storedAt |-> clock] \in [of : Command, storedAt : 0..clock]
      BY <1>1, <3>1
    <3> HIDE DEF c
    <3> QED
      BY <1>3, <1>5, <3>1, <3>2
  <2>3. cache' \in [DOMAIN cache' -> [of : Command, storedAt : 0..clock]]
    BY <1>3, <2>2
  <2> QED
    BY <1>2, <1>4, <1>7, <2>1, <2>3 DEF CommandsInv, CacheInv
<1>9. OutcomeInv'
  <2>1. ASSUME NEW k \in DOMAIN cache' PROVE cache'[k].of = k /\ applied'[k] > 0
    BY <1>1, <1>3, <1>4, <1>5 DEF CommandsInv, OutcomeInv
  <2>2. ASSUME NEW q \in Request, At(q, "remembering")'
        PROVE  applied'[requests'[q].command] > 0
    BY <1>2, <1>4, <2>2 DEF CommandsInv, OutcomeInv, At, NoRequest
  <2> QED
    BY <1>4, <2>1, <2>2 DEF CommandsInv, OutcomeInv, OutcomesAreOwn
<1> QED
  BY <1>8, <1>9 DEF CommandsInv

\* A look at the cache drops what has expired, or answers with what it finds.
LEMMA DedupeKeeps ==
  ASSUME CommandsInv, NEW r \in Request, Dedupe(r)
  PROVE  CommandsInv'
<1> DEFINE c == requests[r].command
<1>1. c \in Command /\ At(r, "deduping")
  BY RequestType DEF Dedupe, CommandsInv, Stage
<1>2. UNCHANGED <<clock, sends, applied>>
  BY DEF Dedupe, limiterVars
<1>3. CASE c \in DOMAIN cache /\ ~Expired(c)
  <2>1. /\ told' = [told EXCEPT ![c] = @ \union {cache[c].of}]
        /\ Over(r) /\ cache' = cache
    BY <1>3 DEF Dedupe, Scoped
  <2>2. cache[c].of = c /\ applied[c] > 0
    BY <1>3 DEF CommandsInv, OutcomeInv
  <2>3. /\ requests' \in [Request -> {NoRequest} \union [at : Stage, command : Command]]
        /\ requests'[r] = NoRequest
        /\ \A q \in Request \ {r} : requests'[q] = requests[q]
    BY <1>1, <2>1, AdvanceType DEF CommandsInv, Stage
  <2>4. told' \in [Command -> SUBSET Command] /\ OutcomesAreOwn'
    BY <1>1, <1>2, <2>1, <2>2 DEF CommandsInv, OutcomeInv, OutcomesAreOwn
  <2>5. ASSUME NEW q \in Request, At(q, "remembering")'
        PROVE  applied'[requests'[q].command] > 0
    BY <1>2, <2>3, <2>5 DEF CommandsInv, OutcomeInv, At, NoRequest
  <2> QED
    BY <1>2, <2>1, <2>3, <2>4, <2>5 DEF CommandsInv, CacheInv, OutcomeInv
<1>4. CASE ~(c \in DOMAIN cache /\ ~Expired(c))
  <2>1. cache' = Without(cache, {c}) /\ Advance(r, "serving") /\ told' = told
    BY <1>4 DEF Dedupe, Scoped
  <2>2. /\ DOMAIN cache' = DOMAIN cache \ {c}
        /\ IsFiniteSet(DOMAIN cache') /\ Cardinality(DOMAIN cache') <= MaxEntries
        /\ cache' \in [DOMAIN cache' -> [of : Command, storedAt : 0..clock]]
        /\ \A k \in DOMAIN cache' : cache'[k] = cache[k]
    <3> HIDE DEF c
    <3>1. CacheInv
      BY DEF CommandsInv
    <3> QED BY <2>1, <3>1, WithoutType
  <2>3. /\ requests' \in [Request -> {NoRequest} \union [at : Stage, command : Command]]
        /\ \A q \in Request \ {r} : requests'[q] = requests[q]
    BY <1>1, <2>1, AdvanceType DEF CommandsInv, Stage
  <2>4. requests'[r].at = "serving"
    BY <1>1, <2>1, RequestType DEF Advance, CommandsInv, CacheInv, Stage
  <2>5. CacheInv'
    BY <1>2, <2>2, <2>3 DEF CommandsInv, CacheInv
  <2>6. OutcomeInv'
    BY <1>2, <2>1, <2>2, <2>3, <2>4 DEF CommandsInv, OutcomeInv, OutcomesAreOwn, At
  <2> QED
    BY <2>5, <2>6 DEF CommandsInv
<1> QED
  BY <1>3, <1>4

\* Carrying a command out is what its outcome tells of.
LEMMA ServeKeeps ==
  ASSUME CommandsInv, NEW r \in Request, Serve(r)
  PROVE  CommandsInv'
<1> DEFINE c == requests[r].command
<1>1. c \in Command /\ At(r, "serving")
  BY RequestType DEF Serve, CommandsInv, Stage
<1>2. /\ UNCHANGED <<clock, cache, sends>> /\ Advance(r, "remembering")
      /\ applied' = [applied EXCEPT ![c] = @ + 1]
      /\ told' = [told EXCEPT ![c] = @ \union {c}]
  BY DEF Serve, limiterVars
<1>3. /\ requests' \in [Request -> {NoRequest} \union [at : Stage, command : Command]]
      /\ requests'[r].command = c
      /\ \A q \in Request \ {r} : requests'[q] = requests[q]
  BY <1>1, <1>2, AdvanceType DEF CommandsInv, Stage
<1>4. /\ applied' \in [Command -> Nat] /\ applied'[c] > 0
      /\ \A d \in Command : applied'[d] >= applied[d]
  BY <1>1, <1>2 DEF CommandsInv, OutcomeInv
<1>5. CacheInv'
  BY <1>2, <1>3 DEF CommandsInv, CacheInv
<1>6. ASSUME NEW k \in DOMAIN cache' PROVE cache'[k].of = k /\ applied'[k] > 0
  BY <1>2, <1>4 DEF CommandsInv, OutcomeInv, CacheInv
<1>7. ASSUME NEW q \in Request, At(q, "remembering")'
      PROVE  applied'[requests'[q].command] > 0
  <2>1. CASE q = r
    BY <1>3, <1>4, <2>1
  <2>2. CASE q # r
    <3>1. requests'[q] = requests[q] /\ At(q, "remembering")
      BY <1>3, <1>7, <2>2 DEF At
    <3>2. requests[q].command \in Command /\ applied[requests[q].command] > 0
      BY <3>1, RequestType DEF CommandsInv, OutcomeInv, Stage
    <3> QED
      BY <1>4, <3>1, <3>2 DEF CommandsInv, OutcomeInv
  <2> QED
    BY <2>1, <2>2
<1>8. told' \in [Command -> SUBSET Command]
  BY <1>1, <1>2 DEF CommandsInv, OutcomeInv
<1>9. OutcomesAreOwn'
  <2> SUFFICES ASSUME NEW d \in Command, told'[d] # {}
               PROVE  told'[d] = {d} /\ applied'[d] > 0
    BY DEF OutcomesAreOwn
  <2>1. CASE d = c
    BY <1>1, <1>2, <1>4, <2>1 DEF CommandsInv, OutcomeInv, OutcomesAreOwn
  <2>2. CASE d # c
    BY <1>1, <1>2, <1>4, <2>2 DEF CommandsInv, OutcomeInv, OutcomesAreOwn
  <2> QED
    BY <2>1, <2>2
<1> QED
  BY <1>4, <1>5, <1>6, <1>7, <1>8, <1>9 DEF CommandsInv, OutcomeInv

LEMMA CommandsStep == CommandsInv /\ [Next]_commandVars => CommandsInv'
<1> SUFFICES ASSUME CommandsInv, [Next]_commandVars PROVE CommandsInv'
  OBVIOUS
<1>1. CASE Wait
  <2>1. /\ clock' = clock + 1 /\ clock \in Nat
        /\ UNCHANGED <<requests, cache, sends, applied, told>>
    BY <1>1 DEF Wait, Elapse, cacheVars, histories, CommandsInv, CacheInv
  <2>2. 0..clock \subseteq 0..clock'
    BY <2>1
  <2>3. cache' \in [DOMAIN cache' -> [of : Command, storedAt : 0..clock']]
    BY <2>1, <2>2 DEF CommandsInv, CacheInv
  <2> QED
    BY <2>1, <2>3 DEF CommandsInv, CacheInv, OutcomeInv, OutcomesAreOwn, At
<1>2. ASSUME NEW r \in Request, NEW c \in Command, Post(r, c) PROVE CommandsInv'
  <2>1. /\ sends < MaxSends /\ sends' = sends + 1
        /\ UNCHANGED <<clock, cache, applied, told>>
    BY <1>2 DEF Post, Allow, histories
  <2>2. requests' \in [Request -> {NoRequest} \union [at : Stage, command : Command]]
    BY <1>2 DEF Post, Ask, Stage, CommandsInv, CacheInv
  <2>3. \A q \in Request : At(q, "remembering")' => requests'[q] = requests[q]
    BY <1>2 DEF Post, Ask, At, CommandsInv, CacheInv
  <2>4. sends' \in 0..MaxSends
    BY <2>1, CommandsAssumption DEF CommandsInv, CacheInv
  <2> QED
    BY <2>1, <2>2, <2>3, <2>4 DEF CommandsInv, CacheInv, OutcomeInv, OutcomesAreOwn, At
<1>3. ASSUME NEW r \in Request, Authenticate(r) \/ Refuse(r) PROVE CommandsInv'
  <2>1. UNCHANGED <<clock, cache, sends, applied, told>>
    BY <1>3 DEF Authenticate, Refuse, limiterVars, histories
  <2>2. PICK s \in {"authenticating", "serving"} : At(r, s) /\ (Advance(r, "deduping") \/ Over(r))
    BY <1>3 DEF Authenticate, Refuse
  <2>3. /\ requests' \in [Request -> {NoRequest} \union [at : Stage, command : Command]]
        /\ \A q \in Request \ {r} : requests'[q] = requests[q]
    BY <2>2, AdvanceType DEF CommandsInv, Stage
  <2>4. requests'[r].at # "remembering"
    BY <2>2, RequestType DEF Advance, Over, NoRequest, CommandsInv, CacheInv, Stage
  <2> QED
    BY <2>1, <2>3, <2>4 DEF CommandsInv, CacheInv, OutcomeInv, OutcomesAreOwn, At
<1>4. CASE UNCHANGED commandVars
  BY <1>4 DEF commandVars, limiterVars, cacheVars, histories,
              CommandsInv, CacheInv, OutcomeInv, OutcomesAreOwn, At
<1> QED
  BY <1>1, <1>2, <1>3, <1>4, DedupeKeeps, ServeKeeps, RememberKeeps DEF Next

-----------------------------------------------------------------------------
\* The requests and the cache keep their types, and the cache its bound, however
\* late an outcome comes to be remembered.
THEOREM CommandsTypeCorrect == Spec => []CommandsTypeOK
<1>1. CommandsInv /\ LimiterTypeOK => CommandsTypeOK
  <2> SUFFICES ASSUME CommandsInv, LimiterTypeOK PROVE CommandsTypeOK
    OBVIOUS
  <2>1. \A r \in Request : requests[r] \in {NoRequest} \union [at : Stage, command : Command]
    BY DEF CommandsInv, CacheInv
  <2> QED
    BY <2>1 DEF CommandsInv, CacheInv, CommandsTypeOK, Stage
<1> QED
  BY <1>1, InitCommands, CommandsStep, CommandsRunLimiter, LimiterTypeCorrect, PTL DEF Spec

\* What a visitor is told of a command is that command's own outcome, and the
\* command has taken effect: no interleaving of posts, evictions and retries
\* answers with another's.
THEOREM OutcomesAlwaysOwn == Spec => []OutcomesAreOwn
<1>1. CommandsInv => OutcomesAreOwn
  BY DEF CommandsInv, OutcomeInv
<1> QED
  BY <1>1, InitCommands, CommandsStep, PTL DEF Spec

\* In front of the commands the limiter is a token bucket as it is by itself.
THEOREM CommandsImplementBucket == Spec => ImplementsTokenBucket
  BY CommandsRunLimiter, LimiterImplementsBucket

-----------------------------------------------------------------------------
(***************************************************************************)
(* Applied once in turn.                                                    *)
(***************************************************************************)
\* Request r has found no outcome of c and has not stored one.
Carries(r, c) == requests[r].at \in {"serving", "remembering"} /\ requests[r].command = c

\* Commands whose outcome was ever stored.
Stored == {c \in Command : put[c] >= 0}

\* The cache holds what was stored last of a command, and has lost an outcome
\* only if enough others were stored since, or much time has passed.
Remembered ==
  /\ put \in [Command -> Int]
  /\ raced \in [Command -> BOOLEAN]
  /\ IsFiniteSet(Stored)
  /\ \A k \in Command : put[k] <= clock
  /\ \A k \in DOMAIN cache : put[k] >= 0 /\ cache[k].storedAt = put[k]
  /\ \A k \in Command \ DOMAIN cache : ~Kept(k)

\* Two posts of a command that are served together raced; so did one that is
\* served while another's outcome is there.
Races ==
  \A c \in Command : ~raced[c] =>
    /\ \A r, q \in Request : Carries(r, c) /\ Carries(q, c) => r = q
    /\ c \in DOMAIN cache => \A r \in Request : ~Carries(r, c)

\* A command that took effect, and did not race or lapse, did so once, and every
\* later post of it will find its outcome.
Turn(c) ==
  ~raced[c] /\ ~lapsed[c] /\ applied[c] > 0 =>
    /\ applied[c] = 1
    /\ put[c] >= 0 \/ \E r \in Request : At(r, "remembering") /\ requests[r].command = c
    /\ \A r \in Request : ~(At(r, "serving") /\ requests[r].command = c)

TurnsInv ==
  /\ CommandsInv
  /\ lapsed \in [Command -> BOOLEAN]
  /\ Remembered
  /\ Races
  /\ \A c \in Command : Turn(c)

\* What displaces an outcome is finite in number.
LEMMA DisplacingFinite ==
  ASSUME Remembered, NEW k \in Command, put[k] >= 0
  PROVE  /\ IsFiniteSet(Displacing(k))
         /\ Cardinality(Displacing(k)) \in Nat
<1>1. Displacing(k) \subseteq Stored
  BY DEF Displacing, Stored, Remembered
<1> QED
  BY <1>1, FS_Subset, FS_CardinalityType DEF Remembered

\* An outcome that may be gone stays so until it is stored anew.
LEMMA KeptNoLonger ==
  ASSUME Remembered, NEW k \in Command, ~Kept(k),
         clock \in Int, clock' \in Int, clock' >= clock,
         put' \in [Command -> Int], IsFiniteSet(Stored'),
         put'[k] = put[k], \A d \in Command : put'[d] >= put[d],
         \A d \in Command : raced[d] => raced'[d]
  PROVE  ~Kept(k)'
<1> SUFFICES ASSUME Kept(k)' PROVE FALSE
  OBVIOUS
<1>1. put'[k] >= 0 /\ clock' - put'[k] <= RememberTTL /\ Cardinality(Displacing(k)') < Room'
  BY DEF Kept
<1>2. put[k] >= 0 /\ clock - put[k] <= RememberTTL
  BY <1>1, CommandsAssumption DEF Remembered
<1>3. Displacing(k) \subseteq Displacing(k)'
  BY DEF Displacing, Remembered
<1>4. Displacing(k)' \subseteq Stored'
  BY <1>1 DEF Displacing, Stored
<1>5. IsFiniteSet(Displacing(k)')
  BY <1>4, FS_Subset
<1>6. Cardinality(Displacing(k)) <= Cardinality(Displacing(k)')
  BY <1>3, <1>5, FS_Subset
<1>7. Room' <= Room /\ Room \in Int /\ Room' \in Int
  BY CommandsAssumption DEF Room
<1>8. Cardinality(Displacing(k)) \in Nat /\ Cardinality(Displacing(k)') \in Nat
  BY <1>2, <1>5, DisplacingFinite, FS_CardinalityType
<1>9. Cardinality(Displacing(k)) < Room
  BY <1>1, <1>6, <1>7, <1>8
<1> QED
  BY <1>2, <1>9 DEF Kept

LEMMA InitTurns == Init => TurnsInv
<1> SUFFICES ASSUME Init PROVE TurnsInv
  OBVIOUS
<1>1. DOMAIN cache = {} /\ \A c \in Command : put[c] = -1
  BY DEF Init
<1>2. Stored = {}
  BY <1>1 DEF Stored
<1>3. Remembered
  BY <1>1, <1>2, FS_EmptySet DEF Remembered, Kept, Init, LimiterInit
<1>4. Races
  BY DEF Races, Carries, Init, NoRequest
<1>5. \A c \in Command : Turn(c)
  BY DEF Turn, Init
<1> QED
  BY <1>3, <1>4, <1>5, InitCommands DEF TurnsInv, Init

\* Nothing but time passes, and posts begin or end without an effect: the turns
\* are kept.
LEMMA TurnsUntouched ==
  ASSUME TurnsInv, CommandsInv', UNCHANGED <<cache, histories>>,
         clock' >= clock,
         \A r \in Request, c \in Command : Carries(r, c)' => Carries(r, c) /\ requests'[r] = requests[r],
         \A r \in Request, c \in Command : At(r, "remembering") => requests'[r] = requests[r]
  PROVE  TurnsInv'
<1>1. UNCHANGED <<cache, applied, put, raced, lapsed>>
  BY DEF histories
<1>2. clock \in Int /\ clock' \in Int
  BY DEF TurnsInv, CommandsInv, CacheInv
<1>3. Stored' = Stored
  BY <1>1 DEF Stored
<1>4. Remembered'
  <2>1. ASSUME NEW k \in Command \ DOMAIN cache PROVE ~Kept(k)'
    BY <1>1, <1>2, <1>3, KeptNoLonger DEF TurnsInv, Remembered
  <2> QED
    BY <1>1, <1>2, <1>3, <2>1 DEF TurnsInv, Remembered
<1>5. Races'
  BY <1>1 DEF TurnsInv, Races
<1>6. ASSUME NEW c \in Command PROVE Turn(c)'
  <2> SUFFICES ASSUME ~raced[c], ~lapsed[c], applied[c] > 0
               PROVE  /\ applied[c] = 1
                      /\ put[c] >= 0 \/ \E r \in Request : At(r, "remembering")' /\ requests'[r].command = c
                      /\ \A r \in Request : ~(At(r, "serving")' /\ requests'[r].command = c)
    BY <1>1 DEF Turn
  <2>1. /\ applied[c] = 1
        /\ put[c] >= 0 \/ \E r \in Request : At(r, "remembering") /\ requests[r].command = c
        /\ \A r \in Request : ~(At(r, "serving") /\ requests[r].command = c)
    BY DEF TurnsInv, Turn
  <2>2. ASSUME NEW r \in Request, At(r, "serving")', requests'[r].command = c PROVE FALSE
    BY <2>1, <2>2 DEF Carries, At
  <2> QED
    BY <2>1, <2>2 DEF At
<1> QED
  BY <1>1, <1>4, <1>5, <1>6 DEF TurnsInv

\* Carrying a command out: it did not take effect before, or it raced or lapsed.
LEMMA ServeTurns ==
  ASSUME TurnsInv, NEW r \in Request, Serve(r)
  PROVE  TurnsInv'
<1> DEFINE c == requests[r].command
<1>1. c \in Command /\ At(r, "serving")
  BY RequestType DEF Serve, TurnsInv, CommandsInv, Stage
<1>2. /\ UNCHANGED <<clock, cache, put, raced, lapsed>> /\ Advance(r, "remembering")
      /\ applied' = [applied EXCEPT ![c] = @ + 1]
  BY DEF Serve, limiterVars
<1>3. /\ requests'[r].command = c /\ requests'[r].at = "remembering"
      /\ \A q \in Request \ {r} : requests'[q] = requests[q]
  BY <1>1, <1>2, AdvanceType, RequestType DEF Advance, TurnsInv, CommandsInv, CacheInv, Stage
<1>4. CommandsInv'
  BY ServeKeeps DEF TurnsInv
<1> HIDE DEF c
<1>5. Remembered'
  <2>1. Stored' = Stored
    BY <1>2 DEF Stored
  <2>2. \A k \in Command : Kept(k)' = Kept(k)
    BY <1>2 DEF Kept, Displacing, Room
  <2> QED
    BY <1>2, <2>1, <2>2 DEF TurnsInv, Remembered
<1>6. \A q \in Request, d \in Command : Carries(q, d)' <=> Carries(q, d)
  BY <1>1, <1>3 DEF Carries, At, c
<1>7. Races'
  BY <1>2, <1>6 DEF TurnsInv, Races
<1>8. ASSUME NEW d \in Command PROVE Turn(d)'
  <2> SUFFICES ASSUME ~raced[d], ~lapsed[d], applied'[d] > 0
               PROVE  /\ applied'[d] = 1
                      /\ put[d] >= 0 \/ \E q \in Request : At(q, "remembering")' /\ requests'[q].command = d
                      /\ \A q \in Request : ~(At(q, "serving")' /\ requests'[q].command = d)
    BY <1>2 DEF Turn
  <2>1. applied \in [Command -> Nat]
    BY DEF TurnsInv, CommandsInv, OutcomeInv
  <2>2. CASE d = c
    <3>1. ~(applied[c] > 0)
      BY <1>1, <2>2 DEF TurnsInv, Turn, c
    <3>2. applied'[d] = 1
      BY <1>1, <1>2, <2>1, <2>2, <3>1
    <3>3. At(r, "remembering")' /\ requests'[r].command = d
      BY <1>3, <2>2 DEF At
    <3>4. ASSUME NEW q \in Request, At(q, "serving")', requests'[q].command = d PROVE FALSE
      <4>1. q # r
        BY <3>3, <3>4 DEF At
      <4>2. Carries(q, d)' /\ Carries(r, d)'
        BY <3>3, <3>4 DEF Carries, At
      <4> QED
        BY <1>2, <1>7, <4>1, <4>2 DEF Races
    <3> QED
      BY <3>2, <3>3, <3>4
  <2>3. CASE d # c
    <3>1. applied'[d] = applied[d]
      BY <1>1, <1>2, <2>1, <2>3
    <3>2. \A q \in Request : requests'[q].command = d =>
            q # r /\ At(q, "serving")' = At(q, "serving") /\ requests'[q] = requests[q]
      BY <1>3, <2>3 DEF At
    <3>3. \A q \in Request : At(q, "remembering") /\ requests[q].command = d =>
            At(q, "remembering")' /\ requests'[q].command = d
      BY <1>1, <1>3 DEF At
    <3>4. /\ applied[d] = 1
          /\ put[d] >= 0 \/ \E q \in Request : At(q, "remembering") /\ requests[q].command = d
          /\ \A q \in Request : ~(At(q, "serving") /\ requests[q].command = d)
      BY <3>1 DEF TurnsInv, Turn
    <3> QED
      BY <3>1, <3>2, <3>3, <3>4
  <2> QED
    BY <2>2, <2>3
<1> QED
  BY <1>2, <1>4, <1>5, <1>7, <1>8 DEF TurnsInv

\* A post that finds an outcome ends with it; one that finds none begins to be
\* served, and notes what kept it from finding one.
LEMMA DedupeTurns ==
  ASSUME TurnsInv, NEW r \in Request, Dedupe(r)
  PROVE  TurnsInv'
<1> DEFINE c == requests[r].command
<1>1. c \in Command /\ At(r, "deduping")
  BY RequestType DEF Dedupe, TurnsInv, CommandsInv, Stage
<1>2. UNCHANGED <<clock, applied, put>>
  BY DEF Dedupe, limiterVars
<1>3. CommandsInv'
  BY DedupeKeeps DEF TurnsInv
<1>4. clock \in Int
  BY DEF TurnsInv, CommandsInv, CacheInv
<1>5. CASE c \in DOMAIN cache /\ ~Expired(c)
  <2>1. Over(r) /\ UNCHANGED <<cache, raced, lapsed>>
    BY <1>5 DEF Dedupe, Scoped
  <2>2. /\ requests'[r] = NoRequest
        /\ \A q \in Request \ {r} : requests'[q] = requests[q]
    BY <1>1, <2>1, AdvanceType DEF TurnsInv, CommandsInv, Stage
  <2>3. \A q \in Request, d \in Command : Carries(q, d)' => Carries(q, d)
    BY <2>2 DEF Carries, NoRequest
  <2>4. \A q \in Request :
          /\ At(q, "remembering")' = At(q, "remembering")
          /\ At(q, "serving")' = At(q, "serving")
          /\ At(q, "remembering") \/ At(q, "serving") => requests'[q] = requests[q]
    BY <1>1, <2>2 DEF At, NoRequest
  <2>5. Remembered'
    <3>1. Stored' = Stored
      BY <1>2 DEF Stored
    <3>2. \A k \in Command : Kept(k)' = Kept(k)
      BY <1>2, <2>1 DEF Kept, Displacing, Room
    <3> QED
      BY <1>2, <2>1, <3>1, <3>2 DEF TurnsInv, Remembered
  <2>6. Races'
    BY <2>1, <2>3 DEF TurnsInv, Races
  <2>7. ASSUME NEW d \in Command PROVE Turn(d)'
    BY <1>2, <2>1, <2>4 DEF TurnsInv, Turn
  <2> QED
    BY <1>3, <2>1, <2>5, <2>6, <2>7 DEF TurnsInv
<1>6. CASE ~(c \in DOMAIN cache /\ ~Expired(c))
  <2>1. /\ cache' = Without(cache, {c}) /\ Advance(r, "serving")
        /\ raced' = [raced EXCEPT ![c] = @ \/ \E q \in Request \ {r} :
                       requests[q].at \in {"serving", "remembering"} /\ requests[q].command = c]
        /\ lapsed' = [lapsed EXCEPT ![c] = @ \/ (put[c] >= 0 /\ ~Kept(c))]
    BY <1>6 DEF Dedupe, Scoped
  <2>2. /\ requests'[r].command = c /\ requests'[r].at = "serving"
        /\ \A q \in Request \ {r} : requests'[q] = requests[q]
    BY <1>1, <2>1, AdvanceType, RequestType DEF Advance, TurnsInv, CommandsInv, CacheInv, Stage
  <2>3. ~Kept(c)
    <3>1. CASE c \in DOMAIN cache
      <4>1. cache[c].storedAt = put[c] /\ put[c] \in Int
        BY <1>1, <3>1 DEF TurnsInv, Remembered
      <4>2. ~(clock - put[c] <= RememberTTL)
        BY <1>4, <1>6, <3>1, <4>1, CommandsAssumption DEF Expired
      <4> QED
        BY <4>2 DEF Kept
    <3>2. CASE c \notin DOMAIN cache
      BY <1>1, <3>2 DEF TurnsInv, Remembered
    <3> QED BY <3>1, <3>2
  <2> HIDE DEF c
  <2>4. /\ raced \in [Command -> BOOLEAN] /\ raced' \in [Command -> BOOLEAN]
        /\ lapsed \in [Command -> BOOLEAN] /\ lapsed' \in [Command -> BOOLEAN]
        /\ \A d \in Command : (raced[d] => raced'[d]) /\ (lapsed[d] => lapsed'[d])
        /\ raced'[c] <=> (raced[c] \/ \E q \in Request \ {r} : Carries(q, c))
        /\ lapsed'[c] <=> (lapsed[c] \/ put[c] >= 0)
    <3>1. raced \in [Command -> BOOLEAN] /\ lapsed \in [Command -> BOOLEAN]
      BY DEF TurnsInv, Remembered
    <3> QED
      BY <1>1, <2>1, <2>3, <3>1 DEF Carries
  <2>5. DOMAIN cache' = DOMAIN cache \ {c} /\ \A k \in DOMAIN cache' : cache'[k] = cache[k]
    BY <2>1 DEF Without
  <2>6. Remembered'
    <3>1. Stored' = Stored /\ IsFiniteSet(Stored) /\ put \in [Command -> Int]
      BY <1>2 DEF Stored, TurnsInv, Remembered
    <3>2. ASSUME NEW k \in Command \ DOMAIN cache' PROVE ~Kept(k)'
      <4>1. ~Kept(k)
        BY <2>3, <2>5 DEF TurnsInv, Remembered
      <4> QED
        BY <1>2, <1>4, <2>4, <3>1, <4>1, KeptNoLonger DEF TurnsInv
    <3> QED
      BY <1>2, <2>4, <2>5, <3>1, <3>2 DEF TurnsInv, Remembered
  <2>7. Races'
    <3> SUFFICES ASSUME NEW d \in Command, ~raced'[d]
                 PROVE  /\ \A p, q \in Request : Carries(p, d)' /\ Carries(q, d)' => p = q
                        /\ d \in DOMAIN cache' => \A q \in Request : ~Carries(q, d)'
      BY DEF Races
    <3>1. ~raced[d]
      BY <2>4
    <3>2. /\ \A p, q \in Request : Carries(p, d) /\ Carries(q, d) => p = q
          /\ d \in DOMAIN cache => \A q \in Request : ~Carries(q, d)
      BY <3>1 DEF TurnsInv, Races
    <3>3. \A q \in Request : Carries(q, d)' <=> (Carries(q, d) /\ q # r) \/ (q = r /\ d = c)
      BY <2>2 DEF Carries
    <3>4. CASE d = c
      <4>1. \A q \in Request \ {r} : ~Carries(q, d)
        BY <2>4, <3>4
      <4> QED
        BY <2>5, <3>3, <3>4, <4>1
    <3>5. CASE d # c
      BY <2>5, <3>2, <3>3, <3>5
    <3> QED BY <3>4, <3>5
  <2>8. ASSUME NEW d \in Command PROVE Turn(d)'
    <3> SUFFICES ASSUME ~raced'[d], ~lapsed'[d], applied[d] > 0
                 PROVE  /\ applied[d] = 1
                        /\ put[d] >= 0 \/ \E q \in Request : At(q, "remembering")' /\ requests'[q].command = d
                        /\ \A q \in Request : ~(At(q, "serving")' /\ requests'[q].command = d)
      BY <1>2 DEF Turn
    <3>1. /\ applied[d] = 1
          /\ put[d] >= 0 \/ \E q \in Request : At(q, "remembering") /\ requests[q].command = d
          /\ \A q \in Request : ~(At(q, "serving") /\ requests[q].command = d)
      BY <2>4 DEF TurnsInv, Turn
    <3>2. d # c
      <4> SUFFICES ASSUME d = c PROVE FALSE
        OBVIOUS
      <4>1. PICK q \in Request : At(q, "remembering") /\ requests[q].command = d
        BY <2>4, <3>1
      <4>2. q # r /\ Carries(q, d)
        BY <1>1, <4>1 DEF At, Carries
      <4> QED
        BY <2>4, <4>2
    <3>3. \A q \in Request : At(q, "remembering") /\ requests[q].command = d =>
            At(q, "remembering")' /\ requests'[q].command = d
      BY <1>1, <2>2 DEF At
    <3>4. \A q \in Request : At(q, "serving")' /\ requests'[q].command = d =>
            At(q, "serving") /\ requests[q].command = d
      BY <2>2, <3>2 DEF At
    <3> QED
      BY <3>1, <3>3, <3>4
  <2> QED
    BY <1>3, <2>4, <2>6, <2>7, <2>8 DEF TurnsInv
<1> QED
  BY <1>5, <1>6

\* Storing an outcome: what it displaces has fallen behind as many others as the
\* cache holds, or one fewer if a command raced.
LEMMA RememberTurns ==
  ASSUME TurnsInv, NEW r \in Request, Remember(r)
  PROVE  TurnsInv'
<1> DEFINE c == requests[r].command
           full == Cardinality(DOMAIN cache) >= MaxEntries
<1>1. c \in Command /\ At(r, "remembering")
  BY RequestType DEF Remember, TurnsInv, CommandsInv, Stage
<1>2. /\ UNCHANGED <<clock, applied, raced, lapsed>>
      /\ put' = [put EXCEPT ![c] = clock]
  BY DEF Remember, limiterVars
<1>3. PICK gone \in IF full THEN Evicted ELSE {{}} :
        cache' = [k \in (DOMAIN cache \ gone) \union {c} |->
                    IF k = c THEN [of |-> c, storedAt |-> clock] ELSE cache[k]]
  BY DEF Remember, Scoped
<1>4. /\ requests'[r] = NoRequest
      /\ \A q \in Request \ {r} : requests'[q] = requests[q]
  BY <1>1, AdvanceType DEF Remember, TurnsInv, CommandsInv, Stage
<1>5. CommandsInv'
  BY RememberKeeps DEF TurnsInv
<1>6. /\ clock \in Nat /\ IsFiniteSet(DOMAIN cache) /\ DOMAIN cache \subseteq Command
      /\ Cardinality(DOMAIN cache) <= MaxEntries /\ Cardinality(DOMAIN cache) \in Nat
  BY FS_CardinalityType DEF TurnsInv, CommandsInv, CacheInv
<1>7. Carries(r, c)
  BY <1>1 DEF Carries, At
<1>8. c \in DOMAIN cache => raced[c]
  BY <1>1, <1>7 DEF TurnsInv, Races
<1> HIDE DEF c
<1>9. /\ put \in [Command -> Int] /\ put' \in [Command -> Int] /\ put'[c] = clock
      /\ \A k \in Command : put'[k] >= put[k] /\ put'[k] <= clock
      /\ \A k \in Command \ {c} : put'[k] = put[k]
  BY <1>1, <1>2, <1>6 DEF TurnsInv, Remembered
<1>10. DOMAIN cache' = (DOMAIN cache \ gone) \union {c}
       /\ \A k \in DOMAIN cache' : cache'[k] = IF k = c THEN [of |-> c, storedAt |-> clock] ELSE cache[k]
  BY <1>3
<1>11. IsFiniteSet(Stored) /\ IsFiniteSet(Stored')
  <2>1. IsFiniteSet(Stored)
    BY DEF TurnsInv, Remembered
  <2>2. IsFiniteSet(Stored \union {c})
    BY <2>1, FS_AddElement
  <2>3. Stored' \subseteq Stored \union {c}
    BY <1>9 DEF Stored
  <2> QED
    BY <2>1, <2>2, <2>3, FS_Subset
<1>12. ASSUME NEW k \in gone \ {c}, full PROVE ~Kept(k)'
  <2> DEFINE fresh == {j \in DOMAIN cache : ~Expired(j)}
  <2>1. k \in DOMAIN cache
    BY <1>3, <1>12 DEF Evicted, Oldest
  <2>2. k \in Command /\ k # c /\ put'[k] = put[k] /\ cache[k].storedAt = put[k] /\ put[k] >= 0
    BY <1>6, <1>9, <2>1 DEF TurnsInv, Remembered
  <2>3. CASE Cardinality(fresh) < MaxEntries
    <3>1. Expired(k)
      BY <1>3, <1>12, <2>1, <2>3 DEF Evicted
    <3>2. ~(clock - put[k] <= RememberTTL)
      BY <1>6, <1>9, <2>2, <3>1, CommandsAssumption DEF Expired
    <3> QED
      BY <1>2, <2>2, <3>2 DEF Kept
  <2>4. CASE ~(Cardinality(fresh) < MaxEntries)
    <3>1. k \in fresh /\ \A j \in fresh : cache[k].storedAt <= cache[j].storedAt
      BY <1>3, <1>12, <2>4 DEF Evicted, Oldest
    <3>2. IsFiniteSet(fresh) /\ Cardinality(fresh) <= Cardinality(DOMAIN cache)
          /\ Cardinality(fresh) \in Nat
      BY <1>6, FS_Subset, FS_CardinalityType
    <3>3. Cardinality(fresh) = MaxEntries
      BY <1>6, <2>4, <3>2, CommandsAssumption
    <3>4. \A j \in fresh : j \in Command /\ put[j] >= put[k] /\ put'[j] >= put'[k]
      <4> TAKE j \in fresh
      <4>1. j \in Command /\ cache[j].storedAt = put[j]
        BY <1>6 DEF TurnsInv, Remembered
      <4>2. put[j] >= put[k] /\ put'[j] >= put[j]
        BY <1>9, <2>2, <3>1, <4>1
      <4> QED
        BY <1>9, <2>2, <4>1, <4>2
    <3> HIDE DEF fresh
    <3> DEFINE behind == (fresh \ {k}) \union {c}
    <3>5. behind \subseteq Displacing(k)'
      BY <1>1, <1>6, <1>9, <2>2, <3>4 DEF Displacing, TurnsInv, Remembered
    <3>6. /\ IsFiniteSet(fresh \ {k}) /\ Cardinality(fresh \ {k}) = MaxEntries - 1
      BY <3>1, <3>2, <3>3, FS_RemoveElement
    <3>7. IsFiniteSet(behind) /\ Cardinality(behind) =
            IF c \in fresh \ {k} THEN MaxEntries - 1 ELSE (MaxEntries - 1) + 1
      BY <3>6, FS_AddElement
    <3>8. c \in fresh => raced'[c]
      BY <1>2, <1>8 DEF fresh
    <3>9. Cardinality(behind) >= Room'
      BY <1>1, <2>2, <3>7, <3>8, CommandsAssumption DEF Room
    <3>10. IsFiniteSet(Displacing(k)')
      <4>1. Displacing(k)' \subseteq Stored'
        BY <1>9, <2>2 DEF Displacing, Stored
      <4> QED
        BY <1>11, <4>1, FS_Subset
    <3> HIDE DEF behind
    <3>11. Cardinality(behind) <= Cardinality(Displacing(k)')
      BY <3>5, <3>10, FS_Subset
    <3>12. /\ Cardinality(behind) \in Nat /\ Cardinality(Displacing(k)') \in Nat
           /\ Room' \in Int
      BY <3>7, <3>10, FS_CardinalityType, CommandsAssumption DEF Room
    <3>13. ~(Cardinality(Displacing(k)') < Room')
      BY <3>9, <3>11, <3>12
    <3> QED
      BY <3>13 DEF Kept
  <2> QED
    BY <2>3, <2>4
<1>13. Remembered'
  <2>1. ASSUME NEW k \in Command \ DOMAIN cache' PROVE ~Kept(k)'
    <3>1. k # c /\ k \in Command
      BY <1>10
    <3>2. CASE k \in DOMAIN cache
      BY <1>3, <1>10, <1>12, <3>1, <3>2
    <3>3. CASE k \notin DOMAIN cache
      <4>1. ~Kept(k)
        BY <3>3 DEF TurnsInv, Remembered
      <4>2. Remembered
        BY DEF TurnsInv
      <4>3. clock \in Int /\ clock' \in Int /\ clock' >= clock /\ raced' = raced
        BY <1>2, <1>6
      <4> QED
        BY <1>9, <1>11, <3>1, <4>1, <4>2, <4>3, KeptNoLonger
    <3> QED BY <3>2, <3>3
  <2>2. ASSUME NEW k \in DOMAIN cache' PROVE put'[k] >= 0 /\ cache'[k].storedAt = put'[k]
    <3>1. CASE k = c
      BY <1>6, <1>9, <1>10, <3>1
    <3>2. CASE k # c
      BY <1>6, <1>9, <1>10, <3>2 DEF TurnsInv, Remembered
    <3> QED BY <3>1, <3>2
  <2> QED
    BY <1>2, <1>9, <1>11, <2>1, <2>2 DEF TurnsInv, Remembered
<1>14. \A q \in Request, d \in Command : Carries(q, d)' => Carries(q, d) /\ q # r
  BY <1>4 DEF Carries, NoRequest
<1>15. Races'
  <2> SUFFICES ASSUME NEW d \in Command, ~raced[d]
               PROVE  /\ \A p, q \in Request : Carries(p, d)' /\ Carries(q, d)' => p = q
                      /\ d \in DOMAIN cache' => \A q \in Request : ~Carries(q, d)'
    BY <1>2 DEF Races
  <2>1. /\ \A p, q \in Request : Carries(p, d) /\ Carries(q, d) => p = q
        /\ d \in DOMAIN cache => \A q \in Request : ~Carries(q, d)
    BY DEF TurnsInv, Races
  <2>2. ASSUME d \in DOMAIN cache', NEW q \in Request, Carries(q, d)' PROVE FALSE
    <3>1. Carries(q, d) /\ q # r
      BY <1>14, <2>2
    <3>2. CASE d = c
      BY <1>7, <2>1, <3>1, <3>2
    <3>3. CASE d # c
      BY <1>10, <2>1, <2>2, <3>1, <3>3
    <3> QED BY <3>2, <3>3
  <2> QED
    BY <1>14, <2>1, <2>2
<1>16. ASSUME NEW d \in Command PROVE Turn(d)'
  <2> SUFFICES ASSUME ~raced[d], ~lapsed[d], applied[d] > 0
               PROVE  /\ applied[d] = 1
                      /\ put'[d] >= 0 \/ \E q \in Request : At(q, "remembering")' /\ requests'[q].command = d
                      /\ \A q \in Request : ~(At(q, "serving")' /\ requests'[q].command = d)
    BY <1>2 DEF Turn
  <2>1. /\ applied[d] = 1
        /\ put[d] >= 0 \/ \E q \in Request : At(q, "remembering") /\ requests[q].command = d
        /\ \A q \in Request : ~(At(q, "serving") /\ requests[q].command = d)
    BY DEF TurnsInv, Turn
  <2>2. \A q \in Request : ~(At(q, "serving")' /\ requests'[q].command = d)
    BY <1>4, <2>1 DEF At, NoRequest
  <2>3. CASE d = c
    BY <1>6, <1>9, <2>1, <2>2, <2>3
  <2>4. CASE d # c
    <3>1. \A q \in Request : At(q, "remembering") /\ requests[q].command = d =>
            At(q, "remembering")' /\ requests'[q].command = d
      BY <1>4, <2>4 DEF At, c
    <3> QED
      BY <1>9, <2>1, <2>2, <2>4, <3>1
  <2> QED BY <2>3, <2>4
<1> QED
  BY <1>2, <1>5, <1>13, <1>15, <1>16 DEF TurnsInv

LEMMA TurnsStep == TurnsInv /\ [Next]_commandVars => TurnsInv'
<1> SUFFICES ASSUME TurnsInv, [Next]_commandVars PROVE TurnsInv'
  OBVIOUS
<1>1. CommandsInv'
  BY CommandsStep DEF TurnsInv
<1>2. clock \in Int /\ CacheInv
  BY DEF TurnsInv, CommandsInv, CacheInv
<1>3. CASE Wait
  <2>1. UNCHANGED <<requests, cache, histories>> /\ clock' >= clock
    BY <1>2, <1>3 DEF Wait, Elapse, cacheVars
  <2> QED
    BY <1>1, <2>1, TurnsUntouched DEF Carries
<1>4. ASSUME NEW r \in Request, NEW c \in Command, Post(r, c) PROVE TurnsInv'
  <2>1. UNCHANGED <<cache, histories>> /\ clock' >= clock
    BY <1>2, <1>4 DEF Post, Allow
  <2>2. /\ At(r, "none") /\ \A q \in Request \ {r} : requests'[q] = requests[q]
        /\ requests'[r] = requests[r] \/ requests'[r].at = "authenticating"
    BY <1>2, <1>4 DEF Post, Ask, CacheInv
  <2>3. \A q \in Request, d \in Command : Carries(q, d)' => Carries(q, d) /\ requests'[q] = requests[q]
    BY <2>2 DEF Carries, At
  <2>4. \A q \in Request, d \in Command : At(q, "remembering") => requests'[q] = requests[q]
    BY <2>2 DEF At
  <2> QED
    BY <1>1, <2>1, <2>3, <2>4, TurnsUntouched
<1>5. ASSUME NEW r \in Request, Authenticate(r) \/ Refuse(r) PROVE TurnsInv'
  <2>1. UNCHANGED <<cache, histories>> /\ clock' >= clock
    BY <1>2, <1>5 DEF Authenticate, Refuse, limiterVars
  <2>2. PICK s \in {"authenticating", "serving"} : At(r, s) /\ (Advance(r, "deduping") \/ Over(r))
    BY <1>5 DEF Authenticate, Refuse
  <2>3. \A q \in Request \ {r} : requests'[q] = requests[q]
    BY <1>2, <2>2, AdvanceType DEF Stage
  <2>4. requests'[r].at \in {"deduping", "none"}
    BY <1>2, <2>2, RequestType DEF Advance, Over, NoRequest, CacheInv, Stage
  <2>5. \A q \in Request, d \in Command : Carries(q, d)' => Carries(q, d) /\ requests'[q] = requests[q]
    BY <2>3, <2>4 DEF Carries
  <2>6. \A q \in Request, d \in Command : At(q, "remembering") => requests'[q] = requests[q]
    BY <2>2, <2>3 DEF At
  <2> QED
    BY <1>1, <2>1, <2>5, <2>6, TurnsUntouched
<1>6. CASE UNCHANGED commandVars
  <2>1. UNCHANGED <<requests, cache, histories>> /\ clock' >= clock
    BY <1>2, <1>6 DEF commandVars, limiterVars, cacheVars
  <2> QED
    BY <1>1, <2>1, TurnsUntouched DEF Carries
<1> QED
  BY <1>3, <1>4, <1>5, <1>6, DedupeTurns, ServeTurns, RememberTurns DEF Next

\* A command takes effect a second time only if posts of it were served at the
\* same time, or if its outcome was old or as many had come after it as the cache
\* holds.
THEOREM AlwaysAppliedOnceInTurn == Spec => []AppliedOnceInTurn
<1>1. TurnsInv => AppliedOnceInTurn
  <2> SUFFICES ASSUME TurnsInv, NEW c \in Command, applied[c] > 1, ~raced[c], ~lapsed[c]
               PROVE  FALSE
    BY DEF AppliedOnceInTurn
  <2>1. applied[c] \in Nat
    BY DEF TurnsInv, CommandsInv, OutcomeInv
  <2> QED
    BY <2>1 DEF TurnsInv, Turn
<1> QED
  BY <1>1, InitTurns, TurnsStep, PTL DEF Spec

=============================================================================
