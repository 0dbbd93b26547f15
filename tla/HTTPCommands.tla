---------------------------- MODULE HTTPCommands ----------------------------
(***************************************************************************)
(* A command's way through the middleware (internal/transport/http): the    *)
(* rate limiter, the session check, the cache that answers a command sent   *)
(* before, and the handler.  Requests run concurrently; the limiter, the    *)
(* session table and the cache lock only for one look or one change, so a   *)
(* request is interleaved with others between these steps.                  *)
(*                                                                          *)
(* A command is what a visitor means once: a session and an idempotency key *)
(* (with the path it is posted to).  A client may post it again at any time.*)
(*                                                                          *)
(* Bounds: MaxSends posts in all, Request at a time, MaxTime.               *)
(***************************************************************************)
EXTENDS RateLimiter

CONSTANTS Key,          \* idempotency keys, paths included
          Request,      \* requests that may be in flight at a time
          RememberTTL, MaxEntries,
          MaxSends

ASSUME CommandsAssumption ==
  RememberTTL \in Nat /\ MaxEntries \in Nat \ {0} /\ MaxSends \in Nat

Command == Caller \X Key

VARIABLES requests,  \* requests[r]: the command and how far it has come
          cache,     \* entries: by scoped key, whose outcome and when stored
          sends,     \* posts so far, for the bound
          applied,   \* history: how often a command took effect
          told,      \* history: the commands whose outcome was answered to c
          put,       \* history: when an outcome was last stored; -1 for never
          raced,     \* history: c began while an earlier post of it was served
          lapsed     \* history: c began again although its outcome may be gone

cacheVars == <<requests, cache, sends>>
histories == <<applied, told, put, raced, lapsed>>
commandVars == <<limiterVars, cacheVars, histories>>

NoRequest == [at |-> "none"]
Ask(c, stage) == [at |-> stage, command |-> c]
At(r, stage) == requests[r].at = stage

\* mutant: a key is shared by all sessions.
ScopedByKey(c) == c[2]

\* The cache's key of a command.
Scoped(c) == c

Without(f, gone) == [k \in DOMAIN f \ gone |-> f[k]]

\* Moving on: request r gets to a stage or is over, and its slot free again.
Advance(r, stage) == requests' = [requests EXCEPT ![r].at = stage]
Over(r) == requests' = [requests EXCEPT ![r] = NoRequest]

\* A post arrives and asks the limiter for its session's allowance.
Post(r, c) ==
  /\ At(r, "none")
  /\ sends < MaxSends
  /\ sends' = sends + 1
  /\ Allow(c[1])
  /\ requests' = [requests EXCEPT ![r] = IF allowed' THEN Ask(c, "authenticating") ELSE @]
  /\ UNCHANGED <<cache, histories>>

\* authenticate: the session is valid, or it is not or cannot be looked up.
Authenticate(r) ==
  /\ At(r, "authenticating")
  /\ Advance(r, "deduping") \/ Over(r)
  /\ UNCHANGED <<limiterVars, cache, sends, histories>>

Expired(k) == clock - cache[k].storedAt > RememberTTL

\* Commands stored at the same time or later than c, which may displace it; one
\* stored twice displaces another even when it takes no room of its own.
Displacing(c) == {d \in Command \ {c} : put[d] >= put[c]}
Room == IF \E d \in Command : raced[d] THEN MaxEntries - 1 ELSE MaxEntries
Kept(c) == put[c] >= 0 /\ clock - put[c] <= RememberTTL /\ Cardinality(Displacing(c)) < Room

\* idempotency, up to the handler: a remembered outcome is replayed (Get drops
\* one that has expired).
Dedupe(r) ==
  /\ At(r, "deduping")
  /\ LET c == requests[r].command
         k == Scoped(c)
     IN  IF k \in DOMAIN cache /\ ~Expired(k)
         THEN /\ told' = [told EXCEPT ![c] = @ \union {cache[k].of}]
              /\ Over(r)
              /\ UNCHANGED <<cache, raced, lapsed>>
         ELSE /\ cache' = Without(cache, {k})
              /\ Advance(r, "serving")
              /\ raced' = [raced EXCEPT ![c] = @ \/ \E q \in Request \ {r} :
                             requests[q].at \in {"serving", "remembering"} /\ requests[q].command = c]
              /\ lapsed' = [lapsed EXCEPT ![c] = @ \/ (put[c] >= 0 /\ ~Kept(c))]
              /\ UNCHANGED told
  /\ UNCHANGED <<limiterVars, sends, applied, put>>

\* The handler refuses the command or fails: nothing is remembered.
Refuse(r) ==
  /\ At(r, "serving")
  /\ Over(r)
  /\ UNCHANGED <<limiterVars, cache, sends, histories>>

\* mutant: a command's outcome is not remembered.
ServeOnly(r) ==
  /\ At(r, "serving")
  /\ Over(r)
  /\ LET c == requests[r].command
     IN  /\ applied' = [applied EXCEPT ![c] = @ + 1]
         /\ told' = [told EXCEPT ![c] = @ \union {c}]
  /\ UNCHANGED <<limiterVars, cache, sends, put, raced, lapsed>>

\* The handler carries it out and answers.
Serve(r) ==
  /\ At(r, "serving")
  /\ Advance(r, "remembering")
  /\ LET c == requests[r].command
     IN  /\ applied' = [applied EXCEPT ![c] = @ + 1]
         /\ told' = [told EXCEPT ![c] = @ \union {c}]
  /\ UNCHANGED <<limiterVars, cache, sends, put, raced, lapsed>>

Oldest(keys) == {k \in keys : \A j \in keys : cache[k].storedAt <= cache[j].storedAt}

\* mutant: whatever entry comes first is evicted.
EvictedAny ==
  LET fresh == {k \in DOMAIN cache : ~Expired(k)}
  IN  IF Cardinality(fresh) < MaxEntries THEN {DOMAIN cache \ fresh}
      ELSE {{k} : k \in fresh}

\* evict: what may go: everything expired and, when that makes no room, one of
\* the oldest entries.
Evicted ==
  LET fresh == {k \in DOMAIN cache : ~Expired(k)}
  IN  IF Cardinality(fresh) < MaxEntries THEN {DOMAIN cache \ fresh}
      ELSE {{k} : k \in Oldest(fresh)}

\* mutant: the capacity is not looked at.
RememberAll(r) ==
  /\ At(r, "remembering")
  /\ LET c == requests[r].command
     IN  /\ cache' = [k \in DOMAIN cache \union {Scoped(c)} |->
                        IF k = Scoped(c) THEN [of |-> c, storedAt |-> clock] ELSE cache[k]]
         /\ put' = [put EXCEPT ![c] = clock]
  /\ Over(r)
  /\ UNCHANGED <<limiterVars, sends, applied, told, raced, lapsed>>

\* idempotency, after the handler: Put, which makes room first when the cache is
\* full.
Remember(r) ==
  /\ At(r, "remembering")
  /\ LET c == requests[r].command
         full == Cardinality(DOMAIN cache) >= MaxEntries
     IN  /\ \E gone \in IF full THEN Evicted ELSE {{}} :
              cache' = [k \in (DOMAIN cache \ gone) \union {Scoped(c)} |->
                          IF k = Scoped(c) THEN [of |-> c, storedAt |-> clock] ELSE cache[k]]
         /\ put' = [put EXCEPT ![c] = clock]
  /\ Over(r)
  /\ UNCHANGED <<limiterVars, sends, applied, told, raced, lapsed>>

Wait == Elapse /\ UNCHANGED <<cacheVars, histories>>

Init ==
  /\ LimiterInit
  /\ requests = [r \in Request |-> NoRequest]
  /\ cache = [k \in {} |-> 0]
  /\ sends = 0
  /\ applied = [c \in Command |-> 0]
  /\ told = [c \in Command |-> {}]
  /\ put = [c \in Command |-> -1]
  /\ raced = [c \in Command |-> FALSE]
  /\ lapsed = [c \in Command |-> FALSE]

Next ==
  \/ Wait
  \/ \E r \in Request :
       \/ \E c \in Command : Post(r, c)
       \/ Authenticate(r) \/ Dedupe(r) \/ Refuse(r) \/ Serve(r) \/ Remember(r)

Spec == Init /\ [][Next]_commandVars

-----------------------------------------------------------------------------
\* The types, the limiter's and the cache's bounds (idempotency.go:13-16: "Past
\* it the oldest entries are dropped").
CommandsTypeOK ==
  /\ LimiterTypeOK
  /\ \A r \in Request : requests[r] = NoRequest
       \/ requests[r] \in [at : {"authenticating", "deduping", "serving", "remembering"},
                           command : Command]
  /\ Cardinality(DOMAIN cache) <= MaxEntries
  /\ cache \in [DOMAIN cache -> [of : Command, storedAt : 0..clock]]
  /\ sends \in 0..MaxSends

\* What a client is told of a command is the outcome of that command of its own,
\* and the command has taken effect (security.go:203-204, 216-217).  Commands need
\* a session; of the public route that issues sessions, which is left out and whose
\* keys are scoped to no session (security.go:205), it does not hold.
OutcomesAreOwn == \A c \in Command :
  told[c] # {} => told[c] = {c} /\ applied[c] > 0

\* A command posted again takes effect a second time only if the posts were
\* served at the same time, or if its outcome was old or many had come after it
\* (idempotency.go:9-16).
AppliedOnceInTurn == \A c \in Command : applied[c] > 1 => raced[c] \/ lapsed[c]

\* A command posted again is answered with its outcome rather than applied twice
\* (security.go:187-190): refuted, a retry that arrives while the first post is
\* being served finds nothing stored.
AppliedOnce == \A c \in Command : applied[c] > 1 => lapsed[c]

=============================================================================
