------------------------------ MODULE Retention ------------------------------
(***************************************************************************)
(* How long things are kept: guest sessions and their extension on use, the *)
(* runs they create and the recording of those, the retention sweep, the    *)
(* showcase mark, and the curated runs cmd/server provisions each time it   *)
(* starts, over a process that may stop at any point and be started again.  *)
(*                                                                          *)
(* Two servers are given the same calls: one on Postgres, which decides     *)
(* what the calls are, and one on the in-memory store, so that the two      *)
(* implementations of the Store contract are compared all along.  A call    *)
(* that fails changes neither.                                              *)
(*                                                                          *)
(* Time passes in ticks; a request takes none.  In the code a session lives *)
(* an hour, a run two, and the sweep runs every five minutes (here: at any  *)
(* time).                                                                   *)
(***************************************************************************)
EXTENDS Integers, Sequences, FiniteSets

CONSTANTS Token,      \* guest tokens a process may issue
          GuestRun,   \* ids of visitors' runs
          Curated,    \* DefaultShowcaseRuns: the ids, in order
          SessionTTL, RunTTL, TouchInterval, Quota,
          MaxTime,    \* bound: the last moment looked at
          MaxEvents,  \* bound: events a run emits
          MaxCrashes  \* bound: times the process stops

CuratedRun == {Curated[i] : i \in DOMAIN Curated}
Run == GuestRun \union CuratedRun

Mem == INSTANCE MemoryStore
Pg  == INSTANCE PostgresStore

\* A token is never empty, and the first event of a run is its opening snapshot.
ASSUME RetentionAssumption ==
  /\ GuestRun \intersect CuratedRun = {}
  /\ Curated \in Seq(CuratedRun)
  /\ Mem!NoOwner \notin Token
  /\ SessionTTL \in Nat \ {0} /\ RunTTL \in Nat \ {0}
  /\ TouchInterval \in 1..SessionTTL
  /\ MaxEvents \in Nat \ {0}
  /\ {Quota, MaxTime, MaxCrashes} \subseteq Nat

VARIABLES
  now,       \* the clock
  pg, mem,   \* the two stores
  boot,      \* how far the process has started: [step, next] (next: in Curated)
  touched,   \* Sessions.touched: when a token was last extended
  live,      \* live[r]: the manager's entry of the run: its owner, and how many
             \* events its actor has emitted; NotLive when there is none
  pending,   \* pending[r]: events the run's recorder has queued or batched and
             \* not yet written
  marking,   \* runs whose showcase request has its snapshot and is not marked yet
  crashes,   \* how often the process has stopped
  used,      \* history: when a token was last accepted
  refused,   \* history: when a token's last extension failed, 0 if it did not
  cutOff     \* history: curated runs whose provisioning a stop interrupted

process == <<boot, touched, live, pending, marking>>
history == <<crashes, used, refused, cutOff>>
retentionVars == <<now, pg, mem, process, history>>

Serving == boot.step = "serving"

NotLive == [owner |-> Mem!NoOwner, events |-> 0]

\* A call of the store: both are given it.
Store(onPg, onMem) == pg' = onPg /\ mem' = onMem

\* A call whose failure is logged, and the program goes on.
TryStore(onPg, onMem) == Store(onPg, onMem) \/ UNCHANGED <<pg, mem>>

-----------------------------------------------------------------------------
(***************************************************************************)
(* Start: ProvisionShowcases, once per curated run, then the listener.      *)
(***************************************************************************)
Provisioning(s) == boot.step = s /\ boot.next <= Len(Curated)

NextRun == [step |-> "check", next |-> boot.next + 1]

\* A curated run that is already a showcase is left alone.
CheckShowcase ==
  LET c == Curated[boot.next]
  IN  /\ Provisioning("check")
      /\ boot' = IF c \in DOMAIN pg.rows /\ pg.rows[c].showcase THEN NextRun
                 ELSE [boot EXCEPT !.step = "create"]
      /\ UNCHANGED <<now, pg, mem, touched, live, pending, marking, history>>

ShowcaseRow == [owner |-> Mem!NoOwner, showcase |-> TRUE, expires |-> Mem!Never]

\* generateShowcase: the row, then its events, then its final snapshot.
GenerateCreate ==
  LET c == Curated[boot.next]
  IN  /\ Provisioning("create")
      /\ Store(Pg!CreateSimulation(pg, c, ShowcaseRow), Mem!CreateSimulation(mem, c, ShowcaseRow))
      /\ boot' = [boot EXCEPT !.step = "append"]
      /\ UNCHANGED <<now, touched, live, pending, marking, history>>

\* mutant: the events are never written.
GenerateAppendNothing ==
  /\ Provisioning("append")
  /\ boot' = [boot EXCEPT !.step = "snapshot"]
  /\ UNCHANGED <<now, pg, mem, touched, live, pending, marking, history>>

GenerateAppend ==
  LET c == Curated[boot.next]
  IN  /\ Provisioning("append")
      /\ Store(Pg!AppendEvents(pg, c, 1..MaxEvents), Mem!AppendEvents(mem, c, 1..MaxEvents))
      /\ boot' = [boot EXCEPT !.step = "snapshot"]
      /\ UNCHANGED <<now, touched, live, pending, marking, history>>

GenerateSnapshot ==
  LET c == Curated[boot.next]
  IN  /\ Provisioning("snapshot")
      /\ Store(Pg!SaveSnapshot(pg, c, MaxEvents), Mem!SaveSnapshot(mem, c, MaxEvents))
      /\ boot' = NextRun
      /\ UNCHANGED <<now, touched, live, pending, marking, history>>

\* The listener opens.
Listen ==
  /\ boot = [step |-> "check", next |-> Len(Curated) + 1]
  /\ boot' = [boot EXCEPT !.step = "serving"]
  /\ UNCHANGED <<now, pg, mem, touched, live, pending, marking, history>>

Provision == CheckShowcase \/ GenerateCreate \/ GenerateAppend \/ GenerateSnapshot \/ Listen

\* The process stops, for whatever reason (a failing write of provisioning is
\* one), and is started again: what it held in memory is gone.
Crash ==
  /\ crashes < MaxCrashes
  /\ crashes' = crashes + 1
  /\ boot' = [step |-> "check", next |-> 1]
  /\ touched' = [t \in Token |-> 0]
  /\ live' = [r \in Run |-> NotLive]
  /\ pending' = [r \in Run |-> {}]
  /\ marking' = {}
  /\ mem' = Mem!Empty
  /\ cutOff' = IF boot.step \in {"append", "snapshot"}
               THEN cutOff \union {Curated[boot.next]} ELSE cutOff
  /\ UNCHANGED <<now, pg, used, refused>>

-----------------------------------------------------------------------------
(***************************************************************************)
(* Sessions                                                                 *)
(***************************************************************************)
\* Sessions.Issue: a fresh token.
Issue(t) ==
  /\ Serving
  /\ used[t] = 0 /\ t \notin DOMAIN pg.sessions
  /\ Store(Pg!CreateGuestSession(pg, t, now + SessionTTL),
           Mem!CreateGuestSession(mem, t, now + SessionTTL))
  /\ used' = [used EXCEPT ![t] = now]
  /\ UNCHANGED <<now, process, crashes, refused, cutOff>>

\* Sessions.Validate and Expired: who may make a request.
Valid(t) == t \in DOMAIN pg.sessions /\ ~Mem!Past(pg.sessions[t], now)

\* Sessions.extend: at most once per touchInterval; a token the process has not
\* touched yet (the zero time) is due.
Due(t) == touched[t] = 0 \/ now - touched[t] >= TouchInterval

\* mutant: the interval is noted and the session forgotten.
UseNoting(t) ==
  /\ Serving
  /\ Valid(t)
  /\ touched' = [touched EXCEPT ![t] = now]
  /\ used' = [used EXCEPT ![t] = now]
  /\ UNCHANGED <<now, pg, mem, boot, live, pending, marking, crashes, refused, cutOff>>

\* The interval is noted before the store is asked; should the store fail, the
\* request goes on, and the session is not extended before the next interval.
Extend(t) ==
  /\ touched' = [touched EXCEPT ![t] = now]
  /\ \/ /\ Store(Pg!TouchGuestSession(pg, t, now + SessionTTL),
                 Mem!TouchGuestSession(mem, t, now + SessionTTL))
        /\ refused' = [refused EXCEPT ![t] = 0]
     \/ /\ UNCHANGED <<pg, mem>>
        /\ refused' = [refused EXCEPT ![t] = now]

\* An authenticated request.
Use(t) ==
  /\ Serving
  /\ Valid(t)
  /\ IF Due(t) THEN Extend(t) ELSE UNCHANGED <<touched, pg, mem, refused>>
  /\ used' = [used EXCEPT ![t] = now]
  /\ UNCHANGED <<now, boot, live, pending, marking, crashes, cutOff>>

-----------------------------------------------------------------------------
(***************************************************************************)
(* Runs                                                                     *)
(***************************************************************************)
\* Runs the manager tracks for a session.
Held(t) == Cardinality({r \in Run : live[r].owner = t})

\* checkQuota: the store's count is left out if it cannot be had.
WithinQuota(t) ==
  /\ Held(t) < Quota
  /\ \E counted \in BOOLEAN : counted => Mem!CountFor(pg, t) < Quota

\* Manager.Create for a session that has just been validated: the quota, the
\* row with its expiry, if the store takes it, and the actor, which has yet to
\* emit its first event.
Create(t, r) ==
  LET row == [owner |-> t, showcase |-> FALSE, expires |-> now + RunTTL]
  IN  /\ Serving
      /\ used[t] = now /\ Valid(t)
      /\ r \notin DOMAIN pg.rows /\ r \notin DOMAIN mem.rows
      /\ pg.log[r] = {} /\ mem.log[r] = {} /\ live[r] = NotLive
      /\ WithinQuota(t)
      /\ TryStore(Pg!CreateSimulation(pg, r, row), Mem!CreateSimulation(mem, r, row))
      /\ live' = [live EXCEPT ![r] = [owner |-> t, events |-> 0]]
      /\ UNCHANGED <<now, boot, touched, pending, marking, history>>

\* The actor of a live run emits an event, the opening snapshot first.  The
\* recorder queues it, or drops it when its queue is full.
Emit(r) ==
  LET n == live[r].events + 1
  IN  /\ live[r] # NotLive /\ n <= MaxEvents
      /\ live' = [live EXCEPT ![r].events = n]
      /\ \/ pending' = [pending EXCEPT ![r] = @ \union {n}]
         \/ pending[r] # {} /\ UNCHANGED pending
      /\ UNCHANGED <<now, pg, mem, boot, touched, marking, history>>

\* The recorder writes a batch of what is pending, oldest first; one that fails
\* is lost.
WriteBatch(r) ==
  \E last \in pending[r] :
    LET batch == {n \in pending[r] : n <= last}
    IN  /\ TryStore(Pg!AppendEvents(pg, r, batch), Mem!AppendEvents(mem, r, batch))
        /\ pending' = [pending EXCEPT ![r] = @ \ batch]
        /\ UNCHANGED <<now, boot, touched, live, marking, history>>

\* A snapshot comes straight from the actor, at the event it emitted last,
\* whatever of that is still pending or lost.
Snapshotted(r) ==
  /\ live[r].events > 0
  /\ TryStore(Pg!SaveSnapshot(pg, r, live[r].events), Mem!SaveSnapshot(mem, r, live[r].events))

\* The recorder's periodic snapshot, after any number of events written.
SnapshotRun(r) ==
  /\ Snapshotted(r)
  /\ UNCHANGED <<now, process, history>>

\* Manager.MarkShowcase on a live run: its final snapshot; then the flush, which
\* is batches being written, unless it takes too long ...
SaveFinal(t, r) ==
  /\ Serving
  /\ used[t] = now /\ Valid(t)
  /\ live[r].owner = t /\ r \notin marking
  /\ Snapshotted(r)
  /\ marking' = marking \union {r}
  /\ UNCHANGED <<now, boot, touched, live, pending, history>>

\* ... and the mark; a run that is not live is marked at once.
Mark(t, r) ==
  /\ Serving
  /\ \/ r \in marking /\ live[r].owner = t
     \/ live[r] = NotLive /\ used[t] = now /\ Valid(t)
  /\ TryStore(Pg!MarkShowcase(pg, r), Mem!MarkShowcase(mem, r))
  /\ marking' = marking \ {r}
  /\ UNCHANGED <<now, boot, touched, live, pending, history>>

-----------------------------------------------------------------------------
\* Retention.Sweep
Sweep ==
  /\ Serving
  /\ Store(Pg!PurgeExpired(pg, now), Mem!PurgeExpired(mem, now))
  /\ UNCHANGED <<now, process, history>>

Pass ==
  /\ now < MaxTime
  /\ now' = now + 1
  /\ UNCHANGED <<pg, mem, process, history>>

Init ==
  /\ now = 1
  /\ pg = Mem!Empty /\ mem = Mem!Empty
  /\ boot = [step |-> "check", next |-> 1]
  /\ touched = [t \in Token |-> 0]
  /\ live = [r \in Run |-> NotLive]
  /\ pending = [r \in Run |-> {}]
  /\ marking = {}
  /\ crashes = 0
  /\ used = [t \in Token |-> 0]
  /\ refused = [t \in Token |-> 0]
  /\ cutOff = {}

Next ==
  \/ Provision \/ Crash \/ Sweep \/ Pass
  \/ \E t \in Token : Issue(t) \/ Use(t)
  \/ \E t \in Token, r \in GuestRun : Create(t, r) \/ SaveFinal(t, r) \/ Mark(t, r)
  \/ \E r \in GuestRun : Emit(r) \/ WriteBatch(r) \/ SnapshotRun(r)

Spec == Init /\ [][Next]_retentionVars

\* The process starts up and its ticker keeps sweeping, between crashes.
FairSpec == Spec /\ WF_retentionVars(Provision) /\ WF_retentionVars(Sweep)

-----------------------------------------------------------------------------
(***************************************************************************)
(* Properties                                                               *)
(***************************************************************************)
\* The two stores answer alike until a restart empties the in-memory one: the
\* same sessions and rows, and the same history for every run that has a row,
\* whatever is swept while runs are live and writing.  In Postgres a run without
\* a row has no history.
StoresAgree ==
  /\ \A r \in Run : pg.log[r] # {} \/ pg.snaps[r] # {} => r \in DOMAIN pg.rows
  /\ crashes = 0 =>
       /\ pg.sessions = mem.sessions /\ pg.rows = mem.rows
       /\ \A r \in DOMAIN pg.rows : pg.log[r] = mem.log[r] /\ pg.snaps[r] = mem.snaps[r]

\* A session stays good for SessionTTL after it was last used, less what
\* extending it only now and then may cost, through sweeps and restarts, unless
\* its last extension failed; and that is tried again by the first request
\* TouchInterval later.
SessionsOutliveUse ==
  \A t \in Token : used[t] # 0 =>
    /\ refused[t] = 0 /\ now - used[t] <= SessionTTL - TouchInterval => Valid(t)
    /\ refused[t] # 0 => used[t] - refused[t] < TouchInterval

\* Whatever is swept, a showcase stays, with everything recorded of it, and
\* stays a showcase; its history only grows.
ShowcasesStay ==
  [][\A r \in DOMAIN pg.rows : pg.rows[r].showcase =>
       /\ r \in DOMAIN pg'.rows /\ pg'.rows[r].showcase
       /\ pg.log[r] \subseteq pg'.log[r] /\ pg.snaps[r] \subseteq pg'.snaps[r]]_retentionVars

Complete(c) ==
  c \in DOMAIN pg.rows /\ pg.rows[c].showcase /\ pg.log[c] # {} /\ pg.snaps[c] # {}

\* When the listener opens every curated run is there to be replayed, unless
\* its provisioning was once cut off half way.
CuratedReady == Serving => \A c \in CuratedRun \ cutOff : Complete(c)

\* An anonymous run that has expired is collected, or made a showcase before
\* the sweep gets to it, however often the process is restarted.
RunsAreSwept ==
  \A r \in GuestRun :
    (r \in Mem!Collected(pg, now)) ~> (r \notin DOMAIN pg.rows \/ pg.rows[r].showcase)

-----------------------------------------------------------------------------
(***************************************************************************)
(* What the repository says and the code does not do.                       *)
(***************************************************************************)
\* "so a showcase URL never 404s on a freshly deployed instance"
\* (cmd/server/main.go); "makes sure every curated run exists in the store,
\* generating any that do not" (service/showcase.go).
CuratedAlwaysReady == Serving => \A c \in CuratedRun : Complete(c)

\* "so an active visitor's runs are never pruned out from under them"
\* (service/sessions.go, store/store.go).
ActiveRunsStay ==
  [][\A r \in DOMAIN pg.rows \ DOMAIN pg'.rows :
       pg.rows[r].owner \in Token => used[pg.rows[r].owner] # now]_retentionVars

\* "The event log always opens with the simulation.snapshot the run emitted at
\* sequence 1" (replay/reader.go).
LogOpensAtOne == \A r \in Run, st \in {pg, mem} : st.log[r] # {} => 1 \in st.log[r]

=============================================================================
