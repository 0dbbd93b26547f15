------------------------------- MODULE Manager -------------------------------
(***************************************************************************)
(* The simulation manager of internal/service: requests of several sessions *)
(* served at once, each taking the manager's mutex for one critical section *)
(* at a time and letting go of it in between, the runs' actors draining     *)
(* their command buffers meanwhile, and the shutdown cmd/server performs.   *)
(*                                                                          *)
(* A run is its entry in the manager, the bounded buffer of commands its    *)
(* actor has still to handle and the number of orders the actor holds; what *)
(* the commands do besides is module Simulation's.  The API never names the *)
(* id of a run to create, so every new run gets a fresh one.                *)
(***************************************************************************)
EXTENDS Integers, Sequences, FiniteSets

CONSTANTS Request,    \* requests served at the same time
          Session,    \* guest tokens
          Run,        \* bound: ids of the runs one process ever creates
          Max,        \* ManagerConfig.Max
          Quota,      \* runs one session may hold
          MaxOrders,  \* MaxOrdersPerRun
          Buffer      \* capacity of Simulation.commands

ASSUME ManagerAssumption ==
  /\ IsFiniteSet(Request) /\ IsFiniteSet(Run)
  /\ Max \in Nat \ {0} /\ Max <= Cardinality(Run)
  /\ Quota \in Nat \ {0}
  /\ MaxOrders \in Nat \ {0}
  /\ Buffer \in Nat \ {0}

VARIABLES
  entries,  \* Manager.entries: owner and order count of every run it tracks
  actor,    \* actor[r]: the run's goroutine, its commands and its orders
  req,      \* req[q]: what request q is doing
  server,   \* how far cmd/server's shutdown has got
  late,     \* history: the waits of the shutdown that ran into their timeout
  raced,    \* history: runs whose reset overlapped with the placing of an order
  recording \* runs whose recorder's writer has not closed done

managerVars == <<entries, actor, req, server, late, raced, recording>>

Op == {"create", "place", "reset", "command", "snapshot"}

NoActor == [state |-> "none", inbox |-> <<>>, held |-> 0]

Idle == [step |-> "idle"]

\* The first thing a handler asks of the manager.
FirstStep == [create |-> "quota", place |-> "reserve", reset |-> "lookup",
              command |-> "lookup", snapshot |-> "lookup"]

Goto(q, s) == req' = [req EXCEPT ![q].step = s]
Return(q)  == req' = [req EXCEPT ![q] = Idle]

At(q, s) == server # "exited" /\ req[q].step = s

Tracked == DOMAIN entries

\* authorize: a run is reachable by the session that made it only.
Authorized(q) == req[q].run \in Tracked /\ entries[req[q].run].owner = req[q].session

OwnedBy(s) == {r \in Tracked : entries[r].owner = s}

\* Orders of run r that hold a slot but have not been submitted yet.
Reserving(r) ==
  {q \in Request : /\ req[q].step \in {"lookup", "send", "release"}
                   /\ req[q].op = "place" /\ req[q].run = r}

\* Resets of run r that are submitted and have yet to clear its count.
Clearing(r) == {q \in Request : req[q].step = "clear" /\ req[q].run = r}

-----------------------------------------------------------------------------
(***************************************************************************)
(* Requests.  The listener accepts them while the server is serving.        *)
(***************************************************************************)
Arrive(q) ==
  /\ server = "serving"
  /\ req[q] = Idle
  /\ \E s \in Session, op \in Op, r \in Run :
       req' = [req EXCEPT ![q] = IF op = "create"
                                 THEN [step |-> "quota", op |-> op, session |-> s]
                                 ELSE [step |-> FirstStep[op], op |-> op, session |-> s, run |-> r]]
  /\ UNCHANGED <<entries, actor, server, late, raced, recording>>

\* mutant: a session at its quota may still create a run.
CheckQuotaLate(q) ==
  /\ At(q, "quota")
  /\ \/ Cardinality(OwnedBy(req[q].session)) <= Quota /\ Goto(q, "insert")
     \/ Return(q)
  /\ UNCHANGED <<entries, actor, server, late, raced, recording>>

\* checkQuota: a session that holds its quota is refused; the store may know
\* of other instances' runs and refuse it earlier.
CheckQuota(q) ==
  /\ At(q, "quota")
  /\ \/ Cardinality(OwnedBy(req[q].session)) < Quota /\ Goto(q, "insert")
     \/ Return(q)
  /\ UNCHANGED <<entries, actor, server, late, raced, recording>>

\* mutant: the capacity was looked at before the lock was taken.
InsertUnchecked(q) ==
  /\ At(q, "insert")
  /\ \E r \in Run :
       /\ actor[r] = NoActor
       /\ actor' = [actor EXCEPT ![r].state = "running"]
       /\ recording' = recording \union {r}
       /\ entries' = [t \in Tracked \union {r} |->
                        IF t = r THEN [owner |-> req[q].session, orders |-> 0] ELSE entries[t]]
  /\ Return(q)
  /\ UNCHANGED <<server, late, raced>>

\* The second critical section of Create.
Insert(q) ==
  /\ At(q, "insert")
  /\ IF Cardinality(Tracked) >= Max
     THEN UNCHANGED <<entries, actor, recording>>
     ELSE \E r \in Run :
            /\ actor[r] = NoActor
            /\ actor' = [actor EXCEPT ![r].state = "running"]
            /\ recording' = recording \union {r}
            /\ entries' = [t \in Tracked \union {r} |->
                             IF t = r THEN [owner |-> req[q].session, orders |-> 0]
                             ELSE entries[t]]
  /\ Return(q)
  /\ UNCHANGED <<server, late, raced>>

\* reserveOrder: claim a slot, or refuse (unknown run, not its owner, full).
ReserveOrder(q) ==
  LET r == req[q].run
  IN  /\ At(q, "reserve")
      /\ IF Authorized(q) /\ entries[r].orders < MaxOrders
         THEN /\ entries' = [entries EXCEPT ![r].orders = @ + 1]
              /\ Goto(q, "lookup")
              /\ raced' = IF Clearing(r) # {} THEN raced \union {r} ELSE raced
         ELSE Return(q) /\ UNCHANGED <<entries, raced>>
      /\ UNCHANGED <<actor, server, late, recording>>

\* Where a submit that fails leads: PlaceOrder gives its slot back.
Fail(q) == IF req[q].op = "place" THEN Goto(q, "release") ELSE Return(q)

\* The critical section of submit, and of Authorize and Get for a snapshot.
Lookup(q) ==
  /\ At(q, "lookup")
  /\ IF Authorized(q)
     THEN Goto(q, IF req[q].op = "snapshot" THEN "query" ELSE "send")
     ELSE Fail(q)
  /\ UNCHANGED <<entries, actor, server, late, raced, recording>>

\* mutant: an order refused by a full buffer keeps its slot.
SendKeepingSlot(q) ==
  LET r    == req[q].run
      room == Len(actor[r].inbox) < Buffer
  IN  /\ At(q, "send")
      /\ actor' = IF room THEN [actor EXCEPT ![r].inbox = Append(@, req[q].op)] ELSE actor
      /\ IF room /\ req[q].op = "reset" THEN Goto(q, "clear") ELSE Return(q)
      /\ UNCHANGED <<entries, server, late, raced, recording>>

\* TrySubmitCtx: the command goes into the actor's buffer unless that is full,
\* whether the actor still runs or not.
Send(q) ==
  LET r    == req[q].run
      room == Len(actor[r].inbox) < Buffer
  IN  /\ At(q, "send")
      /\ actor' = IF room THEN [actor EXCEPT ![r].inbox = Append(@, req[q].op)] ELSE actor
      /\ IF ~room THEN Fail(q)
         ELSE IF req[q].op = "reset" THEN Goto(q, "clear")
         ELSE Return(q)
      /\ raced' = IF room /\ req[q].op = "reset" /\ Reserving(r) # {}
                  THEN raced \union {r} ELSE raced
      /\ UNCHANGED <<entries, server, late, recording>>

\* releaseOrder
ReleaseOrder(q) ==
  LET r == req[q].run
  IN  /\ At(q, "release")
      /\ entries' = IF r \in Tracked /\ entries[r].orders > 0
                    THEN [entries EXCEPT ![r].orders = @ - 1] ELSE entries
      /\ Return(q)
      /\ UNCHANGED <<actor, server, late, raced, recording>>

\* Reset's second critical section, after its command is in the buffer.
ClearOrders(q) ==
  LET r == req[q].run
  IN  /\ At(q, "clear")
      /\ entries' = IF r \in Tracked THEN [entries EXCEPT ![r].orders = 0] ELSE entries
      /\ Return(q)
      /\ UNCHANGED <<actor, server, late, raced, recording>>

\* CurrentSnapshot is answered from the actor's select.
Answer(q) ==
  /\ At(q, "query")
  /\ actor[req[q].run].state \in {"running", "cancelled"}
  /\ Return(q)
  /\ UNCHANGED <<entries, actor, server, late, raced, recording>>

Handle(q) ==
  \/ CheckQuota(q) \/ Insert(q)
  \/ ReserveOrder(q) \/ Lookup(q) \/ Send(q) \/ ReleaseOrder(q) \/ ClearOrders(q)
  \/ Answer(q)

-----------------------------------------------------------------------------
(***************************************************************************)
(* Actors                                                                   *)
(***************************************************************************)
\* The orders an actor holds after one more command.
After(held, op) == CASE op = "place" -> held + 1 [] op = "reset" -> 0 [] OTHER -> held

\* Run handles the next command.  Once cancelled its select may still do so, or
\* the actor returns and takes no more steps; nobody waits for that.
ActorStep(r) ==
  /\ server # "exited"
  /\ actor[r].state \in {"running", "cancelled"}
  /\ actor[r].inbox # <<>>
  /\ actor' = [actor EXCEPT ![r].inbox = Tail(@),
                            ![r].held = After(@, Head(actor[r].inbox))]
  /\ UNCHANGED <<entries, req, server, late, raced, recording>>

\* The recorder's writer closes done: in its own case of the cancelled context,
\* whether the actor has returned or not and whatever is still queued, or when
\* the returned actor's queue is closed and empty (module EventPipeline).
RecorderDone(r) ==
  /\ server # "exited"
  /\ r \in recording /\ actor[r].state = "cancelled"
  /\ recording' = recording \ {r}
  /\ UNCHANGED <<entries, actor, req, server, late, raced>>

-----------------------------------------------------------------------------
(***************************************************************************)
(* Shutdown: cmd/server's run and Manager.Shutdown.                         *)
(***************************************************************************)
\* A signal arrives: httpServer.Shutdown closes the listener.
Signal ==
  /\ server = "serving"
  /\ server' = "draining"
  /\ UNCHANGED <<entries, actor, req, late, raced, recording>>

\* It returns when no request is left or after shutdownTimeout.
Drained ==
  /\ server = "draining"
  /\ late' = IF \A q \in Request : req[q] = Idle THEN late ELSE late \union {"http"}
  /\ server' = "stopping"
  /\ UNCHANGED <<entries, actor, req, raced, recording>>

\* mutant: only the runs that are idle are cancelled.
ShutdownIdleRuns ==
  /\ server = "stopping"
  /\ entries' = <<>>
  /\ actor' = [r \in Run |-> IF r \in Tracked /\ actor[r].inbox = <<>>
                             THEN [actor[r] EXCEPT !.state = "cancelled"] ELSE actor[r]]
  /\ server' = "waiting"
  /\ UNCHANGED <<req, late, raced, recording>>

\* Manager.Shutdown takes the entries away and cancels their runs.
Shutdown ==
  /\ server = "stopping"
  /\ entries' = <<>>
  /\ actor' = [r \in Run |-> IF r \in Tracked THEN [actor[r] EXCEPT !.state = "cancelled"]
                             ELSE actor[r]]
  /\ server' = "waiting"
  /\ UNCHANGED <<req, late, raced, recording>>

\* It waits until the recorders of the runs it cancelled are done, at most
\* shutdownFlushTimeout; then the store is closed and the process ends.
Exit ==
  /\ server = "waiting"
  /\ late' = IF \A r \in recording : actor[r].state # "cancelled" THEN late ELSE late \union {"flush"}
  /\ server' = "exited"
  /\ UNCHANGED <<entries, actor, req, raced, recording>>

Ended == server = "exited" /\ UNCHANGED managerVars

-----------------------------------------------------------------------------
Init ==
  /\ entries = <<>>
  /\ actor = [r \in Run |-> NoActor]
  /\ req = [q \in Request |-> Idle]
  /\ server = "serving"
  /\ late = {}
  /\ raced = {}
  /\ recording = {}

Next ==
  \/ \E q \in Request : Arrive(q) \/ Handle(q)
  \/ \E r \in Run : ActorStep(r) \/ RecorderDone(r)
  \/ Signal \/ Drained \/ Shutdown \/ Exit \/ Ended

Spec == Init /\ [][Next]_managerVars

-----------------------------------------------------------------------------
(***************************************************************************)
(* Properties                                                               *)
(***************************************************************************)
\* The manager never tracks more runs than it may, although a request decides
\* to create one before it takes the lock under which it does.
CapacityHeld == Cardinality(Tracked) <= Max

\* A session's quota is checked in one critical section and used in another:
\* it can be overrun, but only by requests that were past the check together.
QuotaBound ==
  \A s \in Session :
    LET creating == {q \in Request : req[q].step = "insert" /\ req[q].session = s}
    IN  Cardinality(OwnedBy(s)) + Cardinality(creating) <= Quota + Cardinality(Request) - 1

\* The orders the run will hold once its actor has handled what is queued.
Outcome(r) ==
  LET held[i \in 0..Len(actor[r].inbox)] ==
        IF i = 0 THEN actor[r].held ELSE After(held[i-1], actor[r].inbox[i])
  IN  held[Len(actor[r].inbox)]

\* The count of a run's slots is what it holds, what is queued and what is
\* being submitted, through refused submissions and resets, as long as no
\* reset overlapped with the placing of an order; and it never exceeds the
\* limit nor falls below zero, even then.
SlotsExact ==
  \A r \in Tracked :
    /\ entries[r].orders \in 0..MaxOrders
    /\ r \notin raced /\ Clearing(r) = {} =>
         entries[r].orders = Outcome(r) + Cardinality(Reserving(r))

\* A shutdown that no request outlived has cancelled every run there ever was,
\* those created by the last requests included; one that gave up on nothing has
\* no recorder still writing to the store that is closed next.  It says nothing of
\* what a recorder had queued, nor that the actors have returned.
CleanShutdown ==
  server = "exited" =>
    /\ "http" \notin late => \A r \in Run : actor[r].state # "running"
    /\ late = {} => recording = {}

-----------------------------------------------------------------------------
(***************************************************************************)
(* What the repository says and the code does not do.                       *)
(***************************************************************************)
\* "MaxOrdersPerRun bounds how many orders one simulation will accept"
\* (service/manager.go).
OrderLimitHeld == \A r \in Run : actor[r].held <= MaxOrders

=============================================================================
