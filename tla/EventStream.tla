----------------------------- MODULE EventStream -----------------------------
(***************************************************************************)
(* How the events of one simulation reach browsers: the actor publishes on  *)
(* a bounded channel, a forwarder moves each event on, the hub fans it out  *)
(* to the subscribers' bounded channels, and one handler per websocket      *)
(* connection writes a snapshot and then the newer events.  Each of them is *)
(* a goroutine, and so is each connection's reader, which notices that the  *)
(* browser has gone.                                                        *)
(*                                                                          *)
(* This is the server without a store, where the recorder only forwards;    *)
(* EventPipeline adds the recording.  An event is its sequence number, and  *)
(* `emitted` remembers which of them are full snapshots (the first event of *)
(* a run and the one a reset emits).  The actor, the forwarder and the hub  *)
(* pass events on one at a time in order, so their positions in the stream  *)
(* say what every channel between them holds.                               *)
(***************************************************************************)
EXTENDS Integers, Sequences

CONSTANTS Client,     \* websocket connections
          ChannelCap, \* capacity of Simulation.events and of Tap's out
          SubCap,     \* capacity of a subscriber's channel
          MaxEvents   \* bound: events a run emits

ASSUME StreamAssumption ==
  /\ ChannelCap \in Nat \ {0}
  /\ SubCap \in Nat \ {0}
  /\ MaxEvents \in Nat \ {0}

VARIABLES
  emitted,    \* emitted[n]: the type of the event with sequence number n
  published,  \* the last event the actor has put on Simulation.events
  actor,      \* "running" or "exited" (Run has returned, events is closed)
  cancelled,  \* the run's context
  received,   \* the last event the forwarder has taken
  forwarded,  \* the last event it has passed on
  forwarder,  \* "running" or "ended" (out is closed)
  fanned,     \* the last event the hub has fanned out
  hub,        \* "running" or "ended"
  phase,      \* phase[c]: where the handler of connection c is
  left,       \* left[c]: the reader has noticed that the browser is gone
  sub,        \* sub[c]: what c's subscription channel holds
  seen,       \* seen[c]: the sequence numbers written to c, in order
  missed      \* missed[c]: the events the hub dropped for c

sourceVars == <<emitted, published, actor, cancelled>>
relayVars  == <<received, forwarded, forwarder, fanned, hub>>
clientVars == <<phase, left, sub, seen, missed>>
streamVars == <<sourceVars, relayVars, clientVars>>

Elements(s) == {s[i] : i \in DOMAIN s}

-----------------------------------------------------------------------------
(***************************************************************************)
(* The actor: Simulation.Run.                                               *)
(***************************************************************************)
\* The actor is in its select: everything it emitted has been published.
Selecting == actor = "running" /\ published = Len(emitted)

\* What a command or a tick emits: a few changes, or a reset's snapshot.
Emission == {<<"change">>, <<"change", "change">>, <<"snapshot">>}

\* handleTraced or tick, up to its call of publish.
Step ==
  /\ Selecting
  /\ \E e \in Emission : /\ Len(emitted) + Len(e) <= MaxEvents
                         /\ emitted' = emitted \o e
  /\ UNCHANGED <<published, actor, cancelled, relayVars, clientVars>>

\* One send of publish, which blocks while the channel is full.
Publish ==
  /\ published < Len(emitted)
  /\ published - received < ChannelCap
  /\ published' = published + 1
  /\ UNCHANGED <<emitted, actor, cancelled, relayVars, clientVars>>

\* The run's context is cancelled (Manager.Shutdown).
Cancel ==
  /\ ~cancelled
  /\ cancelled' = TRUE
  /\ UNCHANGED <<emitted, published, actor, relayVars, clientVars>>

\* mutant: Run returns without closing Simulation.events.
ActorExitUnclosed ==
  /\ Selecting
  /\ cancelled
  /\ actor' = "returned"
  /\ UNCHANGED <<emitted, published, cancelled, relayVars, clientVars>>

\* Run returns and closes Simulation.events.
ActorExit ==
  /\ Selecting
  /\ cancelled
  /\ actor' = "exited"
  /\ UNCHANGED <<emitted, published, cancelled, relayVars, clientVars>>

-----------------------------------------------------------------------------
(***************************************************************************)
(* The forwarder and the hub.                                               *)
(***************************************************************************)
\* The forwarder takes an event from Simulation.events.
Receive ==
  /\ received = forwarded
  /\ received < published
  /\ received' = received + 1
  /\ UNCHANGED <<sourceVars, forwarded, forwarder, fanned, hub, clientVars>>

\* It passes the event on, and blocks while out is full.
Forward ==
  /\ forwarded < received
  /\ forwarded - fanned < ChannelCap
  /\ forwarded' = forwarded + 1
  /\ UNCHANGED <<sourceVars, received, forwarder, fanned, hub, clientVars>>

\* mutant: the forwarder stops with the context.
ForwarderEndsOnCancel ==
  /\ forwarder = "running"
  /\ cancelled
  /\ received = forwarded
  /\ forwarder' = "ended"
  /\ UNCHANGED <<sourceVars, received, forwarded, fanned, hub, clientVars>>

\* Simulation.events is closed and empty: the forwarder closes out.
ForwarderEnd ==
  /\ forwarder = "running"
  /\ actor = "exited"
  /\ received = published
  /\ forwarded = received
  /\ forwarder' = "ended"
  /\ UNCHANGED <<sourceVars, received, forwarded, fanned, hub, clientVars>>

\* The connections registered with the hub.
Subscribers == {c \in Client : phase[c] \in {"asking", "live", "leaving"}}

\* mutant: the hub waits for room at every subscriber.
FanOutToAll ==
  /\ hub = "running"
  /\ fanned < forwarded
  /\ \A c \in Subscribers : Len(sub[c]) < SubCap
  /\ fanned' = fanned + 1
  /\ sub' = [c \in Client |-> IF c \in Subscribers THEN Append(sub[c], fanned + 1) ELSE sub[c]]
  /\ UNCHANGED <<sourceVars, received, forwarded, forwarder, hub, phase, left, seen, missed>>

\* Hub.run passes an event to every subscriber that has room for it, and drops
\* it for the others.
FanOut ==
  LET event == fanned + 1
  IN  /\ hub = "running"
      /\ fanned < forwarded
      /\ fanned' = event
      /\ sub' = [c \in Client |-> IF c \in Subscribers /\ Len(sub[c]) < SubCap
                                  THEN Append(sub[c], event) ELSE sub[c]]
      /\ missed' = [c \in Client |-> IF c \in Subscribers /\ Len(sub[c]) >= SubCap
                                     THEN missed[c] \union {event} ELSE missed[c]]
      /\ UNCHANGED <<sourceVars, received, forwarded, forwarder, hub, phase, left, seen>>

\* out is closed and empty: the hub closes every subscription and returns.
HubEnd ==
  /\ hub = "running"
  /\ forwarder = "ended"
  /\ fanned = forwarded
  /\ hub' = "ended"
  /\ UNCHANGED <<sourceVars, received, forwarded, forwarder, fanned, clientVars>>

-----------------------------------------------------------------------------
(***************************************************************************)
(* The handler of a connection.                                             *)
(***************************************************************************)
MoveTo(c, p) == phase' = [phase EXCEPT ![c] = p]

\* The upgrade has succeeded; the handler is about to subscribe.
Connect(c) ==
  /\ phase[c] = "away"
  /\ MoveTo(c, "subscribing")
  /\ UNCHANGED <<sourceVars, relayVars, left, sub, seen, missed>>

\* mutant: the snapshot is written before the connection subscribes.
SubscribeAfterSnapshot(c) ==
  /\ phase[c] = "subscribing"
  /\ \/ /\ seen[c] = <<>>
        /\ Selecting
        /\ seen' = [seen EXCEPT ![c] = <<Len(emitted)>>]
        /\ UNCHANGED phase
     \/ /\ seen[c] # <<>>
        /\ hub = "running"
        /\ MoveTo(c, "live")
        /\ UNCHANGED seen
  /\ UNCHANGED <<sourceVars, relayVars, left, sub, missed>>

\* Hub.Subscribe: needs the hub to take the registration.
Subscribe(c) ==
  /\ phase[c] = "subscribing"
  /\ hub = "running"
  /\ MoveTo(c, "asking")
  /\ UNCHANGED <<sourceVars, relayVars, left, sub, seen, missed>>

\* CurrentSnapshot is answered by the actor from its select, and written.  If
\* the connection is already closed the write fails and the handler returns.
WriteSnapshot(c) ==
  /\ phase[c] = "asking"
  /\ Selecting
  /\ IF left[c]
     THEN MoveTo(c, "leaving") /\ UNCHANGED seen
     ELSE MoveTo(c, "live") /\ seen' = [seen EXCEPT ![c] = <<Len(emitted)>>]
  /\ UNCHANGED <<sourceVars, relayVars, left, sub, missed>>

\* lastSeq
LastSeq(c) == CHOOSE n \in Elements(seen[c]) : \A m \in Elements(seen[c]) : m <= n

\* mutant: an event the snapshot already covers is written as well.
WriteEverything(c) ==
  /\ phase[c] = "live"
  /\ sub[c] # <<>>
  /\ ~left[c]
  /\ seen' = [seen EXCEPT ![c] = Append(@, Head(sub[c]))]
  /\ sub' = [sub EXCEPT ![c] = Tail(@)]
  /\ UNCHANGED <<sourceVars, relayVars, phase, left, missed>>

\* The handler takes an event: it skips what the client already has, except a
\* snapshot, and writes the rest.  A failed write ends it.
WriteEvent(c) ==
  LET event == Head(sub[c])
      skip  == event <= LastSeq(c) /\ emitted[event] # "snapshot"
  IN  /\ phase[c] = "live"
      /\ sub[c] # <<>>
      /\ sub' = [sub EXCEPT ![c] = Tail(@)]
      /\ \/ skip /\ UNCHANGED <<phase, seen>>
         \/ ~skip /\ ~left[c] /\ UNCHANGED phase /\ seen' = [seen EXCEPT ![c] = Append(@, event)]
         \/ ~skip /\ left[c] /\ MoveTo(c, "leaving") /\ UNCHANGED seen
      /\ UNCHANGED <<sourceVars, relayVars, left, missed>>

\* The browser goes away and the connection's reader notices.
Disconnect(c) ==
  /\ phase[c] \in {"subscribing", "asking", "live"}
  /\ ~left[c]
  /\ left' = [left EXCEPT ![c] = TRUE]
  /\ UNCHANGED <<sourceVars, relayVars, phase, sub, seen, missed>>

\* The handler's loop ends: the browser is gone, or the hub closed the
\* subscription and it is drained.
Leave(c) ==
  /\ phase[c] = "live"
  /\ left[c] \/ (hub = "ended" /\ sub[c] = <<>>)
  /\ MoveTo(c, "leaving")
  /\ UNCHANGED <<sourceVars, relayVars, left, sub, seen, missed>>

\* The deferred Hub.Unsubscribe: needs the hub to take the request.
Unsubscribe(c) ==
  /\ phase[c] = "leaving"
  /\ hub = "running"
  /\ MoveTo(c, "gone")
  /\ sub' = [sub EXCEPT ![c] = <<>>]
  /\ UNCHANGED <<sourceVars, relayVars, left, seen, missed>>

Handler(c) == Subscribe(c) \/ WriteSnapshot(c) \/ WriteEvent(c) \/ Leave(c) \/ Unsubscribe(c)

-----------------------------------------------------------------------------
\* Run emits the opening snapshot before its first select.
Init ==
  /\ emitted = <<"snapshot">>
  /\ published = 0
  /\ actor = "running"
  /\ cancelled = FALSE
  /\ received = 0 /\ forwarded = 0 /\ fanned = 0
  /\ forwarder = "running" /\ hub = "running"
  /\ phase = [c \in Client |-> "away"]
  /\ left = [c \in Client |-> FALSE]
  /\ sub = [c \in Client |-> <<>>]
  /\ seen = [c \in Client |-> <<>>]
  /\ missed = [c \in Client |-> {}]

Relay == Publish \/ Receive \/ Forward \/ FanOut \/ ForwarderEnd \/ HubEnd

Next ==
  \/ Step \/ Cancel \/ ActorExit
  \/ Relay
  \/ \E c \in Client : Connect(c) \/ Disconnect(c) \/ Handler(c)

Spec == Init /\ [][Next]_streamVars

\* The goroutines of the stream are scheduled: a send or a receive that stays
\* possible happens.  Run's select is fair among the cases that are ready, so
\* a cancelled actor sooner or later takes ctx.Done.
RelayFairness ==
  /\ WF_streamVars(Publish) /\ WF_streamVars(Receive) /\ WF_streamVars(Forward)
  /\ WF_streamVars(FanOut) /\ WF_streamVars(ForwarderEnd) /\ WF_streamVars(HubEnd)
  /\ SF_streamVars(ActorExit)

\* Nothing is assumed of the handlers: a connection may be as slow as it likes.
RelaySpec == Spec /\ RelayFairness

\* The handlers are scheduled as well.
ServedSpec == RelaySpec /\ \A c \in Client : WF_streamVars(Handler(c))

-----------------------------------------------------------------------------
(***************************************************************************)
(* Properties                                                               *)
(***************************************************************************)
Position == 0..MaxEvents

\* The types of the stream's state, and the bounds of its channels.
StreamTypeOK ==
  /\ emitted \in Seq({"snapshot", "change"}) /\ Len(emitted) \in 1..MaxEvents
  /\ published \in Position /\ received \in Position
  /\ forwarded \in Position /\ fanned \in Position
  /\ published - received \in 0..ChannelCap
  /\ forwarded - fanned \in 0..ChannelCap
  /\ received - forwarded \in 0..1
  /\ actor \in {"running", "exited"}
  /\ forwarder \in {"running", "ended"} /\ hub \in {"running", "ended"}
  /\ cancelled \in BOOLEAN
  /\ phase \in [Client -> {"away", "subscribing", "asking", "live", "leaving", "gone"}]
  /\ left \in [Client -> BOOLEAN]
  /\ sub \in [Client -> Seq(Position)] /\ \A c \in Client : Len(sub[c]) <= SubCap
  /\ seen \in [Client -> Seq(Position)]
  /\ missed \in [Client -> SUBSET Position]

\* Between its snapshot and the hub's position, a live connection has been
\* given, is about to be given, or was denied by a full channel, every event:
\* subscribing before asking for the snapshot leaves no hole.
NoHoleAfterSnapshot ==
  \A c \in Client : phase[c] = "live" =>
    \A n \in seen[c][1] + 1 .. fanned :
       n \in Elements(seen[c]) \union Elements(sub[c]) \union missed[c]

\* Apart from snapshots a connection is sent nothing it already has, directly
\* or as part of an earlier snapshot (TestReconnectSkipsAlreadySeenEvents).
ChangesOnlyMoveForward ==
  \A c \in Client : \A j \in DOMAIN seen[c] :
    j > 1 /\ emitted[seen[c][j]] = "change" => \A i \in 1..j-1 : seen[c][i] < seen[c][j]

\* The stream outlives the cancellation of the run: everything emitted before
\* the actor stopped has been fanned out when the hub closes the subscriptions.
StopsDrained == hub = "ended" => fanned = Len(emitted)

\* A slow browser never holds up the actor or the other viewers: every emitted
\* event is fanned out, whatever the connections' handlers do.
StreamFlows == \A n \in 1..MaxEvents : (Len(emitted) >= n) ~> (fanned >= n)

\* Once the run is cancelled the whole chain shuts down.
StreamStops == cancelled ~> (hub = "ended")

-----------------------------------------------------------------------------
(***************************************************************************)
(* What the repository says and the code does not do.                       *)
(***************************************************************************)
\* "On connect it sends a current snapshot and then only events newer than
\* that snapshot [...] with no gap or duplicate" (transport/ws/handler.go): the
\* changes after the last snapshot written, up to lastSeq, were all written
\* after it or dropped by the hub.
LastSnapshot(c) ==
  CHOOSE j \in DOMAIN seen[c] :
    /\ j = 1 \/ emitted[seen[c][j]] = "snapshot"
    /\ \A i \in j+1..Len(seen[c]) : emitted[seen[c][i]] = "change"

NoGap ==
  \A c \in Client : seen[c] # <<>> =>
    \A n \in seen[c][LastSnapshot(c)] + 1 .. LastSeq(c) :
       \/ n \in missed[c]
       \/ \E i \in LastSnapshot(c) + 1 .. Len(seen[c]) : seen[c][i] = n

\* "A client that falls behind gets its oldest queued events dropped and the
\* connection closed" (docs/architecture.md): nothing follows a gap.
NothingFollowsAGap ==
  \A c \in Client : \A m \in missed[c] : \A n \in Elements(seen[c]) :
     n > m => seen[c][1] >= m

\* The reader goroutine is there so that the handler and its subscription do
\* not outlive the browser (transport/ws/handler.go).
HandlerEnds == \A c \in Client : left[c] ~> (phase[c] = "gone")

=============================================================================
