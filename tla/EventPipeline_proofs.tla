------------------------- MODULE EventPipeline_proofs -------------------------
(***************************************************************************)
(* The safety of the recorder, for any channel and queue capacities, batch  *)
(* sizes and lengths of run: the recorder does not disturb the stream, no   *)
(* event is recorded twice, out of order or lost without being counted, and *)
(* an answered flush covers what viewers had been sent.                     *)
(*                                                                          *)
(* The inductive invariant is PipelineInv.  Accounted is treated as a       *)
(* statement about three sequences, the log, the batch and the queue        *)
(* (AccountedOf), because one step of the writer moves events between them  *)
(* twice: a full batch is taken and written at once.                        *)
(***************************************************************************)
EXTENDS EventPipeline, Iteration_proofs

-----------------------------------------------------------------------------
(***************************************************************************)
(* The safety of the event stream, for any number of connections, any       *)
(* channel capacities and any length of run: what the stream has carried    *)
(* when it shuts down, and what a connection has been sent.                 *)
(*                                                                          *)
(* Two invariants carry the proofs.  ChainInv orders the stations of the    *)
(* stream and says what the end of each implies for those before it.        *)
(* ClientInv says of one connection that its subscription channel continues *)
(* what the handler took from it, in ascending order.                       *)
(***************************************************************************)

\* No station is ahead of the one before it (the channels' bounds in
\* StreamTypeOK), and one that has ended has passed on all it will ever get.
ChainInv ==
  /\ StreamTypeOK
  /\ published <= Len(emitted)
  /\ actor = "exited" => published = Len(emitted)
  /\ forwarder = "ended" => actor = "exited" /\ received = published /\ forwarded = received
  /\ hub = "ended" => forwarder = "ended" /\ fanned = forwarded

-----------------------------------------------------------------------------
(***************************************************************************)
(* Sequences of events.                                                     *)
(***************************************************************************)
\* What Elements collects.
LEMMA ElementsOf ==
  ASSUME NEW S, NEW s \in Seq(S)
  PROVE  /\ \A j \in 1..Len(s) : s[j] \in Elements(s)
         /\ \A x \in Elements(s) : \E j \in 1..Len(s) : x = s[j]
         /\ Elements(s) \subseteq S
  BY DEF Elements

\* The elements of a sequence to which one is appended.
LEMMA ElementsAppend ==
  ASSUME NEW S, NEW s \in Seq(S), NEW e \in S
  PROVE  Elements(Append(s, e)) = Elements(s) \union {e}
<1>1. Elements(Append(s, e)) \subseteq Elements(s) \union {e}
  BY AppendProperties DEF Elements
<1>2. ASSUME NEW x \in Elements(s)
      PROVE  x \in Elements(Append(s, e))
  <2>1. PICK j \in 1..Len(s) : x = s[j]
    BY ElementsOf
  <2>2. Append(s, e)[j] = x /\ j \in 1..Len(Append(s, e))
    BY <2>1, AppendProperties
  <2> QED
    BY <2>2 DEF Elements
<1>3. e \in Elements(Append(s, e))
  <2>1. Append(s, e)[Len(s) + 1] = e /\ Len(s) + 1 \in 1..Len(Append(s, e))
    BY AppendProperties
  <2> QED
    BY <2>1 DEF Elements
<1> QED
  BY <1>1, <1>2, <1>3

\* A sequence to which one is appended, by its indices.
LEMMA AppendedIndices ==
  ASSUME NEW S, NEW s \in Seq(S), NEW e \in S, NEW t, t = Append(s, e)
  PROVE  /\ Len(t) = Len(s) + 1 /\ t # <<>>
         /\ \A k \in 1..Len(s) : t[k] = s[k]
         /\ t[Len(s) + 1] = e
         /\ \A k \in 1..Len(t) : k \in 1..Len(s) \/ k = Len(s) + 1
<1>1. /\ Len(t) = Len(s) + 1 /\ t # <<>>
      /\ \A k \in 1..Len(s) : t[k] = s[k]
      /\ t[Len(s) + 1] = e
  BY AppendProperties
<1>2. Len(s) \in Nat
  OBVIOUS
<1> QED
  BY <1>1, <1>2

\* The elements of a non-empty sequence are its head and those of its tail.
LEMMA ElementsHeadTail ==
  ASSUME NEW S, NEW s \in Seq(S), s # <<>>
  PROVE  Elements(s) = {Head(s)} \union Elements(Tail(s))
<1>1. Len(s) \in Nat \ {0} /\ Head(s) = s[1]
  BY EmptySeq
<1>2. Tail(s) \in Seq(S) /\ Len(Tail(s)) = Len(s) - 1 /\ \A i \in 1..Len(Tail(s)) : Tail(s)[i] = s[i+1]
  BY HeadTailProperties
<1>3. ASSUME NEW x \in Elements(s)
      PROVE  x \in {Head(s)} \union Elements(Tail(s))
  <2>1. PICK j \in 1..Len(s) : x = s[j]
    BY ElementsOf
  <2>2. CASE j = 1
    BY <2>1, <2>2, <1>1
  <2>3. CASE j # 1
    <3>1. j - 1 \in 1..Len(Tail(s)) /\ Tail(s)[j - 1] = x
      BY <2>1, <2>3, <1>1, <1>2
    <3> QED
      BY <3>1, <1>2, ElementsOf
  <2> QED
    BY <2>2, <2>3
<1>4. Elements(Tail(s)) \subseteq Elements(s)
  <2>1. SUFFICES ASSUME NEW x \in Elements(Tail(s)) PROVE x \in Elements(s)
    OBVIOUS
  <2>2. Tail(s) \in Seq(S)
    BY HeadTailProperties
  <2>3. PICK i \in 1..Len(Tail(s)) : x = Tail(s)[i]
    BY <2>1, <2>2, ElementsOf
  <2>4. x = s[i+1] /\ i + 1 \in 1..Len(s)
    BY <2>3, <1>1, <1>2
  <2> QED
    BY <2>4, ElementsOf
<1>5. Head(s) \in Elements(s)
  BY <1>1, ElementsOf
<1> QED
  BY <1>3, <1>4, <1>5

\* A non-empty set of positions has a greatest element.
LEMMA GreatestPosition ==
  ASSUME NEW T \in SUBSET Position, T # {}
  PROVE  \E n \in T : \A m \in T : m <= n
<1> DEFINE Below == {MaxEvents - n : n \in T}
<1>1. Below \in SUBSET Nat /\ Below # {}
  <2>1. \A n \in T : MaxEvents - n \in Nat
    BY StreamAssumption DEF Position
  <2> QED
    BY <2>1
<1>2. PICK k \in Below : \A m \in Below : k <= m
  <2> HIDE DEF Below
  <2> QED BY <1>1, LeastNatural
<1>3. PICK n \in T : k = MaxEvents - n
  BY <1>2
<1>4. \A m \in T : MaxEvents - m \in Below
  OBVIOUS
<1>5. \A m \in T : MaxEvents - n <= MaxEvents - m
  BY <1>2, <1>3, <1>4
<1>6. \A m \in T : m <= n
  BY <1>5, StreamAssumption DEF Position
<1> QED
  BY <1>6

\* LastSeq is what the handler's variable holds: the greatest number written.
LEMMA LastSeqIsGreatest ==
  ASSUME NEW c \in Client, seen \in [Client -> Seq(Position)], seen[c] # <<>>
  PROVE  /\ LastSeq(c) \in Elements(seen[c])
         /\ \A m \in Elements(seen[c]) : m <= LastSeq(c)
<1>1. seen[c] \in Seq(Position)
  OBVIOUS
<1>2. Elements(seen[c]) \in SUBSET Position
  BY <1>1, ElementsOf
<1>3. Elements(seen[c]) # {}
  <2>1. Len(seen[c]) \in Nat \ {0}
    BY <1>1, EmptySeq
  <2> QED
    BY <2>1, <1>1, ElementsOf
<1>4. \E n \in Elements(seen[c]) : \A m \in Elements(seen[c]) : m <= n
  BY <1>2, <1>3, GreatestPosition
<1> QED
  BY <1>4 DEF LastSeq

-----------------------------------------------------------------------------
(***************************************************************************)
(* The chain from the actor to the hub.                                     *)
(***************************************************************************)
\* What a step of the actor emits.
LEMMA EmissionShape ==
  ASSUME NEW e \in Emission
  PROVE  e \in Seq({"snapshot", "change"}) /\ Len(e) \in 1..2
<1>1. e = <<"change">> \/ e = <<"change", "change">> \/ e = <<"snapshot">>
  BY DEF Emission
<1>2. CASE e = <<"change">>
  BY <1>2
<1>3. CASE e = <<"change", "change">>
  BY <1>3
<1>4. CASE e = <<"snapshot">>
  BY <1>4
<1> QED
  BY <1>1, <1>2, <1>3, <1>4

\* The stream starts with all its stations at the beginning.
LEMMA InitChain == Init => ChainInv
<1> SUFFICES ASSUME Init PROVE ChainInv
  OBVIOUS
<1>1. emitted \in Seq({"snapshot", "change"}) /\ Len(emitted) = 1
  BY DEF Init
<1>2. sub \in [Client -> Seq(Position)] /\ seen \in [Client -> Seq(Position)]
  BY EmptySeq DEF Init
<1>3. \A c \in Client : Len(sub[c]) <= SubCap
  <2>1. Len(<<>>) = 0 /\ 0 <= SubCap
    BY StreamAssumption
  <2> QED
    BY <2>1 DEF Init
<1>4. missed \in [Client -> SUBSET Position]
  BY DEF Init
<1>5. phase \in [Client -> {"away", "subscribing", "asking", "live", "leaving", "gone"}]
  BY DEF Init
<1>6. left \in [Client -> BOOLEAN]
  BY DEF Init
<1>7. /\ published = 0 /\ received = 0 /\ forwarded = 0 /\ fanned = 0
      /\ actor = "running" /\ forwarder = "running" /\ hub = "running" /\ cancelled = FALSE
  BY DEF Init
<1>8. 0 \in Position /\ 1 \in 1..MaxEvents /\ 0 \in 0..ChannelCap
  BY StreamAssumption DEF Position
<1>9. /\ published - received \in 0..ChannelCap
      /\ forwarded - fanned \in 0..ChannelCap
      /\ received - forwarded \in 0..1
  BY <1>7, <1>8
<1>10. StreamTypeOK
  BY <1>1, <1>2, <1>3, <1>4, <1>5, <1>6, <1>7, <1>8, <1>9 DEF StreamTypeOK
<1> QED
  BY <1>1, <1>7, <1>10 DEF ChainInv

\* A step of the actor or the forwarder, or the end of the hub.
LEMMA SourceKeepsChain ==
  ASSUME ChainInv,
         Step \/ Publish \/ Cancel \/ ActorExit \/ Receive \/ Forward \/ ForwarderEnd \/ HubEnd
  PROVE  ChainInv'
<1>0. ChainInv /\ StreamTypeOK
  BY DEF ChainInv
<1>1. CASE Step
  <2>1. PICK e \in Emission : /\ Len(emitted) + Len(e) <= MaxEvents
                              /\ emitted' = emitted \o e
    BY <1>1 DEF Step
  <2>2. e \in Seq({"snapshot", "change"}) /\ Len(e) \in 1..2
    BY EmissionShape
  <2>3. emitted' \in Seq({"snapshot", "change"}) /\ Len(emitted') = Len(emitted) + Len(e)
    BY <2>1, <2>2, <1>0, ConcatProperties DEF StreamTypeOK
  <2>4. Len(emitted') \in 1..MaxEvents
    BY <2>1, <2>2, <2>3, <1>0, StreamAssumption DEF StreamTypeOK
  <2>5. actor = "running" /\ UNCHANGED <<published, actor, cancelled, relayVars, clientVars>>
    BY <1>1 DEF Step, Selecting
  <2>6. StreamTypeOK'
    BY <2>3, <2>4, <2>5, <1>0 DEF StreamTypeOK, relayVars, clientVars
  <2>7. published' <= Len(emitted')
    BY <2>2, <2>3, <2>5, <1>0 DEF StreamTypeOK, ChainInv, Position
  <2> QED
    BY <2>5, <2>6, <2>7, <1>0 DEF ChainInv, relayVars
<1>2. CASE Publish
  <2>1. StreamTypeOK'
    BY <1>0, <1>2, StreamAssumption DEF StreamTypeOK, ChainInv, Publish, Position, relayVars, clientVars
  <2> QED
    BY <1>0, <1>2, <2>1 DEF StreamTypeOK, ChainInv, Publish, Position, relayVars
<1>3. CASE Cancel
  BY <1>0, <1>3 DEF StreamTypeOK, ChainInv, Cancel, relayVars, clientVars
<1>4. CASE ActorExit
  BY <1>0, <1>4 DEF StreamTypeOK, ChainInv, ActorExit, Selecting, relayVars, clientVars
<1>5. CASE Receive
  <2>1. StreamTypeOK'
    BY <1>0, <1>5, StreamAssumption DEF StreamTypeOK, ChainInv, Receive, Position, sourceVars, clientVars
  <2> QED
    BY <1>0, <1>5, <2>1 DEF StreamTypeOK, ChainInv, Receive, Position, sourceVars
<1>6. CASE Forward
  <2>1. StreamTypeOK'
    BY <1>0, <1>6, StreamAssumption DEF StreamTypeOK, ChainInv, Forward, Position, sourceVars, clientVars
  <2> QED
    BY <1>0, <1>6, <2>1 DEF StreamTypeOK, ChainInv, Forward, Position, sourceVars
<1>7. CASE ForwarderEnd
  BY <1>0, <1>7 DEF StreamTypeOK, ChainInv, ForwarderEnd, sourceVars, clientVars
<1>8. CASE HubEnd
  BY <1>0, <1>8 DEF StreamTypeOK, ChainInv, HubEnd, sourceVars, clientVars
<1> QED
  BY <1>1, <1>2, <1>3, <1>4, <1>5, <1>6, <1>7, <1>8

\* The hub passes on an event: it is one that the forwarder passed on.
LEMMA FanOutKeepsChain ==
  ASSUME ChainInv, FanOut
  PROVE  ChainInv'
<1>0. StreamTypeOK /\ fanned < forwarded /\ fanned' = fanned + 1 /\ hub = "running"
  BY DEF ChainInv, FanOut
<1>1. UNCHANGED <<sourceVars, received, forwarded, forwarder, hub, phase, left, seen>>
  BY DEF FanOut
<1>2. fanned' \in 1..MaxEvents /\ fanned' \in Position
  BY <1>0, StreamAssumption DEF StreamTypeOK, Position
<1>3. \A c \in Client : /\ sub'[c] \in Seq(Position)
                        /\ Len(sub'[c]) <= SubCap
                        /\ missed'[c] \in SUBSET Position
  <2> TAKE c \in Client
  <2>1. sub[c] \in Seq(Position) /\ Len(sub[c]) \in Nat /\ Len(sub[c]) <= SubCap
    BY <1>0, LenProperties DEF StreamTypeOK
  <2>2. sub'[c] = IF c \in Subscribers /\ Len(sub[c]) < SubCap THEN Append(sub[c], fanned') ELSE sub[c]
    BY <1>0 DEF FanOut
  <2>3. Append(sub[c], fanned') \in Seq(Position) /\ Len(Append(sub[c], fanned')) = Len(sub[c]) + 1
    BY <1>2, <2>1, AppendProperties
  <2>4. missed'[c] = IF c \in Subscribers /\ Len(sub[c]) >= SubCap THEN missed[c] \union {fanned'} ELSE missed[c]
    BY <1>0 DEF FanOut
  <2>5. missed[c] \in SUBSET Position
    BY <1>0 DEF StreamTypeOK
  <2> QED
    BY <2>1, <2>2, <2>3, <2>4, <2>5, <1>2, StreamAssumption
<1>4. sub' \in [Client -> Seq(Position)] /\ missed' \in [Client -> SUBSET Position]
  <2>1. sub' = [c \in Client |-> sub'[c]] /\ missed' = [c \in Client |-> missed'[c]]
    BY DEF FanOut
  <2> QED
    BY <2>1, <1>3
<1>5. StreamTypeOK'
  BY <1>0, <1>1, <1>2, <1>3, <1>4, StreamAssumption DEF StreamTypeOK, sourceVars, Position
<1> QED
  BY <1>0, <1>1, <1>5 DEF ChainInv, sourceVars

\* A step of a connection does not touch the chain.
LEMMA ClientKeepsChain ==
  ASSUME ChainInv, NEW c \in Client, Connect(c) \/ Disconnect(c) \/ Handler(c)
  PROVE  ChainInv' /\ UNCHANGED <<sourceVars, relayVars>>
<1>0. StreamTypeOK
  BY DEF ChainInv
<1>1. UNCHANGED <<sourceVars, relayVars>>
  BY DEF Connect, Disconnect, Handler, Subscribe, WriteSnapshot, WriteEvent, Leave, Unsubscribe
<1>2. \A p \in {"subscribing", "asking", "live", "leaving", "gone"} :
        MoveTo(c, p) => phase' \in [Client -> {"away", "subscribing", "asking", "live", "leaving", "gone"}]
  BY <1>0 DEF MoveTo, StreamTypeOK
<1>3. Len(emitted) \in Position /\ fanned \in Position
  BY <1>0, StreamAssumption DEF StreamTypeOK, Position
<1>4. <<Len(emitted)>> \in Seq(Position) /\ <<>> \in Seq(Position) /\ Len(<<>>) = 0
  BY <1>3
<1>5. sub[c] # <<>> => /\ Tail(sub[c]) \in Seq(Position) /\ Len(Tail(sub[c])) <= SubCap
                       /\ Append(seen[c], Head(sub[c])) \in Seq(Position)
  <2>1. SUFFICES ASSUME sub[c] # <<>>
                 PROVE  /\ Tail(sub[c]) \in Seq(Position) /\ Len(Tail(sub[c])) <= SubCap
                        /\ Append(seen[c], Head(sub[c])) \in Seq(Position)
    OBVIOUS
  <2>2. sub[c] \in Seq(Position) /\ seen[c] \in Seq(Position) /\ Len(sub[c]) <= SubCap
    BY <1>0 DEF StreamTypeOK
  <2>3. Head(sub[c]) \in Position /\ Tail(sub[c]) \in Seq(Position) /\ Len(Tail(sub[c])) = Len(sub[c]) - 1
    BY <2>1, <2>2, HeadTailProperties
  <2>4. Len(sub[c]) \in Nat
    BY <2>2
  <2> QED
    BY <2>2, <2>3, <2>4, AppendProperties, StreamAssumption
<1>6. phase' \in [Client -> {"away", "subscribing", "asking", "live", "leaving", "gone"}]
  BY <1>0, <1>2 DEF StreamTypeOK, Connect, Disconnect, Handler, Subscribe, WriteSnapshot, WriteEvent, Leave, Unsubscribe
<1>7. left' \in [Client -> BOOLEAN] /\ missed' \in [Client -> SUBSET Position]
  BY <1>0 DEF StreamTypeOK, Connect, Disconnect, Handler, Subscribe, WriteSnapshot, WriteEvent, Leave, Unsubscribe
<1>8. sub' \in [Client -> Seq(Position)] /\ \A d \in Client : Len(sub'[d]) <= SubCap
  <2>1. \/ sub' = sub
        \/ sub[c] # <<>> /\ sub' = [sub EXCEPT ![c] = Tail(@)]
        \/ sub' = [sub EXCEPT ![c] = <<>>]
    BY DEF Connect, Disconnect, Handler, Subscribe, WriteSnapshot, WriteEvent, Leave, Unsubscribe
  <2>2. CASE sub' = sub
    BY <2>2, <1>0 DEF StreamTypeOK
  <2>3. CASE sub[c] # <<>> /\ sub' = [sub EXCEPT ![c] = Tail(@)]
    BY <2>3, <1>0, <1>5 DEF StreamTypeOK
  <2>4. CASE sub' = [sub EXCEPT ![c] = <<>>]
    BY <2>4, <1>0, <1>4, StreamAssumption DEF StreamTypeOK
  <2> QED
    BY <2>1, <2>2, <2>3, <2>4
<1>9. seen' \in [Client -> Seq(Position)]
  BY <1>0, <1>4, <1>5
  DEF StreamTypeOK, Connect, Disconnect, Handler, Subscribe, WriteSnapshot, WriteEvent, Leave, Unsubscribe
<1>10. StreamTypeOK'
  BY <1>0, <1>1, <1>6, <1>7, <1>8, <1>9 DEF StreamTypeOK, sourceVars, relayVars
<1> QED
  BY <1>1, <1>10 DEF ChainInv, sourceVars, relayVars

\* Every step keeps the chain in order.
LEMMA ChainStep == ChainInv /\ [Next]_streamVars => ChainInv'
<1> SUFFICES ASSUME ChainInv, [Next]_streamVars PROVE ChainInv'
  OBVIOUS
<1>1. CASE Step \/ Publish \/ Cancel \/ ActorExit \/ Receive \/ Forward \/ ForwarderEnd \/ HubEnd
  BY <1>1, SourceKeepsChain
<1>2. CASE FanOut
  BY <1>2, FanOutKeepsChain
<1>3. CASE \E c \in Client : Connect(c) \/ Disconnect(c) \/ Handler(c)
  BY <1>3, ClientKeepsChain
<1>4. CASE UNCHANGED streamVars
  BY <1>4 DEF ChainInv, StreamTypeOK, streamVars, sourceVars, relayVars, clientVars, Position
<1> QED
  BY <1>1, <1>2, <1>3, <1>4 DEF Next, Relay

\* The stream's state keeps its types, and every channel its bound.
THEOREM StreamTypeCorrect == Spec => []StreamTypeOK
<1>1. ChainInv => StreamTypeOK
  BY DEF ChainInv
<1> QED
  BY InitChain, ChainStep, <1>1, PTL DEF Spec

\* Manager.Shutdown cancels the run and the goroutines stop one after another;
\* nothing emitted before is left behind in a channel.
THEOREM AlwaysStopsDrained == Spec => []StopsDrained
<1>1. ChainInv => StopsDrained
  BY DEF ChainInv, StopsDrained
<1> QED
  BY InitChain, ChainStep, <1>1, PTL DEF Spec

-----------------------------------------------------------------------------
(***************************************************************************)
(* What a connection has been sent.                                         *)
(***************************************************************************)
\* The subscription channel of c holds events of the hub's past in ascending
\* order, and they follow everything the handler took from it and wrote.
Queued(c) ==
  /\ \A i \in 1..Len(sub[c]) : sub[c][i] \in 1..fanned
  /\ \A i, j \in 1..Len(sub[c]) : i < j => sub[c][i] < sub[c][j]
  /\ \A k \in 1..Len(seen[c]) : k > 1 =>
       seen[c][k] <= fanned /\ \A i \in 1..Len(sub[c]) : seen[c][k] < sub[c][i]

\* Everything written is an event the actor emitted, and a live connection has
\* its snapshot.
Written(c) ==
  /\ \A k \in 1..Len(seen[c]) : seen[c][k] \in 1..Len(emitted)
  /\ phase[c] = "live" => seen[c] # <<>>

\* NoHoleAfterSnapshot and ChangesOnlyMoveForward, of one connection.
NoHole(c) ==
  phase[c] = "live" =>
    \A n \in seen[c][1] + 1 .. fanned :
       n \in Elements(seen[c]) \union Elements(sub[c]) \union missed[c]

OnlyForward(c) ==
  \A j \in 1..Len(seen[c]) :
    j > 1 /\ emitted[seen[c][j]] = "change" => \A i \in 1..j-1 : seen[c][i] < seen[c][j]

Told(c) == Queued(c) /\ Written(c) /\ NoHole(c) /\ OnlyForward(c)

ClientInv == ChainInv /\ \A c \in Client : Told(c)

\* What the types say of one connection's sequences.
LEMMA ClientTypes ==
  ASSUME ChainInv, NEW c \in Client
  PROVE  /\ sub[c] \in Seq(Position) /\ Len(sub[c]) \in Nat /\ Len(sub[c]) <= SubCap
         /\ seen[c] \in Seq(Position) /\ Len(seen[c]) \in Nat
         /\ DOMAIN seen[c] = 1..Len(seen[c])
         /\ \A i \in 1..Len(sub[c]) : sub[c][i] \in Position
         /\ \A k \in 1..Len(seen[c]) : seen[c][k] \in Position
         /\ missed[c] \subseteq Position
         /\ Len(emitted) \in Nat /\ fanned \in Nat /\ fanned <= Len(emitted)
         /\ Position \subseteq Nat
<1>1. StreamTypeOK /\ fanned <= Len(emitted)
  BY DEF ChainInv, StreamTypeOK, Position
<1>2. sub[c] \in Seq(Position) /\ seen[c] \in Seq(Position) /\ missed[c] \subseteq Position
      /\ Len(sub[c]) <= SubCap /\ fanned \in Position /\ emitted \in Seq({"snapshot", "change"})
  BY <1>1 DEF StreamTypeOK
<1>3. Position \subseteq Nat
  BY StreamAssumption DEF Position
<1> QED
  BY <1>1, <1>2, <1>3, LenProperties, ElementOfSeq

\* No connection has been told anything yet.
LEMMA InitClients == Init => ClientInv
<1> SUFFICES ASSUME Init PROVE \A c \in Client : Told(c)
  BY InitChain DEF ClientInv
<1>1. TAKE c \in Client
<1>2. sub[c] = <<>> /\ seen[c] = <<>> /\ phase[c] = "away" /\ Len(<<>>) = 0
  BY DEF Init
<1> QED
  BY <1>2 DEF Told, Queued, Written, NoHole, OnlyForward

\* A step that changes nothing of c and neither its emitted events nor the
\* hub's position, or only prolongs what has been emitted.
LEMMA UntouchedTold ==
  ASSUME ClientInv, NEW c \in Client,
         sub'[c] = sub[c], seen'[c] = seen[c], missed'[c] = missed[c], fanned' = fanned,
         phase'[c] = "live" => phase[c] = "live",
         Len(emitted') \in Nat, Len(emitted') >= Len(emitted),
         \A n \in 1..Len(emitted) : emitted'[n] = emitted[n]
  PROVE  Told(c)'
<1>1. Told(c) /\ ChainInv
  BY DEF ClientInv
<1>2. Len(seen[c]) \in Nat /\ Len(emitted) \in Nat
  BY <1>1, ClientTypes
<1>3. Queued(c)' /\ NoHole(c)'
  BY <1>1 DEF Told, Queued, NoHole, Elements
<1>4. Written(c)'
  BY <1>1, <1>2 DEF Told, Written
<1>5. OnlyForward(c)'
  <2>1. \A j \in 1..Len(seen[c]) : emitted'[seen[c][j]] = emitted[seen[c][j]]
    BY <1>1 DEF Told, Written
  <2> QED
    BY <1>1, <2>1 DEF Told, OnlyForward
<1> QED
  BY <1>3, <1>4, <1>5 DEF Told

\* The actor's and the forwarder's steps, and the end of the hub.
LEMMA SourceKeepsTold ==
  ASSUME ClientInv, NEW c \in Client,
         Step \/ Publish \/ Cancel \/ ActorExit \/ Receive \/ Forward \/ ForwarderEnd \/ HubEnd
  PROVE  Told(c)'
<1>1. UNCHANGED clientVars /\ fanned' = fanned
  BY DEF Step, Publish, Cancel, ActorExit, Receive, Forward, ForwarderEnd, HubEnd, relayVars
<1>2. StreamTypeOK
  BY DEF ClientInv, ChainInv
<1>3. emitted' = emitted \/ \E e \in Emission : emitted' = emitted \o e
  BY DEF Step, Publish, Cancel, ActorExit, Receive, Forward, ForwarderEnd, HubEnd, sourceVars
<1>4. Len(emitted) \in Nat
  BY <1>2, LenProperties DEF StreamTypeOK
<1>5. Len(emitted') \in Nat /\ Len(emitted') >= Len(emitted)
      /\ \A n \in 1..Len(emitted) : emitted'[n] = emitted[n]
  <2>1. CASE emitted' = emitted
    BY <2>1, <1>4
  <2>2. CASE \E e \in Emission : emitted' = emitted \o e
    <3>1. PICK e \in Emission : emitted' = emitted \o e
      BY <2>2
    <3>2. e \in Seq({"snapshot", "change"})
      BY EmissionShape
    <3>3. emitted \in Seq({"snapshot", "change"}) /\ Len(e) \in Nat
      BY <1>2, <3>2, LenProperties DEF StreamTypeOK
    <3> QED
      BY <3>1, <3>2, <3>3, <1>4, ConcatProperties
  <2> QED
    BY <1>3, <2>1, <2>2
<1> QED
  BY <1>1, <1>5, UntouchedTold DEF clientVars

\* The hub offers the next event: it goes to the end of the channel, or is
\* denied; a connection that is not registered is not live.
LEMMA FanOutKeepsTold ==
  ASSUME ClientInv, NEW c \in Client, FanOut
  PROVE  Told(c)'
<1>1. Told(c) /\ ChainInv
  BY DEF ClientInv
<1> DEFINE event == fanned + 1
<1>2. /\ fanned' = event /\ seen' = seen /\ phase' = phase /\ emitted' = emitted
      /\ fanned < forwarded
      /\ sub'[c] = IF c \in Subscribers /\ Len(sub[c]) < SubCap THEN Append(sub[c], event) ELSE sub[c]
      /\ missed'[c] = IF c \in Subscribers /\ Len(sub[c]) >= SubCap
                      THEN missed[c] \union {event} ELSE missed[c]
  BY DEF FanOut, sourceVars
<1>3. /\ sub[c] \in Seq(Position) /\ Len(sub[c]) \in Nat
      /\ Len(seen[c]) \in Nat /\ fanned \in Nat
      /\ \A i \in 1..Len(sub[c]) : sub[c][i] \in Nat
      /\ \A k \in 1..Len(seen[c]) : seen[c][k] \in Nat
  BY <1>1, ClientTypes
<1>4. event \in Position
  BY <1>1, <1>2, StreamAssumption DEF ChainInv, StreamTypeOK, Position
<1>5. Written(c)' /\ OnlyForward(c)'
  BY <1>1, <1>2 DEF Told, Written, OnlyForward
<1>6. CASE c \in Subscribers /\ Len(sub[c]) < SubCap
  <2>1. sub'[c] = Append(sub[c], event) /\ missed'[c] = missed[c]
    BY <1>2, <1>3, <1>6, StreamAssumption
  <2>2. /\ Len(sub'[c]) = Len(sub[c]) + 1
        /\ \A i \in 1..Len(sub[c]) : sub'[c][i] = sub[c][i]
        /\ sub'[c][Len(sub[c]) + 1] = event
    BY <2>1, <1>3, <1>4, AppendProperties
  <2>3. Elements(sub'[c]) = Elements(sub[c]) \union {event}
    BY <2>1, <1>3, <1>4, ElementsAppend
  <2>4. Queued(c)'
    <3>1. \A i \in 1..Len(sub[c])+1 : i \in 1..Len(sub[c]) \/ i = Len(sub[c]) + 1
      BY <1>3
    <3>2. \A i \in 1..Len(sub[c]) : sub[c][i] \in 1..fanned
      BY <1>1 DEF Told, Queued
    <3>3. \A i \in 1..Len(sub'[c]) : sub'[c][i] \in 1..fanned'
      BY <2>2, <1>2, <1>3, <3>1, <3>2
    <3>4. ASSUME NEW i \in 1..Len(sub'[c]), NEW j \in 1..Len(sub'[c]), i < j
          PROVE  sub'[c][i] < sub'[c][j]
      <4>1. i \in 1..Len(sub[c])
        BY <3>4, <2>2, <1>3
      <4>2. CASE j \in 1..Len(sub[c])
        BY <3>4, <4>1, <4>2, <2>2, <1>1 DEF Told, Queued
      <4>3. CASE j = Len(sub[c]) + 1
        BY <4>1, <4>3, <2>2, <3>2, <1>3
      <4> QED
        BY <4>2, <4>3, <2>2, <3>1
    <3>5. ASSUME NEW k \in 1..Len(seen[c]), k > 1
          PROVE  seen[c][k] <= fanned' /\ \A i \in 1..Len(sub'[c]) : seen[c][k] < sub'[c][i]
      <4>1. seen[c][k] <= fanned /\ \A i \in 1..Len(sub[c]) : seen[c][k] < sub[c][i]
        BY <3>5, <1>1 DEF Told, Queued
      <4>2. seen[c][k] < event
        BY <4>1, <1>3
      <4>3. \A i \in 1..Len(sub'[c]) : i \in 1..Len(sub[c]) \/ i = Len(sub[c]) + 1
        BY <3>1, <2>2
      <4>4. \A i \in 1..Len(sub'[c]) : seen[c][k] < sub'[c][i]
        BY <4>1, <4>2, <4>3, <2>2
      <4> QED
        BY <4>2, <4>4, <1>2, <1>3
    <3> QED
      BY <3>3, <3>4, <3>5, <1>2 DEF Queued
  <2>5. NoHole(c)'
    <3>1. SUFFICES ASSUME phase[c] = "live", NEW n \in seen[c][1] + 1 .. event
                   PROVE  n \in Elements(seen[c]) \union Elements(sub'[c]) \union missed'[c]
      BY <1>2 DEF NoHole, Elements
    <3>2. seen[c][1] \in Nat
      BY <1>1, <3>1, <1>3, ClientTypes, EmptySeq DEF Told, Written
    <3>3. n = event \/ n \in seen[c][1] + 1 .. fanned
      BY <3>2, <1>3
    <3> QED
      BY <3>1, <3>3, <2>1, <2>3, <1>1 DEF Told, NoHole
  <2> QED
    BY <1>5, <2>4, <2>5 DEF Told
<1>7. CASE ~(c \in Subscribers /\ Len(sub[c]) < SubCap)
  <2>1. sub'[c] = sub[c]
    BY <1>2, <1>7
  <2>2. Queued(c)'
    <3>1. \A i \in 1..Len(sub[c]) : sub[c][i] \in 1..fanned'
      <4>1. 1..fanned \subseteq 1..fanned'
        BY <1>2, <1>3
      <4> QED
        BY <1>1, <4>1 DEF Told, Queued
    <3>2. \A k \in 1..Len(seen[c]) : k > 1 => seen[c][k] <= fanned'
      BY <1>1, <1>2, <1>3 DEF Told, Queued
    <3> QED
      BY <1>1, <1>2, <2>1, <3>1, <3>2 DEF Told, Queued
  <2>3. NoHole(c)'
    <3>1. SUFFICES ASSUME phase[c] = "live", NEW n \in seen[c][1] + 1 .. event
                   PROVE  n \in Elements(seen[c]) \union Elements(sub[c]) \union missed'[c]
      BY <1>2, <2>1 DEF NoHole, Elements
    <3>2. seen[c][1] \in Nat
      BY <1>1, <3>1, <1>3, ClientTypes, EmptySeq DEF Told, Written
    <3>3. n = event \/ n \in seen[c][1] + 1 .. fanned
      BY <3>2, <1>3
    <3>4. missed'[c] = missed[c] \union {event}
      BY <3>1, <1>2, <1>3, <1>7, StreamAssumption DEF Subscribers
    <3> QED
      BY <3>1, <3>3, <3>4, <1>1 DEF Told, NoHole
  <2> QED
    BY <1>5, <2>2, <2>3 DEF Told
<1> QED
  BY <1>6, <1>7

\* The actor's answer covers everything the hub has fanned out.
LEMMA WriteSnapshotKeepsTold ==
  ASSUME ClientInv, NEW c \in Client, WriteSnapshot(c), ~left[c]
  PROVE  Told(c)'
<1>1. Told(c) /\ ChainInv
  BY DEF ClientInv
<1>2. /\ sub' = sub /\ missed' = missed /\ emitted' = emitted /\ fanned' = fanned
  BY DEF WriteSnapshot, sourceVars, relayVars
<1>3. seen'[c] = <<Len(emitted)>>
  BY <1>1 DEF WriteSnapshot, ChainInv, StreamTypeOK
<1>4. Len(seen'[c]) = 1 /\ seen'[c][1] = Len(emitted) /\ seen'[c] # <<>>
  BY <1>3
<1>5. Len(emitted) \in Nat \ {0} /\ fanned \in Nat /\ fanned <= Len(emitted)
  <2>1. Len(emitted) \in 1..MaxEvents
    BY <1>1 DEF ChainInv, StreamTypeOK
  <2> QED
    BY <1>1, <2>1, ClientTypes, StreamAssumption
<1>6. Queued(c)' /\ Written(c)' /\ OnlyForward(c)'
  <2>1. \A k \in 1..Len(seen'[c]) : k = 1 /\ ~(k > 1)
    BY <1>4
  <2>2. Queued(c)'
    BY <2>1, <1>1, <1>2 DEF Told, Queued
  <2>3. Written(c)'
    BY <2>1, <1>2, <1>4, <1>5 DEF Written
  <2>4. OnlyForward(c)'
    BY <2>1 DEF OnlyForward
  <2> QED
    BY <2>2, <2>3, <2>4
<1>7. NoHole(c)'
  BY <1>2, <1>4, <1>5 DEF NoHole
<1> QED
  BY <1>6, <1>7 DEF Told

\* What the handler takes from its channel it writes, or has written already.
LEMMA WriteEventKeepsTold ==
  ASSUME ClientInv, NEW c \in Client, WriteEvent(c)
  PROVE  Told(c)'
<1> DEFINE event == Head(sub[c])
           skip  == event <= LastSeq(c) /\ emitted[event] # "snapshot"
<1>1. Told(c) /\ ChainInv /\ StreamTypeOK
  BY DEF ClientInv, ChainInv
<1>2. /\ phase[c] = "live" /\ sub[c] # <<>> /\ seen[c] # <<>>
      /\ missed' = missed /\ emitted' = emitted /\ fanned' = fanned
      /\ sub'[c] = Tail(sub[c])
  BY <1>1 DEF WriteEvent, sourceVars, relayVars, Told, Written, StreamTypeOK
<1>3. /\ sub[c] \in Seq(Position) /\ seen[c] \in Seq(Position)
      /\ Len(sub[c]) \in Nat \ {0} /\ Len(seen[c]) \in Nat \ {0}
      /\ \A i \in 1..Len(sub[c]) : sub[c][i] \in Nat
      /\ \A k \in 1..Len(seen[c]) : seen[c][k] \in Nat
      /\ fanned \in Nat /\ Len(emitted) \in Nat /\ fanned <= Len(emitted)
  BY <1>1, <1>2, ClientTypes, EmptySeq
<1>4. /\ event = sub[c][1] /\ event \in 1..fanned /\ event \in Position
      /\ Len(sub'[c]) = Len(sub[c]) - 1
      /\ \A i \in 1..Len(sub'[c]) : sub'[c][i] = sub[c][i+1] /\ i+1 \in 1..Len(sub[c])
  <2>1. /\ event \in Position /\ Len(sub'[c]) = Len(sub[c]) - 1
        /\ \A i \in 1..Len(sub'[c]) : sub'[c][i] = sub[c][i+1]
    BY <1>2, <1>3, HeadTailProperties
  <2>2. event = sub[c][1] /\ 1 \in 1..Len(sub[c])
    BY <1>2, <1>3
  <2> QED
    BY <2>1, <2>2, <1>1, <1>3 DEF Told, Queued
<1>5. ASSUME NEW i \in 1..Len(sub'[c])
      PROVE  event < sub'[c][i]
  <2>1. 1 \in 1..Len(sub[c]) /\ i + 1 \in 1..Len(sub[c]) /\ 1 < i + 1
    BY <1>3, <1>4
  <2>2. sub[c][1] < sub[c][i+1]
    BY <2>1, <1>1 DEF Told, Queued
  <2> QED
    BY <2>2, <1>4
<1>6. Elements(sub[c]) = {event} \union Elements(sub'[c])
  BY <1>2, <1>3, ElementsHeadTail
<1>7. \A k \in 1..Len(seen[c]) : k > 1 => seen[c][k] < event
  BY <1>1, <1>3, <1>4 DEF Told, Queued
<1>8. LastSeq(c) \in Elements(seen[c]) /\ \A m \in Elements(seen[c]) : m <= LastSeq(c)
  BY <1>1, <1>2, LastSeqIsGreatest DEF StreamTypeOK
<1>9. /\ \A i \in 1..Len(sub'[c]) : sub'[c][i] \in 1..fanned
      /\ \A i, j \in 1..Len(sub'[c]) : i < j => sub'[c][i] < sub'[c][j]
      /\ \A k \in 1..Len(seen[c]) : k > 1 =>
           seen[c][k] <= fanned /\ \A i \in 1..Len(sub'[c]) : seen[c][k] < sub'[c][i]
  <2>1. \A i \in 1..Len(sub'[c]) : sub'[c][i] \in 1..fanned
    BY <1>1, <1>4 DEF Told, Queued
  <2>2. ASSUME NEW i \in 1..Len(sub'[c]), NEW j \in 1..Len(sub'[c]), i < j
        PROVE  sub'[c][i] < sub'[c][j]
    <3>1. sub'[c][i] = sub[c][i+1] /\ i+1 \in 1..Len(sub[c])
      BY <1>4
    <3>2. sub'[c][j] = sub[c][j+1] /\ j+1 \in 1..Len(sub[c])
      BY <1>4
    <3>3. i+1 < j+1
      BY <2>2, <1>3, <1>4
    <3> QED
      BY <3>1, <3>2, <3>3, <1>1 DEF Told, Queued
  <2>3. \A k \in 1..Len(seen[c]) : k > 1 =>
          seen[c][k] <= fanned /\ \A i \in 1..Len(sub'[c]) : seen[c][k] < sub'[c][i]
    BY <1>1, <1>4 DEF Told, Queued
  <2> QED
    BY <2>1, <2>2, <2>3
<1>10. CASE seen' = seen
  <2>1. phase'[c] = "live" => phase[c] = "live" /\ skip
    BY <1>10, <1>1, <1>2, <1>3, <1>4, AppendProperties DEF WriteEvent, MoveTo, StreamTypeOK
  <2>2. Queued(c)'
    BY <1>2, <1>9, <1>10 DEF Queued
  <2>3. Written(c)' /\ OnlyForward(c)'
    BY <1>1, <1>2, <1>10, <2>1 DEF Told, Written, OnlyForward
  <2>4. NoHole(c)'
    <3>1. SUFFICES ASSUME phase'[c] = "live", NEW n \in seen[c][1] + 1 .. fanned
                   PROVE  n \in Elements(seen[c]) \union Elements(sub'[c]) \union missed[c]
      BY <1>2, <1>10 DEF NoHole, Elements
    <3>2. n \in Elements(seen[c]) \union Elements(sub[c]) \union missed[c]
      BY <1>1, <2>1, <3>1 DEF Told, NoHole
    <3>3. event <= seen[c][1]
      <4>1. PICK k \in 1..Len(seen[c]) : LastSeq(c) = seen[c][k]
        BY <1>8, <1>3, ElementsOf
      <4>2. event <= seen[c][k]
        BY <4>1, <2>1, <3>1
      <4>3. k = 1
        BY <4>1, <4>2, <1>3, <1>4, <1>7
      <4> QED
        BY <4>2, <4>3
    <3>4. n # event
      BY <3>1, <3>3, <1>3, <1>4
    <3> QED
      BY <3>2, <3>4, <1>6
  <2> QED
    BY <2>2, <2>3, <2>4 DEF Told
<1>11. CASE ~skip /\ seen' = [seen EXCEPT ![c] = Append(@, event)]
  <2>1. seen'[c] = Append(seen[c], event)
    BY <1>11, <1>1 DEF StreamTypeOK
  <2>2. /\ Len(seen'[c]) = Len(seen[c]) + 1 /\ seen'[c] # <<>>
        /\ \A k \in 1..Len(seen[c]) : seen'[c][k] = seen[c][k]
        /\ seen'[c][Len(seen[c]) + 1] = event
        /\ \A k \in 1..Len(seen'[c]) : k \in 1..Len(seen[c]) \/ k = Len(seen[c]) + 1
    <3>1. event \in Position /\ seen[c] \in Seq(Position)
      BY <1>3, <1>4
    <3> QED
      BY <2>1, <3>1, AppendedIndices
  <2>3. Elements(seen'[c]) = Elements(seen[c]) \union {event}
    BY <2>1, <1>3, <1>4, ElementsAppend
  <2>4. Queued(c)'
    <3>1. ASSUME NEW k \in 1..Len(seen'[c]), k > 1
          PROVE  seen'[c][k] <= fanned /\ \A i \in 1..Len(sub'[c]) : seen'[c][k] < sub'[c][i]
      <4>1. CASE k \in 1..Len(seen[c])
        BY <3>1, <4>1, <2>2, <1>9
      <4>2. CASE k = Len(seen[c]) + 1
        BY <4>2, <2>2, <1>3, <1>4, <1>5
      <4> QED
        BY <4>1, <4>2, <2>2
    <3> QED
      BY <3>1, <1>2, <1>9 DEF Queued
  <2>5. Written(c)'
    <3>1. \A k \in 1..Len(seen[c]) : seen[c][k] \in 1..Len(emitted)
      BY <1>1 DEF Told, Written
    <3>2. event \in 1..Len(emitted)
      BY <1>3, <1>4
    <3> QED
      BY <3>1, <3>2, <2>2, <1>2 DEF Written
  <2>6. OnlyForward(c)'
    <3>1. \A j \in 1..Len(seen[c]) :
            j > 1 /\ emitted[seen[c][j]] = "change" => \A i \in 1..j-1 : seen[c][i] < seen[c][j]
      BY <1>1 DEF Told, OnlyForward
    <3>2. ASSUME emitted[event] = "change"
          PROVE  \A i \in 1..Len(seen[c]) : seen[c][i] < event
      <4>1. TAKE i \in 1..Len(seen[c])
      <4>2. seen[c][i] <= LastSeq(c)
        BY <1>8, <1>3, ElementsOf
      <4>3. ~ (event <= LastSeq(c))
        BY <1>11, <3>2
      <4>4. LastSeq(c) \in Nat
        BY <1>8, <1>3, ElementsOf
      <4> QED
        BY <4>2, <4>3, <4>4, <1>3, <1>4
    <3>3. SUFFICES ASSUME NEW j \in 1..Len(seen'[c]), j > 1, emitted[seen'[c][j]] = "change",
                          NEW i \in 1..j-1
                   PROVE  seen'[c][i] < seen'[c][j]
      BY <1>2 DEF OnlyForward
    <3>4. i \in 1..Len(seen[c]) /\ seen'[c][i] = seen[c][i]
      <4>1. j \in 1..Len(seen[c]) + 1
        BY <3>3, <2>2
      <4>2. i \in 1..Len(seen[c])
        BY <4>1, <1>3
      <4> QED
        BY <4>2, <2>2
    <3>5. CASE j \in 1..Len(seen[c])
      BY <3>1, <3>3, <3>4, <3>5, <2>2
    <3>6. CASE j = Len(seen[c]) + 1
      BY <3>2, <3>3, <3>4, <3>6, <2>2
    <3> QED
      BY <3>5, <3>6, <2>2
  <2>7. NoHole(c)'
    <3>1. SUFFICES ASSUME NEW n \in seen[c][1] + 1 .. fanned
                   PROVE  n \in Elements(seen'[c]) \union Elements(sub'[c]) \union missed[c]
      <4>1. seen'[c][1] = seen[c][1]
        BY <2>2, <1>3
      <4> QED
        BY <4>1, <1>2 DEF NoHole, Elements
    <3>2. n \in Elements(seen[c]) \union Elements(sub[c]) \union missed[c]
      BY <1>1, <1>2 DEF Told, NoHole
    <3> QED
      BY <3>2, <2>3, <1>6
  <2> QED
    BY <2>4, <2>5, <2>6, <2>7 DEF Told
<1> QED
  BY <1>10, <1>11 DEF WriteEvent

\* The deferred Unsubscribe empties the channel; the connection is gone.
LEMMA UnsubscribeKeepsTold ==
  ASSUME ClientInv, NEW c \in Client, Unsubscribe(c)
  PROVE  Told(c)'
<1>1. Told(c) /\ ChainInv /\ StreamTypeOK
  BY DEF ClientInv, ChainInv
<1>2. sub'[c] = <<>> /\ seen' = seen /\ emitted' = emitted /\ fanned' = fanned
      /\ phase'[c] = "gone" /\ Len(<<>>) = 0
  BY <1>1 DEF Unsubscribe, MoveTo, StreamTypeOK, sourceVars, relayVars
<1> QED
  BY <1>1, <1>2 DEF Told, Queued, Written, NoHole, OnlyForward

\* A step of connection d, seen from connection c.
LEMMA HandlerKeepsTold ==
  ASSUME ClientInv, NEW c \in Client, NEW d \in Client,
         Connect(d) \/ Disconnect(d) \/ Handler(d)
  PROVE  Told(c)'
<1>1. ChainInv /\ StreamTypeOK
  BY DEF ClientInv, ChainInv
<1>2. UNCHANGED <<sourceVars, relayVars>>
  BY <1>1, ClientKeepsChain
<1>3. Len(emitted') \in Nat /\ Len(emitted') >= Len(emitted) /\ emitted' = emitted
      /\ fanned' = fanned
  BY <1>1, <1>2, ClientTypes DEF sourceVars, relayVars
<1>4. CASE c # d
  <2>1. sub'[c] = sub[c] /\ seen'[c] = seen[c] /\ missed'[c] = missed[c] /\ phase'[c] = phase[c]
    BY <1>1, <1>4
    DEF Connect, Disconnect, Handler, Subscribe, WriteSnapshot, WriteEvent, Leave, Unsubscribe,
        MoveTo, StreamTypeOK
  <2> QED
    BY <2>1, <1>3, UntouchedTold
<1>5. CASE c = d
  <2>1. ASSUME sub' = sub, seen' = seen, missed' = missed, phase'[c] = "live" => phase[c] = "live"
        PROVE  Told(c)'
    BY <2>1, <1>3, UntouchedTold
  <2>2. CASE Connect(c) \/ Disconnect(c) \/ Subscribe(c) \/ Leave(c)
    BY <2>1, <2>2, <1>1 DEF Connect, Disconnect, Subscribe, Leave, MoveTo, StreamTypeOK
  <2>3. CASE WriteSnapshot(c)
    <3>1. CASE left[c]
      BY <2>1, <2>3, <3>1, <1>1 DEF WriteSnapshot, MoveTo, StreamTypeOK
    <3>2. CASE ~left[c]
      BY <2>3, <3>2, WriteSnapshotKeepsTold
    <3> QED
      BY <3>1, <3>2
  <2>4. CASE WriteEvent(c)
    BY <2>4, WriteEventKeepsTold
  <2>5. CASE Unsubscribe(c)
    BY <2>5, UnsubscribeKeepsTold
  <2> QED
    BY <1>5, <2>2, <2>3, <2>4, <2>5 DEF Handler
<1> QED
  BY <1>4, <1>5

\* Every step keeps what is said of every connection.
LEMMA ClientStep == ClientInv /\ [Next]_streamVars => ClientInv'
<1> SUFFICES ASSUME ClientInv, [Next]_streamVars PROVE \A c \in Client : Told(c)'
  BY ChainStep DEF ClientInv
<1>1. TAKE c \in Client
<1>2. CASE Step \/ Publish \/ Cancel \/ ActorExit \/ Receive \/ Forward \/ ForwarderEnd \/ HubEnd
  BY <1>2, SourceKeepsTold
<1>3. CASE FanOut
  BY <1>3, FanOutKeepsTold
<1>4. CASE \E d \in Client : Connect(d) \/ Disconnect(d) \/ Handler(d)
  BY <1>4, HandlerKeepsTold
<1>5. CASE UNCHANGED streamVars
  <2>1. ChainInv
    BY DEF ClientInv
  <2>2. UNCHANGED <<sub, seen, missed, fanned, phase, emitted>>
    BY <1>5 DEF streamVars, sourceVars, relayVars, clientVars
  <2> QED
    BY <2>1, <2>2, ClientTypes, UntouchedTold
<1> QED
  BY <1>2, <1>3, <1>4, <1>5 DEF Next, Relay

\* HandlerWithTelemetry subscribes before it asks for the snapshot: between the
\* snapshot and the hub's position nothing is missing but what a full channel
\* was denied.
THEOREM NeverAHole == Spec => []NoHoleAfterSnapshot
<1>1. ClientInv => NoHoleAfterSnapshot
  BY DEF ClientInv, Told, NoHole, NoHoleAfterSnapshot
<1> QED
  BY InitClients, ClientStep, <1>1, PTL DEF Spec

\* The handler's lastSeq test: no change is written that the connection already
\* has, directly or through a snapshot.
THEOREM ChangesAlwaysMoveForward == Spec => []ChangesOnlyMoveForward
<1>1. ClientInv => ChangesOnlyMoveForward
  <2> SUFFICES ASSUME ClientInv, NEW c \in Client
               PROVE  \A j \in DOMAIN seen[c] :
                        j > 1 /\ emitted[seen[c][j]] = "change" => \A i \in 1..j-1 : seen[c][i] < seen[c][j]
    BY DEF ChangesOnlyMoveForward
  <2>1. DOMAIN seen[c] = 1..Len(seen[c])
    BY ClientTypes DEF ClientInv
  <2> QED
    BY <2>1 DEF ClientInv, Told, OnlyForward
<1> QED
  BY InitClients, ClientStep, <1>1, PTL DEF Spec

-----------------------------------------------------------------------------
Ascending(s) == \A i, j \in 1..Len(s) : i < j => s[i] < s[j]

\* The events of l, b and q are in order, none of them is in x, and together
\* with x they are the first n.
AccountedOf(l, b, q, x, n) ==
  /\ Ascending(l \o b \o q)
  /\ (Elements(l) \union Elements(b) \union Elements(q)) \intersect x = {}
  /\ Elements(l) \union Elements(b) \union Elements(q) \union x = 1..n

-----------------------------------------------------------------------------
(***************************************************************************)
(* Concatenations of events.                                                *)
(***************************************************************************)
LEMMA ElementsConcat ==
  ASSUME NEW S, NEW s \in Seq(S), NEW t \in Seq(S)
  PROVE  Elements(s \o t) = Elements(s) \union Elements(t)
<1>1. /\ s \o t \in Seq(S) /\ Len(s) \in Nat /\ Len(t) \in Nat
      /\ Len(s \o t) = Len(s) + Len(t)
      /\ \A i \in 1..Len(s) + Len(t) : (s \o t)[i] = IF i <= Len(s) THEN s[i] ELSE t[i - Len(s)]
  BY ConcatProperties, LenProperties
<1>2. ASSUME NEW x \in Elements(s \o t)
      PROVE  x \in Elements(s) \union Elements(t)
  <2>1. PICK i \in 1..Len(s \o t) : x = (s \o t)[i]
    BY <1>1, ElementsOf
  <2>2. CASE i <= Len(s)
    <3>1. i \in 1..Len(s) /\ x = s[i]
      BY <2>1, <2>2, <1>1
    <3> QED
      BY <3>1, ElementsOf
  <2>3. CASE ~(i <= Len(s))
    <3>1. i - Len(s) \in 1..Len(t) /\ x = t[i - Len(s)]
      BY <2>1, <2>3, <1>1
    <3> QED
      BY <3>1, ElementsOf
  <2> QED
    BY <2>2, <2>3
<1>3. ASSUME NEW x \in Elements(s)
      PROVE  x \in Elements(s \o t)
  <2>1. PICK i \in 1..Len(s) : x = s[i]
    BY ElementsOf
  <2>2. i \in 1..Len(s \o t) /\ (s \o t)[i] = x
    BY <2>1, <1>1
  <2> QED
    BY <2>2, <1>1, ElementsOf
<1>4. ASSUME NEW x \in Elements(t)
      PROVE  x \in Elements(s \o t)
  <2>1. PICK i \in 1..Len(t) : x = t[i]
    BY ElementsOf
  <2>2. i + Len(s) \in 1..Len(s \o t) /\ (s \o t)[i + Len(s)] = x
    BY <2>1, <1>1
  <2> QED
    BY <2>2, <1>1, ElementsOf
<1> QED
  BY <1>2, <1>3, <1>4

\* The same for three sequences.
LEMMA ElementsConcatTwice ==
  ASSUME NEW S, NEW s \in Seq(S), NEW t \in Seq(S), NEW u \in Seq(S)
  PROVE  Elements(s \o t \o u) = Elements(s) \union Elements(t) \union Elements(u)
<1> DEFINE st == s \o t
<1>1. st \in Seq(S) /\ Elements(st) = Elements(s) \union Elements(t)
  BY ConcatProperties, ElementsConcat
<1>2. Elements(st \o u) = Elements(st) \union Elements(u)
  <2> HIDE DEF st
  <2> QED BY <1>1, ElementsConcat
<1> QED
  BY <1>1, <1>2

\* A concatenation ascends if its parts do and the first lies below the second.
LEMMA AscendingConcat ==
  ASSUME NEW s \in Seq(Nat), NEW t \in Seq(Nat)
  PROVE  Ascending(s \o t) <=>
           /\ Ascending(s) /\ Ascending(t)
           /\ \A x \in Elements(s), y \in Elements(t) : x < y
<1>1. /\ s \o t \in Seq(Nat) /\ Len(s) \in Nat /\ Len(t) \in Nat
      /\ Len(s \o t) = Len(s) + Len(t)
      /\ \A i \in 1..Len(s) + Len(t) : (s \o t)[i] = IF i <= Len(s) THEN s[i] ELSE t[i - Len(s)]
  BY ConcatProperties, LenProperties
<1>2. \A i \in 1..Len(s) : i \in 1..Len(s \o t) /\ (s \o t)[i] = s[i]
  BY <1>1
<1>3. \A j \in 1..Len(t) : j + Len(s) \in 1..Len(s \o t) /\ (s \o t)[j + Len(s)] = t[j]
  BY <1>1
<1>4. ASSUME Ascending(s \o t)
      PROVE  /\ Ascending(s) /\ Ascending(t)
             /\ \A x \in Elements(s), y \in Elements(t) : x < y
  <2>1. Ascending(s)
    BY <1>2, <1>4 DEF Ascending
  <2>2. Ascending(t)
    <3>1. SUFFICES ASSUME NEW i \in 1..Len(t), NEW j \in 1..Len(t), i < j
                   PROVE  t[i] < t[j]
      BY DEF Ascending
    <3>2. i + Len(s) < j + Len(s)
      BY <3>1, <1>1
    <3> QED
      BY <3>2, <1>3, <1>4 DEF Ascending
  <2>3. ASSUME NEW x \in Elements(s), NEW y \in Elements(t)
        PROVE  x < y
    <3>1. PICK i \in 1..Len(s) : x = s[i]
      BY ElementsOf
    <3>2. PICK j \in 1..Len(t) : y = t[j]
      BY ElementsOf
    <3>3. i < j + Len(s)
      BY <1>1
    <3> QED
      BY <3>1, <3>2, <3>3, <1>2, <1>3, <1>4 DEF Ascending
  <2> QED
    BY <2>1, <2>2, <2>3
<1>5. ASSUME Ascending(s), Ascending(t), \A x \in Elements(s), y \in Elements(t) : x < y
      PROVE  Ascending(s \o t)
  <2>1. SUFFICES ASSUME NEW i \in 1..Len(s \o t), NEW j \in 1..Len(s \o t), i < j
                 PROVE  (s \o t)[i] < (s \o t)[j]
    BY DEF Ascending
  <2>2. CASE j <= Len(s)
    <3>1. i \in 1..Len(s) /\ j \in 1..Len(s)
      BY <2>1, <2>2, <1>1
    <3> QED
      BY <3>1, <2>1, <1>2, <1>5 DEF Ascending
  <2>3. CASE i <= Len(s) /\ ~(j <= Len(s))
    <3>1. i \in 1..Len(s) /\ j - Len(s) \in 1..Len(t) /\ (s \o t)[j] = t[j - Len(s)]
      BY <2>1, <2>3, <1>1
    <3>2. s[i] \in Elements(s) /\ t[j - Len(s)] \in Elements(t)
      BY <3>1, ElementsOf
    <3> QED
      BY <3>1, <3>2, <1>2, <1>5
  <2>4. CASE ~(i <= Len(s)) /\ ~(j <= Len(s))
    <3>1. /\ i - Len(s) \in 1..Len(t) /\ (s \o t)[i] = t[i - Len(s)]
          /\ j - Len(s) \in 1..Len(t) /\ (s \o t)[j] = t[j - Len(s)]
          /\ i - Len(s) < j - Len(s)
      BY <2>1, <2>4, <1>1
    <3> QED
      BY <3>1, <1>5 DEF Ascending
  <2> QED
    BY <2>1, <2>2, <2>3, <2>4, <1>1
<1> QED
  BY <1>4, <1>5

\* One event ascends.
LEMMA AscendingOne ==
  ASSUME NEW e \in Nat
  PROVE  <<e>> \in Seq(Nat) /\ Ascending(<<e>>) /\ Elements(<<e>>) = {e}
<1>1. <<e>> \in Seq(Nat) /\ Len(<<e>>) = 1 /\ <<e>>[1] = e
  OBVIOUS
<1>2. \A i \in 1..1 : i = 1
  OBVIOUS
<1> QED
  BY <1>1, <1>2, ElementsOf DEF Ascending, Elements

\* A non-empty sequence is its head followed by its tail.
LEMMA HeadThenTail ==
  ASSUME NEW S, NEW s \in Seq(S), s # <<>>
  PROVE  s = <<Head(s)>> \o Tail(s)
<1>1. /\ Head(s) \in S /\ Tail(s) \in Seq(S) /\ Len(s) \in Nat \ {0} /\ Head(s) = s[1]
      /\ Len(Tail(s)) = Len(s) - 1
      /\ \A i \in 1..Len(Tail(s)) : Tail(s)[i] = s[i+1]
  BY HeadTailProperties, EmptySeq
<1> DEFINE h == <<Head(s)>>
           w == h \o Tail(s)
<1>2. h \in Seq(S) /\ Len(h) = 1 /\ h[1] = s[1]
  BY <1>1
<1>3. /\ w \in Seq(S) /\ Len(w) = 1 + Len(Tail(s))
      /\ \A i \in 1..1 + Len(Tail(s)) : w[i] = IF i <= 1 THEN h[i] ELSE Tail(s)[i - 1]
  BY <1>1, <1>2, ConcatProperties
<1>4. Len(w) = Len(s)
  BY <1>1, <1>3
<1>5. ASSUME NEW i \in 1..Len(s)
      PROVE  s[i] = w[i]
  <2>1. CASE i = 1
    BY <2>1, <1>1, <1>2, <1>3
  <2>2. CASE i # 1
    <3>1. i - 1 \in 1..Len(Tail(s)) /\ i \in 1..1 + Len(Tail(s)) /\ ~(i <= 1)
      BY <2>2, <1>1
    <3> QED
      BY <3>1, <1>1, <1>3
  <2> QED
    BY <2>1, <2>2
<1> QED
  BY <1>3, <1>4, <1>5, SeqEqual

-----------------------------------------------------------------------------
(***************************************************************************)
(* The moves of events between the queue, the batch, the log and the lost.  *)
(***************************************************************************)
\* AccountedOf is Accounted, whose sequences are the recorder's.
LEMMA AccountedParts ==
  ASSUME NEW l \in Seq(Nat), NEW b \in Seq(Nat), NEW q \in Seq(Nat), NEW x, NEW n
  PROVE  AccountedOf(l, b, q, x, n) <=>
           LET kept == l \o b \o q
           IN  /\ \A i, j \in DOMAIN kept : i < j => kept[i] < kept[j]
               /\ Elements(kept) \intersect x = {}
               /\ Elements(kept) \union x = 1..n
<1>1. l \o b \in Seq(Nat) /\ (l \o b) \o q \in Seq(Nat)
  BY ConcatProperties
<1>2. DOMAIN (l \o b \o q) = 1..Len(l \o b \o q)
  BY <1>1, LenProperties
<1>3. Elements(l \o b \o q) = Elements(l) \union Elements(b) \union Elements(q)
  BY ElementsConcatTwice
<1> QED
  BY <1>2, <1>3 DEF AccountedOf, Ascending

\* Concatenation is associative (the library's theorem, for naturals).
LEMMA Associative == \A s, t, u \in Seq(Nat) : (s \o t) \o u = s \o (t \o u)
<1> TAKE s, t, u \in Seq(Nat)
<1> QED
  BY ConcatAssociative

\* enqueue moves the head of the queue to the end of the batch.
LEMMA TakeMoves ==
  ASSUME NEW l \in Seq(Nat), NEW b \in Seq(Nat), NEW q \in Seq(Nat), NEW x, NEW n,
         q # <<>>, AccountedOf(l, b, q, x, n)
  PROVE  AccountedOf(l, Append(b, Head(q)), Tail(q), x, n)
<1>1. Head(q) \in Nat /\ Tail(q) \in Seq(Nat)
  BY HeadTailProperties
<1> DEFINE h == <<Head(q)>>
<1>2. h \in Seq(Nat) /\ Append(b, Head(q)) = b \o h
  BY <1>1, AppendIsConcat
<1>3. l \o (b \o h) \o Tail(q) = l \o b \o q
  <2>1. l \o b \in Seq(Nat)
    BY ConcatProperties
  <2>2. l \o (b \o h) = (l \o b) \o h
    <3> HIDE DEF h
    <3> QED BY Associative, <1>2, Zenon
  <2>3. ((l \o b) \o h) \o Tail(q) = (l \o b) \o (h \o Tail(q))
    <3> HIDE DEF h
    <3> QED BY Associative, <1>1, <1>2, <2>1, Zenon
  <2>4. h \o Tail(q) = q
    BY HeadThenTail
  <2> QED
    BY <2>2, <2>3, <2>4
<1>4. Elements(Append(b, Head(q))) = Elements(b) \union {Head(q)}
  BY <1>1, ElementsAppend
<1>5. Elements(q) = {Head(q)} \union Elements(Tail(q))
  BY ElementsHeadTail
<1>6. Elements(b) \union {Head(q)} \union Elements(Tail(q)) = Elements(b) \union Elements(q)
  BY <1>5
<1> QED
  BY <1>2, <1>3, <1>4, <1>6 DEF AccountedOf

\* A successful write moves the batch to the end of the log.
LEMMA WriteMoves ==
  ASSUME NEW l \in Seq(Nat), NEW b \in Seq(Nat), NEW q \in Seq(Nat), NEW x, NEW n,
         AccountedOf(l, b, q, x, n)
  PROVE  AccountedOf(l \o b, <<>>, q, x, n)
<1>1. l \o b \in Seq(Nat) /\ (l \o b) \o <<>> = l \o b
  BY ConcatProperties, ConcatEmptySeq
<1>2. Elements(l \o b) = Elements(l) \union Elements(b)
  BY ElementsConcat
<1>3. Elements(<<>>) = {}
  BY DEF Elements
<1> QED
  BY <1>1, <1>2, <1>3 DEF AccountedOf

\* A failed write counts the batch as lost.
LEMMA LossMoves ==
  ASSUME NEW l \in Seq(Nat), NEW b \in Seq(Nat), NEW q \in Seq(Nat), NEW x, NEW n,
         AccountedOf(l, b, q, x, n)
  PROVE  AccountedOf(l, <<>>, q, x \union Elements(b), n)
<1>1. l \o b \in Seq(Nat) /\ l \o <<>> = l /\ Elements(<<>>) = {}
  BY ConcatProperties, ConcatEmptySeq DEF Elements
<1>2. /\ Ascending(l \o b) /\ Ascending(q)
      /\ \A y \in Elements(l \o b), z \in Elements(q) : y < z
  BY <1>1, AscendingConcat DEF AccountedOf
<1>3. /\ Ascending(l)
      /\ \A y \in Elements(l), z \in Elements(b) : y < z
  BY <1>2, AscendingConcat
<1>4. Elements(l \o b) = Elements(l) \union Elements(b)
  BY ElementsConcat
<1>5. Ascending(l \o <<>> \o q)
  BY <1>1, <1>2, <1>3, <1>4, AscendingConcat
<1>6. Elements(l) \subseteq Nat /\ Elements(b) \subseteq Nat /\ Elements(q) \subseteq Nat
  BY ElementsOf
<1>7. Elements(l) \intersect Elements(b) = {} /\ Elements(q) \intersect Elements(b) = {}
  <2>1. \A y \in Nat : ~(y < y)
    OBVIOUS
  <2> QED
    BY <2>1, <1>2, <1>3, <1>4, <1>6
<1> QED
  BY <1>1, <1>5, <1>7 DEF AccountedOf

\* forwardAndQueue puts the next event at the end of the queue.
LEMMA QueueGrows ==
  ASSUME NEW l \in Seq(Nat), NEW b \in Seq(Nat), NEW q \in Seq(Nat), NEW x, NEW n \in Nat,
         AccountedOf(l, b, q, x, n)
  PROVE  AccountedOf(l, b, Append(q, n+1), x, n+1)
<1> DEFINE e == <<n+1>>
<1>1. l \o b \in Seq(Nat) /\ Append(q, n+1) = q \o e /\ (l \o b) \o q \in Seq(Nat)
  BY ConcatProperties, AppendIsConcat
<1>2. e \in Seq(Nat) /\ Ascending(e) /\ Elements(e) = {n+1}
  BY AscendingOne
<1>3. (l \o b) \o (q \o e) = ((l \o b) \o q) \o e
  BY <1>1, <1>2, ConcatAssociative
<1>4. Elements((l \o b) \o q) \subseteq 1..n
  BY ElementsConcatTwice DEF AccountedOf
<1>5. \A y \in Elements((l \o b) \o q), z \in Elements(e) : y < z
  <2> HIDE DEF e
  <2>1. \A y \in 1..n : y < n+1
    OBVIOUS
  <2> QED
    BY <2>1, <1>2, <1>4
<1>6. Ascending(((l \o b) \o q) \o e)
  <2> HIDE DEF e
  <2> QED BY <1>1, <1>2, <1>5, AscendingConcat DEF AccountedOf
<1>7. Elements(Append(q, n+1)) = Elements(q) \union {n+1}
  BY ElementsAppend
<1>8. 1..n+1 = 1..n \union {n+1} /\ n+1 \notin 1..n
  OBVIOUS
<1>9. n+1 \notin x
  BY <1>8 DEF AccountedOf
<1> QED
  BY <1>1, <1>3, <1>6, <1>7, <1>8, <1>9 DEF AccountedOf

\* It is lost when the queue is full.
LEMMA LossGrows ==
  ASSUME NEW l, NEW b, NEW q, NEW x, NEW n \in Nat,
         AccountedOf(l, b, q, x, n)
  PROVE  AccountedOf(l, b, q, x \union {n+1}, n+1)
<1>1. 1..n+1 = 1..n \union {n+1} /\ n+1 \notin 1..n
  OBVIOUS
<1> QED
  BY <1>1 DEF AccountedOf

-----------------------------------------------------------------------------
(***************************************************************************)
(* The recorder's steps.                                                    *)
(***************************************************************************)
RecorderTypes ==
  /\ queue \in Seq(Position) /\ Len(queue) <= QueueCap
  /\ batch \in Seq(Position) /\ Len(batch) < BatchSize
  /\ log \in Seq(Position)
  /\ lost \subseteq Position
  /\ writer \in {"running", "draining", "done"}
  /\ sinceSnapshot \in 0..SnapshotEvery-1
  /\ snapshotDue \in BOOLEAN
  /\ snapper \in {"idle", "asking", "ended"}
  /\ saved \subseteq Position
  /\ mark \in {"idle", "asking", "flushing", "waiting", "flushed", "stopped", "gave_up"}
  /\ markFanned \in Position

\* The showcase request began when the hub was not ahead of the forwarder.
PipelineInv ==
  /\ ChainInv
  /\ RecorderTypes
  /\ AccountedOf(log, batch, queue, lost, received)
  /\ markFanned <= received
  /\ FlushCoversStream

\* Nothing the writer does takes an event out of the log or the lost.
Kept == Elements(log) \union lost \subseteq Elements(log') \union lost'

\* The recorder's state when one of its sequences of naturals is asked for.
LEMMA RecorderNats ==
  ASSUME RecorderTypes
  PROVE  /\ queue \in Seq(Nat) /\ batch \in Seq(Nat) /\ log \in Seq(Nat)
         /\ Len(queue) \in Nat /\ Len(batch) \in Nat
<1>1. Position \subseteq Nat
  BY StreamAssumption DEF Position
<1>2. Seq(Position) \subseteq Seq(Nat)
  BY <1>1, SeqMonotonic
<1> QED
  BY <1>2, LenProperties DEF RecorderTypes

\* flush, with q what the queue holds afterwards.
LEMMA FlushKeeps ==
  ASSUME RecorderTypes, NEW b \in Seq(Position), NEW q \in Seq(Nat), NEW n,
         AccountedOf(log, b, q, lost, n), Flush(b)
  PROVE  /\ AccountedOf(log', batch', q, lost', n)
         /\ batch' = <<>>
         /\ log' \in Seq(Position) /\ lost' \subseteq Position
         /\ sinceSnapshot' \in 0..SnapshotEvery-1 /\ snapshotDue' \in BOOLEAN
         /\ Elements(b) \subseteq Elements(log') \union lost'
         /\ Kept
<1>1. /\ batch' = <<>> /\ log \in Seq(Position) /\ lost \subseteq Position
      /\ sinceSnapshot \in 0..SnapshotEvery-1 /\ snapshotDue \in BOOLEAN
  BY DEF RecorderTypes, Flush
<1>2. b \in Seq(Nat) /\ log \in Seq(Nat)
  <2>1. Position \subseteq Nat
    BY StreamAssumption DEF Position
  <2> QED
    BY <2>1, SeqMonotonic, RecorderNats
<1>3. Elements(b) \subseteq Position /\ Len(b) \in Nat
  BY ElementsOf, LenProperties
<1>4. CASE b # <<>> /\ log' = log \o b /\ lost' = lost
  <2>1. sinceSnapshot' \in 0..SnapshotEvery-1 /\ snapshotDue' \in BOOLEAN
    <3>1. \/ sinceSnapshot' = 0 /\ snapshotDue' = TRUE
          \/ /\ ~(sinceSnapshot + Len(b) >= SnapshotEvery)
             /\ sinceSnapshot' = sinceSnapshot + Len(b) /\ snapshotDue' = snapshotDue
          \/ sinceSnapshot' = sinceSnapshot /\ snapshotDue' = snapshotDue
      BY DEF Flush
    <3>2. \A n1 \in 0..SnapshotEvery-1 : ~(n1 + Len(b) >= SnapshotEvery) => n1 + Len(b) \in 0..SnapshotEvery-1
      BY <1>3, PipelineAssumption
    <3>3. 0 \in 0..SnapshotEvery-1
      BY PipelineAssumption
    <3> QED
      BY <3>1, <3>2, <3>3, <1>1
  <2>2. AccountedOf(log', <<>>, q, lost', n)
    BY <1>2, <1>4, WriteMoves
  <2>3. log' \in Seq(Position)
    BY <1>1, <1>4, ConcatProperties
  <2>4. Elements(log') = Elements(log) \union Elements(b)
    BY <1>2, <1>4, ElementsConcat
  <2> QED
    BY <1>1, <1>4, <2>1, <2>2, <2>3, <2>4 DEF Kept
<1>5. CASE b # <<>> /\ lost' = lost \union Elements(b) /\ UNCHANGED <<log, sinceSnapshot, snapshotDue>>
  <2>1. AccountedOf(log', <<>>, q, lost', n)
    BY <1>2, <1>5, LossMoves
  <2> QED
    BY <1>1, <1>3, <1>5, <2>1 DEF Kept
<1>6. CASE b = <<>> /\ UNCHANGED <<log, lost, sinceSnapshot, snapshotDue>>
  <2>1. Elements(b) = {}
    BY <1>6 DEF Elements
  <2> QED
    BY <1>1, <1>6, <2>1 DEF Kept
<1> QED
  BY <1>4, <1>5, <1>6 DEF Flush

\* What a flush request has been answered for stays covered.
LEMMA CoverKept ==
  ASSUME FlushCoversStream, Kept, markFanned' = markFanned, mark' = "flushed" => mark = "flushed"
  PROVE  FlushCoversStream'
  BY DEF FlushCoversStream, Kept

\* enqueue
LEMMA TakeKeeps ==
  ASSUME PipelineInv, ChainInv', Take
  PROVE  PipelineInv'
<1>1. /\ RecorderTypes /\ AccountedOf(log, batch, queue, lost, received)
      /\ queue # <<>> /\ queue' = Tail(queue) /\ received' = received
      /\ writer' = writer /\ UNCHANGED <<snapper, saved, mark, markFanned>>
  BY DEF PipelineInv, Take, streamVars, relayVars, snapshotVars, markVars
<1>2. /\ queue \in Seq(Nat) /\ batch \in Seq(Nat) /\ log \in Seq(Nat)
      /\ Len(queue) \in Nat /\ Len(batch) \in Nat
  BY <1>1, RecorderNats
<1> DEFINE b == Append(batch, Head(queue))
<1>3. /\ queue' \in Seq(Position) /\ queue' \in Seq(Nat) /\ Len(queue') <= QueueCap
      /\ Head(queue) \in Position
  BY <1>1, <1>2, HeadTailProperties, PipelineAssumption DEF RecorderTypes
<1>4. b \in Seq(Position) /\ Len(b) = Len(batch) + 1
  BY <1>1, <1>3, AppendProperties DEF RecorderTypes
<1>5. AccountedOf(log, b, queue', lost, received)
  BY <1>1, <1>2, TakeMoves
<1>6. CASE Len(b) >= BatchSize
  <2>1. Flush(b)
    BY <1>6 DEF Take
  <2>2. /\ AccountedOf(log', batch', queue', lost', received)
        /\ batch' = <<>>
        /\ log' \in Seq(Position) /\ lost' \subseteq Position
        /\ sinceSnapshot' \in 0..SnapshotEvery-1 /\ snapshotDue' \in BOOLEAN
        /\ Kept
    <3> HIDE DEF b
    <3> QED BY <1>1, <1>3, <1>4, <1>5, <2>1, FlushKeeps
  <2>3. batch' \in Seq(Position) /\ Len(batch') < BatchSize
    BY <2>2, PipelineAssumption
  <2>4. RecorderTypes'
    BY <1>1, <1>3, <2>2, <2>3 DEF RecorderTypes
  <2> QED
    BY <1>1, <2>2, <2>4, CoverKept DEF PipelineInv
<1>7. CASE ~(Len(b) >= BatchSize)
  <2>1. batch' = b /\ UNCHANGED <<log, lost, sinceSnapshot, snapshotDue>>
    BY <1>7 DEF Take
  <2>2. Len(b) < BatchSize
    BY <1>2, <1>4, <1>7, PipelineAssumption
  <2>3. RecorderTypes'
    BY <1>1, <1>3, <1>4, <2>1, <2>2 DEF RecorderTypes
  <2>4. Kept
    BY <2>1 DEF Kept
  <2> QED
    BY <1>1, <1>5, <2>1, <2>3, <2>4, CoverKept DEF PipelineInv
<1> QED
  BY <1>6, <1>7

\* The writer's flushes of its batch; when the queue is empty and a request is
\* waiting, everything received so far is in the log or lost.
LEMMA BatchFlushKeeps ==
  ASSUME PipelineInv, ChainInv', FlushTick \/ WriterClosed \/ WriterCancelled \/ FlushDrained
  PROVE  PipelineInv'
<1>1. /\ RecorderTypes /\ AccountedOf(log, batch, queue, lost, received)
      /\ Flush(batch) /\ queue' = queue /\ received' = received
      /\ UNCHANGED <<snapper, saved, markFanned>>
      /\ markFanned <= received /\ FlushCoversStream
  BY DEF PipelineInv, FlushTick, WriterClosed, WriterCancelled, FlushDrained,
         streamVars, relayVars, snapshotVars, markVars
<1>2. queue \in Seq(Nat) /\ batch \in Seq(Position)
  BY <1>1, RecorderNats DEF RecorderTypes
<1>3. /\ AccountedOf(log', batch', queue, lost', received)
      /\ batch' = <<>>
      /\ log' \in Seq(Position) /\ lost' \subseteq Position
      /\ sinceSnapshot' \in 0..SnapshotEvery-1 /\ snapshotDue' \in BOOLEAN
      /\ Kept
  BY <1>1, <1>2, FlushKeeps
<1>4. batch' \in Seq(Position) /\ Len(batch') < BatchSize
  BY <1>3, PipelineAssumption
<1>5. /\ writer' \in {"running", "draining", "done"}
      /\ mark' \in {"idle", "asking", "flushing", "waiting", "flushed", "stopped", "gave_up"}
      /\ mark' = "flushed" => mark = "flushed" \/ queue = <<>>
  BY <1>1 DEF RecorderTypes, FlushTick, WriterClosed, WriterCancelled, FlushDrained, markVars
<1>6. RecorderTypes'
  BY <1>1, <1>3, <1>4, <1>5 DEF RecorderTypes
<1>7. FlushCoversStream'
  <2>1. CASE queue = <<>>
    <3>1. Elements(queue) = {} /\ Elements(batch') = {}
      BY <2>1, <1>3 DEF Elements
    <3>2. 1..received \subseteq Elements(log') \union lost'
      BY <3>1, <1>3 DEF AccountedOf
    <3>3. 1..markFanned \subseteq 1..received
      BY <1>1 DEF PipelineInv, ChainInv, StreamTypeOK, RecorderTypes, Position
    <3> QED
      BY <3>2, <3>3, <1>1 DEF FlushCoversStream
  <2>2. CASE mark' = "flushed" => mark = "flushed"
    BY <2>2, <1>1, <1>3, CoverKept
  <2> QED
    BY <1>5, <2>1, <2>2
<1> QED
  BY <1>1, <1>3, <1>6, <1>7 DEF PipelineInv

\* forwardAndQueue
LEMMA RecordKeeps ==
  ASSUME PipelineInv, ChainInv', Record
  PROVE  PipelineInv'
<1>1. /\ RecorderTypes /\ AccountedOf(log, batch, queue, lost, received)
      /\ received' = received + 1 /\ received \in Nat /\ received + 1 \in Position
      /\ UNCHANGED <<batch, log, writer, sinceSnapshot, snapshotDue, snapper, saved, mark, markFanned>>
      /\ markFanned <= received /\ markFanned \in Nat
  <2>1. received' = received + 1 /\ received < published
    BY DEF Record, Receive
  <2>2. received \in Nat /\ published \in Position /\ markFanned \in Nat
    BY StreamAssumption DEF PipelineInv, ChainInv, StreamTypeOK, RecorderTypes, Position
  <2>3. received + 1 \in Position
    BY <2>1, <2>2, StreamAssumption DEF Position
  <2> QED
    BY <2>1, <2>2, <2>3 DEF PipelineInv, Record, Enqueue, snapshotVars, markVars
<1>2. /\ queue \in Seq(Nat) /\ batch \in Seq(Nat) /\ log \in Seq(Nat) /\ Len(queue) \in Nat
  BY <1>1, RecorderNats
<1>3. markFanned' <= received'
  BY <1>1
<1>4. CASE Len(queue) < QueueCap
  <2>1. queue' = Append(queue, received + 1) /\ lost' = lost
    BY <1>4 DEF Record, Enqueue
  <2>2. AccountedOf(log', batch', queue', lost', received')
    BY <1>1, <1>2, <2>1, QueueGrows
  <2>3. queue' \in Seq(Position) /\ Len(queue') = Len(queue) + 1
    BY <1>1, <2>1, AppendProperties DEF RecorderTypes
  <2>4. RecorderTypes'
    BY <1>1, <1>2, <1>4, <2>1, <2>3, PipelineAssumption DEF RecorderTypes
  <2>5. Kept
    BY <1>1, <2>1 DEF Kept
  <2> QED
    BY <1>1, <1>3, <2>2, <2>4, <2>5, CoverKept DEF PipelineInv
<1>5. CASE ~(Len(queue) < QueueCap)
  <2>1. queue' = queue /\ lost' = lost \union {received + 1}
    BY <1>5 DEF Record, Enqueue
  <2>2. AccountedOf(log', batch', queue', lost', received')
    BY <1>1, <1>2, <2>1, LossGrows
  <2>3. RecorderTypes'
    BY <1>1, <2>1 DEF RecorderTypes
  <2>4. Kept
    BY <1>1, <2>1 DEF Kept
  <2> QED
    BY <1>1, <1>3, <2>2, <2>3, <2>4, CoverKept DEF PipelineInv
<1> QED
  BY <1>4, <1>5

\* What moves no event of the recorder: the rest of the stream, the signals,
\* the snapshots and the showcase request.
LEMMA QuietKeeps ==
  ASSUME PipelineInv, ChainInv', UNCHANGED <<queue, batch, log, lost, received>>,
         \/ UNCHANGED recorderVars
         \/ FlushRequested
         \/ SnapshotTake \/ SnapshotSave \/ SnapshotEnd
         \/ MarkBegin \/ MarkSnapshot \/ MarkStopped \/ MarkGivesUp
  PROVE  PipelineInv'
<1>1. Len(emitted) \in Position /\ fanned \in Position /\ fanned <= received /\ received \in Nat
  BY StreamAssumption DEF PipelineInv, ChainInv, StreamTypeOK, Position
<1>2. RecorderTypes
  BY DEF PipelineInv
<1>3. markFanned' = markFanned \/ markFanned' = fanned
  BY DEF recorderVars, markVars, FlushRequested, SnapshotTake, SnapshotSave, SnapshotEnd, MarkBegin,
         MarkSnapshot, MarkStopped, MarkGivesUp
<1>4. RecorderTypes'
  <2>1. /\ writer' \in {"running", "draining", "done"}
        /\ sinceSnapshot' \in 0..SnapshotEvery-1
        /\ snapshotDue' \in BOOLEAN
        /\ snapper' \in {"idle", "asking", "ended"}
        /\ mark' \in {"idle", "asking", "flushing", "waiting", "flushed", "stopped", "gave_up"}
    BY <1>2 DEF RecorderTypes, recorderVars, writerVars, snapshotVars, markVars, FlushRequested,
                SnapshotTake, SnapshotSave, SnapshotEnd, MarkBegin, MarkSnapshot, MarkStopped, MarkGivesUp
  <2>2. saved' \subseteq Position
    BY <1>1, <1>2 DEF RecorderTypes, recorderVars, snapshotVars, FlushRequested, Save,
                SnapshotTake, SnapshotSave, SnapshotEnd, MarkBegin, MarkSnapshot, MarkStopped, MarkGivesUp
  <2> QED
    BY <1>1, <1>2, <1>3, <2>1, <2>2 DEF RecorderTypes
<1>5. markFanned' <= received'
  BY <1>1, <1>3 DEF PipelineInv
<1>6. FlushCoversStream'
  <2>1. mark' = "flushed" => mark = "flushed" /\ markFanned' = markFanned
    BY DEF recorderVars, markVars, FlushRequested, SnapshotTake, SnapshotSave, SnapshotEnd, MarkBegin,
           MarkSnapshot, MarkStopped, MarkGivesUp
  <2> QED
    BY <2>1 DEF PipelineInv, FlushCoversStream
<1>7. AccountedOf(log, batch, queue, lost, received)'
  BY DEF PipelineInv, AccountedOf
<1> QED
  BY <1>4, <1>5, <1>6, <1>7 DEF PipelineInv

-----------------------------------------------------------------------------
(***************************************************************************)
(* The theorems.                                                            *)
(***************************************************************************)
\* With its recorder attached, every step of the pipeline is a step of the
\* stream or leaves the stream alone.
LEMMA PipelineStreams == [PipelineNext]_pipelineVars => [Next]_streamVars
<1> SUFFICES ASSUME [PipelineNext]_pipelineVars PROVE [Next]_streamVars
  OBVIOUS
<1>1. CASE StreamStep
  BY <1>1 DEF StreamStep, Next, Relay
<1>2. CASE Record
  BY <1>2 DEF Record, Next, Relay
<1>3. CASE Writer
  BY <1>3 DEF Writer, Take, FlushTick, WriterClosed, WriterCancelled, FlushRequested, FlushDrained
<1>4. CASE SnapshotTake \/ SnapshotSave \/ SnapshotEnd
  BY <1>4 DEF SnapshotTake, SnapshotSave, SnapshotEnd
<1>5. CASE MarkBegin \/ MarkSnapshot \/ MarkStopped \/ MarkGivesUp
  BY <1>5 DEF MarkBegin, MarkSnapshot, MarkStopped, MarkGivesUp
<1>6. CASE UNCHANGED pipelineVars
  BY <1>6 DEF pipelineVars
<1> QED
  BY <1>1, <1>2, <1>3, <1>4, <1>5, <1>6 DEF PipelineNext

\* Nothing has been recorded yet.
LEMMA InitPipeline == PipelineInit => PipelineInv
<1> SUFFICES ASSUME PipelineInit PROVE PipelineInv
  OBVIOUS
<1>1. ChainInv /\ received = 0
  BY InitChain DEF PipelineInit, Init
<1>2. /\ queue = <<>> /\ batch = <<>> /\ log = <<>> /\ lost = {} /\ markFanned = 0 /\ mark = "idle"
      /\ Len(<<>>) = 0 /\ <<>> \in Seq(Position) /\ 0 \in Position
  BY StreamAssumption DEF PipelineInit, Position
<1>3. RecorderTypes
  <2>1. Len(<<>>) <= QueueCap /\ Len(<<>>) < BatchSize /\ 0 \in 0..SnapshotEvery-1
    BY <1>2, PipelineAssumption
  <2>2. writer = "running" /\ sinceSnapshot = 0 /\ snapshotDue = FALSE /\ snapper = "idle" /\ saved = {}
    BY DEF PipelineInit
  <2> QED
    BY <1>2, <2>1, <2>2 DEF RecorderTypes
<1>4. AccountedOf(log, batch, queue, lost, received)
  <2>1. <<>> \o <<>> \o <<>> = <<>> /\ Elements(<<>>) = {} /\ 1..0 = {}
    BY ConcatEmptySeq DEF Elements
  <2> QED
    BY <1>1, <1>2, <2>1 DEF AccountedOf, Ascending
<1> QED
  BY <1>1, <1>2, <1>3, <1>4 DEF PipelineInv, FlushCoversStream

\* Every step keeps the pipeline's invariant.
LEMMA PipelineStep == PipelineInv /\ [PipelineNext]_pipelineVars => PipelineInv'
<1> SUFFICES ASSUME PipelineInv, [PipelineNext]_pipelineVars PROVE PipelineInv'
  OBVIOUS
<1>0. ChainInv'
  BY PipelineStreams, ChainStep DEF PipelineInv
<1>1. CASE StreamStep
  <2>1. received' = received /\ UNCHANGED recorderVars
    BY <1>1 DEF StreamStep, Step, Publish, Cancel, ActorExit, Forward, ForwarderEnd, FanOut, HubEnd, relayVars
  <2> QED
    BY <1>0, <2>1, QuietKeeps DEF recorderVars, writerVars
<1>2. CASE Record
  BY <1>0, <1>2, RecordKeeps
<1>3. CASE Take
  BY <1>0, <1>3, TakeKeeps
<1>4. CASE FlushTick \/ WriterClosed \/ WriterCancelled \/ FlushDrained
  BY <1>0, <1>4, BatchFlushKeeps
<1>5. CASE FlushRequested
  <2>1. UNCHANGED <<queue, batch, log, lost, received>>
    BY <1>5 DEF FlushRequested, streamVars, relayVars
  <2> QED
    BY <1>0, <1>5, <2>1, QuietKeeps
<1>6. CASE SnapshotTake \/ SnapshotSave \/ SnapshotEnd
  <2>1. UNCHANGED <<queue, batch, log, lost, received>>
    BY <1>6 DEF SnapshotTake, SnapshotSave, SnapshotEnd, streamVars, relayVars, writerVars
  <2> QED
    BY <1>0, <1>6, <2>1, QuietKeeps
<1>7. CASE MarkBegin \/ MarkSnapshot \/ MarkStopped \/ MarkGivesUp
  <2>1. UNCHANGED <<queue, batch, log, lost, received>>
    BY <1>7 DEF MarkBegin, MarkSnapshot, MarkStopped, MarkGivesUp, streamVars, relayVars, writerVars
  <2> QED
    BY <1>0, <1>7, <2>1, QuietKeeps
<1>8. CASE UNCHANGED pipelineVars
  <2>1. UNCHANGED <<queue, batch, log, lost, received>> /\ UNCHANGED recorderVars
    BY <1>8 DEF pipelineVars, recorderVars, streamVars, relayVars, writerVars
  <2> QED
    BY <1>0, <2>1, QuietKeeps
<1> QED
  BY <1>1, <1>2, <1>3, <1>4, <1>5, <1>6, <1>7, <1>8 DEF PipelineNext, Writer

\* forwardAndQueue never waits for the recorder: with a recorder attached, each
\* behaviour of the stream is one the stream could have without it, so that
\* what is proved of the stream holds of a recorded run.
THEOREM RecorderLeavesStreamAlone == PipelineSpec => Spec
<1>1. PipelineInit => Init
  BY DEF PipelineInit
<1> QED
  BY <1>1, PipelineStreams, PTL DEF PipelineSpec, Spec

\* The recorder's state keeps its types, its queue and its batch their bounds.
THEOREM PipelineTypeCorrect == PipelineSpec => []PipelineTypeOK
<1>1. PipelineInv => PipelineTypeOK
  BY DEF PipelineInv, ChainInv, RecorderTypes, PipelineTypeOK
<1> QED
  BY InitPipeline, PipelineStep, <1>1, PTL DEF PipelineSpec

\* Every event the forwarder has taken is in the log, the batch or the queue,
\* once and in order, or is counted as lost.
THEOREM AlwaysAccounted == PipelineSpec => []Accounted
<1>1. PipelineInv => Accounted
  BY RecorderNats, AccountedParts DEF PipelineInv, Accounted
<1> QED
  BY InitPipeline, PipelineStep, <1>1, PTL DEF PipelineSpec

\* Recorder.Flush, once answered, has covered all that viewers had been sent
\* when MarkShowcase began.
THEOREM FlushAlwaysCovers == PipelineSpec => []FlushCoversStream
<1>1. PipelineInv => FlushCoversStream
  BY DEF PipelineInv
<1> QED
  BY InitPipeline, PipelineStep, <1>1, PTL DEF PipelineSpec

=============================================================================
