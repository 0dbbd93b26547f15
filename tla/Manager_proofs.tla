--------------------------- MODULE Manager_proofs ---------------------------
(***************************************************************************)
(* The manager's two limits on runs, for any number of requests, sessions   *)
(* and runs: its capacity, which it checks under the lock it inserts with,  *)
(* and a session's quota, which it checks under another.  And its shutdown: *)
(* a process that ends has cancelled its runs and waited for their          *)
(* recorders to be done.                                                    *)
(* And the slots of orders, whose count moves in other critical sections    *)
(* than the commands it counts.                                             *)
(***************************************************************************)
EXTENDS Manager, Iteration_proofs, FiniteSetTheorems

\* The requests that are past the quota check and not yet under the lock.
Creating(s) == {q \in Request : req[q].step = "insert" /\ req[q].session = s}

\* Every request is at some step.
HaveSteps == DOMAIN req = Request /\ \A q \in Request : "step" \in DOMAIN req[q]

\* Every tracked run has an owner.
HaveOwners == \A r \in Tracked : "owner" \in DOMAIN entries[r]

\* What both limits rest on: only runs that can exist are tracked.
LimitsInv ==
  /\ HaveSteps
  /\ HaveOwners
  /\ Tracked \subseteq Run
  /\ CapacityHeld
  /\ QuotaBound

-----------------------------------------------------------------------------
\* No run is tracked by an empty manager.
LEMMA NothingTracked == DOMAIN <<>> = {}
  OBVIOUS

\* The sets that are counted are finite.
LEMMA CountedAreFinite ==
  ASSUME Tracked \subseteq Run
  PROVE  /\ IsFiniteSet(Tracked)
         /\ \A s : IsFiniteSet(OwnedBy(s)) /\ OwnedBy(s) \subseteq Tracked
         /\ \A s : IsFiniteSet(Creating(s)) /\ Creating(s) \subseteq Request
         /\ Cardinality(Tracked) \in Nat
         /\ \A s : Cardinality(OwnedBy(s)) \in Nat /\ Cardinality(Creating(s)) \in Nat
         /\ Cardinality(Request) \in Nat
<1>1. IsFiniteSet(Request) /\ IsFiniteSet(Run)
  BY ManagerAssumption
<1>2. IsFiniteSet(Tracked)
  BY <1>1, FS_Subset
<1>3. \A s : IsFiniteSet(OwnedBy(s)) /\ OwnedBy(s) \subseteq Tracked
  BY <1>2, FS_Subset DEF OwnedBy
<1>4. \A s : IsFiniteSet(Creating(s)) /\ Creating(s) \subseteq Request
  BY <1>1, FS_Subset DEF Creating
<1> QED
  BY <1>1, <1>2, <1>3, <1>4, FS_CardinalityType

\* A step after which every session owns no more, and has no more requests
\* creating, keeps the quota's bound.
LEMMA FewerKeepsQuota ==
  ASSUME LimitsInv, Tracked' \subseteq Run,
         \A s \in Session : OwnedBy(s)' \subseteq OwnedBy(s),
         \A s \in Session : Creating(s)' \subseteq Creating(s)
  PROVE  QuotaBound'
<1> SUFFICES ASSUME NEW s \in Session
             PROVE  Cardinality(OwnedBy(s)') + Cardinality(Creating(s)')
                      <= Quota + Cardinality(Request) - 1
  BY DEF QuotaBound, Creating
<1>1. /\ IsFiniteSet(OwnedBy(s)) /\ IsFiniteSet(Creating(s))
      /\ Cardinality(OwnedBy(s)) \in Nat /\ Cardinality(Creating(s)) \in Nat
      /\ Cardinality(Request) \in Nat
  BY CountedAreFinite DEF LimitsInv
<1>2. /\ Cardinality(OwnedBy(s)') \in Nat
      /\ Cardinality(OwnedBy(s)') <= Cardinality(OwnedBy(s))
  BY <1>1, FS_Subset, FS_CardinalityType
<1>3. /\ Cardinality(Creating(s)') \in Nat
      /\ Cardinality(Creating(s)') <= Cardinality(Creating(s))
  BY <1>1, FS_Subset, FS_CardinalityType
<1>4. Cardinality(OwnedBy(s)) + Cardinality(Creating(s)) <= Quota + Cardinality(Request) - 1
  BY DEF LimitsInv, QuotaBound, Creating
<1> QED
  BY <1>1, <1>2, <1>3, <1>4, ManagerAssumption

\* So does one that only forgets runs, or moves requests on without letting
\* any of them past the quota check.
LEMMA NobodyCreates ==
  ASSUME LimitsInv, HaveSteps',
         Tracked' \subseteq Tracked,
         \A r \in Tracked' : /\ entries'[r].owner = entries[r].owner
                             /\ "owner" \in DOMAIN entries'[r],
         \A q \in Request : req'[q] = req[q] \/ req'[q].step # "insert"
  PROVE  LimitsInv'
<1>1. Tracked' \subseteq Run
  BY DEF LimitsInv
<1>2. CapacityHeld'
  <2>1. IsFiniteSet(Tracked) /\ Cardinality(Tracked) \in Nat
    BY CountedAreFinite DEF LimitsInv
  <2>2. Cardinality(Tracked') <= Cardinality(Tracked) /\ Cardinality(Tracked') \in Nat
    BY <2>1, FS_Subset, FS_CardinalityType
  <2> QED
    BY <2>1, <2>2, ManagerAssumption DEF LimitsInv, CapacityHeld
<1>3. \A s \in Session : OwnedBy(s)' \subseteq OwnedBy(s)
  BY DEF OwnedBy
<1>4. \A s \in Session : Creating(s)' \subseteq Creating(s)
  BY DEF Creating
<1> QED
  BY <1>1, <1>2, <1>3, <1>4, FewerKeepsQuota DEF LimitsInv, HaveOwners, Tracked

-----------------------------------------------------------------------------
LEMMA InitLimits == Init => LimitsInv
<1> SUFFICES ASSUME Init PROVE LimitsInv
  OBVIOUS
<1>1. Tracked = {}
  BY NothingTracked DEF Init, Tracked
<1>2. \A s \in Session : OwnedBy(s) = {} /\ Creating(s) = {}
  BY <1>1 DEF OwnedBy, Creating, Init, Idle
<1>3. Cardinality({}) = 0
  BY FS_EmptySet
<1>4. Cardinality(Request) \in Nat
  BY ManagerAssumption, FS_CardinalityType
<1>5. CapacityHeld
  BY <1>1, <1>3, ManagerAssumption DEF CapacityHeld
<1>6. QuotaBound
  <2>1. 0 + 0 <= Quota + Cardinality(Request) - 1
    BY <1>4, ManagerAssumption
  <2>2. \A s \in Session :
          Cardinality(OwnedBy(s)) + Cardinality(Creating(s)) <= Quota + Cardinality(Request) - 1
    BY <1>2, <1>3, <2>1
  <2> QED
    BY <2>2 DEF QuotaBound, Creating
<1> QED
  BY <1>1, <1>5, <1>6 DEF LimitsInv, HaveSteps, HaveOwners, Init, Idle

-----------------------------------------------------------------------------
\* The two ways a request moves on.
LEMMA StepsRemain ==
  ASSUME HaveSteps, NEW q \in Request
  PROVE  /\ \A s : Goto(q, s) => /\ HaveSteps' /\ req'[q].step = s
                                 /\ \A p \in Request \ {q} : req'[p] = req[p]
         /\ Return(q) => /\ HaveSteps' /\ req'[q].step = "idle"
                         /\ \A p \in Request \ {q} : req'[p] = req[p]
  BY DEF HaveSteps, Goto, Return, Idle

\* The quota check lets one request past only while its session is below its
\* quota, so however many others are past it already, the bound is kept.
LEMMA CheckQuotaKeeps == \A q \in Request : LimitsInv /\ CheckQuota(q) => LimitsInv'
<1> SUFFICES ASSUME LimitsInv, NEW q \in Request, CheckQuota(q) PROVE LimitsInv'
  OBVIOUS
<1>0. entries' = entries /\ Tracked' = Tracked /\ \A s : OwnedBy(s)' = OwnedBy(s)
  BY DEF CheckQuota, Tracked, OwnedBy
<1>1. CASE Cardinality(OwnedBy(req[q].session)) < Quota /\ Goto(q, "insert")
  <2>1. Tracked' \subseteq Run /\ HaveOwners' /\ CapacityHeld'
    BY <1>0 DEF LimitsInv, CapacityHeld, HaveOwners
  <2>2. ASSUME NEW s \in Session, s # req[q].session
        PROVE  Creating(s)' \subseteq Creating(s)
    BY <1>1, <2>2 DEF Creating, Goto, LimitsInv, HaveSteps
  <2>3. ASSUME NEW s \in Session
        PROVE  Cardinality(OwnedBy(s)') + Cardinality(Creating(s)')
                 <= Quota + Cardinality(Request) - 1
    <3>1. /\ Cardinality(OwnedBy(s)) \in Nat /\ Cardinality(Creating(s)) \in Nat
          /\ Cardinality(Request) \in Nat /\ IsFiniteSet(Request)
          /\ IsFiniteSet(Creating(s))
      BY CountedAreFinite, ManagerAssumption DEF LimitsInv
    <3>2. /\ Creating(s)' \subseteq Request
          /\ Cardinality(Creating(s)') <= Cardinality(Request)
          /\ Cardinality(Creating(s)') \in Nat
      <4>1. Creating(s)' \subseteq Request
        BY DEF Creating
      <4> QED
        BY <4>1, <3>1, FS_Subset, FS_CardinalityType
    <3>3. CASE s = req[q].session
      BY <1>0, <1>1, <3>1, <3>2, <3>3, ManagerAssumption
    <3>4. CASE s # req[q].session
      <4>1. Cardinality(Creating(s)') <= Cardinality(Creating(s))
        BY <2>2, <3>4, <3>1, FS_Subset
      <4>2. Cardinality(OwnedBy(s)) + Cardinality(Creating(s)) <= Quota + Cardinality(Request) - 1
        BY DEF LimitsInv, QuotaBound, Creating
      <4> QED
        BY <1>0, <4>1, <4>2, <3>1, <3>2, ManagerAssumption
    <3> QED
      BY <3>3, <3>4
  <2> QED
    BY <1>1, <2>1, <2>3, StepsRemain DEF LimitsInv, QuotaBound, Creating
<1>2. CASE Return(q)
  BY <1>0, <1>2, NobodyCreates, StepsRemain DEF LimitsInv, HaveOwners
<1> QED
  BY <1>1, <1>2 DEF CheckQuota

\* Inserting a run turns one request that creates into one run that is owned.
LEMMA InsertKeeps == \A q \in Request : LimitsInv /\ Insert(q) => LimitsInv'
<1> SUFFICES ASSUME LimitsInv, NEW q \in Request, Insert(q) PROVE LimitsInv'
  OBVIOUS
<1>1. CASE Cardinality(Tracked) >= Max
  BY <1>1, NobodyCreates, StepsRemain DEF Insert, LimitsInv, HaveOwners, Tracked
<1>2. CASE ~(Cardinality(Tracked) >= Max)
  <2>1. PICK r \in Run :
          entries' = [t \in Tracked \union {r} |->
                        IF t = r THEN [owner |-> req[q].session, orders |-> 0] ELSE entries[t]]
    BY <1>2 DEF Insert
  <2>2. Tracked' = Tracked \union {r}
    BY <2>1 DEF Tracked
  <2>3. HaveOwners'
    BY <2>1, <2>2 DEF HaveOwners, LimitsInv
  <2>4. /\ IsFiniteSet(Tracked) /\ Cardinality(Tracked) \in Nat
        /\ Cardinality(Request) \in Nat
    BY CountedAreFinite DEF LimitsInv
  <2>5. Tracked' \subseteq Run /\ CapacityHeld'
    <3>1. Cardinality(Tracked \union {r}) = IF r \in Tracked THEN Cardinality(Tracked)
                                            ELSE Cardinality(Tracked) + 1
      BY <2>4, FS_AddElement, Zenon
    <3> QED
      BY <1>2, <2>2, <2>4, <3>1, ManagerAssumption DEF LimitsInv, CapacityHeld
  <2>6. ASSUME NEW s \in Session
        PROVE  Cardinality(OwnedBy(s)') + Cardinality(Creating(s)')
                 <= Quota + Cardinality(Request) - 1
    <3>1. /\ IsFiniteSet(OwnedBy(s)) /\ IsFiniteSet(Creating(s))
          /\ Cardinality(OwnedBy(s)) \in Nat /\ Cardinality(Creating(s)) \in Nat
      BY CountedAreFinite DEF LimitsInv
    <3>2. Cardinality(OwnedBy(s)) + Cardinality(Creating(s)) <= Quota + Cardinality(Request) - 1
      BY DEF LimitsInv, QuotaBound, Creating
    <3>3. CASE s = req[q].session
      <4>1. OwnedBy(s)' \subseteq OwnedBy(s) \union {r}
        BY <2>1, <2>2 DEF OwnedBy
      <4>2. /\ Cardinality(OwnedBy(s)') <= Cardinality(OwnedBy(s)) + 1
            /\ Cardinality(OwnedBy(s)') \in Nat
        <5>1. /\ IsFiniteSet(OwnedBy(s) \union {r})
              /\ Cardinality(OwnedBy(s) \union {r}) =
                   IF r \in OwnedBy(s) THEN Cardinality(OwnedBy(s))
                   ELSE Cardinality(OwnedBy(s)) + 1
          BY <3>1, FS_AddElement, Zenon
        <5>2. /\ IsFiniteSet(OwnedBy(s)')
              /\ Cardinality(OwnedBy(s)') <= Cardinality(OwnedBy(s) \union {r})
          BY <4>1, <5>1, FS_Subset
        <5>3. Cardinality(OwnedBy(s)') \in Nat
          BY <5>2, FS_CardinalityType
        <5> QED
          BY <5>1, <5>2, <5>3, <3>1
      <4>3. Creating(s)' = Creating(s) \ {q} /\ q \in Creating(s)
        BY <3>3, StepsRemain DEF Creating, Insert, At, LimitsInv
      <4>4. /\ Cardinality(Creating(s)') = Cardinality(Creating(s)) - 1
        BY <4>3, <3>1, FS_RemoveElement
      <4> QED
        BY <4>2, <4>4, <3>1, <3>2, <2>4, ManagerAssumption
    <3>4. CASE s # req[q].session
      <4>1. OwnedBy(s)' \subseteq OwnedBy(s)
        BY <3>4, <2>1, <2>2 DEF OwnedBy
      <4>2. Creating(s)' \subseteq Creating(s)
        BY StepsRemain DEF Creating, Insert, LimitsInv
      <4>3. /\ Cardinality(OwnedBy(s)') <= Cardinality(OwnedBy(s))
            /\ Cardinality(OwnedBy(s)') \in Nat
            /\ Cardinality(Creating(s)') <= Cardinality(Creating(s))
            /\ Cardinality(Creating(s)') \in Nat
        BY <4>1, <4>2, <3>1, FS_Subset, FS_CardinalityType
      <4> QED
        BY <4>3, <3>1, <3>2, <2>4, ManagerAssumption
    <3> QED
      BY <3>3, <3>4
  <2> QED
    BY <2>3, <2>5, <2>6, StepsRemain DEF LimitsInv, QuotaBound, Creating, Insert
<1> QED
  BY <1>1, <1>2

-----------------------------------------------------------------------------
LEMMA LimitsStep == LimitsInv /\ [Next]_managerVars => LimitsInv'
<1> SUFFICES ASSUME LimitsInv, [Next]_managerVars PROVE LimitsInv'
  OBVIOUS
<1> USE DEF Tracked
<1>1. ASSUME NEW q \in Request, Arrive(q) PROVE LimitsInv'
  BY <1>1, NobodyCreates DEF Arrive, Op, FirstStep, LimitsInv, HaveSteps, HaveOwners, Idle
<1>2. ASSUME NEW q \in Request, ReserveOrder(q) PROVE LimitsInv'
  <2>1. Goto(q, "lookup") \/ Return(q)
    BY <1>2 DEF ReserveOrder
  <2>2. /\ HaveSteps'
        /\ \A p \in Request : req'[p] = req[p] \/ req'[p].step # "insert"
    BY <2>1, StepsRemain DEF LimitsInv
  <2>3. entries' = entries \/ entries' = [entries EXCEPT ![req[q].run].orders = @ + 1]
    BY <1>2 DEF ReserveOrder
  <2>4. /\ Tracked' = Tracked
        /\ \A r \in Tracked : /\ entries'[r].owner = entries[r].owner
                              /\ "owner" \in DOMAIN entries'[r]
    BY <2>3 DEF LimitsInv, HaveOwners
  <2> QED
    BY <2>2, <2>4, NobodyCreates
<1>3. ASSUME NEW q \in Request, Lookup(q) PROVE LimitsInv'
  BY <1>3, NobodyCreates, StepsRemain DEF Lookup, Fail, LimitsInv, HaveOwners
<1>4. ASSUME NEW q \in Request, Send(q) PROVE LimitsInv'
  BY <1>4, NobodyCreates, StepsRemain DEF Send, Fail, LimitsInv, HaveOwners
<1>5. ASSUME NEW q \in Request, ReleaseOrder(q) PROVE LimitsInv'
  BY <1>5, NobodyCreates, StepsRemain DEF ReleaseOrder, LimitsInv, HaveOwners
<1>6. ASSUME NEW q \in Request, ClearOrders(q) PROVE LimitsInv'
  BY <1>6, NobodyCreates, StepsRemain DEF ClearOrders, LimitsInv, HaveOwners
<1>7. ASSUME NEW q \in Request, Answer(q) PROVE LimitsInv'
  BY <1>7, NobodyCreates, StepsRemain DEF Answer, LimitsInv, HaveOwners
<1>8. ASSUME NEW r \in Run, ActorStep(r) PROVE LimitsInv'
  BY <1>8, NobodyCreates DEF ActorStep, LimitsInv, HaveSteps, HaveOwners
<1>9. CASE Signal \/ Drained \/ Exit \/ Ended \/ UNCHANGED managerVars
  BY <1>9, NobodyCreates DEF Signal, Drained, Exit, Ended, managerVars, LimitsInv, HaveSteps, HaveOwners
<1>10. CASE Shutdown
  BY <1>10, NothingTracked, NobodyCreates DEF Shutdown, LimitsInv, HaveSteps, HaveOwners
<1>11. ASSUME NEW r \in Run, RecorderDone(r) PROVE LimitsInv'
  BY <1>11, NobodyCreates DEF RecorderDone, LimitsInv, HaveSteps, HaveOwners
<1> QED
  BY <1>1, <1>2, <1>3, <1>4, <1>5, <1>6, <1>7, <1>8, <1>9, <1>10, <1>11,
     CheckQuotaKeeps, InsertKeeps DEF Next, Handle

\* Whatever the interleaving of requests, actors and shutdown, the manager
\* never tracks more runs than its capacity.
THEOREM CapacityAlways == Spec => []CapacityHeld
<1>1. LimitsInv => CapacityHeld
  BY DEF LimitsInv
<1> QED
  BY InitLimits, LimitsStep, <1>1, PTL DEF Spec

\* A session exceeds its quota by no more than the requests that passed the
\* check together with the one that was within it.
THEOREM QuotaAlways == Spec => []QuotaBound
<1>1. LimitsInv => QuotaBound
  BY DEF LimitsInv
<1> QED
  BY InitLimits, LimitsStep, <1>1, PTL DEF Spec

-----------------------------------------------------------------------------
(***************************************************************************)
(* Shutdown.                                                                *)
(***************************************************************************)
State == {"none", "running", "cancelled"}

\* A run that goes on is tracked, so that the shutdown finds it; and once the
\* listener's last request has returned, none comes after it.
ShutdownInv ==
  /\ HaveSteps
  /\ DOMAIN actor = Run
  /\ \A r \in Run : "state" \in DOMAIN actor[r] /\ actor[r].state \in State
  /\ \A r \in Run : actor[r].state = "running" => r \in Tracked
  /\ server \in {"stopping", "waiting", "exited"} /\ "http" \notin late =>
       \A q \in Request : req[q] = Idle
  /\ server \in {"waiting", "exited"} /\ "http" \notin late =>
       \A r \in Run : actor[r].state # "running"
  /\ recording \subseteq Run /\ \A r \in recording : actor[r].state # "none"
  /\ server = "exited" /\ late = {} => recording = {}

\* A request that is somewhere outlives the listener's shutdown or comes before
\* it has ended.
LEMMA BusyMeansLate ==
  ASSUME ShutdownInv, NEW q \in Request, NEW s, s # "idle", At(q, s)
  PROVE  server \notin {"stopping", "waiting"} \/ "http" \in late
  BY DEF ShutdownInv, At, Idle

\* A step of a request that leaves the runs and their states as they are.
LEMMA RequestKeepsShutdown ==
  ASSUME ShutdownInv, NEW q \in Request, NEW s, s # "idle", At(q, s),
         HaveSteps', Tracked' = Tracked, UNCHANGED <<server, late, recording>>,
         DOMAIN actor' = Run,
         \A r \in Run : "state" \in DOMAIN actor'[r] /\ actor'[r].state = actor[r].state
  PROVE  ShutdownInv'
<1>1. server' # "exited"
  BY DEF At
<1> QED
  BY <1>1, BusyMeansLate DEF ShutdownInv

LEMMA ShutdownStep == ShutdownInv /\ [Next]_managerVars => ShutdownInv'
<1> SUFFICES ASSUME ShutdownInv, [Next]_managerVars PROVE ShutdownInv'
  OBVIOUS
<1>1. ASSUME NEW q \in Request, Arrive(q) PROVE ShutdownInv'
  BY <1>1 DEF Arrive, ShutdownInv, HaveSteps, Tracked, FirstStep, Op, Idle
<1>2. ASSUME NEW q \in Request, CheckQuota(q) PROVE ShutdownInv'
  BY <1>2, RequestKeepsShutdown, StepsRemain DEF CheckQuota, Tracked, ShutdownInv
<1>3. ASSUME NEW q \in Request, Insert(q) PROVE ShutdownInv'
  <2>1. At(q, "insert") /\ HaveSteps' /\ UNCHANGED <<server, late>>
    BY <1>3, StepsRemain DEF Insert, ShutdownInv
  <2>2. CASE Cardinality(Tracked) >= Max
    BY <1>3, <2>1, <2>2, RequestKeepsShutdown DEF Insert, Tracked, ShutdownInv
  <2>3. CASE ~(Cardinality(Tracked) >= Max)
    <3>1. PICK r \in Run : /\ actor' = [actor EXCEPT ![r].state = "running"]
                           /\ Tracked' = Tracked \union {r}
                           /\ recording' = recording \union {r}
      BY <1>3, <2>3 DEF Insert, Tracked
    <3>2. /\ DOMAIN actor' = Run
          /\ \A t \in Run : /\ "state" \in DOMAIN actor'[t]
                            /\ actor'[t].state = IF t = r THEN "running" ELSE actor[t].state
      BY <3>1 DEF ShutdownInv
    <3>3. server \notin {"stopping", "waiting", "exited"} \/ "http" \in late
      BY <2>1, BusyMeansLate DEF At
    <3> QED
      BY <2>1, <3>1, <3>2, <3>3 DEF ShutdownInv, State
  <2> QED
    BY <2>2, <2>3
<1>4. ASSUME NEW q \in Request, ReserveOrder(q) PROVE ShutdownInv'
  <2>1. /\ At(q, "reserve") /\ HaveSteps' /\ UNCHANGED <<actor, server, late, recording>>
    BY <1>4, StepsRemain DEF ReserveOrder, ShutdownInv
  <2>2. Tracked' = Tracked
    BY <1>4 DEF ReserveOrder, Tracked
  <2> QED
    BY <2>1, <2>2, RequestKeepsShutdown DEF ShutdownInv
<1>5. ASSUME NEW q \in Request, Lookup(q) PROVE ShutdownInv'
  BY <1>5, RequestKeepsShutdown, StepsRemain DEF Lookup, Fail, Tracked, ShutdownInv
<1>6. ASSUME NEW q \in Request, Send(q) PROVE ShutdownInv'
  <2>1. /\ At(q, "send") /\ HaveSteps' /\ Tracked' = Tracked /\ UNCHANGED <<server, late, recording>>
    BY <1>6, StepsRemain DEF Send, Fail, Tracked, ShutdownInv
  <2>2. \/ actor' = actor
        \/ actor' = [actor EXCEPT ![req[q].run].inbox = Append(@, req[q].op)]
    BY <1>6 DEF Send
  <2>3. /\ DOMAIN actor' = Run
        /\ \A r \in Run : "state" \in DOMAIN actor'[r] /\ actor'[r].state = actor[r].state
    BY <2>2 DEF ShutdownInv
  <2> QED
    BY <2>1, <2>3, RequestKeepsShutdown
<1>7. ASSUME NEW q \in Request, ReleaseOrder(q) \/ ClearOrders(q) PROVE ShutdownInv'
  <2>1. PICK s \in {"release", "clear"} : At(q, s)
    BY <1>7 DEF ReleaseOrder, ClearOrders
  <2>2. /\ HaveSteps' /\ Tracked' = Tracked /\ UNCHANGED <<actor, server, late, recording>>
    BY <1>7, StepsRemain DEF ReleaseOrder, ClearOrders, Tracked, ShutdownInv
  <2> QED
    BY <2>1, <2>2, RequestKeepsShutdown DEF ShutdownInv
<1>8. ASSUME NEW q \in Request, Answer(q) PROVE ShutdownInv'
  BY <1>8, RequestKeepsShutdown, StepsRemain DEF Answer, Tracked, ShutdownInv
<1>9. ASSUME NEW r \in Run, ActorStep(r) PROVE ShutdownInv'
  <2>1. /\ DOMAIN actor' = Run
        /\ \A t \in Run : "state" \in DOMAIN actor'[t] /\ actor'[t].state = actor[t].state
    BY <1>9 DEF ActorStep, ShutdownInv
  <2> QED
    BY <1>9, <2>1 DEF ActorStep, ShutdownInv, HaveSteps, Tracked
<1>10. CASE Signal \/ Ended \/ UNCHANGED managerVars
  BY <1>10 DEF Signal, Ended, managerVars, ShutdownInv, HaveSteps, Tracked
<1>11. CASE Drained
  BY <1>11 DEF Drained, ShutdownInv, HaveSteps, Tracked
<1>12. CASE Shutdown
  <2>1. /\ DOMAIN actor' = Run
        /\ \A r \in Run : /\ "state" \in DOMAIN actor'[r]
                          /\ actor'[r].state = IF r \in Tracked THEN "cancelled" ELSE actor[r].state
    BY <1>12 DEF Shutdown, ShutdownInv
  <2>2. \A r \in Run : actor'[r].state # "running"
    BY <2>1 DEF ShutdownInv
  <2> QED
    BY <1>12, <2>1, <2>2 DEF Shutdown, ShutdownInv, HaveSteps, State
<1>13. CASE Exit
  <2>1. late' = {} /\ "http" \notin late => recording = {}
    BY <1>13 DEF Exit, ShutdownInv, State
  <2>2. late' = {} => late = {}
    BY <1>13 DEF Exit
  <2> QED
    BY <1>13, <2>1, <2>2 DEF Exit, ShutdownInv, HaveSteps, Tracked
<1>14. ASSUME NEW r \in Run, RecorderDone(r) PROVE ShutdownInv'
  BY <1>14 DEF RecorderDone, ShutdownInv, HaveSteps, Tracked
<1> QED
  BY <1>1, <1>2, <1>3, <1>4, <1>5, <1>6, <1>7, <1>8, <1>9, <1>10, <1>11, <1>12, <1>13, <1>14
     DEF Next, Handle

\* When the process ends, a shutdown that no request outlived has cancelled every
\* run; and one that gave up on nothing has no recorder still writing to the store
\* it closes.
THEOREM ShutdownAlwaysClean == Spec => []CleanShutdown
<1>1. Init => ShutdownInv
  BY DEF Init, ShutdownInv, HaveSteps, Idle, NoActor, State
<1>2. ShutdownInv => CleanShutdown
  BY DEF ShutdownInv, CleanShutdown
<1> QED
  BY <1>1, <1>2, ShutdownStep, PTL DEF Spec

-----------------------------------------------------------------------------
(***************************************************************************)
(* The orders a run will hold.                                              *)
(***************************************************************************)
\* Outcome, of an actor as it is.
OutcomeOf(a) ==
  LET held[i \in 0..Len(a.inbox)] ==
        IF i = 0 THEN a.held ELSE After(held[i-1], a.inbox[i])
  IN  held[Len(a.inbox)]

ActorType == [state : State, inbox : Seq(Op), held : Nat]

\* h counts the orders of a through its buffer.
Counts(h, a) ==
  /\ h \in [0..Len(a.inbox) -> Nat]
  /\ h[0] = a.held
  /\ \A i \in 1..Len(a.inbox) : h[i] = After(h[i-1], a.inbox[i])

LEMMA OutcomeIsOf == \A r : Outcome(r) = OutcomeOf(actor[r])
  BY DEF Outcome, OutcomeOf

LEMMA AfterType == \A n \in Nat, op \in Op : After(n, op) \in Nat
  BY DEF After, Op

\* Two counts that agree at first, and after a round if before it, agree.
LEMMA CountsAgree ==
  ASSUME NEW n \in Nat, NEW g, NEW h, g[0] = h[0],
         \A i \in 1..n : g[i-1] = h[i-1] => g[i] = h[i]
  PROVE  \A i \in 0..n : g[i] = h[i]
<1> DEFINE Differ == {i \in 0..n : g[i] # h[i]}
<1>1. SUFFICES ASSUME Differ # {} PROVE FALSE
  OBVIOUS
<1>2. Differ \in SUBSET Nat
  OBVIOUS
<1>3. PICK m \in Differ : \A k \in Differ : m <= k
  <2> HIDE DEF Differ
  <2> QED BY <1>1, <1>2, LeastNatural
<1>4. m \in 1..n
  BY <1>3
<1>5. m - 1 \in 0..n /\ m - 1 \notin Differ
  BY <1>3, <1>4
<1> QED
  BY <1>3, <1>4, <1>5

\* The outcome is what a count arrives at.
LEMMA OutcomeCounted ==
  ASSUME NEW a \in ActorType
  PROVE  \E h : Counts(h, a) /\ OutcomeOf(a) = h[Len(a.inbox)]
<1> DEFINE n == Len(a.inbox)
           q == a.inbox
           init == a.held
           F == [x \in Nat \X Op |-> After(x[1], x[2])]
           acc == CHOOSE g : g = [i \in 0..n |-> IF i = 0 THEN init ELSE After(g[i-1], q[i])]
<1>1. init \in Nat /\ q \in Seq(Op)
  BY DEF ActorType
<1>2. n \in Nat /\ \A i \in 1..n : q[i] \in Op
  BY <1>1, LenProperties, ElementOfSeq
<1>3. \A s \in Nat, x \in Op : F[<<s, x>>] = After(s, x)
  OBVIOUS
<1>4. OutcomeOf(a) = acc[n]
  BY DEF OutcomeOf
<1> HIDE DEF n, q, init, F
<1>5. \A s \in Nat, x \in Op : F[<<s, x>>] \in Nat
  BY <1>3, AfterType
<1>6. PICK h : IsTypedRun(h, Nat, F, init, q)
  BY <1>1, <1>5, TypedRun
<1>7. /\ h \in [0..n -> Nat] /\ h[0] = init
      /\ \A i \in 1..n : h[i] = After(h[i-1], q[i])
  <2>1. /\ h \in [0..n -> Nat] /\ h[0] = init
        /\ \A i \in 1..n : h[i] = F[<<h[i-1], q[i]>>]
    BY <1>6 DEF IsTypedRun, n, q
  <2>2. ASSUME NEW i \in 1..n PROVE h[i] = After(h[i-1], q[i])
    <3>1. i - 1 \in 0..n
      BY <1>2
    <3> QED BY <2>1, <3>1, <1>2, <1>3
  <2> QED BY <2>1, <2>2
<1>8. h = [i \in 0..n |-> IF i = 0 THEN init ELSE After(h[i-1], q[i])]
  <2>1. ASSUME NEW i \in 0..n PROVE h[i] = IF i = 0 THEN init ELSE After(h[i-1], q[i])
    BY <1>2, <1>7
  <2> QED BY <1>7, <2>1
<1>9. acc = [i \in 0..n |-> IF i = 0 THEN init ELSE After(acc[i-1], q[i])]
  BY <1>8
<1> HIDE DEF acc
<1>10. \A i \in 0..n : acc[i] = IF i = 0 THEN init ELSE After(acc[i-1], q[i])
  BY <1>9
<1>11. acc[n] = h[n]
  <2>1. acc[0] = h[0]
    <3>1. 0 \in 0..n
      BY <1>2
    <3> QED BY <1>7, <1>10, <3>1
  <2>2. ASSUME NEW i \in 1..n, acc[i-1] = h[i-1] PROVE acc[i] = h[i]
    <3>1. i \in 0..n /\ i # 0
      BY <1>2
    <3>2. acc[i] = After(acc[i-1], q[i]) /\ h[i] = After(h[i-1], q[i])
      BY <3>1, <1>7, <1>10
    <3> QED BY <2>2, <3>2
  <2>3. \A i \in 0..n : acc[i] = h[i]
    BY <1>2, <2>1, <2>2, CountsAgree
  <2> QED BY <1>2, <2>3
<1> QED
  BY <1>4, <1>7, <1>11 DEF Counts, n, q, init

LEMMA OutcomeNat ==
  ASSUME NEW a \in ActorType PROVE OutcomeOf(a) \in Nat
<1>1. PICK h : Counts(h, a) /\ OutcomeOf(a) = h[Len(a.inbox)]
  BY OutcomeCounted
<1>2. Len(a.inbox) \in Nat
  BY LenProperties DEF ActorType
<1> QED
  BY <1>1, <1>2 DEF Counts

\* Any count arrives at the outcome.
LEMMA CountedOutcome ==
  ASSUME NEW a \in ActorType, NEW g, g[0] = a.held,
         \A i \in 1..Len(a.inbox) : g[i] = After(g[i-1], a.inbox[i])
  PROVE  OutcomeOf(a) = g[Len(a.inbox)]
<1>1. PICK h : Counts(h, a) /\ OutcomeOf(a) = h[Len(a.inbox)]
  BY OutcomeCounted
<1>2. Len(a.inbox) \in Nat
  BY LenProperties DEF ActorType
<1>3. \A i \in 0..Len(a.inbox) : g[i] = h[i]
  <2>1. g[0] = h[0]
    BY <1>1 DEF Counts
  <2>2. \A i \in 1..Len(a.inbox) : g[i-1] = h[i-1] => g[i] = h[i]
    BY <1>1 DEF Counts
  <2>3. \A n \in Nat : (\A i \in 1..n : g[i-1] = h[i-1] => g[i] = h[i]) =>
          \A i \in 0..n : g[i] = h[i]
    BY <2>1, CountsAgree
  <2> QED BY <1>2, <2>2, <2>3, Zenon
<1> QED
  BY <1>1, <1>2, <1>3

\* A command that is queued adds to the outcome what it does.
LEMMA OutcomeQueued ==
  ASSUME NEW a \in ActorType, NEW op \in Op, NEW b \in ActorType,
         b.inbox = Append(a.inbox, op), b.held = a.held
  PROVE  OutcomeOf(b) = After(OutcomeOf(a), op)
<1>1. PICK h : Counts(h, b) /\ OutcomeOf(b) = h[Len(b.inbox)]
  BY OutcomeCounted
<1> DEFINE n == Len(a.inbox)
<1>2. /\ n \in Nat /\ Len(b.inbox) = n + 1
      /\ b.inbox[n+1] = op /\ \A i \in 1..n : b.inbox[i] = a.inbox[i]
  BY AppendProperties, LenProperties DEF ActorType
<1>3. /\ h[0] = a.held
      /\ \A i \in 1..n : h[i] = After(h[i-1], a.inbox[i])
  BY <1>1, <1>2 DEF Counts
<1>4. OutcomeOf(a) = h[n]
  BY <1>3, CountedOutcome
<1>5. h[n+1] = After(h[(n+1)-1], b.inbox[n+1])
  BY <1>1, <1>2 DEF Counts
<1>6. (n+1)-1 = n
  BY <1>2
<1> QED
  BY <1>1, <1>2, <1>4, <1>5, <1>6

\* Handling the next command leaves the outcome what it was.
LEMMA OutcomeHandled ==
  ASSUME NEW a \in ActorType, a.inbox # <<>>, NEW b \in ActorType,
         b.inbox = Tail(a.inbox), b.held = After(a.held, Head(a.inbox))
  PROVE  OutcomeOf(b) = OutcomeOf(a)
<1>1. PICK h : Counts(h, a) /\ OutcomeOf(a) = h[Len(a.inbox)]
  BY OutcomeCounted
<1> DEFINE n == Len(b.inbox)
           g == [i \in 0..n |-> h[i+1]]
<1>2. /\ n \in Nat /\ Len(a.inbox) = n + 1
      /\ a.inbox[1] = Head(a.inbox) /\ \A i \in 1..n : b.inbox[i] = a.inbox[i+1]
  BY HeadTailProperties, LenProperties DEF ActorType
<1>3. h[0] = a.held /\ \A i \in 1..n+1 : h[i] = After(h[i-1], a.inbox[i])
  BY <1>1, <1>2 DEF Counts
<1> HIDE DEF n
<1>4. g[0] = b.held
  <2>1. h[1] = After(h[1-1], a.inbox[1])
    BY <1>2, <1>3
  <2> QED BY <1>2, <1>3, <2>1
<1>5. ASSUME NEW i \in 1..n PROVE g[i] = After(g[i-1], b.inbox[i])
  <2>1. /\ i \in 0..n /\ i-1 \in 0..n /\ i+1 \in 1..n+1
        /\ (i+1)-1 = i /\ (i-1)+1 = i
    BY <1>2
  <2>2. g[i] = h[i+1] /\ g[i-1] = h[i]
    BY <2>1
  <2>3. h[i+1] = After(h[i], a.inbox[i+1])
    BY <1>3, <2>1
  <2> QED BY <1>2, <2>2, <2>3
<1>6. g[n] = h[n+1]
  BY <1>2
<1> HIDE DEF g
<1>7. OutcomeOf(b) = g[n]
  BY <1>4, <1>5, CountedOutcome DEF n
<1> QED
  BY <1>1, <1>2, <1>6, <1>7

\* A new run holds nothing.
LEMMA OutcomeNew ==
  ASSUME NEW a \in ActorType, a.inbox = <<>>, a.held = 0
  PROVE  OutcomeOf(a) = 0
<1>1. Len(a.inbox) = 0
  OBVIOUS
<1>2. PICK h : Counts(h, a) /\ OutcomeOf(a) = h[Len(a.inbox)]
  BY OutcomeCounted
<1> QED
  BY <1>1, <1>2 DEF Counts

-----------------------------------------------------------------------------
(***************************************************************************)
(* The slots.                                                               *)
(***************************************************************************)
\* A request, with the steps its operation has.
Asking ==
  {Idle}
  \union [step : {"quota", "insert"}, op : {"create"}, session : Session]
  \union [step : {"reserve", "lookup", "send", "release"}, op : {"place"},
          session : Session, run : Run]
  \union [step : {"lookup", "send", "clear"}, op : {"reset"}, session : Session, run : Run]
  \union [step : {"lookup", "send"}, op : {"command"}, session : Session, run : Run]
  \union [step : {"lookup", "query"}, op : {"snapshot"}, session : Session, run : Run]

\* A request that has found its run, or an order that has its slot.
Found(q) == \/ req[q].step \in {"send", "release", "clear", "query"}
            \/ req[q].step = "lookup" /\ req[q].op = "place"

\* The records, and the runs that there are: tracked ones and those requests
\* have found.
RunsInv ==
  /\ actor \in [Run -> ActorType]
  /\ req \in [Request -> Asking]
  /\ Tracked \subseteq Run
  /\ \A r \in Tracked : /\ entries[r] \in [owner : Session, orders : 0..MaxOrders]
                        /\ actor[r].state # "none"
  /\ \A q \in Request : Found(q) => actor[req[q].run].state # "none"

\* A run's count is right; while a reset is about to clear it, the run will hold
\* nothing, and nobody is placing orders.
Balanced(r) ==
  IF Clearing(r) = {}
  THEN entries[r].orders = Outcome(r) + Cardinality(Reserving(r))
  ELSE Outcome(r) = 0 /\ Reserving(r) = {}

SlotsInv == RunsInv /\ \A r \in Tracked \ raced : Balanced(r)

\* A request about run r, and what becomes of it.
LEMMA AskingMoves ==
  ASSUME RunsInv, NEW q \in Request, NEW r \in Run, NEW s,
         req[q].step \notin {"idle", "quota", "insert"}, req[q].run = r
  PROVE  /\ req[q].session \in Session /\ req[q].op \in Op
         /\ Goto(q, s) =>
              /\ req'[q].step = s /\ req'[q].op = req[q].op /\ req'[q].run = r
              /\ req'[q].session = req[q].session
              /\ \A p \in Request \ {q} : req'[p] = req[p]
         /\ Return(q) =>
              /\ req'[q] = Idle /\ req' \in [Request -> Asking]
              /\ \A p \in Request \ {q} : req'[p] = req[p]
<1>1. req \in [Request -> Asking] /\ req[q] \in Asking \ {Idle}
  BY DEF RunsInv, Idle
<1>2. {"step", "op", "run", "session"} \subseteq DOMAIN req[q] /\ req[q].session \in Session /\ req[q].op \in Op
  BY <1>1 DEF Asking, Op, Idle
<1>3. Goto(q, s) =>
              /\ req'[q].step = s /\ req'[q].op = req[q].op /\ req'[q].run = r
              /\ req'[q].session = req[q].session
              /\ \A p \in Request \ {q} : req'[p] = req[p]
  BY <1>1, <1>2 DEF Goto
<1>4. Return(q) =>
              /\ req'[q] = Idle /\ req' \in [Request -> Asking]
              /\ \A p \in Request \ {q} : req'[p] = req[p]
  <2>1. Idle \in Asking
    BY DEF Asking
  <2> QED BY <1>1, <2>1 DEF Return
<1> QED
  BY <1>2, <1>3, <1>4

\* The step a request goes to is one its operation has.
LEMMA GotoType ==
  ASSUME RunsInv, NEW q \in Request, NEW s, Goto(q, s),
         \/ req[q].op = "place" /\ req[q].step # "idle" /\ s \in {"lookup", "send", "release"}
         \/ req[q].op = "reset" /\ req[q].step # "idle" /\ s \in {"send", "clear"}
         \/ req[q].op = "command" /\ req[q].step # "idle" /\ s = "send"
         \/ req[q].op = "snapshot" /\ req[q].step # "idle" /\ s = "query"
         \/ req[q].step = "quota" /\ s = "insert"
  PROVE  req' \in [Request -> Asking]
<1>1. req \in [Request -> Asking] /\ req[q] \in Asking \ {Idle}
  BY DEF RunsInv, Idle
<1>2. [req[q] EXCEPT !.step = s] \in Asking
  BY <1>1 DEF Asking, Idle
<1> QED
  BY <1>1, <1>2 DEF Goto

\* What a request's step does to those that hold slots of a run or clear it.
LEMMA GotoCounts ==
  ASSUME RunsInv, NEW q \in Request, NEW r \in Run, NEW s, Goto(q, s),
         req[q].step \notin {"idle", "quota", "insert"}, req[q].run = r
  PROVE  /\ Reserving(r)' = IF req[q].op = "place" /\ s \in {"lookup", "send", "release"}
                            THEN Reserving(r) \union {q} ELSE Reserving(r) \ {q}
         /\ Clearing(r)' = IF s = "clear" THEN Clearing(r) \union {q} ELSE Clearing(r) \ {q}
         /\ \A t \in Run \ {r} : Reserving(t)' = Reserving(t) /\ Clearing(t)' = Clearing(t)
  BY AskingMoves DEF Reserving, Clearing

LEMMA ReturnCounts ==
  ASSUME RunsInv, NEW q \in Request, NEW r \in Run, Return(q),
         req[q].step \notin {"idle", "quota", "insert"}, req[q].run = r
  PROVE  /\ Reserving(r)' = Reserving(r) \ {q}
         /\ Clearing(r)' = Clearing(r) \ {q}
         /\ \A t \in Run \ {r} : Reserving(t)' = Reserving(t) /\ Clearing(t)' = Clearing(t)
  BY AskingMoves DEF Reserving, Clearing, Idle

LEMMA ReservingFinite ==
  \A r : /\ IsFiniteSet(Reserving(r)) /\ Cardinality(Reserving(r)) \in Nat
         /\ Reserving(r) # {} => Cardinality(Reserving(r)) > 0
<1> TAKE r
<1>1. IsFiniteSet(Reserving(r)) /\ Cardinality(Reserving(r)) \in Nat
  <2>1. Reserving(r) \subseteq Request
    BY DEF Reserving
  <2> QED BY <2>1, ManagerAssumption, FS_Subset, FS_CardinalityType
<1>2. Cardinality(Reserving(r)) = 0 <=> Reserving(r) = {}
  BY <1>1, FS_EmptySet
<1> QED
  BY <1>1, <1>2

\* Nothing about run r has changed.
LEMMA BalancedSame ==
  ASSUME NEW r, Balanced(r), Reserving(r)' = Reserving(r), Clearing(r)' = Clearing(r),
         entries'[r].orders = entries[r].orders, OutcomeOf(actor'[r]) = OutcomeOf(actor[r])
  PROVE  Balanced(r)'
  BY OutcomeIsOf DEF Balanced, Outcome, OutcomeOf

\* A step that changes nothing of the runs but run r's.
LEMMA SlotsBut ==
  ASSUME SlotsInv, RunsInv', NEW r,
         \A t \in Tracked' \ {r} :
           /\ t \in Tracked /\ (t \in raced => t \in raced')
           /\ Reserving(t)' = Reserving(t) /\ Clearing(t)' = Clearing(t)
           /\ entries'[t].orders = entries[t].orders
           /\ OutcomeOf(actor'[t]) = OutcomeOf(actor[t]),
         r \in Tracked' \ raced' => Balanced(r)'
  PROVE  SlotsInv'
<1>1. ASSUME NEW t \in Tracked' \ raced', t # r PROVE Balanced(t)'
  BY <1>1, BalancedSame DEF SlotsInv
<1> QED
  BY <1>1 DEF SlotsInv

\* A step of a request that claims no slot and has found nothing.
LEMMA SlotsAside ==
  ASSUME SlotsInv, NEW q \in Request, req' \in [Request -> Asking],
         ~Found(q), ~Found(q)', \A p \in Request \ {q} : req'[p] = req[p],
         UNCHANGED <<entries, actor, raced>>
  PROVE  SlotsInv'
<1>1. RunsInv'
  <2>1. \A p \in Request : Found(p)' => Found(p) /\ req'[p] = req[p]
    BY DEF Found
  <2> QED BY <2>1 DEF SlotsInv, RunsInv, Tracked
<1>2. \A t : Reserving(t)' = Reserving(t) /\ Clearing(t)' = Clearing(t)
  BY DEF Found, Reserving, Clearing
<1>3. \A t \in Tracked \ raced : Balanced(t)'
  BY <1>2, BalancedSame DEF SlotsInv
<1> QED
  BY <1>1, <1>3 DEF SlotsInv, Tracked

LEMMA ArriveSlots == \A q \in Request : SlotsInv /\ Arrive(q) => SlotsInv'
<1> SUFFICES ASSUME SlotsInv, NEW q \in Request, Arrive(q) PROVE SlotsInv'
  OBVIOUS
<1>1. req \in [Request -> Asking]
  BY DEF SlotsInv, RunsInv
<1>2. PICK s \in Session, op \in Op, r \in Run :
        req' = [req EXCEPT ![q] = IF op = "create"
                                  THEN [step |-> "quota", op |-> op, session |-> s]
                                  ELSE [step |-> FirstStep[op], op |-> op, session |-> s, run |-> r]]
  BY DEF Arrive
<1>3. req'[q] \in Asking /\ ~Found(q)'
  <2>1. req'[q] = IF op = "create" THEN [step |-> "quota", op |-> op, session |-> s]
                  ELSE [step |-> FirstStep[op], op |-> op, session |-> s, run |-> r]
    BY <1>1, <1>2
  <2>2. op = "create" => req'[q] = [step |-> "quota", op |-> "create", session |-> s]
    BY <2>1
  <2>3. op = "place" => req'[q] = [step |-> "reserve", op |-> "place", session |-> s, run |-> r]
    BY <2>1 DEF FirstStep
  <2>4. op \in {"reset", "command", "snapshot"} =>
          req'[q] = [step |-> "lookup", op |-> op, session |-> s, run |-> r]
    BY <2>1 DEF FirstStep
  <2>5. op \in {"create", "place"} \/ op \in {"reset", "command", "snapshot"}
    BY DEF Op
  <2> QED BY <2>2, <2>3, <2>4, <2>5 DEF Asking, Found
<1>4. req' \in [Request -> Asking] /\ \A p \in Request \ {q} : req'[p] = req[p]
  BY <1>1, <1>2, <1>3
<1>5. ~Found(q)
  BY DEF Arrive, Idle, Found
<1> QED
  BY <1>3, <1>4, <1>5, SlotsAside DEF Arrive

LEMMA CheckQuotaSlots == \A q \in Request : SlotsInv /\ CheckQuota(q) => SlotsInv'
<1> SUFFICES ASSUME SlotsInv, NEW q \in Request, CheckQuota(q) PROVE SlotsInv'
  OBVIOUS
<1>1. req \in [Request -> Asking] /\ req[q].step = "quota"
  BY DEF SlotsInv, RunsInv, CheckQuota, At
<1>2. CASE Goto(q, "insert")
  <2>1. req' \in [Request -> Asking]
    BY <1>1, <1>2, GotoType DEF SlotsInv
  <2>2. req'[q].step = "insert" /\ \A p \in Request \ {q} : req'[p] = req[p]
    BY <1>1, <1>2 DEF Goto, Asking, Idle
  <2> QED BY <1>1, <2>1, <2>2, SlotsAside DEF CheckQuota, Found
<1>3. CASE Return(q)
  <2>1. req' \in [Request -> Asking] /\ req'[q].step = "idle"
        /\ \A p \in Request \ {q} : req'[p] = req[p]
    BY <1>1, <1>3 DEF Return, Asking, Idle
  <2> QED BY <1>1, <2>1, SlotsAside DEF CheckQuota, Found
<1> QED
  BY <1>2, <1>3 DEF CheckQuota

\* A new run has no orders, and nobody has found it yet.
LEMMA InsertSlots == \A q \in Request : SlotsInv /\ Insert(q) => SlotsInv'
<1> SUFFICES ASSUME SlotsInv, NEW q \in Request, Insert(q) PROVE SlotsInv'
  OBVIOUS
<1>1. /\ req \in [Request -> Asking] /\ req[q].step = "insert" /\ Return(q)
      /\ req[q].session \in Session
  BY DEF SlotsInv, RunsInv, Insert, At, Asking, Idle
<1>2. /\ req' \in [Request -> Asking] /\ req'[q].step = "idle"
      /\ \A p \in Request \ {q} : req'[p] = req[p]
  BY <1>1 DEF Return, Asking, Idle
<1>3. CASE Cardinality(Tracked) >= Max
  BY <1>1, <1>2, <1>3, SlotsAside DEF Insert, Found
<1>4. CASE ~(Cardinality(Tracked) >= Max)
  <2>1. PICK r \in Run :
          /\ actor[r] = NoActor
          /\ actor' = [actor EXCEPT ![r].state = "running"]
          /\ entries' = [t \in Tracked \union {r} |->
                           IF t = r THEN [owner |-> req[q].session, orders |-> 0] ELSE entries[t]]
    BY <1>4 DEF Insert
  <2>2. actor \in [Run -> ActorType] /\ MaxOrders \in Nat
    BY ManagerAssumption DEF SlotsInv, RunsInv
  <2>3. /\ actor'[r] = [NoActor EXCEPT !.state = "running"]
        /\ \A t \in Run \ {r} : actor'[t] = actor[t]
    BY <2>1, <2>2
  <2>4. actor'[r] \in ActorType /\ actor'[r].inbox = <<>> /\ actor'[r].held = 0
        /\ actor'[r].state = "running"
    <3>1. actor'[r] = [state |-> "running", inbox |-> <<>>, held |-> 0]
      BY <2>3 DEF NoActor
    <3>2. <<>> \in Seq(Op)
      OBVIOUS
    <3>3. "running" \in State
      BY DEF State
    <3> QED BY <3>1, <3>2, <3>3 DEF ActorType
  <2>5. actor' \in [Run -> ActorType]
    BY <2>1, <2>2, <2>4
  <2>6. /\ Tracked' = Tracked \union {r} /\ entries'[r] = [owner |-> req[q].session, orders |-> 0]
        /\ \A t \in Tracked \ {r} : entries'[t] = entries[t]
    BY <2>1 DEF Tracked
  <2>7. \A p \in Request : Found(p)' => Found(p) /\ req'[p] = req[p]
    BY <1>1, <1>2 DEF Found
  <2>8. \A p \in Request : Found(p) => req[p].run \in Run /\ req[p].run # r
    <3> TAKE p \in Request
    <3> HAVE Found(p)
    <3>1. req[p].run \in Run
      BY <1>1 DEF Found, Asking, Idle
    <3>2. actor[req[p].run].state # "none" /\ actor[r].state = "none"
      BY <2>1 DEF SlotsInv, RunsInv, NoActor
    <3> QED BY <3>1, <3>2
  <2>9. RunsInv'
    <3>1. Tracked' \subseteq Run
      BY <2>6 DEF SlotsInv, RunsInv
    <3>2. ASSUME NEW t \in Tracked'
          PROVE  entries'[t] \in [owner : Session, orders : 0..MaxOrders] /\ actor'[t].state # "none"
      <4>1. CASE t = r
        BY <1>1, <2>2, <2>4, <2>6, <4>1
      <4>2. CASE t # r
        BY <2>3, <2>6, <3>1, <4>2 DEF SlotsInv, RunsInv
      <4> QED BY <4>1, <4>2
    <3>3. ASSUME NEW p \in Request, Found(p)' PROVE actor'[req'[p].run].state # "none"
      BY <2>3, <2>7, <2>8, <3>3 DEF SlotsInv, RunsInv
    <3> QED BY <1>2, <2>5, <3>1, <3>2, <3>3 DEF RunsInv
  <2>10. \A t : Reserving(t)' = Reserving(t) /\ Clearing(t)' = Clearing(t)
    BY <1>1, <1>2 DEF Reserving, Clearing
  <2>11. Reserving(r) = {} /\ Clearing(r) = {}
    BY <2>8 DEF Reserving, Clearing, Found
  <2>12. Balanced(r)'
    <3>1. OutcomeOf(actor'[r]) = 0
      BY <2>4, OutcomeNew
    <3>2. Outcome(r)' = 0
      BY <3>1, OutcomeIsOf DEF Outcome, OutcomeOf
    <3>3. Cardinality({}) = 0
      BY FS_EmptySet
    <3> QED BY <2>6, <2>10, <2>11, <3>2, <3>3 DEF Balanced
  <2>13. raced' = raced
    BY DEF Insert
  <2>14. \A t \in Tracked' \ {r} :
           /\ t \in Tracked /\ entries'[t].orders = entries[t].orders
           /\ OutcomeOf(actor'[t]) = OutcomeOf(actor[t])
    <3> TAKE t \in Tracked' \ {r}
    <3>1. t \in Tracked /\ t \in Run
      BY <2>6 DEF SlotsInv, RunsInv
    <3>2. actor'[t] = actor[t]
      BY <2>3, <3>1
    <3> QED BY <2>6, <3>1, <3>2
  <2> QED
    BY <2>9, <2>10, <2>12, <2>13, <2>14, SlotsBut
<1> QED
  BY <1>3, <1>4

\* A step of one request that starts and forgets no run.
LEMMA RunsKept ==
  ASSUME RunsInv, NEW q \in Request, req' \in [Request -> Asking],
         \A p \in Request \ {q} : req'[p] = req[p],
         Found(q)' => req'[q].run \in Run /\ actor[req'[q].run].state # "none",
         actor' \in [Run -> ActorType],
         \A t \in Run : actor'[t].state = actor[t].state,
         Tracked' \subseteq Tracked,
         \A t \in Tracked' : entries'[t] \in [owner : Session, orders : 0..MaxOrders]
  PROVE  RunsInv'
<1>1. ASSUME NEW p \in Request, Found(p)' PROVE actor'[req'[p].run].state # "none"
  <2>1. CASE p = q
    BY <1>1, <2>1
  <2>2. CASE p # q
    <3>1. req'[p] = req[p] /\ Found(p)
      BY <1>1, <2>2 DEF Found
    <3>2. req[p].run \in Run
      BY <3>1 DEF Found, RunsInv, Asking, Idle
    <3> QED BY <3>1, <3>2 DEF RunsInv
  <2> QED BY <2>1, <2>2
<1> QED
  BY <1>1 DEF RunsInv

\* What is known of a request about a run.
LEMMA About ==
  ASSUME RunsInv, NEW q \in Request, req[q].step \notin {"idle", "quota", "insert"}
  PROVE  /\ req[q].run \in Run /\ req[q].session \in Session
         /\ req[q].op \in {"place", "reset", "command", "snapshot"}
         /\ req[q].step \in {"reserve", "release"} => req[q].op = "place"
         /\ req[q].step = "clear" => req[q].op = "reset"
         /\ req[q].step = "send" => req[q].op \in {"place", "reset", "command"}
         /\ req[q].step = "query" => req[q].op = "snapshot"
  BY DEF RunsInv, Asking, Idle

\* An order claims a slot: one more is counted and one more is reserved.
LEMMA ReserveSlots == \A q \in Request : SlotsInv /\ ReserveOrder(q) => SlotsInv'
<1> SUFFICES ASSUME SlotsInv, NEW q \in Request, ReserveOrder(q) PROVE SlotsInv'
  OBVIOUS
<1>1. PICK r : r = req[q].run
  OBVIOUS
<1>2. RunsInv /\ req[q].step = "reserve" /\ UNCHANGED actor
  BY DEF SlotsInv, ReserveOrder, At
<1>3. r \in Run /\ req[q].op = "place" /\ req[q].session \in Session
  BY <1>1, <1>2, About
<1>4. q \notin Reserving(r) /\ q \notin Clearing(r)
  BY <1>2 DEF Reserving, Clearing
<1>5. CASE Authorized(q) /\ entries[r].orders < MaxOrders
  <2>1. /\ entries' = [entries EXCEPT ![r].orders = @ + 1]
        /\ Goto(q, "lookup")
        /\ raced' = IF Clearing(r) # {} THEN raced \union {r} ELSE raced
        /\ r \in Tracked
    BY <1>1, <1>5 DEF ReserveOrder, Authorized
  <2>2. entries[r] \in [owner : Session, orders : 0..MaxOrders] /\ MaxOrders \in Nat
        /\ actor[r].state # "none"
    BY <1>2, <2>1, ManagerAssumption DEF RunsInv
  <2>3. /\ Tracked' = Tracked
        /\ \A t \in Tracked \ {r} : entries'[t] = entries[t]
        /\ entries'[r] = [entries[r] EXCEPT !.orders = @ + 1]
    BY <2>1 DEF Tracked
  <2>4. /\ entries'[r].orders = entries[r].orders + 1
        /\ entries'[r] \in [owner : Session, orders : 0..MaxOrders]
    BY <1>5, <2>2, <2>3
  <2>5. req' \in [Request -> Asking]
    BY <1>2, <1>3, <2>1, GotoType
  <2>6. /\ \A p \in Request \ {q} : req'[p] = req[p]
        /\ req'[q].run = r
    BY <1>1, <1>2, <1>3, <2>1, AskingMoves
  <2>7. RunsInv'
    <3>1. \A t \in Tracked' : entries'[t] \in [owner : Session, orders : 0..MaxOrders]
      BY <1>2, <2>3, <2>4 DEF RunsInv
    <3>2. actor' \in [Run -> ActorType]
      BY <1>2 DEF RunsInv
    <3> QED BY <1>2, <1>3, <2>2, <2>3, <2>5, <2>6, <3>1, <3>2, RunsKept
  <2>8. /\ Reserving(r)' = Reserving(r) \union {q} /\ Clearing(r)' = Clearing(r)
        /\ \A t \in Run \ {r} : Reserving(t)' = Reserving(t) /\ Clearing(t)' = Clearing(t)
    BY <1>1, <1>2, <1>3, <1>4, <2>1, GotoCounts
  <2>9. ASSUME r \notin raced' PROVE Balanced(r)'
    <3>1. Clearing(r) = {} /\ r \notin raced
      BY <2>1, <2>9
    <3>2. entries[r].orders = Outcome(r) + Cardinality(Reserving(r))
      BY <2>1, <3>1 DEF SlotsInv, Balanced
    <3>3. Cardinality(Reserving(r)') = Cardinality(Reserving(r)) + 1
      BY <1>4, <2>8, ReservingFinite, FS_AddElement
    <3>4. Outcome(r)' = Outcome(r)
      BY <1>2 DEF Outcome
    <3>5. Outcome(r) \in Nat /\ Cardinality(Reserving(r)) \in Nat
      BY <1>2, <1>3, OutcomeIsOf, OutcomeNat, ReservingFinite DEF RunsInv
    <3>6. entries'[r].orders = Outcome(r)' + Cardinality(Reserving(r)')
      BY <2>4, <3>2, <3>3, <3>4, <3>5
    <3> QED BY <2>8, <3>1, <3>6 DEF Balanced
  <2>10. \A t \in Tracked' \ {r} :
           /\ t \in Tracked /\ (t \in raced => t \in raced')
           /\ Reserving(t)' = Reserving(t) /\ Clearing(t)' = Clearing(t)
           /\ entries'[t].orders = entries[t].orders
           /\ OutcomeOf(actor'[t]) = OutcomeOf(actor[t])
    BY <1>2, <2>1, <2>3, <2>8 DEF RunsInv
  <2> QED
    BY <2>7, <2>9, <2>10, SlotsBut
<1>6. CASE ~(Authorized(q) /\ entries[r].orders < MaxOrders)
  <2>1. Return(q) /\ UNCHANGED <<entries, raced>>
    BY <1>1, <1>6 DEF ReserveOrder
  <2>2. req' \in [Request -> Asking] /\ req'[q] = Idle /\ \A p \in Request \ {q} : req'[p] = req[p]
    BY <1>1, <1>2, <1>3, <2>1, AskingMoves
  <2> QED
    BY <1>2, <2>1, <2>2, SlotsAside DEF Found, Idle
<1> QED
  BY <1>5, <1>6

\* Looking its run up, a request keeps the slot it has.
LEMMA LookupSlots == \A q \in Request : SlotsInv /\ Lookup(q) => SlotsInv'
<1> SUFFICES ASSUME SlotsInv, NEW q \in Request, Lookup(q) PROVE SlotsInv'
  OBVIOUS
<1>1. PICK r : r = req[q].run
  OBVIOUS
<1>2. RunsInv /\ req[q].step = "lookup" /\ UNCHANGED <<entries, actor, raced>>
  BY DEF SlotsInv, Lookup, At
<1>3. r \in Run /\ req[q].op \in {"place", "reset", "command", "snapshot"}
  BY <1>1, <1>2, About
<1>4. ASSUME NEW s, Goto(q, s),
             \/ s = "send" /\ req[q].op # "snapshot" /\ r \in Tracked
             \/ s = "query" /\ req[q].op = "snapshot" /\ r \in Tracked
             \/ s = "release" /\ req[q].op = "place"
      PROVE  SlotsInv'
  <2>1. req' \in [Request -> Asking]
    BY <1>2, <1>3, <1>4, GotoType
  <2>2. /\ \A p \in Request \ {q} : req'[p] = req[p]
        /\ req'[q].run = r
    BY <1>1, <1>2, <1>3, <1>4, AskingMoves
  <2>3. actor[r].state # "none"
    BY <1>1, <1>2, <1>4 DEF RunsInv, Found
  <2>4. RunsInv'
    <3>1. /\ actor' \in [Run -> ActorType] /\ Tracked' = Tracked
          /\ \A t \in Tracked' : entries'[t] \in [owner : Session, orders : 0..MaxOrders]
      BY <1>2 DEF RunsInv, Tracked
    <3> QED BY <1>2, <1>3, <2>1, <2>2, <2>3, <3>1, RunsKept
  <2>5. \A t \in Run : Reserving(t)' = Reserving(t) /\ Clearing(t)' = Clearing(t)
    <3>1. /\ Reserving(r)' = IF req[q].op = "place" /\ s \in {"lookup", "send", "release"}
                             THEN Reserving(r) \union {q} ELSE Reserving(r) \ {q}
          /\ Clearing(r)' = Clearing(r) \ {q}
          /\ \A t \in Run \ {r} : Reserving(t)' = Reserving(t) /\ Clearing(t)' = Clearing(t)
      BY <1>1, <1>2, <1>3, <1>4, GotoCounts
    <3>2. q \notin Clearing(r) /\ (q \in Reserving(r) <=> req[q].op = "place")
      BY <1>1, <1>2 DEF Clearing, Reserving
    <3>3. req[q].op = "place" => s \in {"lookup", "send", "release"}
      BY <1>4
    <3> QED BY <3>1, <3>2, <3>3
  <2>6. \A t \in Tracked \ raced : Balanced(t)'
    BY <1>2, <2>5, BalancedSame DEF SlotsInv, RunsInv
  <2> QED
    BY <1>2, <2>4, <2>6 DEF SlotsInv, Tracked
<1>5. CASE Authorized(q)
  <2>1. Goto(q, IF req[q].op = "snapshot" THEN "query" ELSE "send") /\ r \in Tracked
    BY <1>1, <1>5 DEF Lookup, Authorized
  <2> QED BY <1>4, <2>1
<1>6. CASE ~Authorized(q) /\ req[q].op = "place"
  BY <1>4, <1>6 DEF Lookup, Fail
<1>7. CASE ~Authorized(q) /\ req[q].op # "place"
  <2>1. Return(q)
    BY <1>7 DEF Lookup, Fail
  <2>2. req' \in [Request -> Asking] /\ req'[q] = Idle /\ \A p \in Request \ {q} : req'[p] = req[p]
    BY <1>1, <1>2, <1>3, <2>1, AskingMoves
  <2> QED
    BY <1>2, <1>7, <2>2, SlotsAside DEF Found, Idle
<1> QED
  BY <1>5, <1>6, <1>7

\* A step of a request about run r that leaves the entries and the other runs as
\* they are, and its own in balance.
LEMMA SlotsAfter ==
  ASSUME SlotsInv, NEW q \in Request, NEW r \in Run, r = req[q].run,
         req[q].step \notin {"idle", "quota", "insert"},
         actor[r].state # "none", req' \in [Request -> Asking],
         (\E s : Goto(q, s)) \/ Return(q),
         actor' \in [Run -> ActorType], actor'[r].state = actor[r].state,
         \A t \in Run \ {r} : actor'[t] = actor[t],
         Tracked' = Tracked, \A t \in Tracked \ {r} : entries'[t] = entries[t],
         r \in Tracked => entries'[r] \in [owner : Session, orders : 0..MaxOrders],
         \A t \in Run \ {r} : t \in raced => t \in raced',
         r \in Tracked \ raced' => Balanced(r)'
  PROVE  SlotsInv'
<1>1. RunsInv
  BY DEF SlotsInv
<1>2. \A p \in Request \ {q} : req'[p] = req[p]
  BY <1>1, AskingMoves
<1>3. Found(q)' => req'[q].run = r
  BY <1>1, AskingMoves DEF Found, Idle
<1>4. \A t \in Run \ {r} : Reserving(t)' = Reserving(t) /\ Clearing(t)' = Clearing(t)
  BY <1>1, GotoCounts, ReturnCounts
<1>5. RunsInv'
  <2>1. \A t \in Tracked' : entries'[t] \in [owner : Session, orders : 0..MaxOrders]
    BY <1>1 DEF RunsInv
  <2> QED BY <1>1, <1>2, <1>3, <2>1, RunsKept
<1>6. \A t \in Tracked' \ {r} :
           /\ t \in Tracked /\ (t \in raced => t \in raced')
           /\ Reserving(t)' = Reserving(t) /\ Clearing(t)' = Clearing(t)
           /\ entries'[t].orders = entries[t].orders
           /\ OutcomeOf(actor'[t]) = OutcomeOf(actor[t])
  BY <1>1, <1>4 DEF RunsInv
<1> QED
  BY <1>5, <1>6, SlotsBut

\* A command that is queued has its effect on the outcome, and gives up its slot,
\* or announces that the count is to be cleared.
LEMMA SendSlots == \A q \in Request : SlotsInv /\ Send(q) => SlotsInv'
<1> SUFFICES ASSUME SlotsInv, NEW q \in Request, Send(q) PROVE SlotsInv'
  OBVIOUS
<1>1. PICK r : r = req[q].run
  OBVIOUS
<1>2. RunsInv /\ req[q].step = "send" /\ UNCHANGED entries
  BY DEF SlotsInv, Send, At
<1>3. r \in Run /\ req[q].op \in {"place", "reset", "command"} /\ actor[r].state # "none"
  BY <1>1, <1>2, About DEF RunsInv, Found
<1>4. /\ Tracked' = Tracked /\ \A t \in Tracked : entries'[t] = entries[t]
      /\ r \in Tracked => entries'[r] \in [owner : Session, orders : 0..MaxOrders]
      /\ actor \in [Run -> ActorType]
  BY <1>2 DEF RunsInv, Tracked
<1>5. q \notin Clearing(r) /\ (q \in Reserving(r) <=> req[q].op = "place")
  BY <1>1, <1>2 DEF Clearing, Reserving
<1>6. Outcome(r) = OutcomeOf(actor[r]) /\ Outcome(r)' = OutcomeOf(actor'[r])
      /\ OutcomeOf(actor[r]) \in Nat
  BY <1>3, <1>4, OutcomeIsOf, OutcomeNat DEF Outcome, OutcomeOf
<1>7. r \in Tracked \ raced => Balanced(r)
  BY DEF SlotsInv
<1>8. CASE ~(Len(actor[r].inbox) < Buffer)
  <2>1. UNCHANGED <<actor, raced>> /\ Fail(q)
    BY <1>1, <1>8 DEF Send
  <2>2. req' \in [Request -> Asking] /\ ((\E s : Goto(q, s)) \/ Return(q))
    BY <1>1, <1>2, <1>3, <2>1, GotoType, AskingMoves DEF Fail
  <2>3. Reserving(r)' = Reserving(r) /\ Clearing(r)' = Clearing(r)
    <3>1. CASE req[q].op = "place"
      <4>1. Goto(q, "release")
        BY <2>1, <3>1 DEF Fail
      <4> QED BY <1>1, <1>2, <1>3, <1>5, <3>1, <4>1, GotoCounts
    <3>2. CASE req[q].op # "place"
      <4>1. Return(q)
        BY <2>1, <3>2 DEF Fail
      <4>2. Reserving(r)' = Reserving(r) \ {q} /\ Clearing(r)' = Clearing(r) \ {q}
        BY <1>1, <1>2, <1>3, <4>1, ReturnCounts
      <4> QED BY <1>5, <3>2, <4>2
    <3> QED BY <3>1, <3>2
  <2>4. r \in Tracked \ raced' => Balanced(r)'
    BY <1>4, <1>7, <2>1, <2>3, BalancedSame
  <2> QED
    BY <1>1, <1>2, <1>3, <1>4, <2>1, <2>2, <2>4, SlotsAfter
<1>9. CASE Len(actor[r].inbox) < Buffer
  <2>1. /\ actor' = [actor EXCEPT ![r].inbox = Append(@, req[q].op)]
        /\ IF req[q].op = "reset" THEN Goto(q, "clear") ELSE Return(q)
        /\ raced' = IF req[q].op = "reset" /\ Reserving(r) # {} THEN raced \union {r} ELSE raced
    BY <1>1, <1>9 DEF Send
  <2>2. /\ actor'[r] = [actor[r] EXCEPT !.inbox = Append(@, req[q].op)]
        /\ \A t \in Run \ {r} : actor'[t] = actor[t]
    BY <1>3, <1>4, <2>1
  <2>3. req[q].op \in Op
    BY <1>3 DEF Op
  <2>4. /\ actor'[r] \in ActorType /\ actor'[r].inbox = Append(actor[r].inbox, req[q].op)
        /\ actor'[r].held = actor[r].held /\ actor'[r].state = actor[r].state
    <3>1. actor[r] \in ActorType
      BY <1>3, <1>4
    <3>2. Append(actor[r].inbox, req[q].op) \in Seq(Op)
      BY <2>3, <3>1, AppendProperties DEF ActorType
    <3> QED BY <2>2, <3>1, <3>2 DEF ActorType
  <2>5. actor' \in [Run -> ActorType]
    BY <1>4, <2>1, <2>4
  <2>6. Outcome(r)' = After(Outcome(r), req[q].op)
    BY <1>3, <1>4, <1>6, <2>3, <2>4, OutcomeQueued
  <2>7. req' \in [Request -> Asking] /\ ((\E s : Goto(q, s)) \/ Return(q))
    BY <1>1, <1>2, <1>3, <2>1, GotoType, AskingMoves
  <2>8. ASSUME r \in Tracked \ raced' PROVE Balanced(r)'
    <3>1. r \notin raced /\ entries'[r].orders = entries[r].orders
      BY <1>4, <2>1, <2>8
    <3>2. CASE req[q].op = "reset"
      <4>1. Reserving(r) = {}
        BY <2>1, <2>8, <3>2
      <4>2. Reserving(r)' = {} /\ q \in Clearing(r)'
        BY <1>1, <1>2, <1>3, <2>1, <3>2, <4>1, GotoCounts
      <4>3. Outcome(r)' = 0
        BY <2>6, <3>2 DEF After
      <4> QED BY <4>2, <4>3 DEF Balanced
    <3>3. CASE req[q].op = "place"
      <4>1. Reserving(r)' = Reserving(r) \ {q} /\ Clearing(r)' = Clearing(r)
        <5>1. Reserving(r)' = Reserving(r) \ {q} /\ Clearing(r)' = Clearing(r) \ {q}
          BY <1>1, <1>2, <1>3, <2>1, <3>3, ReturnCounts
        <5> QED BY <1>5, <5>1
      <4>2. Clearing(r) = {} /\ entries[r].orders = Outcome(r) + Cardinality(Reserving(r))
        BY <1>5, <1>7, <2>8, <3>1, <3>3 DEF Balanced
      <4>3. Cardinality(Reserving(r)') = Cardinality(Reserving(r)) - 1
        BY <1>5, <3>3, <4>1, ReservingFinite, FS_RemoveElement
      <4>4. Outcome(r)' = Outcome(r) + 1
        BY <2>6, <3>3 DEF After
      <4>5. Cardinality(Reserving(r)) \in Nat
        BY ReservingFinite
      <4>6. entries'[r].orders = Outcome(r)' + Cardinality(Reserving(r)')
        BY <1>6, <3>1, <4>2, <4>3, <4>4, <4>5
      <4> QED BY <4>1, <4>2, <4>6 DEF Balanced
    <3>4. CASE req[q].op = "command"
      <4>1. Reserving(r)' = Reserving(r) /\ Clearing(r)' = Clearing(r)
        <5>1. Reserving(r)' = Reserving(r) \ {q} /\ Clearing(r)' = Clearing(r) \ {q}
          BY <1>1, <1>2, <1>3, <2>1, <3>4, ReturnCounts
        <5> QED BY <1>5, <3>4, <5>1
      <4>2. OutcomeOf(actor'[r]) = OutcomeOf(actor[r])
        BY <1>6, <2>6, <3>4 DEF After
      <4> QED BY <1>7, <2>8, <3>1, <4>1, <4>2, BalancedSame
    <3> QED BY <1>3, <3>2, <3>3, <3>4
  <2>9. \A t \in Run \ {r} : t \in raced => t \in raced'
    BY <2>1
  <2> QED
    BY <1>1, <1>2, <1>3, <1>4, <2>2, <2>4, <2>5, <2>7, <2>8, <2>9, SlotsAfter
<1> QED
  BY <1>8, <1>9

\* A slot that is given back was counted.
LEMMA ReleaseSlots == \A q \in Request : SlotsInv /\ ReleaseOrder(q) => SlotsInv'
<1> SUFFICES ASSUME SlotsInv, NEW q \in Request, ReleaseOrder(q) PROVE SlotsInv'
  OBVIOUS
<1>1. PICK r : r = req[q].run
  OBVIOUS
<1>2. RunsInv /\ req[q].step = "release" /\ Return(q) /\ UNCHANGED <<actor, raced>>
  BY DEF SlotsInv, ReleaseOrder, At
<1>3. r \in Run /\ req[q].op = "place" /\ actor[r].state # "none"
  BY <1>1, <1>2, About DEF RunsInv, Found
<1>4. entries' = IF r \in Tracked /\ entries[r].orders > 0
                 THEN [entries EXCEPT ![r].orders = @ - 1] ELSE entries
  BY <1>1 DEF ReleaseOrder
<1>5. Tracked' = Tracked /\ \A t \in Tracked \ {r} : entries'[t] = entries[t]
  BY <1>4 DEF Tracked
<1>6. ASSUME r \in Tracked
      PROVE  /\ entries[r].orders \in Nat
             /\ entries'[r].orders = IF entries[r].orders > 0 THEN entries[r].orders - 1 ELSE entries[r].orders
             /\ entries'[r] \in [owner : Session, orders : 0..MaxOrders]
  <2>1. entries[r] \in [owner : Session, orders : 0..MaxOrders] /\ MaxOrders \in Nat
    BY <1>2, <1>6, ManagerAssumption DEF RunsInv
  <2>2. entries'[r] = IF entries[r].orders > 0 THEN [entries[r] EXCEPT !.orders = @ - 1] ELSE entries[r]
    BY <1>4, <1>6 DEF Tracked
  <2> QED BY <2>1, <2>2
<1>7. Reserving(r)' = Reserving(r) \ {q} /\ Clearing(r)' = Clearing(r) /\ q \in Reserving(r)
  <2>1. q \notin Clearing(r) /\ q \in Reserving(r)
    BY <1>1, <1>2, <1>3 DEF Clearing, Reserving
  <2>2. Reserving(r)' = Reserving(r) \ {q} /\ Clearing(r)' = Clearing(r) \ {q}
    BY <1>1, <1>2, <1>3, ReturnCounts
  <2> QED BY <2>1, <2>2
<1>8. ASSUME r \in Tracked \ raced' PROVE Balanced(r)'
  <2>1. Clearing(r) = {} /\ entries[r].orders = Outcome(r) + Cardinality(Reserving(r))
    BY <1>2, <1>7, <1>8 DEF SlotsInv, Balanced
  <2>2. /\ Cardinality(Reserving(r)') = Cardinality(Reserving(r)) - 1
        /\ Cardinality(Reserving(r)) \in Nat /\ Cardinality(Reserving(r)) > 0
    BY <1>7, ReservingFinite, FS_RemoveElement
  <2>3. Outcome(r)' = Outcome(r) /\ Outcome(r) \in Nat
    <3>1. Outcome(r)' = Outcome(r)
      BY <1>2 DEF Outcome
    <3> QED BY <1>2, <1>3, <3>1, OutcomeIsOf, OutcomeNat DEF RunsInv
  <2>4. entries'[r].orders = Outcome(r)' + Cardinality(Reserving(r)')
    BY <1>6, <1>8, <2>1, <2>2, <2>3
  <2> QED BY <1>7, <2>1, <2>4 DEF Balanced
<1>9. req' \in [Request -> Asking]
  BY <1>1, <1>2, <1>3, AskingMoves
<1>10. actor' \in [Run -> ActorType]
  BY <1>2 DEF RunsInv
<1> QED
  BY <1>1, <1>2, <1>3, <1>5, <1>6, <1>8, <1>9, <1>10, SlotsAfter

\* When the count is cleared, the run will hold nothing.
LEMMA ClearSlots == \A q \in Request : SlotsInv /\ ClearOrders(q) => SlotsInv'
<1> SUFFICES ASSUME SlotsInv, NEW q \in Request, ClearOrders(q) PROVE SlotsInv'
  OBVIOUS
<1>1. PICK r : r = req[q].run
  OBVIOUS
<1>2. RunsInv /\ req[q].step = "clear" /\ Return(q) /\ UNCHANGED <<actor, raced>>
  BY DEF SlotsInv, ClearOrders, At
<1>3. r \in Run /\ req[q].op = "reset" /\ actor[r].state # "none"
  BY <1>1, <1>2, About DEF RunsInv, Found
<1>4. entries' = IF r \in Tracked THEN [entries EXCEPT ![r].orders = 0] ELSE entries
  BY <1>1 DEF ClearOrders
<1>5. Tracked' = Tracked /\ \A t \in Tracked \ {r} : entries'[t] = entries[t]
  BY <1>4 DEF Tracked
<1>6. ASSUME r \in Tracked
      PROVE  entries'[r].orders = 0 /\ entries'[r] \in [owner : Session, orders : 0..MaxOrders]
  <2>1. entries[r] \in [owner : Session, orders : 0..MaxOrders] /\ MaxOrders \in Nat
    BY <1>2, <1>6, ManagerAssumption DEF RunsInv
  <2>2. entries'[r] = [entries[r] EXCEPT !.orders = 0]
    BY <1>4, <1>6 DEF Tracked
  <2> QED BY <2>1, <2>2
<1>7. Reserving(r)' = Reserving(r) \ {q} /\ q \in Clearing(r)
  BY <1>1, <1>2, <1>3, ReturnCounts DEF Clearing
<1>8. ASSUME r \in Tracked \ raced' PROVE Balanced(r)'
  <2>1. Outcome(r) = 0 /\ Reserving(r) = {}
    BY <1>2, <1>7, <1>8 DEF SlotsInv, Balanced
  <2>2. Outcome(r)' = 0 /\ Reserving(r)' = {}
    BY <1>2, <1>7, <2>1 DEF Outcome
  <2>3. Cardinality({}) = 0
    BY FS_EmptySet
  <2> QED BY <1>6, <1>8, <2>2, <2>3 DEF Balanced
<1>9. req' \in [Request -> Asking] /\ actor' \in [Run -> ActorType]
  BY <1>1, <1>2, <1>3, AskingMoves DEF RunsInv
<1> QED
  BY <1>1, <1>2, <1>3, <1>5, <1>6, <1>8, <1>9, SlotsAfter

\* A snapshot that is answered ends its request.
LEMMA AnswerSlots == \A q \in Request : SlotsInv /\ Answer(q) => SlotsInv'
<1> SUFFICES ASSUME SlotsInv, NEW q \in Request, Answer(q) PROVE SlotsInv'
  OBVIOUS
<1>1. PICK r : r = req[q].run
  OBVIOUS
<1>2. RunsInv /\ req[q].step = "query" /\ Return(q) /\ UNCHANGED <<entries, actor, raced>>
  BY DEF SlotsInv, Answer, At
<1>3. r \in Run /\ actor[r].state # "none"
  BY <1>1, <1>2, About DEF RunsInv, Found
<1>4. Reserving(r)' = Reserving(r) /\ Clearing(r)' = Clearing(r)
  <2>1. q \notin Reserving(r) /\ q \notin Clearing(r)
    BY <1>2 DEF Clearing, Reserving
  <2>2. Reserving(r)' = Reserving(r) \ {q} /\ Clearing(r)' = Clearing(r) \ {q}
    BY <1>1, <1>2, <1>3, ReturnCounts
  <2> QED BY <2>1, <2>2
<1>5. r \in Tracked \ raced' => Balanced(r)'
  BY <1>2, <1>4, BalancedSame DEF SlotsInv
<1>6. /\ req' \in [Request -> Asking] /\ actor' \in [Run -> ActorType] /\ Tracked' = Tracked
      /\ r \in Tracked => entries'[r] \in [owner : Session, orders : 0..MaxOrders]
  BY <1>1, <1>2, <1>3, AskingMoves DEF RunsInv, Tracked
<1> QED
  BY <1>1, <1>2, <1>3, <1>5, <1>6, SlotsAfter

\* The actors and the shutdown leave what their runs will hold as it is.
LEMMA SlotsUnasked ==
  ASSUME SlotsInv, UNCHANGED <<req, raced>>, actor' \in [Run -> ActorType],
         \A t \in Run : /\ actor[t].state # "none" => actor'[t].state # "none"
                        /\ OutcomeOf(actor'[t]) = OutcomeOf(actor[t]),
         entries' = entries \/ Tracked' = {}
  PROVE  SlotsInv'
<1>1. \A t : Reserving(t)' = Reserving(t) /\ Clearing(t)' = Clearing(t)
  BY DEF Reserving, Clearing
<1>2. Tracked' \subseteq Tracked /\ \A t \in Tracked' : entries'[t] = entries[t]
  BY DEF Tracked
<1>3. RunsInv'
  <2>1. ASSUME NEW p \in Request, Found(p)' PROVE actor'[req'[p].run].state # "none"
    <3>1. req'[p] = req[p] /\ Found(p)
      BY <2>1 DEF Found
    <3>2. req[p].run \in Run
      BY <3>1 DEF Found, SlotsInv, RunsInv, Asking, Idle
    <3> QED BY <3>1, <3>2 DEF SlotsInv, RunsInv
  <2> QED BY <1>2, <2>1 DEF SlotsInv, RunsInv
<1>4. \A t \in Tracked' \ raced' : Balanced(t)'
  BY <1>1, <1>2, BalancedSame DEF SlotsInv, RunsInv
<1> QED
  BY <1>3, <1>4 DEF SlotsInv

\* An actor's outcome depends on its buffer and on what it holds.
LEMMA OutcomeSame ==
  ASSUME NEW a, NEW b, b.inbox = a.inbox, b.held = a.held
  PROVE  OutcomeOf(b) = OutcomeOf(a)
  BY DEF OutcomeOf

LEMMA ActorSlots == \A r \in Run : SlotsInv /\ ActorStep(r) => SlotsInv'
<1> SUFFICES ASSUME SlotsInv, NEW r \in Run, ActorStep(r) PROVE SlotsInv'
  OBVIOUS
<1>1. actor \in [Run -> ActorType] /\ actor[r] \in ActorType
  BY DEF SlotsInv, RunsInv
<1>2. /\ actor[r].inbox # <<>>
      /\ actor' = [actor EXCEPT ![r].inbox = Tail(@),
                                ![r].held = After(@, Head(actor[r].inbox))]
  BY DEF ActorStep
<1>3. /\ actor'[r] = [actor[r] EXCEPT !.inbox = Tail(@), !.held = After(@, Head(actor[r].inbox))]
      /\ \A t \in Run \ {r} : actor'[t] = actor[t]
  BY <1>1, <1>2
<1>4. Tail(actor[r].inbox) \in Seq(Op) /\ Head(actor[r].inbox) \in Op
  BY <1>1, <1>2, HeadTailProperties DEF ActorType
<1>5. After(actor[r].held, Head(actor[r].inbox)) \in Nat
  BY <1>1, <1>4, AfterType DEF ActorType
<1>6. /\ actor'[r] \in ActorType /\ actor'[r].inbox = Tail(actor[r].inbox)
      /\ actor'[r].held = After(actor[r].held, Head(actor[r].inbox))
      /\ actor'[r].state = actor[r].state
  BY <1>1, <1>3, <1>4, <1>5 DEF ActorType
<1>7. OutcomeOf(actor'[r]) = OutcomeOf(actor[r])
  BY <1>1, <1>2, <1>6, OutcomeHandled
<1>8. actor' \in [Run -> ActorType]
  BY <1>1, <1>2, <1>6
<1>9. \A t \in Run : /\ actor[t].state # "none" => actor'[t].state # "none"
                     /\ OutcomeOf(actor'[t]) = OutcomeOf(actor[t])
  BY <1>3, <1>6, <1>7
<1> QED
  BY <1>8, <1>9, SlotsUnasked DEF ActorStep

LEMMA ShutdownSlots == SlotsInv /\ Shutdown => SlotsInv'
<1> SUFFICES ASSUME SlotsInv, Shutdown PROVE SlotsInv'
  OBVIOUS
<1>1. actor \in [Run -> ActorType]
  BY DEF SlotsInv, RunsInv
<1>2. /\ entries' = <<>> /\ UNCHANGED <<req, raced>>
      /\ actor' = [r \in Run |-> IF r \in Tracked THEN [actor[r] EXCEPT !.state = "cancelled"]
                                 ELSE actor[r]]
  BY DEF Shutdown
<1>3. Tracked' = {}
  BY <1>2, NothingTracked DEF Tracked
<1>4. ASSUME NEW t \in Run
      PROVE  /\ actor'[t] \in ActorType
             /\ actor[t].state # "none" => actor'[t].state # "none"
             /\ OutcomeOf(actor'[t]) = OutcomeOf(actor[t])
  <2>1. CASE t \in Tracked
    <3>1. actor'[t] = [actor[t] EXCEPT !.state = "cancelled"] /\ actor[t] \in ActorType
      BY <1>1, <1>2, <2>1
    <3>2. /\ actor'[t] \in ActorType /\ actor'[t].inbox = actor[t].inbox
          /\ actor'[t].held = actor[t].held /\ actor'[t].state = "cancelled"
      BY <3>1 DEF ActorType, State
    <3> QED BY <3>2, OutcomeSame
  <2>2. CASE t \notin Tracked
    BY <1>1, <1>2, <2>2
  <2> QED BY <2>1, <2>2
<1>5. actor' \in [Run -> ActorType]
  BY <1>2, <1>4
<1> QED
  BY <1>2, <1>3, <1>4, <1>5, SlotsUnasked

LEMMA SlotsStep == SlotsInv /\ [Next]_managerVars => SlotsInv'
<1> SUFFICES ASSUME SlotsInv, [Next]_managerVars PROVE SlotsInv'
  OBVIOUS
<1>1. CASE UNCHANGED <<entries, actor, req, raced>>
  BY <1>1, SlotsUnasked DEF SlotsInv, RunsInv
<1>2. CASE Signal \/ Drained \/ Exit \/ Ended \/ UNCHANGED managerVars
  BY <1>1, <1>2 DEF Signal, Drained, Exit, Ended, managerVars
<1>3. ASSUME NEW r \in Run, RecorderDone(r) PROVE SlotsInv'
  BY <1>1, <1>3 DEF RecorderDone
<1> QED
  BY <1>2, <1>3, ArriveSlots, CheckQuotaSlots, InsertSlots, ReserveSlots, LookupSlots, SendSlots,
     ReleaseSlots, ClearSlots, AnswerSlots, ActorSlots, ShutdownSlots DEF Next, Handle

\* reserveOrder, PlaceOrder and Reset: as long as no reset overlapped with the
\* placing of an order, a run's count is what its actor holds, will hold and is
\* about to be sent; it never leaves its bounds, even then.
THEOREM SlotsAlwaysExact == Spec => []SlotsExact
<1>1. Init => SlotsInv
  <2> SUFFICES ASSUME Init PROVE SlotsInv
    OBVIOUS
  <2>1. Tracked = {}
    BY NothingTracked DEF Init, Tracked
  <2>2. NoActor \in ActorType
    <3>1. <<>> \in Seq(Op)
      OBVIOUS
    <3> QED BY <3>1 DEF NoActor, ActorType, State
  <2>3. \A q \in Request : ~Found(q)
    BY DEF Init, Found, Idle
  <2> QED BY <2>1, <2>2, <2>3 DEF Init, SlotsInv, RunsInv, Asking
<1>2. SlotsInv => SlotsExact
  BY DEF SlotsInv, RunsInv, Balanced, SlotsExact
<1> QED
  BY <1>1, <1>2, SlotsStep, PTL DEF Spec

=============================================================================
