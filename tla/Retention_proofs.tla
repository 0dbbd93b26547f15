-------------------------- MODULE Retention_proofs --------------------------
(***************************************************************************)
(* How long things are kept, for any tokens, runs, lifetimes and number of  *)
(* restarts: the two stores agree until a restart, a session outlives its   *)
(* use, a showcase stays, and the curated runs are there when the listener  *)
(* opens.  First what every call does to a store, then the invariant, an    *)
(* action at a time.                                                        *)
(***************************************************************************)
EXTENDS Retention, TLAPS

\* What a store keeps.
SessionTable == UNION {[S -> Nat] : S \in SUBSET Token}

Row == [owner : Token \union {Mem!NoOwner}, showcase : BOOLEAN, expires : Nat]
RowTable == UNION {[S -> Row] : S \in SUBSET Run}

StoreState == [sessions : SessionTable, rows : RowTable,
               log : [Run -> SUBSET Nat], snaps : [Run -> SUBSET Nat]]

-----------------------------------------------------------------------------
\* A store is its four tables, each of its type.
LEMMA Tables ==
  ASSUME NEW st \in StoreState
  PROVE  /\ st = [sessions |-> st.sessions, rows |-> st.rows, log |-> st.log, snaps |-> st.snaps]
         /\ DOMAIN st.sessions \subseteq Token
         /\ st.sessions \in [DOMAIN st.sessions -> Nat]
         /\ \A t \in DOMAIN st.sessions : st.sessions[t] \in Nat
         /\ DOMAIN st.rows \subseteq Run
         /\ st.rows \in [DOMAIN st.rows -> Row]
         /\ \A r \in DOMAIN st.rows : st.rows[r] \in Row
         /\ st.log \in [Run -> SUBSET Nat] /\ st.snaps \in [Run -> SUBSET Nat]
<1>1. PICK S \in SUBSET Token : st.sessions \in [S -> Nat]
  BY DEF StoreState, SessionTable
<1>2. PICK R \in SUBSET Run : st.rows \in [R -> Row]
  BY DEF StoreState, RowTable
<1> QED
  BY <1>1, <1>2 DEF StoreState

\* Both stores keep the session there is, and otherwise add the new one.
LEMMA SessionCreated ==
  ASSUME NEW st \in StoreState, NEW t \in Token, NEW e \in Nat
  PROVE  LET new == Mem!CreateGuestSession(st, t, e)
         IN  /\ new \in StoreState
             /\ new.sessions = [x \in DOMAIN st.sessions \union {t} |->
                                  IF x \in DOMAIN st.sessions THEN st.sessions[x] ELSE e]
             /\ new.rows = st.rows /\ new.log = st.log /\ new.snaps = st.snaps
             /\ Pg!CreateGuestSession(st, t, e) = new
<1> DEFINE s == [x \in DOMAIN st.sessions \union {t} |->
                   IF x \in DOMAIN st.sessions THEN st.sessions[x] ELSE e]
<1>1. s \in SessionTable
  <2>1. s \in [DOMAIN st.sessions \union {t} -> Nat]
    BY Tables
  <2>2. DOMAIN st.sessions \union {t} \in SUBSET Token
    BY Tables
  <2> QED BY <2>1, <2>2 DEF SessionTable
<1>2. Pg!CreateGuestSession(st, t, e) = [st EXCEPT !.sessions = s]
  BY DEF Pg!CreateGuestSession, Pg!Insert
<1>3. Mem!CreateGuestSession(st, t, e) = [st EXCEPT !.sessions = s]
  <2>1. CASE t \in DOMAIN st.sessions
    <3>1. s = st.sessions
      <4>1. DOMAIN st.sessions \union {t} = DOMAIN st.sessions
        BY <2>1
      <4> QED BY <4>1, Tables
    <3>2. [st EXCEPT !.sessions = st.sessions] = st
      BY Tables
    <3> HIDE DEF s
    <3> QED BY <2>1, <3>1, <3>2 DEF Mem!CreateGuestSession
  <2>2. CASE t \notin DOMAIN st.sessions
    <3>1. Mem!Put(st.sessions, t, e) = s
      BY <2>2 DEF Mem!Put
    <3> HIDE DEF s
    <3> QED BY <2>2, <3>1 DEF Mem!CreateGuestSession
  <2> QED BY <2>1, <2>2
<1> HIDE DEF s
<1> QED
  BY <1>1, <1>2, <1>3 DEF StoreState, s

\* Both stores extend the session if it is there.
LEMMA SessionTouched ==
  ASSUME NEW st \in StoreState, NEW t \in Token, NEW e \in Nat
  PROVE  LET new == Mem!TouchGuestSession(st, t, e)
         IN  /\ new \in StoreState
             /\ new.sessions = [x \in DOMAIN st.sessions |-> IF x = t THEN e ELSE st.sessions[x]]
             /\ new.rows = st.rows /\ new.log = st.log /\ new.snaps = st.snaps
             /\ Pg!TouchGuestSession(st, t, e) = new
<1> DEFINE s == [x \in DOMAIN st.sessions |-> IF x = t THEN e ELSE st.sessions[x]]
<1>1. s \in SessionTable
  <2>1. s \in [DOMAIN st.sessions -> Nat] /\ DOMAIN st.sessions \in SUBSET Token
    BY Tables
  <2> QED BY <2>1 DEF SessionTable
<1>2. CASE t \in DOMAIN st.sessions
  <2>1. [st.sessions EXCEPT ![t] = e] = s
    BY <1>2, Tables
  <2> HIDE DEF s
  <2> QED
    BY <1>1, <1>2, <2>1 DEF StoreState, s, Pg!TouchGuestSession, Mem!TouchGuestSession
<1>3. CASE t \notin DOMAIN st.sessions
  <2>1. s = st.sessions
    BY <1>3, Tables
  <2> HIDE DEF s
  <2> QED
    BY <1>3, <2>1 DEF s, Pg!TouchGuestSession, Mem!TouchGuestSession
<1> QED
  BY <1>2, <1>3

\* Both stores keep the row there is and otherwise add it; Postgres as long as
\* the owner's session is there.
LEMMA RowCreated ==
  ASSUME NEW st \in StoreState, NEW r \in Run, NEW row \in Row
  PROVE  LET new == Mem!CreateSimulation(st, r, row)
         IN  /\ new \in StoreState
             /\ new.sessions = st.sessions /\ new.log = st.log /\ new.snaps = st.snaps
             /\ new.rows = [x \in DOMAIN st.rows \union {r} |->
                              IF x \in DOMAIN st.rows THEN st.rows[x] ELSE row]
             /\ row.owner \in DOMAIN st.sessions \union {Mem!NoOwner}
                  => Pg!CreateSimulation(st, r, row) = new
<1> DEFINE s == [x \in DOMAIN st.rows \union {r} |-> IF x \in DOMAIN st.rows THEN st.rows[x] ELSE row]
<1>1. s \in RowTable
  <2>1. s \in [DOMAIN st.rows \union {r} -> Row] /\ DOMAIN st.rows \union {r} \in SUBSET Run
    BY Tables
  <2> QED BY <2>1 DEF RowTable
<1>2. row.owner \in DOMAIN st.sessions \union {Mem!NoOwner} =>
        Pg!CreateSimulation(st, r, row) = [st EXCEPT !.rows = s]
  BY DEF Pg!CreateSimulation, Pg!Insert, Mem!NoOwner, Pg!NoOwner
<1>3. Mem!CreateSimulation(st, r, row) = [st EXCEPT !.rows = s]
  <2>1. CASE r \in DOMAIN st.rows
    <3>1. s = st.rows
      <4>1. DOMAIN st.rows \union {r} = DOMAIN st.rows
        BY <2>1
      <4> QED BY <4>1, Tables
    <3>2. [st EXCEPT !.rows = st.rows] = st
      BY Tables
    <3> HIDE DEF s
    <3> QED BY <2>1, <3>1, <3>2 DEF Mem!CreateSimulation
  <2>2. CASE r \notin DOMAIN st.rows
    <3>1. Mem!Put(st.rows, r, row) = s
      BY <2>2 DEF Mem!Put
    <3> HIDE DEF s
    <3> QED BY <2>2, <3>1 DEF Mem!CreateSimulation
  <2> QED BY <2>1, <2>2
<1> HIDE DEF s
<1> QED
  BY <1>1, <1>2, <1>3 DEF StoreState, s

\* Both stores add the events to the log, Postgres if the simulation has a row.
LEMMA EventsAppended ==
  ASSUME NEW st \in StoreState, NEW r \in Run, NEW events \in SUBSET Nat
  PROVE  LET inPg  == Pg!AppendEvents(st, r, events)
             inMem == Mem!AppendEvents(st, r, events)
         IN  /\ inMem \in StoreState
             /\ inMem.sessions = st.sessions /\ inMem.rows = st.rows /\ inMem.snaps = st.snaps
             /\ inMem.log = [st.log EXCEPT ![r] = @ \union events]
             /\ inPg = IF r \in DOMAIN st.rows THEN inMem ELSE st
<1> DEFINE s == [st.log EXCEPT ![r] = @ \union events]
<1>1. s \in [Run -> SUBSET Nat]
  <2>1. st.log \in [Run -> SUBSET Nat]
    BY Tables
  <2> QED BY <2>1
<1>2. Mem!AppendEvents(st, r, events) = [st EXCEPT !.log = s]
  BY DEF Mem!AppendEvents
<1>3. Pg!AppendEvents(st, r, events) = IF r \in DOMAIN st.rows THEN [st EXCEPT !.log = s] ELSE st
  BY DEF Pg!AppendEvents
<1> HIDE DEF s
<1> QED
  BY <1>1, <1>2, <1>3 DEF StoreState, s

\* Both stores add the snapshot, Postgres if the simulation has a row.
LEMMA SnapshotSaved ==
  ASSUME NEW st \in StoreState, NEW r \in Run, NEW n \in Nat
  PROVE  LET inPg  == Pg!SaveSnapshot(st, r, n)
             inMem == Mem!SaveSnapshot(st, r, n)
         IN  /\ inMem \in StoreState
             /\ inMem.sessions = st.sessions /\ inMem.rows = st.rows /\ inMem.log = st.log
             /\ inMem.snaps = [st.snaps EXCEPT ![r] = @ \union {n}]
             /\ inPg = IF r \in DOMAIN st.rows THEN inMem ELSE st
<1> DEFINE s == [st.snaps EXCEPT ![r] = @ \union {n}]
<1>1. s \in [Run -> SUBSET Nat]
  <2>1. st.snaps \in [Run -> SUBSET Nat]
    BY Tables
  <2> QED BY <2>1
<1>2. Mem!SaveSnapshot(st, r, n) = [st EXCEPT !.snaps = s]
  BY DEF Mem!SaveSnapshot
<1>3. Pg!SaveSnapshot(st, r, n) = IF r \in DOMAIN st.rows THEN [st EXCEPT !.snaps = s] ELSE st
  BY DEF Pg!SaveSnapshot
<1> HIDE DEF s
<1> QED
  BY <1>1, <1>2, <1>3 DEF StoreState, s

\* Both stores mark the row if it is there.
LEMMA ShowcaseMarked ==
  ASSUME NEW st \in StoreState, NEW r \in Run
  PROVE  LET new == Pg!MarkShowcase(st, r)
         IN  /\ new \in StoreState
             /\ new.sessions = st.sessions /\ new.log = st.log /\ new.snaps = st.snaps
             /\ new.rows = [x \in DOMAIN st.rows |->
                              IF x = r THEN [st.rows[x] EXCEPT !.showcase = TRUE] ELSE st.rows[x]]
             /\ Mem!MarkShowcase(st, r) = new
<1> DEFINE s == [x \in DOMAIN st.rows |->
                   IF x = r THEN [st.rows[x] EXCEPT !.showcase = TRUE] ELSE st.rows[x]]
<1>1. s \in RowTable
  <2>1. ASSUME NEW row \in Row PROVE [row EXCEPT !.showcase = TRUE] \in Row
    BY DEF Row
  <2>2. s \in [DOMAIN st.rows -> Row] /\ DOMAIN st.rows \in SUBSET Run
    BY <2>1, Tables
  <2> QED BY <2>2 DEF RowTable
<1>2. CASE r \in DOMAIN st.rows
  <2>1. [st.rows EXCEPT ![r] = [@ EXCEPT !.showcase = TRUE]] = s
    BY <1>2, Tables
  <2>2. [st EXCEPT !.rows[r].showcase = TRUE] = [st EXCEPT !.rows = s]
    BY <2>1
  <2> HIDE DEF s
  <2> QED
    BY <1>1, <1>2, <2>2 DEF StoreState, s, Pg!MarkShowcase, Mem!MarkShowcase
<1>3. CASE r \notin DOMAIN st.rows
  <2>1. s = st.rows
    BY <1>3, Tables
  <2> HIDE DEF s
  <2> QED
    BY <1>3, <2>1 DEF s, Pg!MarkShowcase, Mem!MarkShowcase
<1> QED
  BY <1>2, <1>3

\* What a sweep leaves.
Lasting(st, n) == {t \in DOMAIN st.sessions : n < st.sessions[t]}
Kept(st, n) == DOMAIN st.rows \ Mem!Collected(st, n)

SweptSessions(st, n) == [t \in Lasting(st, n) |-> st.sessions[t]]
SweptRows(st, n) ==
  [r \in Kept(st, n) |-> IF st.rows[r].owner \in Lasting(st, n) THEN st.rows[r]
                         ELSE [st.rows[r] EXCEPT !.owner = Mem!NoOwner]]

Owned(st) == \A r \in DOMAIN st.rows : st.rows[r].owner \in DOMAIN st.sessions \union {Mem!NoOwner}

\* What a sweep leaves is of the tables' types.
LEMMA SweptTables ==
  ASSUME NEW st \in StoreState, NEW n \in Nat
  PROVE  SweptSessions(st, n) \in SessionTable /\ SweptRows(st, n) \in RowTable
<1>1. SweptSessions(st, n) \in SessionTable
  <2>1. SweptSessions(st, n) \in [Lasting(st, n) -> Nat] /\ Lasting(st, n) \in SUBSET Token
    BY Tables DEF SweptSessions, Lasting
  <2> QED BY <2>1 DEF SessionTable
<1>2. ASSUME NEW row \in Row PROVE [row EXCEPT !.owner = Mem!NoOwner] \in Row
  BY DEF Row
<1>3. SweptRows(st, n) \in RowTable
  <2>1. Kept(st, n) \in SUBSET Run /\ \A r \in Kept(st, n) : st.rows[r] \in Row
    BY Tables DEF Kept
  <2>2. SweptRows(st, n) \in [Kept(st, n) -> Row]
    BY <1>2, <2>1 DEF SweptRows
  <2> QED BY <2>1, <2>2 DEF RowTable
<1> QED
  BY <1>1, <1>3

\* The deletes of one transaction with the foreign keys' actions, in one record.
LEMMA PgPurged ==
  ASSUME NEW st \in StoreState, NEW n \in Nat
  PROVE  Pg!PurgeExpired(st, n) =
           [sessions |-> SweptSessions(st, n), rows |-> SweptRows(st, n),
            log   |-> [r \in Run |-> IF r \in Kept(st, n) THEN st.log[r] ELSE {}],
            snaps |-> [r \in Run |-> IF r \in Kept(st, n) THEN st.snaps[r] ELSE {}]]
<1> DEFINE rows == {r \in DOMAIN st.rows : \/ st.rows[r].showcase
                                           \/ st.rows[r].expires = Pg!Never
                                           \/ n < st.rows[r].expires}
           kept == [r \in rows |-> st.rows[r]]
           log == [r \in Run |-> IF r \in rows THEN st.log[r] ELSE {}]
           snaps == [r \in Run |-> IF r \in rows THEN st.snaps[r] ELSE {}]
           owned == [r \in rows |-> IF st.rows[r].owner \in Lasting(st, n) THEN st.rows[r]
                                    ELSE [st.rows[r] EXCEPT !.owner = Pg!NoOwner]]
<1>1. rows = Kept(st, n)
  <2>1. \A r \in DOMAIN st.rows : st.rows[r].expires \in Nat
    BY Tables DEF Row
  <2> QED BY <2>1 DEF Kept, Mem!Collected, Mem!Never, Pg!Never, Mem!Past
<1>2. Pg!Restrict(st.rows, rows) = kept /\ DOMAIN kept = rows
  BY DEF Pg!Restrict
<1>3. Pg!Restrict(st.sessions, Lasting(st, n)) = SweptSessions(st, n)
  BY DEF Pg!Restrict, SweptSessions
<1>4. DOMAIN SweptSessions(st, n) = Lasting(st, n)
  BY DEF SweptSessions
<1> DEFINE a == [st EXCEPT !.rows = kept]
           b == Pg!SimulationDeleted(a)
           c == [b EXCEPT !.sessions = SweptSessions(st, n)]
<1>5. a = [sessions |-> st.sessions, rows |-> kept, log |-> st.log, snaps |-> st.snaps]
  <2> HIDE DEF kept
  <2> QED BY Tables
<1>6. b = [sessions |-> st.sessions, rows |-> kept, log |-> log, snaps |-> snaps]
  <2>1. a.log = st.log /\ a.snaps = st.snaps /\ a.rows = kept
    <3> HIDE DEF kept
    <3> QED BY <1>5
  <2> HIDE DEF a, kept, rows
  <2>2. b = [a EXCEPT !.log = log, !.snaps = snaps]
    BY <2>1, <1>2 DEF Pg!SimulationDeleted
  <2> HIDE DEF log, snaps, b
  <2> QED BY <2>2, <1>5
<1>7. c = [sessions |-> SweptSessions(st, n), rows |-> kept, log |-> log, snaps |-> snaps]
  <2> HIDE DEF kept, log, snaps, b
  <2> QED BY <1>6
<1>8. Pg!SessionDeleted(c) =
        [sessions |-> SweptSessions(st, n), rows |-> owned, log |-> log, snaps |-> snaps]
  <2>1. c.rows = kept /\ DOMAIN c.rows = rows /\ DOMAIN c.sessions = Lasting(st, n)
    <3> HIDE DEF kept, log, snaps, c, rows
    <3> QED BY <1>7, <1>2, <1>4
  <2>2. [r \in DOMAIN c.rows |-> IF c.rows[r].owner \in DOMAIN c.sessions THEN c.rows[r]
                                ELSE [c.rows[r] EXCEPT !.owner = Pg!NoOwner]] = owned
    <3>1. \A r \in rows : c.rows[r] = st.rows[r]
      <4> HIDE DEF c, rows
      <4> QED BY <2>1
    <3> HIDE DEF c, kept, rows
    <3> QED BY <2>1, <3>1
  <2>3. Pg!SessionDeleted(c) = [c EXCEPT !.rows = owned]
    <3> HIDE DEF c, owned
    <3> QED BY <2>2 DEF Pg!SessionDeleted
  <2> HIDE DEF kept, log, snaps, c, owned
  <2> QED BY <1>7, <2>3
<1>9. Pg!PurgeExpired(st, n) = Pg!SessionDeleted(c)
  <2>1. {t \in DOMAIN st.sessions : n < st.sessions[t]} = Lasting(st, n)
    BY DEF Lasting
  <2>2. [st EXCEPT !.rows = Pg!Restrict(@, rows)] = a
    <3> HIDE DEF kept, rows
    <3> QED BY <1>2
  <2>3. b.sessions = st.sessions
    <3> HIDE DEF b, kept, log, snaps
    <3> QED BY <1>6
  <2>4. [b EXCEPT !.sessions = Pg!Restrict(@, Lasting(st, n))] = c
    <3> HIDE DEF b
    <3> QED BY <2>3, <1>3
  <2>5. Pg!PurgeExpired(st, n) =
          Pg!SessionDeleted([Pg!SimulationDeleted([st EXCEPT !.rows = Pg!Restrict(@, rows)])
                               EXCEPT !.sessions = Pg!Restrict(@, Lasting(st, n))])
    BY <2>1 DEF Pg!PurgeExpired
  <2> HIDE DEF c, a, rows
  <2> QED BY <2>2, <2>4, <2>5
<1>10. owned = SweptRows(st, n)
  <2> HIDE DEF rows
  <2> QED BY <1>1 DEF SweptRows, Pg!NoOwner, Mem!NoOwner
<1> HIDE DEF rows, kept, owned, c
<1> QED
  BY <1>1, <1>8, <1>9, <1>10

\* The in-memory sweep, when every row's owner has a session: the same sessions
\* and rows.
LEMMA MemPurged ==
  ASSUME NEW st \in StoreState, NEW n \in Nat, Owned(st)
  PROVE  Mem!PurgeExpired(st, n) =
           [sessions |-> SweptSessions(st, n), rows |-> SweptRows(st, n),
            log   |-> [r \in Run |-> IF r \in Mem!Collected(st, n) THEN {} ELSE st.log[r]],
            snaps |-> [r \in Run |-> IF r \in Mem!Collected(st, n) THEN {} ELSE st.snaps[r]]]
<1> DEFINE dead == {t \in DOMAIN st.sessions : Mem!Past(st.sessions[t], n)}
           Disowned(row) == IF row.owner \in dead THEN [row EXCEPT !.owner = Mem!NoOwner] ELSE row
<1>1. DOMAIN st.sessions \ dead = Lasting(st, n)
  BY Tables DEF Mem!Past, Lasting
<1>2. Mem!Restrict(st.sessions, DOMAIN st.sessions \ dead) = SweptSessions(st, n)
  BY <1>1 DEF Mem!Restrict, SweptSessions
<1>3. [r \in DOMAIN st.rows \ Mem!Collected(st, n) |-> Disowned(st.rows[r])] = SweptRows(st, n)
  <2>1. ASSUME NEW r \in Kept(st, n)
        PROVE  Disowned(st.rows[r]) = IF st.rows[r].owner \in Lasting(st, n) THEN st.rows[r]
                                      ELSE [st.rows[r] EXCEPT !.owner = Mem!NoOwner]
    <3>1. st.rows[r].owner \in DOMAIN st.sessions \union {Mem!NoOwner} /\ st.rows[r] \in Row
      BY Tables DEF Owned, Kept
    <3>2. CASE st.rows[r].owner = Mem!NoOwner
      <4>1. [st.rows[r] EXCEPT !.owner = Mem!NoOwner] = st.rows[r]
        BY <3>1, <3>2 DEF Row
      <4> QED BY <4>1
    <3>3. CASE st.rows[r].owner \in DOMAIN st.sessions
      <4> HIDE DEF dead
      <4> QED BY <3>3, <1>1
    <3> QED BY <3>1, <3>2, <3>3
  <2> HIDE DEF Disowned
  <2> QED BY <2>1 DEF SweptRows, Kept
<1> HIDE DEF Disowned
<1> QED
  BY <1>2, <1>3 DEF Mem!PurgeExpired, Disowned

\* The in-memory sweep leaves a store, whoever owns the rows.
LEMMA MemPurgedType ==
  ASSUME NEW st \in StoreState, NEW n \in Nat
  PROVE  Mem!PurgeExpired(st, n) \in StoreState
<1> DEFINE dead == {t \in DOMAIN st.sessions : Mem!Past(st.sessions[t], n)}
           Disowned(row) == IF row.owner \in dead THEN [row EXCEPT !.owner = Mem!NoOwner] ELSE row
           sessions == [t \in DOMAIN st.sessions \ dead |-> st.sessions[t]]
           rows == [r \in DOMAIN st.rows \ Mem!Collected(st, n) |-> Disowned(st.rows[r])]
           log == [r \in Run |-> IF r \in Mem!Collected(st, n) THEN {} ELSE st.log[r]]
           snaps == [r \in Run |-> IF r \in Mem!Collected(st, n) THEN {} ELSE st.snaps[r]]
<1>1. sessions \in SessionTable
  <2>1. sessions \in [DOMAIN st.sessions \ dead -> Nat] /\ DOMAIN st.sessions \ dead \in SUBSET Token
    BY Tables
  <2> HIDE DEF sessions, dead
  <2> QED BY <2>1 DEF SessionTable
<1>2. rows \in RowTable
  <2>1. \A row \in Row : Disowned(row) \in Row
    BY DEF Row
  <2> HIDE DEF Disowned
  <2>2. rows \in [DOMAIN st.rows \ Mem!Collected(st, n) -> Row]
    BY <2>1, Tables
  <2>3. DOMAIN st.rows \ Mem!Collected(st, n) \in SUBSET Run
    BY Tables
  <2> HIDE DEF rows
  <2> QED BY <2>2, <2>3 DEF RowTable
<1>3. log \in [Run -> SUBSET Nat] /\ snaps \in [Run -> SUBSET Nat]
  BY Tables
<1>4. Mem!PurgeExpired(st, n) = [sessions |-> sessions, rows |-> rows, log |-> log, snaps |-> snaps]
  BY DEF Mem!PurgeExpired, Mem!Restrict
<1> HIDE DEF sessions, rows, log, snaps
<1> QED
  BY <1>1, <1>2, <1>3, <1>4 DEF StoreState

\* The types of the two servers' state.
TypeOK ==
  /\ now \in Nat \ {0}
  /\ pg \in StoreState /\ mem \in StoreState
  /\ boot \in [step : {"check", "create", "append", "snapshot", "serving"},
               next : 1..Len(Curated)+1]
  /\ touched \in [Token -> 0..now] /\ used \in [Token -> 0..now] /\ refused \in [Token -> 0..now]
  /\ live \in [Run -> [owner : Token \union {Mem!NoOwner}, events : Nat]]
  /\ pending \in [Run -> SUBSET Nat]
  /\ marking \subseteq GuestRun
  /\ crashes \in Nat
  /\ cutOff \subseteq CuratedRun

\* Only visitors' runs are live, and they belong to their visitor; only a live
\* run has events to write.
LiveRuns ==
  \A r \in Run : live[r] # NotLive \/ pending[r] # {} => r \in GuestRun /\ live[r].owner \in Token

\* Nothing is recorded in Postgres without a row.
Logged == \A r \in Run : pg.log[r] # {} \/ pg.snaps[r] # {} => r \in DOMAIN pg.rows

\* Before a restart the stores hold the same, but for the histories of live runs
\* whose rows were swept, which only the in-memory store goes on with.
Alike ==
  /\ pg.sessions = mem.sessions /\ pg.rows = mem.rows
  /\ \A r \in DOMAIN pg.rows : pg.log[r] = mem.log[r] /\ pg.snaps[r] = mem.snaps[r]
  /\ \A r \in Run \ DOMAIN pg.rows :
       live[r] = NotLive => mem.log[r] = {} /\ mem.snaps[r] = {}

\* The curated run that is being generated.
InProgress(c) == boot.step \in {"append", "snapshot"} /\ c = Curated[boot.next]

\* How far the start has come.
Booting ==
  /\ boot.step \in {"create", "append", "snapshot"} => boot.next <= Len(Curated)
  /\ boot.step = "serving" => boot.next = Len(Curated) + 1
  /\ boot.step \in {"append", "snapshot"} => Curated[boot.next] \in DOMAIN pg.rows
  /\ boot.step = "snapshot" => MaxEvents \in pg.log[Curated[boot.next]]
  /\ \A i \in 1..boot.next-1 : Curated[i] \in DOMAIN pg.rows

\* A curated run that has a row is complete, cut off, or being generated.
Provisioned ==
  \A c \in CuratedRun \intersect DOMAIN pg.rows :
    /\ pg.rows[c].showcase
    /\ c \in cutOff \/ InProgress(c) \/ Complete(c)

\* A session lasts SessionTTL from when it was last extended, and one that was
\* used lately was extended not much earlier, or that failed not much earlier.
SessionsKept ==
  /\ \A t \in DOMAIN pg.sessions : refused[t] = 0 => pg.sessions[t] >= touched[t] + SessionTTL
  /\ \A t \in Token : used[t] # 0 /\ refused[t] = 0 /\ now - used[t] <= SessionTTL - TouchInterval =>
       t \in DOMAIN pg.sessions /\ pg.sessions[t] > used[t] + SessionTTL - TouchInterval
  /\ \A t \in Token : refused[t] # 0 =>
       /\ touched[t] \in {0, refused[t]}
       /\ used[t] # 0 /\ used[t] - refused[t] < TouchInterval

RetentionInv ==
  /\ TypeOK /\ LiveRuns /\ Owned(pg) /\ Logged
  /\ crashes = 0 => Alike
  /\ Booting /\ Provisioned /\ SessionsKept

-----------------------------------------------------------------------------
\* Curated lists the curated runs, and none of them is a visitor's.
LEMMA CuratedFacts ==
  /\ Len(Curated) \in Nat
  /\ \A i \in 1..Len(Curated) : Curated[i] \in CuratedRun /\ Curated[i] \in Run
  /\ CuratedRun \subseteq Run /\ GuestRun \subseteq Run
  /\ \A c \in CuratedRun : c \in Run /\ c \notin GuestRun /\ \E i \in 1..Len(Curated) : c = Curated[i]
<1>1. Curated \in Seq(CuratedRun) /\ GuestRun \intersect CuratedRun = {}
  BY RetentionAssumption
<1>2. Len(Curated) \in Nat /\ DOMAIN Curated = 1..Len(Curated)
  BY <1>1
<1> QED
  BY <1>1, <1>2 DEF CuratedRun, Run

\* A store begins empty.
LEMMA EmptyStore ==
  Mem!Empty \in StoreState /\ DOMAIN Mem!Empty.sessions = {} /\ DOMAIN Mem!Empty.rows = {}
  /\ \A r \in Run : Mem!Empty.log[r] = {} /\ Mem!Empty.snaps[r] = {}
<1>1. DOMAIN <<>> = {} /\ <<>> \in [{} -> Nat] /\ <<>> \in [{} -> Row]
  OBVIOUS
<1>2. <<>> \in SessionTable
  BY <1>1 DEF SessionTable
<1>3. <<>> \in RowTable
  BY <1>1 DEF RowTable
<1> QED
  BY <1>1, <1>2, <1>3 DEF Mem!Empty, StoreState

\* The invariant holds when the process is first started.
LEMMA InvInit == Init => RetentionInv
<1> SUFFICES ASSUME Init PROVE RetentionInv
  OBVIOUS
<1>1. TypeOK
  BY EmptyStore, CuratedFacts DEF Init, TypeOK, NotLive
<1>2. LiveRuns /\ Owned(pg) /\ Logged
  BY EmptyStore DEF Init, LiveRuns, Owned, Logged
<1>3. Alike
  BY EmptyStore DEF Init, Alike
<1>4. Booting /\ Provisioned
  BY EmptyStore, CuratedFacts DEF Init, Booting, Provisioned
<1>5. SessionsKept
  BY EmptyStore DEF Init, SessionsKept
<1> QED
  BY <1>1, <1>2, <1>3, <1>4, <1>5 DEF RetentionInv

\* The start looks whether the next curated run is there.
LEMMA CheckInv ==
  ASSUME RetentionInv, CheckShowcase
  PROVE  RetentionInv'
<1> DEFINE c == Curated[boot.next]
<1>1. /\ boot.step = "check" /\ boot.next \in 1..Len(Curated)
      /\ boot' = IF c \in DOMAIN pg.rows /\ pg.rows[c].showcase
                 THEN [step |-> "check", next |-> boot.next + 1]
                 ELSE [step |-> "create", next |-> boot.next]
      /\ UNCHANGED <<now, pg, mem, touched, live, pending, marking, crashes, used, refused, cutOff>>
  <2>1. boot \in [step : {"check", "create", "append", "snapshot", "serving"}, next : 1..Len(Curated)+1]
    BY DEF RetentionInv, TypeOK
  <2> QED
    BY <2>1, CuratedFacts DEF CheckShowcase, Provisioning, NextRun, history
<1>2. TypeOK'
  BY <1>1, CuratedFacts DEF RetentionInv, TypeOK
<1>3. LiveRuns' /\ Owned(pg)' /\ Logged' /\ (crashes = 0 => Alike)' /\ SessionsKept'
  BY <1>1 DEF RetentionInv, LiveRuns, Owned, Logged, Alike, SessionsKept
<1>4. Booting'
  <2>1. Booting
    BY DEF RetentionInv
  <2> QED BY <1>1, <2>1, CuratedFacts DEF Booting
<1>5. Provisioned'
  BY <1>1 DEF RetentionInv, Provisioned, InProgress, Complete
<1> QED
  BY <1>2, <1>3, <1>4, <1>5 DEF RetentionInv

\* The listener opens.
LEMMA ListenInv ==
  ASSUME RetentionInv, Listen
  PROVE  RetentionInv'
<1>1. /\ boot.step = "check" /\ boot.next = Len(Curated) + 1
      /\ boot' = [step |-> "serving", next |-> boot.next]
      /\ UNCHANGED <<now, pg, mem, touched, live, pending, marking, crashes, used, refused, cutOff>>
  BY DEF Listen, history
<1>2. TypeOK'
  BY <1>1, CuratedFacts DEF RetentionInv, TypeOK
<1>3. LiveRuns' /\ Owned(pg)' /\ Logged' /\ (crashes = 0 => Alike)' /\ SessionsKept'
  BY <1>1 DEF RetentionInv, LiveRuns, Owned, Logged, Alike, SessionsKept
<1>4. Booting'
  BY <1>1 DEF RetentionInv, Booting
<1>5. Provisioned'
  BY <1>1 DEF RetentionInv, Provisioned, InProgress, Complete
<1> QED
  BY <1>2, <1>3, <1>4, <1>5 DEF RetentionInv

\* A stop and restart: Postgres is what is left.
LEMMA CrashInv ==
  ASSUME RetentionInv, Crash
  PROVE  RetentionInv'
<1>1. /\ crashes' = crashes + 1
      /\ boot' = [step |-> "check", next |-> 1]
      /\ touched' = [t \in Token |-> 0]
      /\ live' = [r \in Run |-> NotLive]
      /\ pending' = [r \in Run |-> {}]
      /\ marking' = {}
      /\ mem' = Mem!Empty
      /\ cutOff' = IF boot.step \in {"append", "snapshot"}
                   THEN cutOff \union {Curated[boot.next]} ELSE cutOff
      /\ UNCHANGED <<now, pg, used, refused>>
  BY DEF Crash
<1>2. TypeOK
  BY DEF RetentionInv
<1>3. TypeOK'
  <2>1. boot.next \in 1..Len(Curated)+1 /\ (boot.step \in {"append", "snapshot"} => boot.next <= Len(Curated))
    BY <1>2 DEF RetentionInv, TypeOK, Booting
  <2>2. cutOff' \subseteq CuratedRun
    BY <1>1, <1>2, <2>1, CuratedFacts DEF TypeOK
  <2> QED
    BY <1>1, <1>2, <2>2, EmptyStore, CuratedFacts DEF TypeOK, NotLive
<1>4. LiveRuns' /\ Owned(pg)' /\ Logged'
  BY <1>1 DEF RetentionInv, LiveRuns, Owned, Logged
<1>5. crashes' # 0
  BY <1>1, <1>2 DEF TypeOK
<1>6. Booting'
  BY <1>1, CuratedFacts DEF Booting
<1>7. Provisioned'
  BY <1>1 DEF RetentionInv, Provisioned, InProgress, Complete
<1>8. SessionsKept'
  <2>1. SessionTTL \in Nat /\ DOMAIN pg.sessions \subseteq Token /\ \A t \in DOMAIN pg.sessions : pg.sessions[t] \in Nat
    BY <1>2, Tables, RetentionAssumption DEF TypeOK
  <2>2. ASSUME NEW t \in DOMAIN pg.sessions, refused[t] = 0 PROVE pg.sessions[t] >= SessionTTL
    <3>1. touched[t] \in Nat /\ pg.sessions[t] >= touched[t] + SessionTTL
      BY <1>2, <2>1, <2>2 DEF RetentionInv, SessionsKept, TypeOK
    <3> QED BY <3>1, <2>1
  <2> QED
    BY <1>1, <2>1, <2>2 DEF RetentionInv, SessionsKept
<1> QED
  BY <1>3, <1>4, <1>5, <1>6, <1>7, <1>8 DEF RetentionInv

\* The next curated run gets its row.
LEMMA GenerateCreateInv ==
  ASSUME RetentionInv, GenerateCreate
  PROVE  RetentionInv'
<1>0. PICK c : c = Curated[boot.next]
  OBVIOUS
<1> DEFINE RowIn(st) == [x \in DOMAIN st.rows \union {c} |->
                           IF x \in DOMAIN st.rows THEN st.rows[x] ELSE ShowcaseRow]
<1>1. /\ boot.step = "create" /\ boot.next \in 1..Len(Curated)
      /\ pg' = Pg!CreateSimulation(pg, c, ShowcaseRow)
      /\ mem' = Mem!CreateSimulation(mem, c, ShowcaseRow)
      /\ boot' = [step |-> "append", next |-> boot.next]
      /\ UNCHANGED <<now, touched, live, pending, marking, crashes, used, refused, cutOff>>
  <2>1. boot \in [step : {"check", "create", "append", "snapshot", "serving"}, next : 1..Len(Curated)+1]
    BY DEF RetentionInv, TypeOK
  <2> QED
    BY <1>0, <2>1, CuratedFacts DEF GenerateCreate, Provisioning, Store, history
<1>2. c \in CuratedRun /\ c \in Run
  BY <1>0, <1>1, CuratedFacts
<1>3. ShowcaseRow \in Row /\ ShowcaseRow.owner = Mem!NoOwner /\ ShowcaseRow.showcase
  BY DEF ShowcaseRow, Row, Mem!Never
<1>4. pg \in StoreState /\ mem \in StoreState
  BY DEF RetentionInv, TypeOK
<1>5. /\ pg' \in StoreState /\ mem' \in StoreState
      /\ pg'.sessions = pg.sessions /\ pg'.log = pg.log /\ pg'.snaps = pg.snaps
      /\ mem'.sessions = mem.sessions /\ mem'.log = mem.log /\ mem'.snaps = mem.snaps
      /\ pg'.rows = RowIn(pg) /\ mem'.rows = RowIn(mem)
  <2>1. pg' = Mem!CreateSimulation(pg, c, ShowcaseRow)
    BY <1>1, <1>2, <1>3, <1>4, RowCreated
  <2>2. mem' = Mem!CreateSimulation(mem, c, ShowcaseRow)
    BY <1>1
  <2> QED BY <1>2, <1>3, <1>4, <2>1, <2>2, RowCreated
<1>6. /\ DOMAIN pg'.rows = DOMAIN pg.rows \union {c}
      /\ \A r \in DOMAIN pg.rows : pg'.rows[r] = pg.rows[r]
      /\ c \notin DOMAIN pg.rows => pg'.rows[c] = ShowcaseRow
  <2> QED BY <1>5
<1>7. TypeOK'
  BY <1>1, <1>5, CuratedFacts DEF RetentionInv, TypeOK
<1>8. LiveRuns'
  BY <1>1 DEF RetentionInv, LiveRuns
<1>9. Owned(pg)'
  BY <1>3, <1>5, <1>6 DEF RetentionInv, Owned
<1>10. Logged'
  BY <1>1, <1>2, <1>5, <1>6, CuratedFacts DEF RetentionInv, Logged, LiveRuns
<1>11. (crashes = 0 => Alike)'
  <2> SUFFICES ASSUME crashes = 0 PROVE Alike'
    BY <1>1
  <2>1. Alike /\ Logged
    BY DEF RetentionInv
  <2>2. pg'.sessions = mem'.sessions /\ pg'.rows = mem'.rows
    BY <1>5, <2>1 DEF Alike
  <2>3. c \notin DOMAIN pg.rows => pg.log[c] = {} /\ pg.snaps[c] = {} /\ mem.log[c] = {} /\ mem.snaps[c] = {}
    <3>1. live[c] = NotLive
      BY <1>2, CuratedFacts DEF RetentionInv, LiveRuns
    <3> QED BY <1>2, <2>1, <3>1 DEF Alike, Logged
  <2>4. \A r \in DOMAIN pg'.rows : pg.log[r] = mem.log[r] /\ pg.snaps[r] = mem.snaps[r]
    BY <1>6, <2>1, <2>3 DEF Alike
  <2> QED
    BY <1>1, <1>5, <1>6, <2>1, <2>2, <2>4 DEF Alike
<1>12. Booting'
  BY <1>0, <1>1, <1>6, CuratedFacts DEF RetentionInv, Booting
<1>13. Provisioned'
  <2>1. \A d \in CuratedRun \intersect DOMAIN pg.rows :
          pg.rows[d].showcase /\ (d \in cutOff \/ Complete(d))
    BY <1>1 DEF RetentionInv, Provisioned, InProgress
  <2>2. InProgress(c)'
    BY <1>0, <1>1 DEF InProgress
  <2> QED
    BY <1>1, <1>3, <1>5, <1>6, <2>1, <2>2 DEF Provisioned, Complete
<1>14. SessionsKept'
  BY <1>1, <1>5 DEF RetentionInv, SessionsKept
<1> QED
  BY <1>7, <1>8, <1>9, <1>10, <1>11, <1>12, <1>13, <1>14 DEF RetentionInv

\* Its events are written: only its own history changes.
LEMMA GenerateAppendInv ==
  ASSUME RetentionInv, GenerateAppend
  PROVE  RetentionInv'
<1>0. PICK c : c = Curated[boot.next]
  OBVIOUS
<1> DEFINE all == 1..MaxEvents
<1>1. /\ boot.step = "append" /\ boot.next \in 1..Len(Curated)
      /\ pg' = Pg!AppendEvents(pg, c, all) /\ mem' = Mem!AppendEvents(mem, c, all)
      /\ boot' = [step |-> "snapshot", next |-> boot.next]
      /\ UNCHANGED <<now, touched, live, pending, marking, crashes, used, refused, cutOff>>
  <2>1. boot \in [step : {"check", "create", "append", "snapshot", "serving"}, next : 1..Len(Curated)+1]
    BY DEF RetentionInv, TypeOK
  <2> QED
    BY <1>0, <2>1, CuratedFacts DEF GenerateAppend, Provisioning, Store, history
<1>2. c \in CuratedRun /\ c \in Run /\ c \in DOMAIN pg.rows
  BY <1>0, <1>1, CuratedFacts DEF RetentionInv, Booting
<1>3. all \in SUBSET Nat /\ MaxEvents \in all
  BY RetentionAssumption
<1>4. pg \in StoreState /\ mem \in StoreState
  BY DEF RetentionInv, TypeOK
<1> HIDE DEF all
<1>5. /\ pg' \in StoreState /\ mem' \in StoreState
      /\ pg'.sessions = pg.sessions /\ pg'.rows = pg.rows /\ pg'.snaps = pg.snaps
      /\ mem'.sessions = mem.sessions /\ mem'.rows = mem.rows /\ mem'.snaps = mem.snaps
      /\ pg'.log = [pg.log EXCEPT ![c] = @ \union all]
      /\ mem'.log = [mem.log EXCEPT ![c] = @ \union all]
  <2>1. pg' = Mem!AppendEvents(pg, c, all)
    BY <1>1, <1>2, <1>3, <1>4, EventsAppended
  <2>2. mem' = Mem!AppendEvents(mem, c, all)
    BY <1>1
  <2> QED BY <1>2, <1>3, <1>4, <2>1, <2>2, EventsAppended
<1>6. /\ pg'.log[c] = pg.log[c] \union all /\ mem'.log[c] = mem.log[c] \union all
      /\ \A r \in Run \ {c} : pg'.log[r] = pg.log[r] /\ mem'.log[r] = mem.log[r]
  <2>1. DOMAIN pg.log = Run /\ DOMAIN mem.log = Run
    BY <1>4, Tables
  <2> QED BY <1>2, <1>5, <2>1
<1>7. TypeOK'
  BY <1>1, <1>5, CuratedFacts DEF RetentionInv, TypeOK
<1>8. LiveRuns' /\ Owned(pg)' /\ SessionsKept'
  BY <1>1, <1>5 DEF RetentionInv, LiveRuns, Owned, SessionsKept
<1>9. Logged'
  BY <1>1, <1>2, <1>5, <1>6 DEF RetentionInv, Logged
<1>10. (crashes = 0 => Alike)'
  <2> SUFFICES ASSUME crashes = 0 PROVE Alike'
    BY <1>1
  <2>1. Alike /\ DOMAIN pg.rows \subseteq Run
    BY <1>4, Tables DEF RetentionInv
  <2>2. \A r \in DOMAIN pg.rows : pg'.log[r] = mem'.log[r]
    BY <1>6, <2>1 DEF Alike
  <2>3. \A r \in Run \ DOMAIN pg.rows : live[r] = NotLive => mem'.log[r] = {} /\ mem.snaps[r] = {}
    BY <1>2, <1>6, <2>1 DEF Alike
  <2>4. pg'.sessions = mem'.sessions /\ pg'.rows = mem'.rows
        /\ \A r \in DOMAIN pg.rows : pg.snaps[r] = mem.snaps[r]
    BY <1>5, <2>1 DEF Alike
  <2>5. pg'.rows = pg.rows /\ pg'.snaps = pg.snaps /\ mem'.snaps = mem.snaps /\ live' = live
    BY <1>1, <1>5
  <2> QED
    BY <2>2, <2>3, <2>4, <2>5 DEF Alike
<1>11. Booting'
  BY <1>0, <1>1, <1>2, <1>3, <1>5, <1>6, CuratedFacts DEF RetentionInv, Booting
<1>12. Provisioned'
  <2>1. \A d \in CuratedRun \intersect DOMAIN pg.rows :
          pg.rows[d].showcase /\ (d \in cutOff \/ d = c \/ Complete(d))
    BY <1>0, <1>1 DEF RetentionInv, Provisioned, InProgress
  <2>2. InProgress(c)'
    BY <1>0, <1>1 DEF InProgress
  <2>3. \A d \in CuratedRun : pg.log[d] # {} => pg'.log[d] # {}
    BY <1>2, <1>6, CuratedFacts
  <2> QED
    BY <1>1, <1>5, <2>1, <2>2, <2>3 DEF Provisioned, Complete
<1> QED
  BY <1>7, <1>8, <1>9, <1>10, <1>11, <1>12 DEF RetentionInv

\* Its snapshot is written, and it is complete.
LEMMA GenerateSnapshotInv ==
  ASSUME RetentionInv, GenerateSnapshot
  PROVE  RetentionInv'
<1>0. PICK c : c = Curated[boot.next]
  OBVIOUS
<1>1. /\ boot.step = "snapshot" /\ boot.next \in 1..Len(Curated)
      /\ pg' = Pg!SaveSnapshot(pg, c, MaxEvents) /\ mem' = Mem!SaveSnapshot(mem, c, MaxEvents)
      /\ boot' = [step |-> "check", next |-> boot.next + 1]
      /\ UNCHANGED <<now, touched, live, pending, marking, crashes, used, refused, cutOff>>
  <2>1. boot \in [step : {"check", "create", "append", "snapshot", "serving"}, next : 1..Len(Curated)+1]
    BY DEF RetentionInv, TypeOK
  <2> QED
    BY <1>0, <2>1, CuratedFacts DEF GenerateSnapshot, Provisioning, Store, NextRun, history
<1>2. c \in CuratedRun /\ c \in Run /\ c \in DOMAIN pg.rows /\ MaxEvents \in pg.log[c]
  BY <1>0, <1>1, CuratedFacts DEF RetentionInv, Booting
<1>3. MaxEvents \in Nat
  BY RetentionAssumption
<1>4. pg \in StoreState /\ mem \in StoreState
  BY DEF RetentionInv, TypeOK
<1>5. /\ pg' \in StoreState /\ mem' \in StoreState
      /\ pg'.sessions = pg.sessions /\ pg'.rows = pg.rows /\ pg'.log = pg.log
      /\ mem'.sessions = mem.sessions /\ mem'.rows = mem.rows /\ mem'.log = mem.log
      /\ pg'.snaps = [pg.snaps EXCEPT ![c] = @ \union {MaxEvents}]
      /\ mem'.snaps = [mem.snaps EXCEPT ![c] = @ \union {MaxEvents}]
  BY <1>1, <1>2, <1>3, <1>4, SnapshotSaved
<1>6. /\ pg'.snaps[c] = pg.snaps[c] \union {MaxEvents} /\ mem'.snaps[c] = mem.snaps[c] \union {MaxEvents}
      /\ \A r \in Run \ {c} : pg'.snaps[r] = pg.snaps[r] /\ mem'.snaps[r] = mem.snaps[r]
  <2>1. DOMAIN pg.snaps = Run /\ DOMAIN mem.snaps = Run
    BY <1>4, Tables
  <2> QED BY <1>2, <1>5, <2>1
<1>7. TypeOK'
  BY <1>1, <1>5, CuratedFacts DEF RetentionInv, TypeOK
<1>8. LiveRuns' /\ Owned(pg)' /\ SessionsKept'
  BY <1>1, <1>5 DEF RetentionInv, LiveRuns, Owned, SessionsKept
<1>9. Logged'
  BY <1>1, <1>2, <1>5, <1>6 DEF RetentionInv, Logged
<1>10. (crashes = 0 => Alike)'
  <2> SUFFICES ASSUME crashes = 0 PROVE Alike'
    BY <1>1
  <2>1. Alike /\ DOMAIN pg.rows \subseteq Run
    BY <1>4, Tables DEF RetentionInv
  <2>2. \A r \in DOMAIN pg.rows : pg'.snaps[r] = mem'.snaps[r]
    BY <1>6, <2>1 DEF Alike
  <2>3. \A r \in Run \ DOMAIN pg.rows : live[r] = NotLive => mem.log[r] = {} /\ mem'.snaps[r] = {}
    BY <1>2, <1>6, <2>1 DEF Alike
  <2>4. pg'.sessions = mem'.sessions /\ pg'.rows = mem'.rows
        /\ \A r \in DOMAIN pg.rows : pg.log[r] = mem.log[r]
    BY <1>5, <2>1 DEF Alike
  <2>5. pg'.rows = pg.rows /\ pg'.log = pg.log /\ mem'.log = mem.log /\ live' = live
    BY <1>1, <1>5
  <2> QED
    BY <2>2, <2>3, <2>4, <2>5 DEF Alike
<1>11. Booting'
  <2>1. \A i \in 1..boot.next-1 : Curated[i] \in DOMAIN pg.rows
    BY DEF RetentionInv, Booting
  <2>2. \A i \in 1..boot.next : Curated[i] \in DOMAIN pg.rows
    BY <1>0, <1>1, <1>2, <2>1
  <2> QED
    BY <1>1, <1>5, <2>2, CuratedFacts DEF Booting
<1>12. Provisioned'
  <2>1. \A d \in CuratedRun \intersect DOMAIN pg.rows :
          pg.rows[d].showcase /\ (d \in cutOff \/ d = c \/ Complete(d))
    BY <1>0, <1>1 DEF RetentionInv, Provisioned, InProgress
  <2>2. Complete(c)'
    BY <1>2, <1>5, <1>6, <2>1 DEF Complete
  <2>3. \A d \in CuratedRun : pg.snaps[d] # {} => pg'.snaps[d] # {}
    BY <1>2, <1>6, CuratedFacts
  <2> QED
    BY <1>1, <1>5, <2>1, <2>2, <2>3 DEF Provisioned, Complete
<1> QED
  BY <1>7, <1>8, <1>9, <1>10, <1>11, <1>12 DEF RetentionInv

\* The times are numbers.
LEMMA TimesType ==
  ASSUME TypeOK
  PROVE  /\ now \in Nat \ {0} /\ SessionTTL \in Nat \ {0} /\ RunTTL \in Nat \ {0}
         /\ TouchInterval \in 1..SessionTTL
         /\ DOMAIN pg.sessions \subseteq Token
         /\ \A t \in DOMAIN pg.sessions : pg.sessions[t] \in Nat
         /\ \A t \in Token : touched[t] \in 0..now /\ used[t] \in 0..now /\ refused[t] \in 0..now
BY Tables, RetentionAssumption DEF TypeOK

\* Time passes.
LEMMA PassInv ==
  ASSUME RetentionInv, Pass
  PROVE  RetentionInv'
<1>1. now' = now + 1 /\ UNCHANGED <<pg, mem, boot, touched, live, pending, marking, crashes, used, refused, cutOff>>
  BY DEF Pass, process, history
<1>2. TypeOK'
  <2>1. TypeOK /\ now \in Nat
    BY DEF RetentionInv, TypeOK
  <2>2. 0..now \subseteq 0..now+1
    BY <2>1
  <2> QED BY <1>1, <2>1, <2>2 DEF TypeOK
<1>3. LiveRuns' /\ Owned(pg)' /\ Logged' /\ (crashes = 0 => Alike)'
  BY <1>1 DEF RetentionInv, LiveRuns, Owned, Logged, Alike
<1>4. Booting' /\ Provisioned'
  BY <1>1 DEF RetentionInv, Booting, Provisioned, InProgress, Complete
<1>5. SessionsKept'
  <2>1. TypeOK
    BY DEF RetentionInv
  <2>2. ASSUME NEW t \in Token, used[t] # 0, refused[t] = 0,
               (now + 1) - used[t] <= SessionTTL - TouchInterval
        PROVE  t \in DOMAIN pg.sessions /\ pg.sessions[t] > used[t] + SessionTTL - TouchInterval
    <3>1. now - used[t] <= SessionTTL - TouchInterval
      BY <2>1, <2>2, TimesType
    <3> QED BY <2>2, <3>1 DEF RetentionInv, SessionsKept
  <2> QED BY <1>1, <2>2 DEF RetentionInv, SessionsKept
<1> QED
  BY <1>2, <1>3, <1>4, <1>5 DEF RetentionInv

\* A session is issued.
LEMMA IssueInv ==
  ASSUME RetentionInv, NEW t \in Token, Issue(t)
  PROVE  RetentionInv'
<1> DEFINE SessionsIn(st) == [x \in DOMAIN st.sessions \union {t} |->
                                IF x \in DOMAIN st.sessions THEN st.sessions[x]
                                ELSE now + SessionTTL]
<1>1. /\ boot.step = "serving"
      /\ used[t] = 0 /\ t \notin DOMAIN pg.sessions
      /\ pg' = Pg!CreateGuestSession(pg, t, now + SessionTTL)
      /\ mem' = Mem!CreateGuestSession(mem, t, now + SessionTTL)
      /\ used' = [used EXCEPT ![t] = now]
      /\ UNCHANGED <<now, boot, touched, live, pending, marking, crashes, refused, cutOff>>
  BY DEF Issue, Serving, Store, process
<1>2. TypeOK
  BY DEF RetentionInv
<1>3. now + SessionTTL \in Nat /\ pg \in StoreState /\ mem \in StoreState
  BY <1>2, TimesType DEF TypeOK
<1>4. /\ pg' \in StoreState /\ mem' \in StoreState
      /\ pg'.rows = pg.rows /\ pg'.log = pg.log /\ pg'.snaps = pg.snaps
      /\ mem'.rows = mem.rows /\ mem'.log = mem.log /\ mem'.snaps = mem.snaps
      /\ pg'.sessions = SessionsIn(pg) /\ mem'.sessions = SessionsIn(mem)
  <2>1. pg' = Mem!CreateGuestSession(pg, t, now + SessionTTL)
    BY <1>1, <1>3, SessionCreated
  <2>2. /\ pg' \in StoreState /\ pg'.sessions = SessionsIn(pg)
        /\ pg'.rows = pg.rows /\ pg'.log = pg.log /\ pg'.snaps = pg.snaps
    BY <1>3, <2>1, SessionCreated
  <2>3. /\ mem' \in StoreState /\ mem'.sessions = SessionsIn(mem)
        /\ mem'.rows = mem.rows /\ mem'.log = mem.log /\ mem'.snaps = mem.snaps
    BY <1>1, <1>3, SessionCreated
  <2> HIDE DEF SessionsIn
  <2> QED BY <2>2, <2>3
<1>5. /\ DOMAIN pg'.sessions = DOMAIN pg.sessions \union {t}
      /\ \A x \in DOMAIN pg.sessions : pg'.sessions[x] = pg.sessions[x]
      /\ pg'.sessions[t] = now + SessionTTL
  BY <1>1, <1>4
<1>6. TypeOK'
  <2>1. used' \in [Token -> 0..now]
    BY <1>1, <1>2, TimesType DEF TypeOK
  <2> QED BY <1>1, <1>2, <1>4, <2>1 DEF TypeOK
<1>7. LiveRuns' /\ Owned(pg)' /\ Logged'
  BY <1>1, <1>4, <1>5 DEF RetentionInv, LiveRuns, Owned, Logged
<1>8. (crashes = 0 => Alike)'
  BY <1>1, <1>4 DEF RetentionInv, Alike
<1>9. Booting' /\ Provisioned'
  <2>1. /\ boot' = boot /\ cutOff' = cutOff
        /\ pg'.rows = pg.rows /\ pg'.log = pg.log /\ pg'.snaps = pg.snaps
    BY <1>1, <1>4
  <2> QED BY <2>1 DEF RetentionInv, Booting, Provisioned, InProgress, Complete
<1>10. SessionsKept'
  <2>1. \A x \in DOMAIN pg'.sessions : refused[x] = 0 => pg'.sessions[x] >= touched[x] + SessionTTL
    BY <1>2, <1>5, TimesType DEF RetentionInv, SessionsKept
  <2>2. ASSUME NEW x \in Token, used'[x] # 0, refused[x] = 0, now - used'[x] <= SessionTTL - TouchInterval
        PROVE  x \in DOMAIN pg'.sessions /\ pg'.sessions[x] > used'[x] + SessionTTL - TouchInterval
    <3>1. CASE x = t
      <4>1. used'[x] = now
        BY <1>1, <1>2, <3>1 DEF TypeOK
      <4> QED BY <1>2, <1>5, <3>1, <4>1, TimesType
    <3>2. CASE x # t
      <4>1. used'[x] = used[x]
        BY <1>1, <1>2, <3>2 DEF TypeOK
      <4> QED BY <1>5, <2>2, <4>1 DEF RetentionInv, SessionsKept
    <3> QED BY <3>1, <3>2
  <2>3. refused[t] = 0
    BY <1>1 DEF RetentionInv, SessionsKept
  <2>4. \A x \in Token : refused[x] # 0 =>
          touched[x] \in {0, refused[x]} /\ used'[x] # 0 /\ used'[x] - refused[x] < TouchInterval
    <3>1. \A x \in Token \ {t} : used'[x] = used[x]
      BY <1>1, <1>2 DEF TypeOK
    <3> QED BY <2>3, <3>1 DEF RetentionInv, SessionsKept
  <2> QED BY <1>1, <2>1, <2>2, <2>4 DEF SessionsKept
<1> QED
  BY <1>6, <1>7, <1>8, <1>9, <1>10 DEF RetentionInv

\* A session is used: it was extended less than TouchInterval ago, or is now, or
\* that fails.
LEMMA UseInv ==
  ASSUME RetentionInv, NEW t \in Token, Use(t)
  PROVE  RetentionInv'
<1> DEFINE SessionsIn(st) == [x \in DOMAIN st.sessions |->
                                IF x = t THEN now + SessionTTL ELSE st.sessions[x]]
           extended == Due(t) /\ refused'[t] = 0
<1>1. /\ t \in DOMAIN pg.sessions /\ ~Mem!Past(pg.sessions[t], now)
      /\ IF Due(t)
         THEN /\ touched' = [touched EXCEPT ![t] = now]
              /\ \/ /\ pg' = Pg!TouchGuestSession(pg, t, now + SessionTTL)
                    /\ mem' = Mem!TouchGuestSession(mem, t, now + SessionTTL)
                    /\ refused' = [refused EXCEPT ![t] = 0]
                 \/ /\ UNCHANGED <<pg, mem>>
                    /\ refused' = [refused EXCEPT ![t] = now]
         ELSE UNCHANGED <<touched, pg, mem, refused>>
      /\ used' = [used EXCEPT ![t] = now]
      /\ UNCHANGED <<now, boot, live, pending, marking, crashes, cutOff>>
  BY DEF Use, Valid, Extend, Store
<1>2. TypeOK
  BY DEF RetentionInv
<1>3. now + SessionTTL \in Nat /\ now # 0 /\ pg \in StoreState /\ mem \in StoreState
  BY <1>2, TimesType DEF TypeOK
<1>4. /\ pg' \in StoreState /\ mem' \in StoreState
      /\ pg'.rows = pg.rows /\ pg'.log = pg.log /\ pg'.snaps = pg.snaps
      /\ mem'.rows = mem.rows /\ mem'.log = mem.log /\ mem'.snaps = mem.snaps
      /\ pg'.sessions = IF extended THEN SessionsIn(pg) ELSE pg.sessions
      /\ mem'.sessions = IF extended THEN SessionsIn(mem) ELSE mem.sessions
  <2>1. CASE extended
    <3>0. /\ pg' = Pg!TouchGuestSession(pg, t, now + SessionTTL)
          /\ mem' = Mem!TouchGuestSession(mem, t, now + SessionTTL)
      BY <1>1, <1>2, <1>3, <2>1 DEF TypeOK
    <3>1. pg' = Mem!TouchGuestSession(pg, t, now + SessionTTL)
      BY <1>3, <3>0, SessionTouched
    <3>2. mem' = Mem!TouchGuestSession(mem, t, now + SessionTTL)
      BY <3>0
    <3> QED BY <1>3, <2>1, <3>1, <3>2, SessionTouched
  <2>2. CASE ~extended
    <3>1. UNCHANGED <<pg, mem>>
      BY <1>1, <1>2, <2>2 DEF TypeOK
    <3> HIDE DEF extended
    <3> QED BY <1>3, <2>2, <3>1
  <2> QED BY <2>1, <2>2
<1>5. /\ DOMAIN pg'.sessions = DOMAIN pg.sessions
      /\ \A x \in DOMAIN pg.sessions \ {t} : pg'.sessions[x] = pg.sessions[x]
      /\ pg'.sessions[t] = IF extended THEN now + SessionTTL ELSE pg.sessions[t]
  BY <1>1, <1>4
<1>6. /\ touched'[t] = IF Due(t) THEN now ELSE touched[t]
      /\ used'[t] = now
      /\ IF Due(t) THEN refused'[t] \in {0, now} ELSE refused'[t] = refused[t]
      /\ \A x \in Token \ {t} :
           touched'[x] = touched[x] /\ used'[x] = used[x] /\ refused'[x] = refused[x]
  BY <1>1, <1>2 DEF TypeOK
<1>7. TypeOK'
  <2>0. now \in Nat
    BY <1>2, TimesType DEF TypeOK
  <2>1. used' \in [Token -> 0..now]
    BY <1>1, <1>2, <2>0 DEF TypeOK
  <2>2. touched' \in [Token -> 0..now]
    <3>1. touched' = touched \/ touched' = [touched EXCEPT ![t] = now]
      BY <1>1
    <3>2. touched \in [Token -> 0..now]
      BY <1>2 DEF TypeOK
    <3> QED BY <2>0, <3>1, <3>2
  <2>3. refused' \in [Token -> 0..now]
    <3>1. \/ refused' = refused \/ refused' = [refused EXCEPT ![t] = 0]
          \/ refused' = [refused EXCEPT ![t] = now]
      BY <1>1
    <3> QED BY <1>2, <2>0, <3>1 DEF TypeOK
  <2> QED BY <1>1, <1>2, <1>4, <2>1, <2>2, <2>3 DEF TypeOK
<1>8. LiveRuns' /\ Owned(pg)' /\ Logged'
  BY <1>1, <1>4, <1>5 DEF RetentionInv, LiveRuns, Owned, Logged
<1>9. (crashes = 0 => Alike)'
  BY <1>1, <1>4 DEF RetentionInv, Alike
<1>10. Booting' /\ Provisioned'
  BY <1>1, <1>4 DEF RetentionInv, Booting, Provisioned, InProgress, Complete
<1>11. refused[t] = 0 => pg.sessions[t] >= touched[t] + SessionTTL
  BY <1>1 DEF RetentionInv, SessionsKept
<1>12. \A x \in DOMAIN pg'.sessions : refused'[x] = 0 => pg'.sessions[x] >= touched'[x] + SessionTTL
  <2>1. ASSUME NEW x \in DOMAIN pg.sessions, x # t, refused'[x] = 0
        PROVE  pg'.sessions[x] >= touched'[x] + SessionTTL
    <3>1. pg'.sessions[x] = pg.sessions[x] /\ touched'[x] = touched[x] /\ refused[x] = 0
      BY <1>2, <1>5, <1>6, <2>1, TimesType
    <3> QED BY <3>1 DEF RetentionInv, SessionsKept
  <2>2. refused'[t] = 0 => pg'.sessions[t] >= touched'[t] + SessionTTL
    BY <1>2, <1>5, <1>6, <1>11, TimesType
  <2> QED BY <1>5, <2>1, <2>2
<1>13. refused'[t] = 0 => pg'.sessions[t] > now + SessionTTL - TouchInterval
  BY <1>2, <1>1, <1>5, <1>6, <1>11, TimesType DEF Due
<1>14. refused'[t] # 0 =>
         touched'[t] \in {0, refused'[t]} /\ used'[t] - refused'[t] < TouchInterval
  <2>1. CASE Due(t)
    BY <1>2, <1>6, <2>1, TimesType
  <2>2. CASE ~Due(t)
    <3>1. refused[t] # 0 => touched[t] \in {0, refused[t]}
      BY DEF RetentionInv, SessionsKept
    <3> QED BY <1>2, <1>6, <2>2, <3>1, TimesType DEF Due
  <2> QED BY <2>1, <2>2
<1>15. SessionsKept'
  <2>1. ASSUME NEW x \in Token, used'[x] # 0, refused'[x] = 0, now - used'[x] <= SessionTTL - TouchInterval
        PROVE  x \in DOMAIN pg'.sessions /\ pg'.sessions[x] > used'[x] + SessionTTL - TouchInterval
    <3>1. CASE x = t
      BY <1>1, <1>5, <1>6, <1>13, <2>1, <3>1
    <3>2. CASE x # t
      BY <1>5, <1>6, <2>1, <3>2 DEF RetentionInv, SessionsKept
    <3> QED BY <3>1, <3>2
  <2>2. \A x \in Token : refused'[x] # 0 =>
          touched'[x] \in {0, refused'[x]} /\ used'[x] # 0 /\ used'[x] - refused'[x] < TouchInterval
    BY <1>3, <1>6, <1>14 DEF RetentionInv, SessionsKept
  <2> QED BY <1>1, <1>12, <2>1, <2>2 DEF SessionsKept
<1> QED
  BY <1>7, <1>8, <1>9, <1>10, <1>15 DEF RetentionInv

\* Runs emit, fall silent and are marked without a word to the stores, or one
\* that fails.
LEMMA UnstoredInv ==
  ASSUME RetentionInv, UNCHANGED <<now, pg, mem, boot, touched, crashes, used, refused, cutOff>>,
         live' \in [Run -> [owner : Token \union {Mem!NoOwner}, events : Nat]],
         pending' \in [Run -> SUBSET Nat], marking' \subseteq GuestRun, LiveRuns',
         \A r \in Run : live'[r] = NotLive => live[r] = NotLive
  PROVE  RetentionInv'
<1>1. TypeOK'
  BY DEF RetentionInv, TypeOK
<1>2. Owned(pg)' /\ Logged' /\ SessionsKept'
  BY DEF RetentionInv, Owned, Logged, SessionsKept
<1>3. (crashes = 0 => Alike)'
  BY DEF RetentionInv, Alike
<1>4. Booting' /\ Provisioned'
  BY DEF RetentionInv, Booting, Provisioned, InProgress, Complete
<1> QED
  BY <1>1, <1>2, <1>3, <1>4 DEF RetentionInv

\* A visitor's run is created: its row, in both stores or in neither, and its
\* actor.
LEMMA CreateInv ==
  ASSUME RetentionInv, NEW t \in Token, NEW r \in GuestRun, Create(t, r)
  PROVE  RetentionInv'
<1>0. PICK row : row = [owner |-> t, showcase |-> FALSE, expires |-> now + RunTTL]
  OBVIOUS
<1> DEFINE RowIn(st) == [x \in DOMAIN st.rows \union {r} |->
                           IF x \in DOMAIN st.rows THEN st.rows[x] ELSE row]
<1>1. /\ boot.step = "serving" /\ t \in DOMAIN pg.sessions
      /\ r \notin DOMAIN pg.rows /\ live[r] = NotLive
      /\ \/ /\ pg' = Pg!CreateSimulation(pg, r, row)
            /\ mem' = Mem!CreateSimulation(mem, r, row)
         \/ UNCHANGED <<pg, mem>>
      /\ live' = [live EXCEPT ![r] = [owner |-> t, events |-> 0]]
      /\ UNCHANGED <<now, boot, touched, pending, marking, crashes, used, refused, cutOff>>
  BY <1>0 DEF Create, Serving, Valid, TryStore, Store, history
<1>2. TypeOK /\ r \in Run /\ r \notin CuratedRun
  BY CuratedFacts DEF RetentionInv
<1>3. row \in Row /\ row.owner = t
  BY <1>0, <1>2, TimesType DEF Row
<1>4. pg \in StoreState /\ mem \in StoreState
  BY <1>2 DEF TypeOK
<1>5. live' \in [Run -> [owner : Token \union {Mem!NoOwner}, events : Nat]]
  BY <1>1, <1>2 DEF TypeOK
<1>6. live'[r] = [owner |-> t, events |-> 0] /\ \A x \in Run \ {r} : live'[x] = live[x]
  BY <1>1, <1>2 DEF TypeOK
<1>7. LiveRuns' /\ live'[r] # NotLive
  BY <1>1, <1>6, RetentionAssumption DEF RetentionInv, LiveRuns, NotLive
<1>8. CASE UNCHANGED <<pg, mem>>
  BY <1>1, <1>2, <1>5, <1>6, <1>7, <1>8, UnstoredInv DEF TypeOK
<1>9. CASE pg' = Pg!CreateSimulation(pg, r, row) /\ mem' = Mem!CreateSimulation(mem, r, row)
  <2>1. /\ pg' \in StoreState /\ pg'.sessions = pg.sessions /\ pg'.rows = RowIn(pg)
        /\ pg'.log = pg.log /\ pg'.snaps = pg.snaps
    <3>1. pg' = Mem!CreateSimulation(pg, r, row)
      BY <1>1, <1>2, <1>3, <1>4, <1>9, RowCreated
    <3> QED BY <1>2, <1>3, <1>4, <3>1, RowCreated
  <2>2. /\ mem' \in StoreState /\ mem'.sessions = mem.sessions /\ mem'.rows = RowIn(mem)
        /\ mem'.log = mem.log /\ mem'.snaps = mem.snaps
    BY <1>2, <1>3, <1>4, <1>9, RowCreated
  <2>3. /\ DOMAIN pg'.rows = DOMAIN pg.rows \union {r}
        /\ \A x \in DOMAIN pg.rows : pg'.rows[x] = pg.rows[x]
        /\ pg'.rows[r] = row
    BY <1>1, <2>1
  <2>4. TypeOK'
    <3> HIDE DEF RowIn
    <3> QED BY <1>1, <1>2, <1>5, <2>1, <2>2 DEF TypeOK
  <2>5. Owned(pg)'
    BY <1>1, <1>3, <2>1, <2>3 DEF RetentionInv, Owned
  <2>6. Logged'
    BY <2>1, <2>3 DEF RetentionInv, Logged
  <2>7. (crashes = 0 => Alike)'
    <3> SUFFICES ASSUME crashes = 0 PROVE Alike'
      BY <1>1
    <3>1. Alike /\ Logged
      BY DEF RetentionInv
    <3>2. pg'.sessions = mem'.sessions /\ pg'.rows = mem'.rows
      BY <2>1, <2>2, <3>1 DEF Alike
    <3>3. pg.log[r] = {} /\ mem.log[r] = {} /\ pg.snaps[r] = {} /\ mem.snaps[r] = {}
      BY <1>1, <1>2, <3>1 DEF Logged, Alike
    <3>4. pg'.snaps = pg.snaps /\ mem'.snaps = mem.snaps /\ pg'.log = pg.log /\ mem'.log = mem.log
      BY <2>1, <2>2
    <3>5. \A x \in DOMAIN pg'.rows : pg'.log[x] = mem'.log[x] /\ pg'.snaps[x] = mem'.snaps[x]
      BY <2>3, <3>1, <3>3, <3>4 DEF Alike
    <3>6. \A x \in Run \ DOMAIN pg'.rows : live'[x] = NotLive => mem'.log[x] = {} /\ mem'.snaps[x] = {}
      BY <1>6, <2>3, <3>1, <3>4 DEF Alike
    <3> QED
      BY <3>2, <3>5, <3>6 DEF Alike
  <2>8. Booting'
    <3>1. Booting
      BY DEF RetentionInv
    <3> QED BY <1>1, <2>3, <3>1 DEF Booting
  <2>9. Provisioned'
    <3>1. pg'.log = pg.log /\ pg'.snaps = pg.snaps
      BY <2>1
    <3> QED
      BY <1>1, <1>2, <2>3, <3>1, CuratedFacts DEF RetentionInv, Provisioned, InProgress, Complete
  <2>10. SessionsKept'
    <3>1. pg'.sessions = pg.sessions
      BY <2>1
    <3> QED BY <1>1, <3>1 DEF RetentionInv, SessionsKept
  <2> QED
    BY <1>7, <2>4, <2>5, <2>6, <2>7, <2>8, <2>9, <2>10 DEF RetentionInv
<1> QED
  BY <1>1, <1>8, <1>9

\* A live run emits an event, which its recorder queues or drops.
LEMMA EmitInv ==
  ASSUME RetentionInv, NEW r \in GuestRun, Emit(r)
  PROVE  RetentionInv'
<1>0. PICK n : n = live[r].events + 1
  OBVIOUS
<1>1. /\ live[r] # NotLive
      /\ live' = [live EXCEPT ![r].events = n]
      /\ pending' = [pending EXCEPT ![r] = @ \union {n}] \/ pending' = pending
      /\ UNCHANGED <<now, pg, mem, boot, touched, marking, crashes, used, refused, cutOff>>
  BY <1>0 DEF Emit, history
<1>2. TypeOK /\ r \in Run /\ LiveRuns
  BY CuratedFacts DEF RetentionInv
<1>3. n \in Nat
  BY <1>0, <1>2 DEF TypeOK
<1>4. /\ live' \in [Run -> [owner : Token \union {Mem!NoOwner}, events : Nat]]
      /\ pending' \in [Run -> SUBSET Nat] /\ marking' \subseteq GuestRun
  <2>1. live' \in [Run -> [owner : Token \union {Mem!NoOwner}, events : Nat]]
    BY <1>1, <1>2, <1>3 DEF TypeOK
  <2>2. pending' \in [Run -> SUBSET Nat]
    <3>1. pending \in [Run -> SUBSET Nat] /\ r \in Run
      BY <1>2 DEF TypeOK
    <3>2. pending[r] \union {n} \in SUBSET Nat
      BY <1>3, <3>1
    <3> QED BY <1>1, <3>1, <3>2
  <2>3. marking' \subseteq GuestRun
    BY <1>1, <1>2 DEF TypeOK
  <2> QED BY <2>1, <2>2, <2>3
<1>5. /\ live'[r] = [owner |-> live[r].owner, events |-> n]
      /\ \A x \in Run \ {r} : live'[x] = live[x] /\ pending'[x] = pending[x]
  BY <1>1, <1>2 DEF TypeOK
<1>6. live[r].owner \in Token
  BY <1>1, <1>2 DEF LiveRuns
<1>7. LiveRuns'
  BY <1>2, <1>5, <1>6 DEF LiveRuns
<1>8. \A x \in Run : live'[x] = NotLive => live[x] = NotLive
  BY <1>5, <1>6, RetentionAssumption DEF NotLive
<1> QED
  BY <1>1, <1>4, <1>7, <1>8, UnstoredInv

\* The recorder of a live run writes a batch, or loses it.
LEMMA WriteBatchInv ==
  ASSUME RetentionInv, NEW r \in GuestRun, WriteBatch(r)
  PROVE  RetentionInv'
<1>2. TypeOK /\ r \in Run /\ r \notin CuratedRun /\ LiveRuns
  BY CuratedFacts DEF RetentionInv
<1>1. PICK batch \in SUBSET pending[r] :
      /\ pending[r] # {}
      /\ \/ pg' = Pg!AppendEvents(pg, r, batch) /\ mem' = Mem!AppendEvents(mem, r, batch)
         \/ UNCHANGED <<pg, mem>>
      /\ pending' = [pending EXCEPT ![r] = @ \ batch]
      /\ UNCHANGED <<now, boot, touched, live, marking, crashes, used, refused, cutOff>>
  BY DEF WriteBatch, TryStore, Store, history
<1>3. batch \in SUBSET Nat /\ live[r] # NotLive
  BY <1>1, <1>2, RetentionAssumption DEF TypeOK, LiveRuns, NotLive
<1>4. pg \in StoreState /\ mem \in StoreState
  BY <1>2 DEF TypeOK
<1>5. pending' \in [Run -> SUBSET Nat] /\ marking' \subseteq GuestRun
  BY <1>1, <1>2 DEF TypeOK
<1>6. \A x \in Run : pending'[x] \subseteq pending[x]
  BY <1>1, <1>2 DEF TypeOK
<1>7. LiveRuns'
  BY <1>1, <1>2, <1>6 DEF LiveRuns
<1>8. CASE UNCHANGED <<pg, mem>>
  BY <1>1, <1>2, <1>5, <1>7, <1>8, UnstoredInv DEF TypeOK
<1>9. CASE pg' = Pg!AppendEvents(pg, r, batch) /\ mem' = Mem!AppendEvents(mem, r, batch)
  <2>1. /\ pg' \in StoreState
        /\ pg'.sessions = pg.sessions /\ pg'.rows = pg.rows /\ pg'.snaps = pg.snaps
        /\ pg'.log = IF r \in DOMAIN pg.rows THEN [pg.log EXCEPT ![r] = @ \union batch] ELSE pg.log
    <3>1. CASE r \in DOMAIN pg.rows
      <4>1. pg' = Mem!AppendEvents(pg, r, batch)
        BY <1>2, <1>3, <1>4, <1>9, <3>1, EventsAppended
      <4> QED BY <1>2, <1>3, <1>4, <3>1, <4>1, EventsAppended
    <3>2. CASE r \notin DOMAIN pg.rows
      <4>1. pg' = pg
        BY <1>2, <1>3, <1>4, <1>9, <3>2, EventsAppended
      <4> QED BY <1>4, <3>2, <4>1
    <3> QED BY <3>1, <3>2
  <2>2. /\ mem' \in StoreState
        /\ mem'.sessions = mem.sessions /\ mem'.rows = mem.rows /\ mem'.snaps = mem.snaps
        /\ mem'.log = [mem.log EXCEPT ![r] = @ \union batch]
    BY <1>2, <1>3, <1>4, <1>9, EventsAppended
  <2>3. /\ \A x \in Run \ {r} : pg'.log[x] = pg.log[x] /\ mem'.log[x] = mem.log[x]
        /\ mem'.log[r] = mem.log[r] \union batch
        /\ pg'.log[r] = IF r \in DOMAIN pg.rows THEN pg.log[r] \union batch ELSE pg.log[r]
    <3>1. DOMAIN pg.log = Run /\ DOMAIN mem.log = Run
      BY <1>4, Tables
    <3> QED BY <1>2, <2>1, <2>2, <3>1
  <2>4. TypeOK'
    BY <1>1, <1>2, <1>5, <2>1, <2>2 DEF TypeOK
  <2>5. Owned(pg)' /\ SessionsKept'
    BY <1>1, <2>1 DEF RetentionInv, Owned, SessionsKept
  <2>6. Logged'
    BY <2>1, <2>3 DEF RetentionInv, Logged
  <2>7. (crashes = 0 => Alike)'
    <3> SUFFICES ASSUME crashes = 0 PROVE Alike'
      BY <1>1
    <3>1. Alike /\ DOMAIN pg.rows \subseteq Run
      BY <1>4, Tables DEF RetentionInv
    <3>2. \A x \in DOMAIN pg.rows : pg'.log[x] = mem'.log[x]
      BY <2>3, <3>1 DEF Alike
    <3>3. \A x \in Run \ DOMAIN pg.rows : live[x] = NotLive => mem'.log[x] = {} /\ mem.snaps[x] = {}
      BY <1>3, <2>3, <3>1 DEF Alike
    <3> QED
      BY <1>1, <2>1, <2>2, <3>1, <3>2, <3>3 DEF Alike
  <2>8. Booting'
    <3>1. Curated[boot.next] \in DOMAIN pg.rows /\ MaxEvents \in pg.log[Curated[boot.next]] =>
             MaxEvents \in pg'.log[Curated[boot.next]]
      BY <1>4, <2>3, Tables
    <3> QED BY <1>1, <2>1, <3>1 DEF RetentionInv, Booting
  <2>9. Provisioned'
    <3>1. \A d \in CuratedRun : pg'.log[d] = pg.log[d]
      BY <1>2, <2>3, CuratedFacts
    <3> QED BY <1>1, <2>1, <3>1 DEF RetentionInv, Provisioned, InProgress, Complete
  <2> QED
    BY <1>7, <2>4, <2>5, <2>6, <2>7, <2>8, <2>9 DEF RetentionInv
<1> QED
  BY <1>1, <1>8, <1>9

\* A snapshot of a live run is saved, in both stores.
LEMMA SnapshotSavedInv ==
  ASSUME RetentionInv, NEW r \in GuestRun, live[r] # NotLive,
         pg' = Pg!SaveSnapshot(pg, r, live[r].events),
         mem' = Mem!SaveSnapshot(mem, r, live[r].events),
         marking' \subseteq GuestRun,
         UNCHANGED <<now, boot, touched, live, pending, crashes, used, refused, cutOff>>
  PROVE  RetentionInv'
<1>0. PICK n : n = live[r].events
  OBVIOUS
<1>2. TypeOK /\ r \in Run /\ r \notin CuratedRun
  BY CuratedFacts DEF RetentionInv
<1>1. pg' = Pg!SaveSnapshot(pg, r, n) /\ mem' = Mem!SaveSnapshot(mem, r, n)
  BY <1>0
<1>3. n \in Nat
  BY <1>0, <1>2 DEF TypeOK
<1>4. pg \in StoreState /\ mem \in StoreState
  BY <1>2 DEF TypeOK
<1>5. /\ pg' \in StoreState
      /\ pg'.sessions = pg.sessions /\ pg'.rows = pg.rows /\ pg'.log = pg.log
      /\ pg'.snaps = IF r \in DOMAIN pg.rows THEN [pg.snaps EXCEPT ![r] = @ \union {n}] ELSE pg.snaps
  <2>1. CASE r \in DOMAIN pg.rows
    <3>1. pg' = Mem!SaveSnapshot(pg, r, n)
      BY <1>1, <1>2, <1>3, <1>4, <2>1, SnapshotSaved
    <3> QED BY <1>2, <1>3, <1>4, <2>1, <3>1, SnapshotSaved
  <2>2. CASE r \notin DOMAIN pg.rows
    <3>1. pg' = pg
      BY <1>1, <1>2, <1>3, <1>4, <2>2, SnapshotSaved
    <3> QED BY <1>4, <2>2, <3>1
  <2> QED BY <2>1, <2>2
<1>6. /\ mem' \in StoreState
      /\ mem'.sessions = mem.sessions /\ mem'.rows = mem.rows /\ mem'.log = mem.log
      /\ mem'.snaps = [mem.snaps EXCEPT ![r] = @ \union {n}]
  BY <1>1, <1>2, <1>3, <1>4, SnapshotSaved
<1>7. /\ \A x \in Run \ {r} : pg'.snaps[x] = pg.snaps[x] /\ mem'.snaps[x] = mem.snaps[x]
      /\ mem'.snaps[r] = mem.snaps[r] \union {n}
      /\ pg'.snaps[r] = IF r \in DOMAIN pg.rows THEN pg.snaps[r] \union {n} ELSE pg.snaps[r]
  <2>1. DOMAIN pg.snaps = Run /\ DOMAIN mem.snaps = Run
    BY <1>4, Tables
  <2> QED BY <1>2, <1>5, <1>6, <2>1
<1>9. TypeOK'
  BY <1>2, <1>5, <1>6 DEF TypeOK
<1>10. LiveRuns' /\ Owned(pg)' /\ SessionsKept'
  BY <1>5 DEF RetentionInv, LiveRuns, Owned, SessionsKept
<1>12. Logged'
  BY <1>5, <1>7 DEF RetentionInv, Logged
<1>13. (crashes = 0 => Alike)'
  <2> SUFFICES ASSUME crashes = 0 PROVE Alike'
    OBVIOUS
  <2>1. Alike /\ DOMAIN pg.rows \subseteq Run
    BY <1>4, Tables DEF RetentionInv
  <2>2. \A x \in DOMAIN pg.rows : pg'.snaps[x] = mem'.snaps[x]
    BY <1>7, <2>1 DEF Alike
  <2>3. \A x \in Run \ DOMAIN pg.rows : live[x] = NotLive => mem.log[x] = {} /\ mem'.snaps[x] = {}
    BY <1>7, <2>1 DEF Alike
  <2> QED
    BY <1>5, <1>6, <2>1, <2>2, <2>3 DEF Alike
<1>14. Booting'
  BY <1>5 DEF RetentionInv, Booting
<1>15. Provisioned'
  <2>1. \A d \in CuratedRun : pg'.snaps[d] = pg.snaps[d]
    BY <1>2, <1>7, CuratedFacts
  <2> QED BY <1>5, <2>1 DEF RetentionInv, Provisioned, InProgress, Complete
<1> QED
  BY <1>9, <1>10, <1>12, <1>13, <1>14, <1>15 DEF RetentionInv

\* Whether a snapshot is saved or not.
LEMMA SnapshotTakenInv ==
  ASSUME RetentionInv, NEW r \in GuestRun, Snapshotted(r), marking' \subseteq GuestRun,
         UNCHANGED <<now, boot, touched, live, pending, crashes, used, refused, cutOff>>
  PROVE  RetentionInv'
<1>1. live[r] # NotLive
  BY DEF Snapshotted, NotLive
<1>2. TypeOK /\ LiveRuns /\ LiveRuns'
  BY DEF RetentionInv, LiveRuns
<1>3. CASE UNCHANGED <<pg, mem>>
  BY <1>2, <1>3, UnstoredInv DEF TypeOK
<1>4. CASE Store(Pg!SaveSnapshot(pg, r, live[r].events), Mem!SaveSnapshot(mem, r, live[r].events))
  BY <1>1, <1>4, SnapshotSavedInv DEF Store
<1> QED
  BY <1>3, <1>4 DEF Snapshotted, TryStore

\* The recorder's periodic snapshot.
LEMMA SnapshotRunInv ==
  ASSUME RetentionInv, NEW r \in GuestRun, SnapshotRun(r)
  PROVE  RetentionInv'
<1>1. marking \subseteq GuestRun
  BY DEF RetentionInv, TypeOK
<1> QED
  BY <1>1, SnapshotTakenInv DEF SnapshotRun, process, history

\* The final snapshot before a run is marked.
LEMMA SaveFinalInv ==
  ASSUME RetentionInv, NEW t \in Token, NEW r \in GuestRun, SaveFinal(t, r)
  PROVE  RetentionInv'
<1>1. marking' \subseteq GuestRun
  BY DEF RetentionInv, TypeOK, SaveFinal
<1> QED
  BY <1>1, SnapshotTakenInv DEF SaveFinal, history

\* A run is marked a showcase, in both stores.
LEMMA MarkedInv ==
  ASSUME RetentionInv, NEW r \in GuestRun,
         Store(Pg!MarkShowcase(pg, r), Mem!MarkShowcase(mem, r)),
         marking' = marking \ {r},
         UNCHANGED <<now, boot, touched, live, pending, crashes, used, refused, cutOff>>
  PROVE  RetentionInv'
<1> DEFINE RowsIn(st) == [x \in DOMAIN st.rows |->
                            IF x = r THEN [st.rows[x] EXCEPT !.showcase = TRUE] ELSE st.rows[x]]
<1>1. /\ pg' = Pg!MarkShowcase(pg, r) /\ mem' = Mem!MarkShowcase(mem, r)
      /\ marking' = marking \ {r}
      /\ UNCHANGED <<now, boot, touched, live, pending, crashes, used, refused, cutOff>>
  BY DEF Store
<1>2. TypeOK /\ r \in Run /\ r \notin CuratedRun
  BY CuratedFacts DEF RetentionInv
<1>3. pg \in StoreState /\ mem \in StoreState
  BY <1>2 DEF TypeOK
<1>4. /\ pg' \in StoreState /\ pg'.rows = RowsIn(pg)
      /\ pg'.sessions = pg.sessions /\ pg'.log = pg.log /\ pg'.snaps = pg.snaps
  BY <1>1, <1>2, <1>3, ShowcaseMarked
<1>5. /\ mem' \in StoreState /\ mem'.rows = RowsIn(mem)
      /\ mem'.sessions = mem.sessions /\ mem'.log = mem.log /\ mem'.snaps = mem.snaps
  <2>1. mem' = Pg!MarkShowcase(mem, r)
    BY <1>1, <1>2, <1>3, ShowcaseMarked
  <2> QED BY <1>2, <1>3, <2>1, ShowcaseMarked
<1>6. /\ DOMAIN pg'.rows = DOMAIN pg.rows
      /\ \A x \in DOMAIN pg.rows : pg'.rows[x].owner = pg.rows[x].owner
      /\ \A x \in DOMAIN pg.rows \ {r} : pg'.rows[x] = pg.rows[x]
  <2>1. \A x \in DOMAIN pg.rows : pg.rows[x] \in Row
    BY <1>3, Tables
  <2> QED BY <1>4, <2>1 DEF Row
<1>7. TypeOK'
  <2>1. marking' \subseteq GuestRun
    BY <1>1, <1>2 DEF TypeOK
  <2> HIDE DEF RowsIn
  <2> QED BY <1>1, <1>2, <1>4, <1>5, <2>1 DEF TypeOK
<1>8. LiveRuns' /\ Owned(pg)' /\ Logged' /\ SessionsKept'
  <2> HIDE DEF RowsIn
  <2>1. Owned(pg)'
    BY <1>4, <1>6 DEF RetentionInv, Owned
  <2>2. Logged'
    BY <1>1, <1>4, <1>6 DEF RetentionInv, Logged
  <2> QED
    BY <1>1, <1>4, <2>1, <2>2 DEF RetentionInv, LiveRuns, SessionsKept
<1>9. (crashes = 0 => Alike)'
  <2> SUFFICES ASSUME crashes = 0 PROVE Alike'
    BY <1>1
  <2>1. Alike
    BY DEF RetentionInv
  <2>2. pg'.rows = mem'.rows
    BY <1>4, <1>5, <2>1 DEF Alike
  <2> HIDE DEF RowsIn
  <2> QED BY <1>1, <1>4, <1>5, <1>6, <2>1, <2>2 DEF Alike
<1>10. Booting'
  <2> HIDE DEF RowsIn
  <2> QED BY <1>1, <1>4, <1>6 DEF RetentionInv, Booting
<1>11. Provisioned'
  <2> HIDE DEF RowsIn
  <2> QED BY <1>1, <1>2, <1>4, <1>6 DEF RetentionInv, Provisioned, InProgress, Complete
<1> QED
  BY <1>7, <1>8, <1>9, <1>10, <1>11 DEF RetentionInv

\* Whether the mark is written or not.
LEMMA MarkInv ==
  ASSUME RetentionInv, NEW t \in Token, NEW r \in GuestRun, Mark(t, r)
  PROVE  RetentionInv'
<1>1. /\ marking' = marking \ {r}
      /\ UNCHANGED <<now, boot, touched, live, pending, crashes, used, refused, cutOff>>
  BY DEF Mark, history
<1>2. CASE Store(Pg!MarkShowcase(pg, r), Mem!MarkShowcase(mem, r))
  BY <1>1, <1>2, MarkedInv
<1>3. CASE UNCHANGED <<pg, mem>>
  <2>1. TypeOK /\ LiveRuns'
    BY <1>1 DEF RetentionInv, LiveRuns
  <2>2. marking' \subseteq GuestRun
    BY <1>1, <2>1 DEF TypeOK
  <2> QED BY <1>1, <1>3, <2>1, <2>2, UnstoredInv DEF TypeOK
<1> QED
  BY <1>2, <1>3 DEF Mark, TryStore

\* What the sweep leaves in Postgres, by its parts.
LEMMA SweptPg ==
  ASSUME NEW st \in StoreState, NEW n \in Nat,
         NEW new, new = Pg!PurgeExpired(st, n)
  PROVE  /\ new \in StoreState
         /\ new.sessions = SweptSessions(st, n) /\ new.rows = SweptRows(st, n)
         /\ new.log = [r \in Run |-> IF r \in Kept(st, n) THEN st.log[r] ELSE {}]
         /\ new.snaps = [r \in Run |-> IF r \in Kept(st, n) THEN st.snaps[r] ELSE {}]
<1> DEFINE log == [r \in Run |-> IF r \in Kept(st, n) THEN st.log[r] ELSE {}]
           snaps == [r \in Run |-> IF r \in Kept(st, n) THEN st.snaps[r] ELSE {}]
<1>1. log \in [Run -> SUBSET Nat] /\ snaps \in [Run -> SUBSET Nat]
  BY Tables
<1>2. new = [sessions |-> SweptSessions(st, n), rows |-> SweptRows(st, n), log |-> log, snaps |-> snaps]
  BY PgPurged
<1> HIDE DEF log, snaps
<1>3. new \in StoreState
  BY <1>1, <1>2, SweptTables DEF StoreState
<1>4. new.sessions = SweptSessions(st, n) /\ new.rows = SweptRows(st, n) /\ new.log = log /\ new.snaps = snaps
  BY <1>2
<1> QED
  BY <1>3, <1>4 DEF log, snaps

\* What the sweep leaves in memory, by its parts.
LEMMA SweptMem ==
  ASSUME NEW st \in StoreState, NEW n \in Nat, Owned(st),
         NEW new, new = Mem!PurgeExpired(st, n)
  PROVE  /\ new.sessions = SweptSessions(st, n) /\ new.rows = SweptRows(st, n)
         /\ new.log = [r \in Run |-> IF r \in Mem!Collected(st, n) THEN {} ELSE st.log[r]]
         /\ new.snaps = [r \in Run |-> IF r \in Mem!Collected(st, n) THEN {} ELSE st.snaps[r]]
<1> DEFINE log == [r \in Run |-> IF r \in Mem!Collected(st, n) THEN {} ELSE st.log[r]]
           snaps == [r \in Run |-> IF r \in Mem!Collected(st, n) THEN {} ELSE st.snaps[r]]
<1>1. new = [sessions |-> SweptSessions(st, n), rows |-> SweptRows(st, n), log |-> log, snaps |-> snaps]
  BY MemPurged
<1> HIDE DEF log, snaps
<1>2. new.sessions = SweptSessions(st, n) /\ new.rows = SweptRows(st, n) /\ new.log = log /\ new.snaps = snaps
  BY <1>1
<1> QED
  BY <1>2 DEF log, snaps

\* A showcase is kept.
LEMMA ShowcasesKept ==
  ASSUME NEW st \in StoreState, NEW n \in Nat, NEW r \in DOMAIN st.rows, st.rows[r].showcase
  PROVE  /\ r \in Kept(st, n)
         /\ SweptRows(st, n)[r].showcase
<1>1. r \in Kept(st, n)
  BY DEF Kept, Mem!Collected
<1>2. st.rows[r] \in Row
  BY Tables
<1> QED
  BY <1>1, <1>2 DEF SweptRows, Row

\* The sweep: it takes no curated run and no session that was used lately.
LEMMA SweepInv ==
  ASSUME RetentionInv, Sweep
  PROVE  RetentionInv'
<1>1. /\ boot.step = "serving"
      /\ pg' = Pg!PurgeExpired(pg, now) /\ mem' = Mem!PurgeExpired(mem, now)
      /\ UNCHANGED <<now, boot, touched, live, pending, marking, crashes, used, refused, cutOff>>
  BY DEF Sweep, Serving, Store, process, history
<1>2. TypeOK
  BY DEF RetentionInv
<1>3. pg \in StoreState /\ mem \in StoreState /\ now \in Nat
  BY <1>2 DEF TypeOK
<1>4. /\ pg' \in StoreState
      /\ pg'.sessions = SweptSessions(pg, now) /\ pg'.rows = SweptRows(pg, now)
      /\ pg'.log = [r \in Run |-> IF r \in Kept(pg, now) THEN pg.log[r] ELSE {}]
      /\ pg'.snaps = [r \in Run |-> IF r \in Kept(pg, now) THEN pg.snaps[r] ELSE {}]
  BY <1>1, <1>3, SweptPg
<1>5. mem' \in StoreState
  BY <1>1, <1>3, MemPurgedType
<1>6. DOMAIN pg'.rows = Kept(pg, now) /\ Kept(pg, now) \subseteq DOMAIN pg.rows /\ DOMAIN pg.rows \subseteq Run
  BY <1>3, <1>4, Tables DEF SweptRows, Kept
<1>7. TypeOK'
  BY <1>1, <1>2, <1>4, <1>5 DEF TypeOK
<1>8. LiveRuns'
  BY <1>1 DEF RetentionInv, LiveRuns
<1>9. Owned(pg)'
  <2>1. DOMAIN pg'.sessions = Lasting(pg, now)
    BY <1>4 DEF SweptSessions
  <2>2. ASSUME NEW r \in Kept(pg, now)
        PROVE  SweptRows(pg, now)[r].owner \in Lasting(pg, now) \union {Mem!NoOwner}
    <3>1. pg.rows[r] \in Row
      BY <1>3, <1>6, Tables
    <3> QED BY <3>1 DEF SweptRows, Row
  <2> QED BY <1>4, <1>6, <2>1, <2>2 DEF Owned
<1>10. Logged'
  <2>1. Logged
    BY DEF RetentionInv
  <2>2. ASSUME NEW r \in Run
        PROVE  pg'.log[r] # {} \/ pg'.snaps[r] # {} => r \in Kept(pg, now)
    BY <1>4, <1>6, <2>1 DEF Logged
  <2> QED BY <1>6, <2>2 DEF Logged
<1>11. (crashes = 0 => Alike)'
  <2> SUFFICES ASSUME crashes = 0 PROVE Alike'
    BY <1>1
  <2>1. Alike /\ Owned(pg)
    BY DEF RetentionInv
  <2>2. pg.sessions = mem.sessions /\ pg.rows = mem.rows
    BY <2>1 DEF Alike
  <2>3. Owned(mem) /\ SweptSessions(mem, now) = SweptSessions(pg, now)
        /\ SweptRows(mem, now) = SweptRows(pg, now) /\ Mem!Collected(mem, now) = Mem!Collected(pg, now)
    BY <2>1, <2>2 DEF Owned, SweptSessions, SweptRows, Lasting, Kept, Mem!Collected
  <2>4. /\ mem'.sessions = SweptSessions(pg, now) /\ mem'.rows = SweptRows(pg, now)
        /\ mem'.log = [r \in Run |-> IF r \in Mem!Collected(pg, now) THEN {} ELSE mem.log[r]]
        /\ mem'.snaps = [r \in Run |-> IF r \in Mem!Collected(pg, now) THEN {} ELSE mem.snaps[r]]
    <3>1. /\ mem'.sessions = SweptSessions(mem, now) /\ mem'.rows = SweptRows(mem, now)
          /\ mem'.log = [r \in Run |-> IF r \in Mem!Collected(mem, now) THEN {} ELSE mem.log[r]]
          /\ mem'.snaps = [r \in Run |-> IF r \in Mem!Collected(mem, now) THEN {} ELSE mem.snaps[r]]
      BY <1>1, <1>3, <2>3, SweptMem
    <3>2. PICK gone : gone = Mem!Collected(pg, now)
      OBVIOUS
    <3> QED BY <2>3, <3>1, <3>2
  <2>5. \A r \in Kept(pg, now) : pg'.log[r] = mem'.log[r] /\ pg'.snaps[r] = mem'.snaps[r]
    BY <1>4, <1>6, <2>1, <2>4 DEF Alike, Kept
  <2>6. \A r \in Run \ Kept(pg, now) : live[r] = NotLive => mem'.log[r] = {} /\ mem'.snaps[r] = {}
    BY <2>1, <2>4 DEF Alike, Kept
  <2> QED
    BY <1>1, <1>4, <1>6, <2>4, <2>5, <2>6 DEF Alike
<1>12. \A c \in CuratedRun \intersect DOMAIN pg.rows :
         c \in Kept(pg, now) /\ pg'.rows[c].showcase /\ pg'.log[c] = pg.log[c] /\ pg'.snaps[c] = pg.snaps[c]
  <2> SUFFICES ASSUME NEW c \in CuratedRun \intersect DOMAIN pg.rows
               PROVE  /\ c \in Kept(pg, now) /\ pg'.rows[c].showcase
                      /\ pg'.log[c] = pg.log[c] /\ pg'.snaps[c] = pg.snaps[c]
    OBVIOUS
  <2>1. pg.rows[c].showcase
    BY DEF RetentionInv, Provisioned
  <2>2. c \in Kept(pg, now) /\ pg'.rows[c].showcase
    BY <1>3, <1>4, <2>1, ShowcasesKept
  <2> QED BY <1>4, <1>6, <2>2
<1>13. Booting'
  <2>1. Booting
    BY DEF RetentionInv
  <2>2. \A i \in 1..boot.next-1 : Curated[i] \in CuratedRun
    <3>1. boot.next = Len(Curated) + 1
      BY <1>1, <2>1 DEF Booting
    <3> QED BY <3>1, CuratedFacts
  <2> QED BY <1>1, <1>6, <1>12, <2>1, <2>2 DEF Booting
<1>14. Provisioned'
  BY <1>1, <1>6, <1>12 DEF RetentionInv, Provisioned, InProgress, Complete
<1>15. SessionsKept'
  <2>1. DOMAIN pg'.sessions = Lasting(pg, now) /\ \A t \in Lasting(pg, now) : pg'.sessions[t] = pg.sessions[t]
    BY <1>4 DEF SweptSessions
  <2>2. Lasting(pg, now) \subseteq DOMAIN pg.sessions
    BY DEF Lasting
  <2>3. ASSUME NEW t \in Token, used[t] # 0, refused[t] = 0, now - used[t] <= SessionTTL - TouchInterval
        PROVE  t \in Lasting(pg, now)
    <3>1. t \in DOMAIN pg.sessions /\ pg.sessions[t] > used[t] + SessionTTL - TouchInterval
      BY <2>3 DEF RetentionInv, SessionsKept
    <3>2. now < pg.sessions[t]
      BY <1>2, <2>3, <3>1, TimesType
    <3> QED BY <3>1, <3>2 DEF Lasting
  <2> QED BY <1>1, <2>1, <2>2, <2>3 DEF RetentionInv, SessionsKept
<1> QED
  BY <1>7, <1>8, <1>9, <1>10, <1>11, <1>13, <1>14, <1>15 DEF RetentionInv

\* Every step of the two servers preserves the invariant.
LEMMA InvNext ==
  ASSUME RetentionInv, [Next]_retentionVars
  PROVE  RetentionInv'
<1>1. CASE Provision
  BY <1>1, CheckInv, GenerateCreateInv, GenerateAppendInv, GenerateSnapshotInv, ListenInv
     DEF Provision
<1>2. CASE Crash
  BY <1>2, CrashInv
<1>3. CASE Sweep
  BY <1>3, SweepInv
<1>4. CASE Pass
  BY <1>4, PassInv
<1>5. ASSUME NEW t \in Token, Issue(t) \/ Use(t) PROVE RetentionInv'
  BY <1>5, IssueInv, UseInv
<1>6. ASSUME NEW t \in Token, NEW r \in GuestRun, Create(t, r) \/ SaveFinal(t, r) \/ Mark(t, r)
      PROVE  RetentionInv'
  BY <1>6, CreateInv, SaveFinalInv, MarkInv
<1>7. ASSUME NEW r \in GuestRun, Emit(r) \/ WriteBatch(r) \/ SnapshotRun(r) PROVE RetentionInv'
  BY <1>7, EmitInv, WriteBatchInv, SnapshotRunInv
<1>8. CASE UNCHANGED retentionVars
  <2>1. UNCHANGED <<now, pg, mem, boot, touched, live, pending, marking, crashes, used, refused, cutOff>>
    BY <1>8 DEF retentionVars, process, history
  <2>2. TypeOK' /\ LiveRuns' /\ Owned(pg)' /\ Logged' /\ SessionsKept'
    BY <2>1 DEF RetentionInv, TypeOK, LiveRuns, Owned, Logged, SessionsKept
  <2>3. (crashes = 0 => Alike)'
    BY <2>1 DEF RetentionInv, Alike
  <2>4. Booting' /\ Provisioned'
    BY <2>1 DEF RetentionInv, Booting, Provisioned, InProgress, Complete
  <2> QED BY <2>2, <2>3, <2>4 DEF RetentionInv
<1> QED
  BY <1>1, <1>2, <1>3, <1>4, <1>5, <1>6, <1>7, <1>8 DEF Next

\* The inductive invariant of the retention model.
THEOREM RetentionInvariant == Spec => []RetentionInv
<1>1. Init => RetentionInv
  BY InvInit
<1>2. RetentionInv /\ [Next]_retentionVars => RetentionInv'
  BY InvNext
<1> QED
  BY <1>1, <1>2, PTL DEF Spec

\* The in-memory store answers as Postgres does until a restart.
THEOREM StoresAlike == Spec => []StoresAgree
<1>1. RetentionInv => StoresAgree
  BY DEF RetentionInv, Logged, Alike, StoresAgree
<1> QED
  BY <1>1, RetentionInvariant, PTL

\* A session that is used stays good in Postgres, unless extending it failed, and
\* then it is tried again.
THEOREM SessionsLast == Spec => []SessionsOutliveUse
<1>1. RetentionInv => SessionsOutliveUse
  <2> SUFFICES ASSUME RetentionInv, NEW t \in Token, used[t] # 0
               PROVE  /\ refused[t] = 0 /\ now - used[t] <= SessionTTL - TouchInterval => Valid(t)
                      /\ refused[t] # 0 => used[t] - refused[t] < TouchInterval
    BY DEF SessionsOutliveUse
  <2>1. ASSUME refused[t] = 0, now - used[t] <= SessionTTL - TouchInterval
        PROVE  Valid(t)
    <3>1. t \in DOMAIN pg.sessions /\ pg.sessions[t] > used[t] + SessionTTL - TouchInterval
      BY <2>1 DEF RetentionInv, SessionsKept
    <3> QED
      BY <2>1, <3>1, TimesType DEF RetentionInv, Valid, Mem!Past
  <2> QED
    BY <2>1 DEF RetentionInv, SessionsKept
<1> QED
  BY <1>1, RetentionInvariant, PTL

\* When the listener opens, the curated runs are there, but for those whose
\* provisioning was cut off.
THEOREM CuratedRunsReady == Spec => []CuratedReady
<1>1. RetentionInv => CuratedReady
  <2> SUFFICES ASSUME RetentionInv, Serving, NEW c \in CuratedRun \ cutOff
               PROVE  Complete(c)
    BY DEF CuratedReady
  <2>1. Booting /\ Provisioned /\ boot.step = "serving"
    BY DEF RetentionInv, Serving
  <2>2. PICK i \in 1..Len(Curated) : c = Curated[i]
    BY CuratedFacts
  <2>3. c \in DOMAIN pg.rows
    BY <2>1, <2>2, CuratedFacts DEF Booting
  <2> QED
    BY <2>1, <2>3 DEF Provisioned, InProgress
<1> QED
  BY <1>1, RetentionInvariant, PTL

\* What ShowcasesStay asks of a change of the store.
KeepsShowcases(st, new) ==
  \A r \in DOMAIN st.rows : st.rows[r].showcase =>
    /\ r \in DOMAIN new.rows /\ new.rows[r].showcase
    /\ st.log[r] \subseteq new.log[r] /\ st.snaps[r] \subseteq new.snaps[r]

\* No call of the Postgres store takes anything from a showcase.
LEMMA CallsKeepShowcases ==
  ASSUME NEW st \in StoreState
  PROVE  /\ \A t \in Token, e \in Nat :
              /\ KeepsShowcases(st, Pg!CreateGuestSession(st, t, e))
              /\ KeepsShowcases(st, Pg!TouchGuestSession(st, t, e))
         /\ \A r \in Run : \A row \in Row : row.owner \in DOMAIN st.sessions \union {Mem!NoOwner} =>
              KeepsShowcases(st, Pg!CreateSimulation(st, r, row))
         /\ \A r \in Run : KeepsShowcases(st, Pg!MarkShowcase(st, r))
         /\ \A r \in Run, events \in SUBSET Nat : KeepsShowcases(st, Pg!AppendEvents(st, r, events))
         /\ \A r \in Run, n \in Nat : KeepsShowcases(st, Pg!SaveSnapshot(st, r, n))
         /\ \A n \in Nat : KeepsShowcases(st, Pg!PurgeExpired(st, n))
<1>0. /\ \A x \in DOMAIN st.rows : st.rows[x] \in Row /\ x \in Run
      /\ DOMAIN st.log = Run /\ DOMAIN st.snaps = Run
  BY Tables
<1>1. ASSUME NEW t \in Token, NEW e \in Nat
      PROVE  KeepsShowcases(st, Pg!CreateGuestSession(st, t, e))
  <2>1. PICK new : new = Pg!CreateGuestSession(st, t, e)
    OBVIOUS
  <2>2. new.rows = st.rows /\ new.log = st.log /\ new.snaps = st.snaps
    <3>1. new = Mem!CreateGuestSession(st, t, e)
      BY <2>1, SessionCreated
    <3> QED BY <3>1, SessionCreated
  <2> QED BY <2>1, <2>2 DEF KeepsShowcases
<1>2. ASSUME NEW t \in Token, NEW e \in Nat
      PROVE  KeepsShowcases(st, Pg!TouchGuestSession(st, t, e))
  <2>1. PICK new : new = Pg!TouchGuestSession(st, t, e)
    OBVIOUS
  <2>2. new.rows = st.rows /\ new.log = st.log /\ new.snaps = st.snaps
    <3>1. new = Mem!TouchGuestSession(st, t, e)
      BY <2>1, SessionTouched
    <3> QED BY <3>1, SessionTouched
  <2> QED BY <2>1, <2>2 DEF KeepsShowcases
<1>3. ASSUME NEW r \in Run, NEW row \in Row, row.owner \in DOMAIN st.sessions \union {Mem!NoOwner}
      PROVE  KeepsShowcases(st, Pg!CreateSimulation(st, r, row))
  <2>1. PICK new : new = Pg!CreateSimulation(st, r, row)
    OBVIOUS
  <2>2. /\ new.log = st.log /\ new.snaps = st.snaps
        /\ new.rows = [x \in DOMAIN st.rows \union {r} |->
                         IF x \in DOMAIN st.rows THEN st.rows[x] ELSE row]
    BY <1>3, <2>1, RowCreated
  <2> QED BY <2>1, <2>2 DEF KeepsShowcases
<1>4. ASSUME NEW r \in Run PROVE KeepsShowcases(st, Pg!MarkShowcase(st, r))
  <2>1. PICK new : new = Pg!MarkShowcase(st, r)
    OBVIOUS
  <2>2. /\ new.log = st.log /\ new.snaps = st.snaps
        /\ new.rows = [x \in DOMAIN st.rows |->
                         IF x = r THEN [st.rows[x] EXCEPT !.showcase = TRUE] ELSE st.rows[x]]
    BY <2>1, ShowcaseMarked
  <2> QED BY <1>0, <2>1, <2>2 DEF KeepsShowcases, Row
<1>5. ASSUME NEW r \in Run, NEW events \in SUBSET Nat
      PROVE  KeepsShowcases(st, Pg!AppendEvents(st, r, events))
  <2>1. PICK new : new = Pg!AppendEvents(st, r, events)
    OBVIOUS
  <2>2. \/ new = st
        \/ /\ new.rows = st.rows /\ new.snaps = st.snaps
           /\ new.log = [st.log EXCEPT ![r] = @ \union events]
    BY <2>1, EventsAppended
  <2> QED BY <1>0, <2>1, <2>2 DEF KeepsShowcases
<1>6. ASSUME NEW r \in Run, NEW n \in Nat
      PROVE  KeepsShowcases(st, Pg!SaveSnapshot(st, r, n))
  <2>1. PICK new : new = Pg!SaveSnapshot(st, r, n)
    OBVIOUS
  <2>2. \/ new = st
        \/ /\ new.rows = st.rows /\ new.log = st.log
           /\ new.snaps = [st.snaps EXCEPT ![r] = @ \union {n}]
    BY <2>1, SnapshotSaved
  <2> QED BY <1>0, <2>1, <2>2 DEF KeepsShowcases
<1>7. ASSUME NEW n \in Nat
      PROVE  KeepsShowcases(st, Pg!PurgeExpired(st, n))
  <2>1. PICK new : new = Pg!PurgeExpired(st, n)
    OBVIOUS
  <2>2. /\ new.rows = SweptRows(st, n)
        /\ new.log = [x \in Run |-> IF x \in Kept(st, n) THEN st.log[x] ELSE {}]
        /\ new.snaps = [x \in Run |-> IF x \in Kept(st, n) THEN st.snaps[x] ELSE {}]
    BY <2>1, SweptPg
  <2>3. DOMAIN SweptRows(st, n) = Kept(st, n)
    BY DEF SweptRows
  <2>4. \A x \in DOMAIN st.rows : st.rows[x].showcase => x \in Kept(st, n) /\ SweptRows(st, n)[x].showcase
    BY ShowcasesKept
  <2> QED BY <1>0, <2>1, <2>2, <2>3, <2>4 DEF KeepsShowcases
<1> QED
  BY <1>1, <1>2, <1>3, <1>4, <1>5, <1>6, <1>7

\* Whatever is swept, a showcase stays.
THEOREM ShowcasesAreKept == Spec => ShowcasesStay
<1>1. ASSUME RetentionInv, [Next]_retentionVars
      PROVE  pg' = pg \/ KeepsShowcases(pg, pg')
  <2>0. TypeOK /\ pg \in StoreState /\ now \in Nat /\ Booting
    BY <1>1 DEF RetentionInv, TypeOK
  <2>1. CASE Provision
    <3> SUFFICES ASSUME pg' # pg PROVE KeepsShowcases(pg, pg')
      OBVIOUS
    <3>1. Curated[boot.next] \in Run
      BY <2>0, <2>1, CuratedFacts DEF Provision, CheckShowcase, GenerateCreate, GenerateAppend, GenerateSnapshot, Listen,
         Provisioning, TypeOK
    <3>2. ShowcaseRow \in Row /\ ShowcaseRow.owner = Mem!NoOwner /\ MaxEvents \in Nat
      BY RetentionAssumption DEF ShowcaseRow, Row, Mem!Never
    <3>3. \/ pg' = Pg!CreateSimulation(pg, Curated[boot.next], ShowcaseRow)
          \/ pg' = Pg!AppendEvents(pg, Curated[boot.next], 1..MaxEvents)
          \/ pg' = Pg!SaveSnapshot(pg, Curated[boot.next], MaxEvents)
      BY <2>1 DEF Provision, CheckShowcase, GenerateCreate, GenerateAppend, GenerateSnapshot, Listen, Store
    <3>4. 1..MaxEvents \in SUBSET Nat
      BY <3>2
    <3> QED
      BY <2>0, <3>1, <3>2, <3>3, <3>4, CallsKeepShowcases
  <2>2. CASE Crash \/ Pass
    BY <2>2 DEF Crash, Pass
  <2>3. CASE Sweep
    <3>1. pg' = Pg!PurgeExpired(pg, now)
      BY <2>3 DEF Sweep, Store
    <3>2. KeepsShowcases(pg, Pg!PurgeExpired(pg, now))
      BY <2>0, CallsKeepShowcases
    <3> QED BY <3>1, <3>2
  <2>4. ASSUME NEW t \in Token, Issue(t) \/ Use(t)
        PROVE  pg' = pg \/ KeepsShowcases(pg, pg')
    <3>1. now + SessionTTL \in Nat
      BY <2>0, TimesType
    <3>2. \/ pg' = pg
          \/ pg' = Pg!CreateGuestSession(pg, t, now + SessionTTL)
          \/ pg' = Pg!TouchGuestSession(pg, t, now + SessionTTL)
      BY <2>4 DEF Issue, Use, Extend, Store
    <3>3. /\ KeepsShowcases(pg, Pg!CreateGuestSession(pg, t, now + SessionTTL))
          /\ KeepsShowcases(pg, Pg!TouchGuestSession(pg, t, now + SessionTTL))
      BY <2>0, <3>1, CallsKeepShowcases
    <3> QED BY <3>2, <3>3
  <2>5. ASSUME NEW t \in Token, NEW r \in GuestRun, Create(t, r)
        PROVE  pg' = pg \/ KeepsShowcases(pg, pg')
    <3>1. PICK row : row = [owner |-> t, showcase |-> FALSE, expires |-> now + RunTTL]
      OBVIOUS
    <3>2. row \in Row /\ row.owner = t
      BY <2>0, <3>1, TimesType DEF Row
    <3>3. /\ t \in DOMAIN pg.sessions /\ r \in Run
          /\ pg' = pg \/ pg' = Pg!CreateSimulation(pg, r, row)
      BY <2>5, <3>1, CuratedFacts DEF Create, Valid, TryStore, Store
    <3> QED BY <2>0, <3>2, <3>3, CallsKeepShowcases
  <2>6. ASSUME NEW t \in Token, NEW r \in GuestRun, SaveFinal(t, r) \/ Mark(t, r)
        PROVE  pg' = pg \/ KeepsShowcases(pg, pg')
    <3>1. r \in Run /\ live[r].events \in Nat
      BY <2>0, CuratedFacts DEF TypeOK
    <3>2. \/ pg' = pg
          \/ pg' = Pg!SaveSnapshot(pg, r, live[r].events)
          \/ pg' = Pg!MarkShowcase(pg, r)
      BY <2>6 DEF SaveFinal, Snapshotted, Mark, TryStore, Store
    <3> QED BY <2>0, <3>1, <3>2, CallsKeepShowcases
  <2>7. ASSUME NEW r \in GuestRun, Emit(r) \/ WriteBatch(r) \/ SnapshotRun(r)
        PROVE  pg' = pg \/ KeepsShowcases(pg, pg')
    <3>1. r \in Run /\ live[r].events \in Nat /\ pending[r] \in SUBSET Nat
      BY <2>0, CuratedFacts DEF TypeOK
    <3>2. \/ pg' = pg
          \/ pg' = Pg!SaveSnapshot(pg, r, live[r].events)
          \/ \E batch \in SUBSET pending[r] : pg' = Pg!AppendEvents(pg, r, batch)
      BY <2>7 DEF Emit, WriteBatch, SnapshotRun, Snapshotted, TryStore, Store
    <3>3. \A batch \in SUBSET pending[r] : batch \in SUBSET Nat
      BY <3>1
    <3> QED BY <2>0, <3>1, <3>2, <3>3, CallsKeepShowcases
  <2>8. CASE UNCHANGED retentionVars
    BY <2>8 DEF retentionVars
  <2> QED
    BY <1>1, <2>1, <2>2, <2>3, <2>4, <2>5, <2>6, <2>7, <2>8 DEF Next
<1>2. ASSUME RetentionInv, [Next]_retentionVars
      PROVE  [\A r \in DOMAIN pg.rows : pg.rows[r].showcase =>
               /\ r \in DOMAIN pg'.rows /\ pg'.rows[r].showcase
               /\ pg.log[r] \subseteq pg'.log[r] /\ pg.snaps[r] \subseteq pg'.snaps[r]]_retentionVars
  BY <1>1, <1>2 DEF KeepsShowcases
<1> QED
  BY <1>2, RetentionInvariant, PTL DEF Spec, ShowcasesStay

=============================================================================
