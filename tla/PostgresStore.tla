--------------------------- MODULE PostgresStore ---------------------------
(***************************************************************************)
(* The Postgres store (store/postgres/postgres.go) on the same records as   *)
(* MemoryStore.  What the tables' foreign keys do is stated once: a row may *)
(* only name a session that exists, an event or a snapshot only a simulation*)
(* that exists; deleting a session sets its runs' owner to null; deleting a *)
(* simulation deletes its events and snapshots.                             *)
(***************************************************************************)
EXTENDS Integers, Functions

CONSTANT Run

Never   == 0
NoOwner == ""

\* "on conflict do nothing": the first insert of a key wins.
Insert(f, k, v) ==
  [x \in DOMAIN f \union {k} |-> IF x \in DOMAIN f THEN f[x] ELSE v]

CreateGuestSession(st, token, expires) == [st EXCEPT !.sessions = Insert(@, token, expires)]

\* The update touches no row when the session is gone.
TouchGuestSession(st, token, expires) ==
  IF token \in DOMAIN st.sessions THEN [st EXCEPT !.sessions[token] = expires] ELSE st

\* The insert fails when the owner's session is gone.
CreateSimulation(st, r, row) ==
  IF row.owner = NoOwner \/ row.owner \in DOMAIN st.sessions
  THEN [st EXCEPT !.rows = Insert(@, r, row)] ELSE st

MarkShowcase(st, r) ==
  IF r \in DOMAIN st.rows THEN [st EXCEPT !.rows[r].showcase = TRUE] ELSE st

\* The batch fails when the simulation is gone.
AppendEvents(st, r, events) ==
  IF r \in DOMAIN st.rows THEN [st EXCEPT !.log[r] = @ \union events] ELSE st

SaveSnapshot(st, r, sequence) ==
  IF r \in DOMAIN st.rows THEN [st EXCEPT !.snaps[r] = @ \union {sequence}] ELSE st

\* on delete set null, on delete cascade
SessionDeleted(st) ==
  [st EXCEPT !.rows = [r \in DOMAIN @ |-> IF @[r].owner \in DOMAIN st.sessions THEN @[r]
                                          ELSE [@[r] EXCEPT !.owner = NoOwner]]]

SimulationDeleted(st) ==
  [st EXCEPT !.log   = [r \in Run |-> IF r \in DOMAIN st.rows THEN @[r] ELSE {}],
             !.snaps = [r \in Run |-> IF r \in DOMAIN st.rows THEN @[r] ELSE {}]]

\* mutant: the showcase flag is not looked at.
PurgeExpiredShowcases(st, now) ==
  LET rows     == {r \in DOMAIN st.rows : st.rows[r].expires = Never \/ now < st.rows[r].expires}
      sessions == {t \in DOMAIN st.sessions : now < st.sessions[t]}
  IN  SessionDeleted([SimulationDeleted([st EXCEPT !.rows = Restrict(@, rows)])
                        EXCEPT !.sessions = Restrict(@, sessions)])

\* mutant: a run whose session was swept before it is taken for nobody's.
PurgeExpiredOwned(st, now) ==
  LET rows     == {r \in DOMAIN st.rows : \/ st.rows[r].showcase
                                          \/ st.rows[r].owner = NoOwner
                                          \/ now < st.rows[r].expires}
      sessions == {t \in DOMAIN st.sessions : now < st.sessions[t]}
  IN  SessionDeleted([SimulationDeleted([st EXCEPT !.rows = Restrict(@, rows)])
                        EXCEPT !.sessions = Restrict(@, sessions)])

\* PurgeExpired: the two deletes of one transaction.
PurgeExpired(st, now) ==
  LET rows     == {r \in DOMAIN st.rows : \/ st.rows[r].showcase
                                          \/ st.rows[r].expires = Never
                                          \/ now < st.rows[r].expires}
      sessions == {t \in DOMAIN st.sessions : now < st.sessions[t]}
  IN  SessionDeleted([SimulationDeleted([st EXCEPT !.rows = Restrict(@, rows)])
                        EXCEPT !.sessions = Restrict(@, sessions)])

=============================================================================
