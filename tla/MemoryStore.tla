---------------------------- MODULE MemoryStore ----------------------------
(***************************************************************************)
(* The in-process store (store/memory.go).  A store is a record: the expiry *)
(* of every guest session, a row per simulation, and per simulation id the  *)
(* sequence numbers of its logged events and of its snapshots.  The maps of *)
(* events and snapshots are independent of the rows.                        *)
(***************************************************************************)
EXTENDS Integers, FiniteSets, Functions

CONSTANT Run   \* simulation ids

\* A nil ExpiresAt, and the guest token of a run that belongs to nobody.
Never   == 0
NoOwner == ""

\* GuestSession.Expired, and its test on a row's ExpiresAt.
Past(expires, now) == now >= expires

Empty == [sessions |-> <<>>, rows |-> <<>>,
          log |-> [r \in Run |-> {}], snaps |-> [r \in Run |-> {}]]

\* An entry is put into a map.
Put(f, k, v) == [x \in DOMAIN f \union {k} |-> IF x = k THEN v ELSE f[x]]

CreateGuestSession(st, token, expires) ==
  IF token \in DOMAIN st.sessions THEN st
  ELSE [st EXCEPT !.sessions = Put(@, token, expires)]

TouchGuestSession(st, token, expires) ==
  IF token \in DOMAIN st.sessions THEN [st EXCEPT !.sessions[token] = expires] ELSE st

\* CountSimulationsForToken
CountFor(st, token) == Cardinality({r \in DOMAIN st.rows : st.rows[r].owner = token})

CreateSimulation(st, r, row) ==
  IF r \in DOMAIN st.rows THEN st ELSE [st EXCEPT !.rows = Put(@, r, row)]

\* MarkShowcase; ErrNotFound without a row.
MarkShowcase(st, r) ==
  IF r \in DOMAIN st.rows THEN [st EXCEPT !.rows[r].showcase = TRUE] ELSE st

\* AppendEvents: an event already seen is ignored.
AppendEvents(st, r, events) == [st EXCEPT !.log[r] = @ \union events]

SaveSnapshot(st, r, sequence) == [st EXCEPT !.snaps[r] = @ \union {sequence}]

\* The runs a sweep collects.
Collected(st, now) ==
  {r \in DOMAIN st.rows : /\ ~st.rows[r].showcase
                          /\ st.rows[r].expires # Never
                          /\ Past(st.rows[r].expires, now)}

\* mutant: the runs of an expired session keep its token.
PurgeExpiredKeepingOwners(st, now) ==
  LET runs == Collected(st, now)
  IN  [st EXCEPT !.rows = Restrict(@, DOMAIN st.rows \ runs),
                 !.log = [r \in Run |-> IF r \in runs THEN {} ELSE @[r]],
                 !.snaps = [r \in Run |-> IF r \in runs THEN {} ELSE @[r]],
                 !.sessions = Restrict(@, {t \in DOMAIN @ : ~Past(@[t], now)})]

\* PurgeExpired: expired anonymous runs with their events and snapshots, then
\* expired sessions, whose remaining runs are left to nobody.
PurgeExpired(st, now) ==
  LET runs == Collected(st, now)
      dead == {t \in DOMAIN st.sessions : Past(st.sessions[t], now)}
      Disowned(row) == IF row.owner \in dead THEN [row EXCEPT !.owner = NoOwner] ELSE row
  IN  [sessions |-> Restrict(st.sessions, DOMAIN st.sessions \ dead),
       rows     |-> [r \in DOMAIN st.rows \ runs |-> Disowned(st.rows[r])],
       log      |-> [r \in Run |-> IF r \in runs THEN {} ELSE st.log[r]],
       snaps    |-> [r \in Run |-> IF r \in runs THEN {} ELSE st.snaps[r]]]

=============================================================================
