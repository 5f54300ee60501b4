---------------------------- MODULE Conversation ----------------------------
(***************************************************************************)
(* The conversations of the daemon: the SQLite store of events             *)
(* (codivd/src/store.rs), what each client session keeps about its place   *)
(* in it (PersistenceState), and the facade that writes to it              *)
(* (SessionPersistence, codivd/src/daemon.rs).                             *)
(*                                                                         *)
(* A session id is a fresh UUID; sessions are numbered here in the order   *)
(* they are created.  A session is the sequence of its rows, row i having  *)
(* seq = i-1.                                                              *)
(***************************************************************************)
EXTENDS Naturals, Sequences, FiniteSets

CONSTANTS Requests,   \* the user's prompts (one request id each)
          NoRequest,
          MaxConns,   \* bound: connections the client makes in a behaviour
          MaxFaults,  \* bound: appends that fail
          MaxInputs   \* bound: user inputs other than prompts

ASSUME RequestAssumption == NoRequest \notin Requests
ASSUME BoundAssumption ==
    MaxConns \in Nat \ {0} /\ MaxFaults \in Nat /\ MaxInputs \in Nat

VARIABLES stored,  \* sessions and events, as rows
          sid,     \* PersistenceState::session_id of each client session
          seq,     \* PersistenceState::event_seq of each client session
          faults   \* appends that failed so far

storeVars == <<stored, sid, seq, faults>>

Conns     == 1 .. MaxConns
NoSession == 0

----------------------------------------------------------------------------
\* A run's tool calls, its answer and its token usage are one event, "answer".
Event ==
    [type : {"prompt", "answer", "error"}, id : Requests]
        \cup [type : {"command"}, id : 1 .. MaxInputs]
        \cup [type : {"summary"}, id : Nat]

Ev(type, id) == [type |-> type, id |-> id]

\* A seq that has no row.
Lost == Ev("lost", NoSession)

\* append_event: UNIQUE(session_id, seq) rejects a row whose seq is taken.
Put(log, n, e) ==
    [i \in 1 .. (IF n < Len(log) THEN Len(log) ELSE n + 1) |->
        IF i = n + 1 /\ (n >= Len(log) \/ log[i] = Lost) THEN e
        ELSE IF i <= Len(log) THEN log[i] ELSE Lost]

\* load_events: the rows in the order of their seq.
LoadEvents(log) == SelectSeq(log, LAMBDA e : e # Lost)

\* Their number.
EventCount(log) == Cardinality({i \in DOMAIN log : log[i] # Lost})

StoreInit ==
    /\ stored = <<>>
    /\ sid    = [k \in Conns |-> NoSession]
    /\ seq    = [k \in Conns |-> 0]
    /\ faults = 0

----------------------------------------------------------------------------
\* ensure_session: the session of k, created when it has none.
EnsuredId(k)  == IF sid[k] = NoSession THEN Len(stored) + 1 ELSE sid[k]
EnsuredLog(k) == IF sid[k] = NoSession THEN Append(stored, <<>>) ELSE stored

\* Appending may fail, which is logged and otherwise ignored.
Appending == IF faults < MaxFaults THEN BOOLEAN ELSE {TRUE}

Written(log, n, e, ok) == IF ok THEN Put(log, n, e) ELSE log

\* ensure_session, then persist_event: the seq is used up either way.
EnsureAndPersist(k, e) ==
    \E ok \in Appending :
        /\ sid' = [sid EXCEPT ![k] = EnsuredId(k)]
        /\ stored' = [EnsuredLog(k) EXCEPT ![EnsuredId(k)] = Written(@, seq[k], e, ok)]
        /\ seq' = [seq EXCEPT ![k] = @ + 1]
        /\ faults' = IF ok THEN faults ELSE faults + 1

\* The session of k is archived with the event e, and a new one begins with it.
PersistAndRestart(k, e) ==
    \E old \in Appending, new \in Appending :
        /\ faults + (IF old THEN 0 ELSE 1) + (IF new THEN 0 ELSE 1) <= MaxFaults
        /\ stored' = Append([stored EXCEPT ![sid[k]] = Written(@, seq[k], e, old)],
                            Written(<<>>, 0, e, new))
        /\ sid' = [sid EXCEPT ![k] = Len(stored) + 1]
        /\ seq' = [seq EXCEPT ![k] = 1]
        /\ faults' = faults + (IF old THEN 0 ELSE 1) + (IF new THEN 0 ELSE 1)
=============================================================================
