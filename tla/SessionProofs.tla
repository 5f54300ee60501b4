---------------------------- MODULE SessionProofs ----------------------------
(***************************************************************************)
(* What holds of conversations for any number of prompts, connections,     *)
(* restarts and failing appends: nothing is stored twice, what is stored   *)
(* stays, the client shows the session the daemon writes to, and what its  *)
(* session persists is dropped for two reasons only; and, for a user who   *)
(* waits, that the client shows the work of the agent.                     *)
(***************************************************************************)
EXTENDS AgentSession, SequenceTheorems, FiniteSetTheorems, TLAPS

\* What is stored once: an archived summary opens the next session, too.
Kinds == {"prompt", "answer", "error", "command"}

Rows == [type : Kinds \cup {"summary", "lost"}, id : Requests \cup Nat]

Ids == Requests \cup {NoRequest, CompactionId} \cup Nat

Types == {"AgentRequest", "CancelRequest", "NewSession", "LoadSession", "CommandResult", "CompactRequest"}

Messages == [type : Types, id : Ids, from : Conns]

Frames ==
    [type : {"AgentComplete", "Error", "SessionCreated", "CompactionStarted", "CompactionComplete"}, id : Ids]

\* A session has its rows, and a client session without one has written none.
StoreTypes ==
    /\ stored \in Seq(Seq(Rows))
    /\ sid \in [Conns -> 0 .. Len(stored)]
    /\ seq \in [Conns -> Nat]
    /\ \A k \in Conns : sid[k] = NoSession => seq[k] = 0

\* The stages of a task whose agent is back, and of any task that exists.
Back   == {"returned", "returnedError"}
Begun  == {"running", "answered", "failed", "over"} \cup Back

TurnTypes ==
    /\ rx \in [Conns -> Requests \cup {NoRequest}]
    /\ DOMAIN run = Requests
    /\ \A r \in Requests :
          /\ run[r] = [st |-> run[r].st, from |-> run[r].from, history |-> run[r].history]
          /\ run[r].st \in Begun \cup {"none"}
    /\ loop \in [at : {"request", "compact"}, from : Conns, req : Requests \cup {NoRequest}] \cup {Idle}
    /\ loop.at = "request" => loop.req # NoRequest

\* Messages and frames name prompts, sessions and commands that are there; who
\* awaits a run has a session.
LinkTypes ==
    /\ conn \in Conns /\ inputs \in Nat
    /\ active \in Requests \cup {NoRequest, CompactionId}
    /\ view \in 0 .. Len(stored)
    /\ \A k \in Conns : rx[k] # NoRequest => sid[k] # NoSession
    /\ d2c \in Seq(Frames)
    /\ \A i \in 1 .. Len(d2c) : d2c[i].type = "SessionCreated" => d2c[i].id \in 1 .. Len(stored)
    /\ c2d \in Seq(Messages)
    /\ \A i \in 1 .. Len(c2d) :
          /\ c2d[i].type = "AgentRequest"  => c2d[i].id \in Requests
          /\ c2d[i].type = "LoadSession"   => c2d[i].id \in 1 .. Len(stored)
          /\ c2d[i].type = "CommandResult" => c2d[i].id \in 1 .. inputs

SessionTypes == StoreTypes /\ TurnTypes /\ LinkTypes

----------------------------------------------------------------------------
(* The store.                                                              *)

\* A row that is there is kept; one whose seq is free is perhaps written.
LEMMA WrittenRows ==
    ASSUME NEW log \in Seq(Rows), NEW n \in Nat, NEW e \in Rows, NEW w, w = log \/ w = Put(log, n, e), NEW I, I = n + 1
    PROVE  /\ w \in Seq(Rows)
           /\ \A i \in 1 .. Len(w) : w[i] = Lost \/ (i \in 1 .. Len(log) /\ w[i] = log[i]) \/ (i = I /\ w[i] = e)
<1>0. CASE w = log
  BY <1>0
<1>. SUFFICES ASSUME w = Put(log, n, e)
              PROVE  /\ w \in Seq(Rows)
                     /\ \A i \in 1 .. Len(w) :
                           w[i] = Lost \/ (i \in 1 .. Len(log) /\ w[i] = log[i]) \/ (i = I /\ w[i] = e)
  BY <1>0
<1>. DEFINE m == IF n < Len(log) THEN Len(log) ELSE n + 1
<1>1. m \in Nat /\ Len(log) \in Nat
  OBVIOUS
<1>2. w = [i \in 1 .. m |-> IF i = I /\ (n >= Len(log) \/ log[i] = Lost) THEN e
                            ELSE IF i <= Len(log) THEN log[i] ELSE Lost]
  BY DEF Put
<1>3. Lost \in Rows
  BY DEF Lost, Ev, Rows, NoSession
<1>. HIDE DEF m
<1>4. \A i \in 1 .. m : w[i] \in Rows
  <2>. SUFFICES ASSUME NEW i \in 1 .. m PROVE w[i] \in Rows
    OBVIOUS
  <2>1. i <= Len(log) => log[i] \in Rows
    BY <1>1, ElementOfSeq
  <2>. QED  BY <1>2, <1>3, <2>1
<1>5. w \in Seq(Rows) /\ Len(w) = m
  BY <1>1, <1>2, <1>4
<1>6. \A i \in 1 .. m : w[i] = Lost \/ (i \in 1 .. Len(log) /\ w[i] = log[i]) \/ (i = I /\ w[i] = e)
  BY <1>1, <1>2
<1>. QED  BY <1>5, <1>6

\* A row of the next state was there before, and in its place.
OldRow(s, i) == s \in DOMAIN stored /\ i \in DOMAIN stored[s] /\ stored'[s][i] = stored[s][i]

\* No row is written but, in one place, e; those of other kinds do not matter.
Adds(e) ==
    \E S, I : \A s \in DOMAIN stored' : \A i \in DOMAIN stored'[s] :
        \/ stored'[s][i].type \notin Kinds
        \/ OldRow(s, i)
        \/ s = S /\ i = I /\ stored'[s][i] = e

AddsNone ==
    \A s \in DOMAIN stored' : \A i \in DOMAIN stored'[s] : stored'[s][i].type \notin Kinds \/ OldRow(s, i)

\* A client session moves to another session.
LEMMA Moved ==
    ASSUME NEW n \in Nat, NEW m \in Nat, n <= m, NEW f \in [Conns -> 0 .. n], NEW x, NEW v \in 0 .. m,
           NEW g, g = [f EXCEPT ![x] = v]
    PROVE  g \in [Conns -> 0 .. m]
<1>1. \A j \in Conns : f[j] \in 0 .. m
  <2>. SUFFICES ASSUME NEW j \in Conns PROVE f[j] \in 0 .. m
    OBVIOUS
  <2>1. f[j] \in 0 .. n
    OBVIOUS
  <2>. QED  BY <2>1
<1>2. f \in [Conns -> 0 .. m]
  BY <1>1
<1>. QED  BY <1>2

\* An event that is persisted goes to the session of its client, which has one
\* from then on.
LEMMA Persisted ==
    ASSUME StoreTypes, NEW k \in Conns, NEW e \in Rows, EnsureAndPersist(k, e)
    PROVE  /\ StoreTypes' /\ Len(stored) <= Len(stored') /\ Adds(e)
           /\ sid' = [sid EXCEPT ![k] = EnsuredId(k)] /\ EnsuredId(k) \in 1 .. Len(stored')
<1>. DEFINE L == EnsuredLog(k)
            d == EnsuredId(k)
<1>1. PICK w :
        /\ w = L[d] \/ w = Put(L[d], seq[k], e)
        /\ stored' = [L EXCEPT ![d] = w]
        /\ sid' = [sid EXCEPT ![k] = d] /\ seq' = [seq EXCEPT ![k] = seq[k] + 1]
  BY DEF EnsureAndPersist, Written
<1>2. stored \in Seq(Seq(Rows)) /\ Len(stored) \in Nat /\ seq[k] \in Nat /\ sid[k] \in 0 .. Len(stored)
  BY DEF StoreTypes
<1>3. /\ L \in Seq(Seq(Rows)) /\ d \in 1 .. Len(L) /\ Len(stored) <= Len(L) /\ Len(L) \in Nat
      /\ \A s \in 1 .. Len(L) : (s \in 1 .. Len(stored) /\ L[s] = stored[s]) \/ L[s] = <<>>
  <2>1. CASE sid[k] = NoSession
    <3>1. L = Append(stored, <<>>) /\ d = Len(stored) + 1
      BY <2>1 DEF EnsuredLog, EnsuredId
    <3>2. <<>> \in Seq(Rows)
      OBVIOUS
    <3>. QED  BY <1>2, <3>1, <3>2, AppendProperties
  <2>2. CASE sid[k] # NoSession
    BY <1>2, <2>2 DEF EnsuredLog, EnsuredId, NoSession
  <2>. QED  BY <2>1, <2>2
<1>4. L[d] \in Seq(Rows)
  BY <1>3, ElementOfSeq
<1>5. /\ w \in Seq(Rows)
      /\ \A i \in 1 .. Len(w) :
            \/ w[i] = Lost
            \/ i \in 1 .. Len(L[d]) /\ w[i] = L[d][i]
            \/ i = seq[k] + 1 /\ w[i] = e
  <2>. HIDE DEF L, d
  <2>. QED  BY <1>1, <1>2, <1>4, WrittenRows
<1>. HIDE DEF L, d
<1>6. /\ stored' \in Seq(Seq(Rows)) /\ Len(stored') = Len(L)
      /\ \A s \in 1 .. Len(L) : stored'[s] = IF s = d THEN w ELSE L[s]
  BY <1>1, <1>3, <1>5, ExceptSeq
<1>7. StoreTypes'
  <2>1. sid' \in [Conns -> 0 .. Len(stored')] /\ seq' \in [Conns -> Nat]
    BY <1>1, <1>2, <1>3, <1>6 DEF StoreTypes
  <2>2. \A j \in Conns : sid'[j] = NoSession => seq'[j] = 0
    BY <1>1, <1>3 DEF StoreTypes, NoSession
  <2>. QED  BY <1>6, <2>1, <2>2 DEF StoreTypes
<1>8. ASSUME NEW s \in DOMAIN stored', NEW i \in DOMAIN stored'[s]
      PROVE  stored'[s][i].type \notin Kinds \/ OldRow(s, i) \/ (s = d /\ i = seq[k] + 1 /\ stored'[s][i] = e)
  <2>1. s \in 1 .. Len(L)
    BY <1>6
  <2>2. CASE s = d
    <3>1. i \in 1 .. Len(w) /\ stored'[s] = w
      BY <1>5, <1>6, <2>1, <2>2
    <3>2. Lost.type \notin Kinds
      BY DEF Lost, Ev, Kinds
    <3>3. i \in 1 .. Len(L[d]) => L[d] # <<>>
      OBVIOUS
    <3>4. i \in 1 .. Len(L[d]) => d \in DOMAIN stored /\ i \in DOMAIN stored[d] /\ L[d] = stored[d]
      BY <1>2, <1>3, <3>3, ElementOfSeq
    <3>. QED  BY <1>5, <2>2, <3>1, <3>2, <3>4 DEF OldRow
  <2>3. CASE s # d
    <3>1. stored'[s] = L[s]
      BY <1>6, <2>1, <2>3
    <3>2. L[s] # <<>>
      BY <3>1
    <3>. QED  BY <1>2, <1>3, <2>1, <3>1, <3>2 DEF OldRow
  <2>. QED  BY <2>2, <2>3
<1>9. Adds(e)
  BY <1>8 DEF Adds
<1>10. d \in 1 .. Len(stored')
  BY <1>3, <1>6
<1>. QED  BY <1>1, <1>3, <1>6, <1>7, <1>9, <1>10 DEF d

\* An archive and the session after it add a summary each.
LEMMA Restarted ==
    ASSUME StoreTypes, NEW k \in Conns, NEW e \in Rows, e.type \notin Kinds, PersistAndRestart(k, e)
    PROVE  /\ StoreTypes' /\ Len(stored) <= Len(stored') /\ AddsNone
           /\ sid' = [sid EXCEPT ![k] = Len(stored) + 1] /\ Len(stored) + 1 \in 1 .. Len(stored')
<1>. DEFINE d == sid[k]
<1>1. PICK w, n :
        /\ w = stored[d] \/ w = Put(stored[d], seq[k], e)
        /\ n = <<>> \/ n = Put(<<>>, 0, e)
        /\ stored' = Append([stored EXCEPT ![d] = w], n)
        /\ sid' = [sid EXCEPT ![k] = Len(stored) + 1]
        /\ seq' = [seq EXCEPT ![k] = 1]
  BY DEF PersistAndRestart, Written
<1>. DEFINE L == [stored EXCEPT ![d] = w]
<1>2. stored \in Seq(Seq(Rows)) /\ Len(stored) \in Nat /\ seq[k] \in Nat /\ d \in 0 .. Len(stored)
  BY DEF StoreTypes
<1>x. Lost.type \notin Kinds
  BY DEF Lost, Ev, Kinds
<1>3. d \in 1 .. Len(stored) =>
        /\ w \in Seq(Rows)
        /\ \A i \in 1 .. Len(w) : w[i].type \notin Kinds \/ (i \in 1 .. Len(stored[d]) /\ w[i] = stored[d][i])
  <2>. SUFFICES ASSUME d \in 1 .. Len(stored)
                PROVE  /\ w \in Seq(Rows)
                       /\ \A i \in 1 .. Len(w) :
                             w[i].type \notin Kinds \/ (i \in 1 .. Len(stored[d]) /\ w[i] = stored[d][i])
    OBVIOUS
  <2>0. stored[d] \in Seq(Rows)
    BY <1>2, ElementOfSeq
  <2>1. /\ w \in Seq(Rows)
        /\ \A i \in 1 .. Len(w) : w[i] = Lost \/ (i \in 1 .. Len(stored[d]) /\ w[i] = stored[d][i]) \/ w[i] = e
    BY <1>1, <1>2, <2>0, WrittenRows
  <2>. QED  BY <1>x, <2>1
<1>4. n \in Seq(Rows) /\ \A i \in 1 .. Len(n) : n[i].type \notin Kinds
  <2>1. CASE n = <<>>
    BY <2>1
  <2>2. CASE n = Put(<<>>, 0, e)
    <3>1. n = [i \in 1 .. 1 |-> e]
      <4>1. Len(<<>>) = 0
        OBVIOUS
      <4>2. n = [i \in 1 .. 1 |-> IF i = 1 /\ (0 >= 0 \/ <<>>[i] = Lost) THEN e
                                  ELSE IF i <= 0 THEN <<>>[i] ELSE Lost]
        BY <2>2, <4>1 DEF Put
      <4>. QED  BY <4>2
    <3>2. n \in Seq(Rows) /\ Len(n) = 1
      BY <3>1
    <3>. QED  BY <3>1, <3>2
  <2>. QED  BY <1>1, <2>1, <2>2
<1>5. /\ L \in Seq(Seq(Rows)) /\ Len(L) = Len(stored)
      /\ \A s \in 1 .. Len(stored) : L[s] = IF s = d THEN w ELSE stored[s]
  <2>1. CASE d \in 1 .. Len(stored)
    BY <1>2, <1>3, <2>1, ExceptSeq
  <2>2. CASE d \notin 1 .. Len(stored)
    <3>1. L = stored
      BY <1>2, <2>2
    <3>. QED  BY <1>2, <2>2, <3>1
  <2>. QED  BY <2>1, <2>2
<1>6. stored' = Append(L, n)
  BY <1>1
<1>. HIDE DEF L
<1>7. /\ stored' \in Seq(Seq(Rows)) /\ Len(stored') = Len(stored) + 1
      /\ \A s \in 1 .. Len(stored') : stored'[s] = IF s = Len(stored) + 1 THEN n ELSE IF s = d THEN w ELSE stored[s]
  BY <1>2, <1>4, <1>5, <1>6, AppendProperties
<1>8. StoreTypes'
  BY <1>1, <1>2, <1>7 DEF StoreTypes, NoSession
<1>9. ASSUME NEW s \in DOMAIN stored', NEW i \in DOMAIN stored'[s]
      PROVE  stored'[s][i].type \notin Kinds \/ OldRow(s, i)
  <2>1. s \in 1 .. Len(stored')
    BY <1>7
  <2>2. CASE s = Len(stored) + 1
    <3>1. stored'[s] = n /\ i \in 1 .. Len(n)
      BY <1>4, <1>7, <1>9, <2>1, <2>2
    <3>. QED  BY <1>4, <3>1
  <2>3. CASE s # Len(stored) + 1 /\ s = d
    <3>1. s \in 1 .. Len(stored) /\ stored'[s] = w /\ stored[s] \in Seq(Rows)
      BY <1>2, <1>7, <2>1, <2>3, ElementOfSeq
    <3>2. i \in 1 .. Len(w)
      BY <1>2, <1>3, <1>9, <2>3, <3>1
    <3>3. s \in DOMAIN stored /\ DOMAIN stored[s] = 1 .. Len(stored[s])
      BY <1>2, <3>1
    <3>. QED  BY <1>3, <2>3, <3>1, <3>2, <3>3 DEF OldRow
  <2>4. CASE s # Len(stored) + 1 /\ s # d
    BY <1>2, <1>7, <2>1, <2>4 DEF OldRow
  <2>. QED  BY <2>2, <2>3, <2>4
<1>10. AddsNone
  BY <1>9 DEF AddsNone
<1>. QED  BY <1>1, <1>2, <1>7, <1>8, <1>10

\* The events of a session can be counted.
LEMMA Counted == \A log \in Seq(Rows) : EventCount(log) \in Nat
<1>. SUFFICES ASSUME NEW log \in Seq(Rows) PROVE EventCount(log) \in Nat
  OBVIOUS
<1>1. IsFiniteSet(1 .. Len(log))
  BY FS_Interval
<1>2. IsFiniteSet({i \in DOMAIN log : log[i] # Lost})
  BY <1>1, FS_Subset
<1>. QED  BY <1>2, FS_CardinalityType DEF EventCount

\* A step that does not write leaves rows and their places.
LEMMA NothingWritten == StoreTypes /\ UNCHANGED storeVars => StoreTypes' /\ Len(stored) <= Len(stored') /\ AddsNone
<1>. SUFFICES ASSUME StoreTypes, UNCHANGED storeVars PROVE StoreTypes' /\ Len(stored) <= Len(stored') /\ AddsNone
  OBVIOUS
<1>1. stored' = stored /\ Len(stored) \in Nat
  BY DEF storeVars, StoreTypes
<1>. QED  BY <1>1 DEF storeVars, StoreTypes, AddsNone, OldRow

\* A new session is empty.
LEMMA NewSessionWritten ==
    ASSUME SessionTypes, OnNewSession
    PROVE  StoreTypes' /\ Len(stored) <= Len(stored') /\ AddsNone /\ Len(stored') = Len(stored) + 1
<1>1. stored' = Append(stored, <<>>) /\ sid' = [sid EXCEPT ![From] = Len(stored) + 1] /\ seq' = [seq EXCEPT ![From] = 0]
  BY DEF OnNewSession
<1>2. <<>> \in Seq(Rows) /\ stored \in Seq(Seq(Rows)) /\ Len(stored) \in Nat
  BY DEF SessionTypes, StoreTypes
<1>3. /\ stored' \in Seq(Seq(Rows)) /\ Len(stored') = Len(stored) + 1
      /\ \A s \in 1 .. Len(stored) : stored'[s] = stored[s]
      /\ stored'[Len(stored) + 1] = <<>>
  BY <1>1, <1>2, AppendProperties
<1>4. StoreTypes'
  <2>1. sid' \in [Conns -> 0 .. Len(stored')]
    <3>1. sid \in [Conns -> 0 .. Len(stored)] /\ Len(stored') \in Nat /\ Len(stored) <= Len(stored')
      BY <1>1, <1>2, <1>3 DEF SessionTypes, StoreTypes
    <3>2. PICK v : v = Len(stored) + 1
      OBVIOUS
    <3>3. v \in 0 .. Len(stored') /\ sid' = [sid EXCEPT ![From] = v]
      BY <1>1, <1>2, <1>3, <3>2
    <3>. QED  BY <3>1, <3>3, <1>2, <1>3, Moved
  <2>2. seq' \in [Conns -> Nat]
    BY <1>1 DEF SessionTypes, StoreTypes
  <2>3. \A j \in Conns : sid'[j] = NoSession => seq'[j] = 0
    BY <1>1, <1>2 DEF SessionTypes, StoreTypes, NoSession
  <2>. QED  BY <1>3, <2>1, <2>2, <2>3 DEF StoreTypes
<1>5. ASSUME NEW s \in DOMAIN stored', NEW i \in DOMAIN stored'[s] PROVE OldRow(s, i)
  <2>1. s \in 1 .. Len(stored) + 1
    BY <1>2, <1>3
  <2>2. CASE s = Len(stored) + 1
    BY <1>3, <1>5, <2>2
  <2>3. CASE s # Len(stored) + 1
    <3>1. s \in 1 .. Len(stored) /\ DOMAIN stored = 1 .. Len(stored) /\ stored'[s] = stored[s]
      BY <1>2, <1>3, <2>1, <2>3
    <3>. QED  BY <3>1 DEF OldRow
  <2>. QED  BY <2>2, <2>3
<1>. QED  BY <1>2, <1>3, <1>4, <1>5 DEF AddsNone

\* The head of the daemon's channel is a message; what stays keeps its order.
LEMMA HeadMessage ==
    ASSUME LinkTypes, c2d # <<>>
    PROVE  /\ 1 \in 1 .. Len(c2d) /\ Head(c2d) = c2d[1] /\ Head(c2d) \in Messages
           /\ Tail(c2d) \in Seq(Messages) /\ Len(Tail(c2d)) = Len(c2d) - 1
           /\ \A i \in 1 .. Len(Tail(c2d)) : Tail(c2d)[i] = c2d[i + 1] /\ i + 1 \in 1 .. Len(c2d)
<1>1. c2d \in Seq(Messages) /\ Len(c2d) \in Nat \ {0}
  BY EmptySeq DEF LinkTypes
<1>2. Head(c2d) = c2d[1]
  BY <1>1
<1>. QED  BY <1>1, <1>2, HeadTailProperties

\* Writing goes on in a loaded session after as many events as it has.
LEMMA LoadSessionWritten ==
    ASSUME SessionTypes, OnLoadSession
    PROVE  StoreTypes' /\ Len(stored) <= Len(stored') /\ AddsNone /\ Head(c2d).id \in 1 .. Len(stored)
<1>. DEFINE s == Head(c2d).id
<1>1. stored' = stored /\ sid' = [sid EXCEPT ![From] = s] /\ seq' = [seq EXCEPT ![From] = EventCount(stored[s])]
  BY DEF OnLoadSession
<1>2. s \in 1 .. Len(stored)
  <2>1. c2d # <<>> /\ Head(c2d).type = "LoadSession"
    BY DEF OnLoadSession, Receive
  <2>. QED  BY <2>1, HeadMessage DEF SessionTypes, LinkTypes
<1>3. stored \in Seq(Seq(Rows)) /\ Len(stored) \in Nat
  BY DEF SessionTypes, StoreTypes
<1>4. EventCount(stored[s]) \in Nat
  BY <1>2, <1>3, Counted, ElementOfSeq
<1>5. sid' \in [Conns -> 0 .. Len(stored')] /\ seq' \in [Conns -> Nat]
  <2>1. sid' \in [Conns -> 0 .. Len(stored')]
    <3>1. sid \in [Conns -> 0 .. Len(stored)] /\ Len(stored') \in Nat /\ Len(stored) <= Len(stored')
      BY <1>1, <1>2, <1>3 DEF SessionTypes, StoreTypes
    <3>2. PICK v : v = s
      OBVIOUS
    <3>3. v \in 0 .. Len(stored') /\ sid' = [sid EXCEPT ![From] = v]
      BY <1>1, <1>2, <1>3, <3>2
    <3>. QED  BY <3>1, <3>3, <1>2, <1>3, Moved
  <2>2. seq' \in [Conns -> Nat]
    BY <1>1, <1>4 DEF SessionTypes, StoreTypes
  <2>. QED  BY <2>1, <2>2
<1>6. \A j \in Conns : sid'[j] = NoSession => seq'[j] = 0
  BY <1>1, <1>2 DEF SessionTypes, StoreTypes, NoSession
<1>7. AddsNone
  BY <1>1, <1>3 DEF AddsNone, OldRow
<1>. QED  BY <1>1, <1>2, <1>3, <1>5, <1>6, <1>7 DEF StoreTypes

----------------------------------------------------------------------------
(* The runs.                                                               *)

\* A task that exists goes on existing, for the same client; an agent that is
\* back stays back.
RunsMove ==
    \A r \in Requests :
        /\ run'[r].from = run[r].from
        /\ run'[r].st = "none" <=> run[r].st = "none"
        /\ run[r].st \in Back => run'[r].st \in Back

\* A session awaits the run it awaited or none.
Forgets == \A k \in Conns : rx'[k] \in {rx[k], NoRequest}

\* The main loop works for no other prompt than before.
LoopKeeps == \A r \in Requests : loop'.at # "idle" /\ loop'.req = r => loop.at # "idle" /\ loop.req = r

\* What a step of a task does.
LEMMA RunMoves ==
    ASSUME TurnTypes, NEW r \in Requests, RunStep(r)
    PROVE  /\ TurnTypes' /\ RunsMove /\ Forgets /\ LoopKeeps
           /\ UNCHANGED <<storeVars, c2d, rx, loop, sess>>
<1>1. PICK st, h : /\ run' = [run EXCEPT ![r].st = st, ![r].history = h]
                   /\ st \in Begun /\ run[r].st \in Begun \ Back
                   /\ UNCHANGED <<storeVars, c2d, rx, loop, sess>>
  <2>1. ASSUME NEW st \in {"answered", "failed"}, run[r].st = "running", run' = [run EXCEPT ![r].st = st]
        PROVE  /\ run' = [run EXCEPT ![r].st = st, ![r].history = run[r].history]
               /\ st \in Begun /\ run[r].st \in Begun \ Back
    BY <2>1 DEF TurnTypes, Begun, Back
  <2>2. CASE Answer(r)
    BY <2>1, <2>2 DEF Answer, Finish, storeVars
  <2>3. CASE Fail(r)
    BY <2>1, <2>3 DEF Fail, Finish, storeVars
  <2>4. CASE Return(r)
    BY <2>4 DEF Return, Begun, Back, storeVars
  <2>5. CASE Drop(r)
    <3>1. run' = [run EXCEPT ![r].st = "over", ![r].history = run[r].history]
      BY <2>5 DEF Drop, TurnTypes
    <3>. QED  BY <2>5, <3>1 DEF Drop, Begun, Back, storeVars
  <2>. QED  BY <2>2, <2>3, <2>4, <2>5 DEF RunStep, RunEnds
<1>2. ASSUME NEW q \in Requests
      PROVE  /\ run'[q] = [st |-> run'[q].st, from |-> run'[q].from, history |-> run'[q].history]
             /\ run'[q].st \in Begun \cup {"none"}
             /\ run'[q].from = run[q].from
             /\ run'[q].st = "none" <=> run[q].st = "none"
             /\ run[q].st \in Back => run'[q].st \in Back
  <2>1. CASE q = r
    <3>1. run[q] = [st |-> run[q].st, from |-> run[q].from, history |-> run[q].history] /\ q \in DOMAIN run
      BY DEF TurnTypes
    <3>2. run'[q] = [run[q] EXCEPT !.st = st, !.history = h]
      BY <1>1, <2>1, <3>1
    <3>3. run'[q] = [st |-> st, from |-> run[q].from, history |-> h]
      BY <3>1, <3>2
    <3>4. run'[q].st = st /\ run'[q].from = run[q].from /\ run'[q].history = h
      BY <3>3
    <3>5. st # "none" /\ run[q].st # "none" /\ run[q].st \notin Back
      BY <1>1, <2>1 DEF Begun, Back
    <3>. QED  BY <1>1, <3>3, <3>4, <3>5
  <2>2. CASE q # r
    <3>1. run'[q] = run[q]
      BY <1>1, <2>2 DEF TurnTypes
    <3>. QED  BY <3>1 DEF TurnTypes
  <2>. QED  BY <2>1, <2>2
<1>3. DOMAIN run' = Requests
  BY <1>1 DEF TurnTypes
<1>4. TurnTypes'
  BY <1>1, <1>2, <1>3 DEF TurnTypes
<1>. QED  BY <1>1, <1>2, <1>4 DEF RunsMove, Forgets, LoopKeeps

\* A step that leaves the runs, and lets no session wait for another run.
LEMMA RunsStay ==
    ASSUME TurnTypes, UNCHANGED run, Forgets, rx' \in [Conns -> Requests \cup {NoRequest}],
           loop' \in [at : {"request", "compact"}, from : Conns, req : Requests \cup {NoRequest}] \cup {Idle},
           loop'.at = "request" => loop'.req # NoRequest
    PROVE  TurnTypes' /\ RunsMove
<1>1. run' = run
  OBVIOUS
<1>2. TurnTypes'
  BY <1>1 DEF TurnTypes, Idle
<1>. QED  BY <1>1, <1>2 DEF RunsMove

\* A step that leaves the turns.
LEMMA TurnsStay == TurnTypes /\ UNCHANGED <<run, rx, loop>> => TurnTypes' /\ RunsMove /\ Forgets /\ LoopKeeps
<1>. SUFFICES ASSUME TurnTypes, UNCHANGED <<run, rx, loop>>
              PROVE  TurnTypes' /\ RunsMove /\ Forgets /\ LoopKeeps
  OBVIOUS
<1>1. run' = run /\ rx' = rx /\ loop' = loop
  OBVIOUS
<1>2. TurnTypes'
  BY <1>1 DEF TurnTypes, Idle
<1>. QED  BY <1>1, <1>2 DEF RunsMove, Forgets, LoopKeeps

\* A step that makes one session forget its run.
LEMMA Cleared ==
    ASSUME TurnTypes, NEW k \in Conns, rx' = [rx EXCEPT ![k] = NoRequest], UNCHANGED <<run, loop>>
    PROVE  TurnTypes' /\ RunsMove /\ Forgets /\ LoopKeeps
<1>1. rx \in [Conns -> Requests \cup {NoRequest}] /\ run' = run /\ loop' = loop
  BY DEF TurnTypes
<1>2. rx' \in [Conns -> Requests \cup {NoRequest}] /\ Forgets
  BY <1>1 DEF Forgets
<1>3. TurnTypes' /\ RunsMove
  <2>1. /\ loop' \in [at : {"request", "compact"}, from : Conns, req : Requests \cup {NoRequest}] \cup {Idle}
        /\ loop'.at = "request" => loop'.req # NoRequest
    BY <1>1 DEF TurnTypes
  <2>. QED  BY <1>1, <1>2, <2>1, RunsStay
<1>. QED  BY <1>1, <1>2, <1>3 DEF LoopKeeps

\* A compaction begins, or the request it was for goes on.
LEMMA StartMoves ==
    ASSUME TurnTypes, NEW k \in Conns, NEW r \in Requests \cup {NoRequest}, UNCHANGED <<run, rx>>,
           \/ StartCompaction(k, r)
           \/ loop' = [at |-> "request", from |-> k, req |-> r] /\ r # NoRequest
    PROVE  /\ TurnTypes' /\ RunsMove /\ Forgets
           /\ loop'.at # "idle" => loop'.req = r /\ loop'.from = k
<1>1. loop' \in {Idle, [at |-> "request", from |-> k, req |-> r], [at |-> "compact", from |-> k, req |-> r]}
  BY DEF StartCompaction
<1>2. loop'.at = "request" => loop'.req # NoRequest
  BY DEF StartCompaction, Idle
<1>3. loop' \in [at : {"request", "compact"}, from : Conns, req : Requests \cup {NoRequest}] \cup {Idle}
  BY <1>1
<1>4. loop'.at # "idle" => loop'.req = r /\ loop'.from = k
  BY <1>1 DEF Idle
<1>5. rx' \in [Conns -> Requests \cup {NoRequest}] /\ Forgets
  BY DEF TurnTypes, Forgets
<1>. QED  BY <1>2, <1>3, <1>4, <1>5, RunsStay

\* A compaction that has ended lets the request it was for go on.
LEMMA CompactionMoves ==
    ASSUME TurnTypes, CompactDone \/ CompactFail
    PROVE  TurnTypes' /\ RunsMove /\ Forgets /\ LoopKeeps /\ UNCHANGED <<rx, sess>>
<1>1. loop.at = "compact" /\ loop' = AfterCompaction /\ UNCHANGED <<run, rx, sess>>
  BY DEF CompactDone, CompactFail
<1>2. loop \in [at : {"request", "compact"}, from : Conns, req : Requests \cup {NoRequest}]
  BY <1>1 DEF TurnTypes, Idle
<1>3. loop' = Idle \/ (loop.req # NoRequest /\ loop' = [at |-> "request", from |-> loop.from, req |-> loop.req])
  BY <1>1, <1>2 DEF AfterCompaction
<1>4. /\ loop' \in [at : {"request", "compact"}, from : Conns, req : Requests \cup {NoRequest}] \cup {Idle}
      /\ loop'.at = "request" => loop'.req # NoRequest
  BY <1>2, <1>3 DEF Idle
<1>5. LoopKeeps
  BY <1>1, <1>3 DEF LoopKeeps, Idle
<1>6. rx' \in [Conns -> Requests \cup {NoRequest}] /\ Forgets
  BY <1>1 DEF TurnTypes, Forgets
<1>. QED  BY <1>1, <1>4, <1>5, <1>6, RunsStay

\* The daemon stops, and the runs with it.
LEMMA StopMoves == TurnTypes /\ DaemonStop => TurnTypes' /\ RunsMove /\ Forgets /\ LoopKeeps
<1>. SUFFICES ASSUME TurnTypes, DaemonStop PROVE TurnTypes' /\ RunsMove /\ Forgets /\ LoopKeeps
  OBVIOUS
<1>1. /\ rx' = [k \in Conns |-> NoRequest] /\ loop' = Idle
      /\ run' = [r \in Requests |-> IF Going(r) THEN [run[r] EXCEPT !.st = "over"] ELSE run[r]]
  BY DEF DaemonStop
<1>2. ASSUME NEW q \in Requests
      PROVE  /\ run'[q] = [st |-> run'[q].st, from |-> run'[q].from, history |-> run'[q].history]
             /\ run'[q].st \in Begun \cup {"none"}
             /\ run'[q].from = run[q].from
             /\ run'[q].st = "none" <=> run[q].st = "none"
             /\ run[q].st \in Back => run'[q].st \in Back
  <2>0. run[q] = [st |-> run[q].st, from |-> run[q].from, history |-> run[q].history]
    BY DEF TurnTypes
  <2>1. CASE Going(q)
    <3>1. run'[q] = [run[q] EXCEPT !.st = "over"]
      BY <1>1, <2>1
    <3>2. run'[q] = [st |-> "over", from |-> run[q].from, history |-> run[q].history]
      BY <2>0, <3>1
    <3>3. run'[q].st = "over" /\ run'[q].from = run[q].from /\ run'[q].history = run[q].history
      BY <3>2
    <3>4. run[q].st # "none" /\ run[q].st \notin Back /\ "over" \in Begun /\ "over" # "none"
      BY <2>1 DEF Going, Back, Begun
    <3>. QED  BY <3>2, <3>3, <3>4
  <2>2. CASE ~ Going(q)
    <3>1. run'[q] = run[q]
      BY <1>1, <2>2
    <3>. QED  BY <2>0, <3>1 DEF TurnTypes
  <2>. QED  BY <2>1, <2>2
<1>3. DOMAIN run' = Requests /\ rx' \in [Conns -> Requests \cup {NoRequest}] /\ Forgets
  BY <1>1 DEF Forgets
<1>4. TurnTypes'
  BY <1>1, <1>2, <1>3 DEF TurnTypes, Idle
<1>. QED  BY <1>1, <1>2, <1>3, <1>4 DEF RunsMove, LoopKeeps, Idle

\* A run begins.
LEMMA BeginMoves ==
    ASSUME TurnTypes, BeginRun
    PROVE  /\ TurnTypes' /\ loop.from \in Conns /\ loop.req \in Requests /\ loop' = Idle
           /\ rx' = [rx EXCEPT ![loop.from] = loop.req]
           /\ run'[loop.req].st = "running" /\ run'[loop.req].from = loop.from
           /\ \A q \in Requests \ {loop.req} : run'[q] = run[q]
<1>. DEFINE r == loop.req
            k == loop.from
<1>1. /\ loop' = Idle /\ rx' = [rx EXCEPT ![k] = r] /\ loop.at = "request"
      /\ run' = [run EXCEPT ![r] = [st |-> "running", from |-> k, history |-> Append(History(k), Ev("prompt", r))]]
  BY DEF BeginRun
<1>2. k \in Conns /\ r \in Requests
  BY <1>1 DEF TurnTypes, Idle
<1>. HIDE DEF k, r
<1>3. PICK h : run' = [run EXCEPT ![r] = [st |-> "running", from |-> k, history |-> h]]
  BY <1>1
<1>4. run'[r] = [st |-> "running", from |-> k, history |-> h] /\ \A q \in Requests \ {r} : run'[q] = run[q]
  BY <1>2, <1>3 DEF TurnTypes
<1>5. run'[r].st = "running" /\ run'[r].from = k /\ run'[r].history = h
  BY <1>4
<1>6. DOMAIN run' = Requests /\ rx' \in [Conns -> Requests \cup {NoRequest}]
  BY <1>1, <1>2, <1>3 DEF TurnTypes
<1>7. ASSUME NEW q \in Requests
      PROVE  /\ run'[q] = [st |-> run'[q].st, from |-> run'[q].from, history |-> run'[q].history]
             /\ run'[q].st \in Begun \cup {"none"}
  <2>1. CASE q = r
    BY <1>4, <1>5, <2>1 DEF Begun
  <2>2. CASE q # r
    BY <1>4, <2>2 DEF TurnTypes
  <2>. QED  BY <2>1, <2>2
<1>8. TurnTypes'
  BY <1>1, <1>6, <1>7 DEF TurnTypes, Idle
<1>. QED  BY <1>1, <1>2, <1>4, <1>5, <1>8 DEF k, r

\* A message ends or starts work on one run at most, and writes a command at most.
LEMMA MessageMoves ==
    ASSUME SessionTypes, DaemonHandle
    PROVE  /\ TurnTypes' /\ RunsMove /\ Forgets
           /\ c2d # <<>> /\ c2d' = Tail(c2d)
           /\ LoopKeeps \/ (OnAgentRequest /\ (loop'.at # "idle" => loop'.req = Head(c2d).id))
<1>1. c2d # <<>> /\ c2d' = Tail(c2d)
  BY DEF DaemonHandle, OnAgentRequest, OnCancelRequest, OnNewSession, OnLoadSession, OnCommandResult,
         OnCompactRequest, Ignore, Receive
<1>2. From \in Conns /\ TurnTypes
  BY <1>1, HeadMessage DEF SessionTypes, Messages, From
<1>3. CASE OnAgentRequest
  <2>1. Head(c2d).id \in Requests
    BY <1>1, <1>3, HeadMessage DEF OnAgentRequest, Receive, SessionTypes, LinkTypes
  <2>2. \/ StartCompaction(From, Head(c2d).id)
        \/ loop' = [at |-> "request", from |-> From, req |-> Head(c2d).id] /\ Head(c2d).id # NoRequest
    BY <1>3, <2>1, RequestAssumption DEF OnAgentRequest
  <2>3. UNCHANGED <<run, rx>>
    BY <1>3 DEF OnAgentRequest
  <2>. QED  BY <1>1, <1>2, <1>3, <2>1, <2>2, <2>3, StartMoves
<1>4. CASE OnCompactRequest
  <2>1. TurnTypes' /\ RunsMove /\ Forgets /\ (loop'.at # "idle" => loop'.req = NoRequest)
    BY <1>2, <1>4, StartMoves DEF OnCompactRequest
  <2>. QED  BY <1>1, <2>1, RequestAssumption DEF LoopKeeps
<1>5. CASE OnCancelRequest
  BY <1>1, <1>2, <1>5, Cleared DEF OnCancelRequest
<1>6. CASE OnNewSession \/ OnLoadSession \/ OnCommandResult \/ Ignore
  <2>1. UNCHANGED <<run, rx, loop>>
    BY <1>6 DEF OnNewSession, OnLoadSession, OnCommandResult, Ignore, turnVars
  <2>. QED  BY <1>1, <1>2, <2>1, TurnsStay
<1>. QED  BY <1>3, <1>4, <1>5, <1>6 DEF DaemonHandle

----------------------------------------------------------------------------
(* What a step does to the store.                                          *)

\* The event a returned agent leaves, of one that was awaited.
Outcome(r) == Ev(IF run[r].st = "returned" THEN "answer" ELSE "error", r)

\* Every step keeps the rows that are there; what it adds is a prompt that
\* begins, a command that arrives or the outcome of a run.
LEMMA StoreStep ==
    ASSUME SessionTypes, Next
    PROVE  /\ StoreTypes' /\ Len(stored) <= Len(stored')
           /\ \/ AddsNone
              \/ BeginRun /\ Adds(Ev("prompt", loop.req))
              \/ OnCommandResult /\ Adds(Ev("command", Head(c2d).id))
              \/ \E k \in Conns : Collect(k) /\ Adds(Outcome(rx[k]))
<1>1. CASE UNCHANGED storeVars
  BY <1>1, NothingWritten DEF SessionTypes
<1>2. CASE OnNewSession
  BY <1>2, NewSessionWritten
<1>3. CASE OnLoadSession
  BY <1>3, LoadSessionWritten
<1>4. CASE CompactDone
  <2>1. loop.from \in Conns /\ StoreTypes
    BY <1>4 DEF CompactDone, SessionTypes, TurnTypes, Idle
  <2>2. Len(stored) + 1 \in Nat
    BY <2>1 DEF StoreTypes
  <2>3. PICK e : e = Ev("summary", Len(stored) + 1)
    OBVIOUS
  <2>4. e \in Rows /\ e.type \notin Kinds /\ PersistAndRestart(loop.from, e)
    BY <1>4, <2>2, <2>3 DEF CompactDone, Ev, Rows, Kinds
  <2>. QED  BY <2>1, <2>4, Restarted
<1>5. CASE BeginRun
  <2>1. loop.from \in Conns /\ loop.req \in Requests /\ StoreTypes
    BY <1>5, BeginMoves DEF SessionTypes
  <2>2. PICK e : e = Ev("prompt", loop.req)
    OBVIOUS
  <2>3. e \in Rows /\ EnsureAndPersist(loop.from, e)
    BY <1>5, <2>1, <2>2 DEF BeginRun, Ev, Rows, Kinds
  <2>4. StoreTypes' /\ Len(stored) <= Len(stored') /\ Adds(e)
    BY <2>1, <2>3, Persisted
  <2>. QED  BY <1>5, <2>2, <2>4
<1>6. CASE OnCommandResult
  <2>1. From \in Conns /\ StoreTypes /\ Head(c2d).id \in Nat
    <3>1. c2d # <<>> /\ Head(c2d).type = "CommandResult"
      BY <1>6 DEF OnCommandResult, Receive
    <3>. QED  BY <3>1, HeadMessage DEF SessionTypes, LinkTypes, Messages, From
  <2>2. PICK e : e = Ev("command", Head(c2d).id)
    OBVIOUS
  <2>3. e \in Rows /\ EnsureAndPersist(From, e)
    BY <1>6, <2>1, <2>2 DEF OnCommandResult, Ev, Rows, Kinds
  <2>4. StoreTypes' /\ Len(stored) <= Len(stored') /\ Adds(e)
    BY <2>1, <2>3, Persisted
  <2>. QED  BY <1>6, <2>2, <2>4
<1>7. ASSUME NEW k \in Conns, Collect(k)
      PROVE  StoreTypes' /\ Len(stored) <= Len(stored') /\ Adds(Outcome(rx[k]))
  <2>1. rx[k] \in Requests /\ StoreTypes
    BY <1>7 DEF SessionTypes, TurnTypes, Collect, Returned
  <2>2. PICK e : e = Outcome(rx[k])
    OBVIOUS
  <2>3. e \in Rows /\ EnsureAndPersist(k, e)
    BY <1>7, <2>1, <2>2 DEF Collect, Install, Outcome, Ev, Rows, Kinds
  <2>4. StoreTypes' /\ Len(stored) <= Len(stored') /\ Adds(e)
    BY <2>1, <2>3, Persisted
  <2>. QED  BY <2>2, <2>4
<1>8. ASSUME NEW r \in Requests, RunStep(r) PROVE UNCHANGED storeVars
  BY <1>8, RunMoves DEF SessionTypes
<1>9. CASE OnAgentRequest \/ OnCancelRequest \/ OnCompactRequest \/ Ignore \/ CompactFail \/ ConfigReload
  BY <1>1, <1>9 DEF OnAgentRequest, OnCancelRequest, OnCompactRequest, Ignore, CompactFail, ConfigReload
<1>10. ASSUME NEW k, CleanupStale(k) PROVE UNCHANGED storeVars
  BY <1>10 DEF CleanupStale
<1>11. CASE Disconnect \/ ClientStop \/ DaemonStop \/ Reconnect
  BY <1>1, <1>11 DEF Disconnect, ClientStop, LinkDown, DaemonStop, Reconnect
<1>. QED  BY <1>1, <1>2, <1>3, <1>4, <1>5, <1>6, <1>7, <1>8, <1>9, <1>10, <1>11
          DEF Next, TurnStep, LoopStep, DaemonHandle

----------------------------------------------------------------------------
(* What a step does to the daemon's channel.                               *)

\* What the daemon is still to read is a part of what it was to read.
Window ==
    /\ c2d' \in Seq(Messages)
    /\ \E d \in Nat : \A i \in 1 .. Len(c2d') : i + d \in 1 .. Len(c2d) /\ c2d'[i] = c2d[i + d]

\* One message is sent; prompts and commands are new.
Sends(m) ==
    /\ c2d' = Append(c2d, m) /\ m \in Messages /\ m.from = conn'
    /\ m.type = "AgentRequest"  => m.id \in Requests \ asked /\ m.id \in asked'
    /\ m.type = "LoadSession"   => m.id \in 1 .. Len(stored)
    /\ m.type = "CommandResult" => m.id = inputs + 1 /\ inputs' = inputs + 1

\* What the client knows of its own inputs.
Inputs ==
    /\ asked \subseteq asked' /\ inputs' \in Nat /\ inputs <= inputs'
    /\ active' \in Requests \cup {NoRequest, CompactionId}

\* The channel is left alone.
LEMMA ChannelStays == LinkTypes /\ c2d' = c2d => Window
<1>. SUFFICES ASSUME LinkTypes, c2d' = c2d PROVE Window
  OBVIOUS
<1>1. c2d' \in Seq(Messages) /\ Len(c2d) \in Nat /\ Len(c2d') = Len(c2d)
  BY DEF LinkTypes
<1>2. \A i \in 1 .. Len(c2d') : i + 0 \in 1 .. Len(c2d) /\ c2d'[i] = c2d[i + 0]
  BY <1>1
<1>. QED  BY <1>1, <1>2 DEF Window

\* A message is read.
LEMMA ChannelRead == LinkTypes /\ c2d # <<>> /\ c2d' = Tail(c2d) => Window
<1>. SUFFICES ASSUME LinkTypes, c2d # <<>>, c2d' = Tail(c2d) PROVE Window
  OBVIOUS
<1>1. c2d' \in Seq(Messages) /\ \A i \in 1 .. Len(c2d') : i + 1 \in 1 .. Len(c2d) /\ c2d'[i] = c2d[i + 1]
  BY HeadMessage
<1>. QED  BY <1>1 DEF Window

\* A part of what the client sent is lost.
LEMMA ChannelCut == ASSUME LinkTypes, NEW n \in 0 .. Len(c2d), c2d' = SubSeq(c2d, 1, n) PROVE Window
<1>1. c2d \in Seq(Messages) /\ Len(c2d) \in Nat
  BY DEF LinkTypes
<1>2. c2d' \in Seq(Messages) /\ Len(c2d') = n /\ \A i \in 1 .. n : c2d'[i] = c2d[i]
  BY <1>1
<1>3. \A i \in 1 .. Len(c2d') : i + 0 \in 1 .. Len(c2d) /\ c2d'[i] = c2d[i + 0]
  BY <1>1, <1>2
<1>. QED  BY <1>2, <1>3 DEF Window

\* The user's inputs number messages.
LEMMA UserSends ==
    ASSUME SessionTypes, UserStep, UNCHANGED linkVars
    PROVE  Inputs /\ (Window \/ \E m : Sends(m))
<1>0. LinkTypes /\ conn' = conn
  BY DEF SessionTypes, linkVars
<1>1. Inputs
  BY <1>0 DEF UserStep, Submit, PressEsc, RunCommand, Clear, Compact, Pick, Input, Inputs, LinkTypes
<1>2. ASSUME NEW type \in Types, NEW id \in Ids, ToDaemon(type, id),
             type = "AgentRequest"  => id \in Requests \ asked /\ id \in asked',
             type = "LoadSession"   => id \in 1 .. Len(stored),
             type = "CommandResult" => id = inputs + 1 /\ inputs' = inputs + 1
      PROVE  Window \/ \E m : Sends(m)
  <2>1. CASE up
    <3>1. PICK m : m = [type |-> type, id |-> id, from |-> conn]
      OBVIOUS
    <3>2. m \in Messages /\ m.type = type /\ m.id = id /\ m.from = conn'
      BY <1>0, <3>1 DEF Messages, LinkTypes
    <3>3. c2d' = Append(c2d, m)
      BY <1>2, <2>1, <3>1 DEF ToDaemon
    <3>4. Sends(m)
      BY <1>2, <3>2, <3>3 DEF Sends
    <3>. QED  BY <3>4
  <2>2. CASE ~ up
    BY <1>0, <1>2, <2>2, ChannelStays DEF ToDaemon
  <2>. QED  BY <2>1, <2>2
<1>3. ASSUME NEW r \in Requests, Submit(r) PROVE Window \/ \E m : Sends(m)
  <2>1. "AgentRequest" \in Types /\ ToDaemon("AgentRequest", r) /\ r \in Ids /\ r \in Requests \ asked /\ r \in asked'
    BY <1>3 DEF Submit, Ids, Types
  <2>. QED  BY <1>2, <2>1
<1>4. CASE PressEsc
  <2>1. "CancelRequest" \in Types /\ ToDaemon("CancelRequest", active) /\ active \in Ids
    BY <1>0, <1>4 DEF PressEsc, Ids, Types, LinkTypes
  <2>. QED  BY <1>1, <1>2, <2>1
<1>5. CASE RunCommand
  <2>1. PICK n : n = inputs + 1
    OBVIOUS
  <2>2. "CommandResult" \in Types /\ ToDaemon("CommandResult", n) /\ n \in Ids /\ n = inputs + 1 /\ inputs' = inputs + 1
    BY <1>0, <1>5, <2>1 DEF RunCommand, Input, Ids, Types, LinkTypes
  <2>. QED  BY <1>1, <1>2, <2>2
<1>6. CASE Clear
  <2>1. "NewSession" \in Types /\ ToDaemon("NewSession", NoSession) /\ NoSession \in Ids
    BY <1>6 DEF Clear, Ids, Types, NoSession
  <2>. QED  BY <1>1, <1>2, <2>1
<1>7. CASE Compact
  <2>1. "CompactRequest" \in Types /\ ToDaemon("CompactRequest", CompactionId) /\ CompactionId \in Ids
    BY <1>7 DEF Compact, Ids, Types
  <2>. QED  BY <1>1, <1>2, <2>1
<1>8. ASSUME NEW s \in 1 .. Len(stored), Pick(s) PROVE Window \/ \E m : Sends(m)
  <2>1. s \in Ids /\ "LoadSession" \in Types
    BY DEF SessionTypes, StoreTypes, Ids, Types
  <2>. QED  BY <1>2, <1>8, <2>1 DEF Pick
<1>. QED  BY <1>1, <1>3, <1>4, <1>5, <1>6, <1>7, <1>8 DEF UserStep

\* Only the handlers of messages read them.
LEMMA TurnReads == ASSUME SessionTypes, TurnStep PROVE DaemonHandle \/ c2d' = c2d
<1>1. ASSUME NEW r \in Requests, RunStep(r) PROVE c2d' = c2d
  BY <1>1, RunMoves DEF SessionTypes
<1>2. CASE BeginRun \/ CompactDone \/ CompactFail \/ ConfigReload \/ \E k \in Conns : Collect(k)
  BY <1>2 DEF BeginRun, CompactDone, CompactFail, ConfigReload, Collect, Install
<1>3. ASSUME NEW k, CleanupStale(k) PROVE c2d' = c2d
  BY <1>3 DEF CleanupStale
<1>. QED  BY <1>1, <1>2, <1>3 DEF TurnStep, LoopStep

\* Every step reads, cuts or extends the channel.
LEMMA ChannelStep ==
    ASSUME SessionTypes, Next
    PROVE  Inputs /\ (Window \/ \E m : Sends(m)) /\ conn' \in Conns /\ conn <= conn'
<1>0. LinkTypes /\ MaxConns \in Nat
  BY BoundAssumption DEF SessionTypes
<1>1. CASE TurnStep /\ UNCHANGED <<clientVars, linkVars>>
  <2>1. Inputs /\ conn' \in Conns /\ conn <= conn'
    BY <1>0, <1>1 DEF Inputs, clientVars, linkVars, LinkTypes, Conns
  <2>2. CASE DaemonHandle
    BY <1>0, <2>1, <2>2, MessageMoves, ChannelRead
  <2>. QED  BY <1>0, <1>1, <2>1, <2>2, TurnReads, ChannelStays
<1>2. CASE ClientStep /\ UNCHANGED <<storeVars, turnVars, linkVars>>
  <2>1. conn' \in Conns /\ conn <= conn'
    BY <1>0, <1>2 DEF linkVars, LinkTypes, Conns
  <2>2. CASE HandleMessage
    <3>1. c2d' = c2d /\ Inputs
      BY <1>0, <2>2 DEF HandleMessage, HandleComplete, HandleError, HandleCreated, HandleCompactionStarted,
                        HandleCompactionComplete, Inputs, LinkTypes
    <3>. QED  BY <1>0, <2>1, <3>1, ChannelStays
  <2>3. CASE UserStep
    BY <1>2, <2>1, <2>3, UserSends
  <2>. QED  BY <1>2, <2>2, <2>3 DEF ClientStep
<1>3. CASE Disconnect \/ ClientStop
  <2>1. PICK n \in 0 .. Len(c2d) : c2d' = SubSeq(c2d, 1, n)
    BY <1>3 DEF Disconnect, ClientStop, LinkDown
  <2>2. Inputs /\ conn' \in Conns /\ conn <= conn'
    BY <1>0, <1>3 DEF Disconnect, ClientStop, LinkDown, Inputs, LinkTypes, clientVars, Conns
  <2>. QED  BY <1>0, <2>1, <2>2, ChannelCut
<1>4. CASE DaemonStop
  <2>1. c2d' = <<>> /\ Inputs /\ conn' \in Conns /\ conn <= conn'
    BY <1>0, <1>4 DEF DaemonStop, Inputs, LinkTypes, clientVars, Conns
  <2>2. Window
    BY <2>1 DEF Window
  <2>. QED  BY <2>1, <2>2
<1>5. CASE Reconnect
  <2>1. Inputs /\ conn' \in Conns /\ conn <= conn'
    BY <1>0, <1>5 DEF Reconnect, Inputs, LinkTypes, clientVars, Conns
  <2>2. CASE view = NoSession
    BY <1>0, <1>5, <2>1, <2>2, ChannelStays DEF Reconnect
  <2>3. CASE view # NoSession
    <3>1. PICK m : m = [type |-> "LoadSession", id |-> view, from |-> conn']
      OBVIOUS
    <3>2. view \in 1 .. Len(stored) /\ view \in Nat
      BY <1>0, <2>3 DEF LinkTypes, NoSession, SessionTypes, StoreTypes
    <3>3. m \in Messages /\ m.type = "LoadSession" /\ m.id = view /\ m.from = conn'
      BY <2>1, <3>1, <3>2 DEF Messages, Ids, Types
    <3>4. Sends(m)
      BY <1>5, <2>3, <3>1, <3>2, <3>3 DEF Reconnect, Sends
    <3>. QED  BY <2>1, <3>4
  <2>. QED  BY <2>2, <2>3
<1>. QED  BY <1>1, <1>2, <1>3, <1>4, <1>5 DEF Next

----------------------------------------------------------------------------
(* Where sessions are shown.                                               *)

\* A client session that is known, or that the main loop works for, moves.
SessionMoves ==
    \E k \in Conns, v \in 1 .. Len(stored') :
        /\ k \in sess \/ (loop.at # "idle" /\ k = loop.from)
        /\ sid' = [sid EXCEPT ![k] = v]

\* Every step leaves the client sessions or moves one.
LEMMA SidStep == ASSUME SessionTypes, Next PROVE UNCHANGED sid \/ SessionMoves
<1>0. StoreTypes /\ LinkTypes /\ TurnTypes /\ Len(stored) \in Nat
  BY DEF SessionTypes, StoreTypes
<1>1. CASE OnNewSession \/ OnLoadSession \/ OnCommandResult
  <2>1. From \in Conns /\ From \in sess
    <3>1. c2d # <<>> /\ From \in sess
      BY <1>1 DEF OnNewSession, OnLoadSession, OnCommandResult, Receive
    <3>. QED  BY <1>0, <3>1, HeadMessage DEF Messages, From
  <2>2. CASE OnNewSession
    <3>1. Len(stored) + 1 \in 1 .. Len(stored')
      BY <1>0, <2>2, NewSessionWritten
    <3>. QED  BY <2>1, <2>2, <3>1 DEF OnNewSession, SessionMoves
  <2>3. CASE OnLoadSession
    <3>1. Head(c2d).id \in 1 .. Len(stored')
      BY <1>0, <2>3, LoadSessionWritten DEF OnLoadSession
    <3>. QED  BY <2>1, <2>3, <3>1 DEF OnLoadSession, SessionMoves
  <2>4. CASE OnCommandResult
    <3>1. PICK e : e = Ev("command", Head(c2d).id)
      OBVIOUS
    <3>2. e \in Rows /\ EnsureAndPersist(From, e)
      <4>1. c2d # <<>> /\ Head(c2d).type = "CommandResult"
        BY <2>4 DEF OnCommandResult, Receive
      <4>2. Head(c2d).id \in Nat
        BY <1>0, <4>1, HeadMessage DEF LinkTypes
      <4>. QED  BY <2>4, <3>1, <4>2 DEF OnCommandResult, Ev, Rows, Kinds
    <3>3. sid' = [sid EXCEPT ![From] = EnsuredId(From)] /\ EnsuredId(From) \in 1 .. Len(stored')
      BY <1>0, <2>1, <3>2, Persisted
    <3>. QED  BY <2>1, <3>3 DEF SessionMoves
  <2>. QED  BY <1>1, <2>2, <2>3, <2>4
<1>2. CASE CompactDone
  <2>1. loop.from \in Conns /\ loop.at # "idle"
    BY <1>0, <1>2 DEF CompactDone, TurnTypes, Idle
  <2>2. PICK e : e = Ev("summary", Len(stored) + 1)
    OBVIOUS
  <2>3. e \in Rows /\ e.type \notin Kinds /\ PersistAndRestart(loop.from, e)
    BY <1>0, <1>2, <2>2 DEF CompactDone, Ev, Rows, Kinds
  <2>4. sid' = [sid EXCEPT ![loop.from] = Len(stored) + 1] /\ Len(stored) + 1 \in 1 .. Len(stored')
    BY <1>0, <2>1, <2>3, Restarted
  <2>. QED  BY <2>1, <2>4 DEF SessionMoves
<1>3. CASE BeginRun
  <2>1. loop.from \in Conns /\ loop.req \in Requests /\ loop.at # "idle"
    BY <1>0, <1>3, BeginMoves DEF BeginRun
  <2>2. PICK e : e = Ev("prompt", loop.req)
    OBVIOUS
  <2>3. e \in Rows /\ EnsureAndPersist(loop.from, e)
    BY <1>3, <2>1, <2>2 DEF BeginRun, Ev, Rows, Kinds
  <2>4. sid' = [sid EXCEPT ![loop.from] = EnsuredId(loop.from)] /\ EnsuredId(loop.from) \in 1 .. Len(stored')
    BY <1>0, <2>1, <2>3, Persisted
  <2>. QED  BY <2>1, <2>4 DEF SessionMoves
<1>4. ASSUME NEW k \in Conns, Collect(k) PROVE UNCHANGED sid
  <2>1. rx[k] \in Requests /\ sid[k] # NoSession
    BY <1>0, <1>4 DEF TurnTypes, LinkTypes, Collect, Returned
  <2>2. sid' = [sid EXCEPT ![k] = sid[k]]
    BY <1>4, <2>1 DEF Collect, Install, EnsureAndPersist, EnsuredId
  <2>. QED  BY <1>0, <2>2 DEF StoreTypes
<1>5. ASSUME NEW r \in Requests, RunStep(r) PROVE UNCHANGED sid
  BY <1>0, <1>5, RunMoves DEF storeVars
<1>6. CASE OnAgentRequest \/ OnCancelRequest \/ OnCompactRequest \/ Ignore \/ CompactFail \/ ConfigReload
  BY <1>6 DEF OnAgentRequest, OnCancelRequest, OnCompactRequest, Ignore, CompactFail, ConfigReload, storeVars
<1>7. ASSUME NEW k, CleanupStale(k) PROVE UNCHANGED sid
  BY <1>7 DEF CleanupStale, storeVars
<1>8. CASE Disconnect \/ ClientStop \/ DaemonStop \/ Reconnect
  BY <1>8 DEF Disconnect, ClientStop, LinkDown, DaemonStop, Reconnect, storeVars
<1>9. CASE ClientStep /\ UNCHANGED <<storeVars, turnVars, linkVars>>
  BY <1>9 DEF storeVars
<1>. QED  BY <1>1, <1>2, <1>3, <1>4, <1>5, <1>6, <1>7, <1>8, <1>9 DEF Next, TurnStep, LoopStep, DaemonHandle

\* Frames that say nothing of sessions, and frames that announce one.
Silent(fs) == \A i \in 1 .. Len(fs) : fs[i].type # "SessionCreated"

Announces(fs, d) ==
    \E j \in 1 .. Len(fs) :
        /\ fs[j].type = "SessionCreated" /\ fs[j].id = d
        /\ \A i \in 1 .. Len(fs) : i # j => fs[i].type # "SessionCreated"

\* The client is told of the session it is in whenever that changes.
Tells ==
    \E fs \in Seq(Frames) :
        /\ d2c' = d2c \o fs /\ (~ up => fs = <<>>)
        /\ \/ Silent(fs) /\ (up => sid'[conn] = sid[conn])
           \/ Announces(fs, sid'[conn]) /\ sid'[conn] # NoSession

\* Frames go to the client if the connection is the one they are for.
LEMMA SentTells ==
    ASSUME StoreTypes, LinkTypes, NEW k, NEW F \in Seq(Frames), d2c' = Sent(k, F),
           \/ sid' = sid /\ Silent(F)
           \/ \E v : v # NoSession /\ sid' = [sid EXCEPT ![k] = v] /\ Announces(F, v)
    PROVE  Tells
<1>1. conn \in Conns /\ sid \in [Conns -> 0 .. Len(stored)] /\ d2c \in Seq(Frames)
  BY DEF StoreTypes, LinkTypes
<1>2. CASE up /\ conn = k
  <2>1. d2c' = d2c \o F
    BY <1>2 DEF Sent
  <2>2. \/ Silent(F) /\ (up => sid'[conn] = sid[conn])
        \/ Announces(F, sid'[conn]) /\ sid'[conn] # NoSession
    BY <1>1, <1>2
  <2>. QED  BY <1>2, <2>1, <2>2 DEF Tells
<1>3. CASE ~ (up /\ conn = k)
  <2>1. <<>> \in Seq(Frames) /\ Silent(<<>>) /\ d2c' = d2c
    BY <1>3 DEF Sent, Silent
  <2>2. d2c' = d2c \o <<>>
    BY <1>1, <2>1
  <2>3. up => sid'[conn] = sid[conn]
    BY <1>1, <1>3
  <2>. QED  BY <2>1, <2>2, <2>3 DEF Tells
<1>. QED  BY <1>2, <1>3

\* One frame of another kind is silent; one that creates a session announces it.
LEMMA FrameKinds ==
    /\ \A t \in {"AgentComplete", "Error", "CompactionStarted", "CompactionComplete"}, x \in Ids :
          <<Frame(t, x)>> \in Seq(Frames) /\ Silent(<<Frame(t, x)>>)
    /\ \A s \in Nat : <<Frame("SessionCreated", s)>> \in Seq(Frames) /\ Announces(<<Frame("SessionCreated", s)>>, s)
<1>1. ASSUME NEW t \in {"AgentComplete", "Error", "CompactionStarted", "CompactionComplete"}, NEW x \in Ids
      PROVE  <<Frame(t, x)>> \in Seq(Frames) /\ Silent(<<Frame(t, x)>>)
  <2>1. Frame(t, x) \in Frames /\ Frame(t, x).type # "SessionCreated"
    BY DEF Frame, Frames
  <2>. QED  BY <2>1 DEF Silent
<1>2. ASSUME NEW s \in Nat
      PROVE  <<Frame("SessionCreated", s)>> \in Seq(Frames) /\ Announces(<<Frame("SessionCreated", s)>>, s)
  <2>1. /\ Frame("SessionCreated", s) \in Frames
        /\ Frame("SessionCreated", s).type = "SessionCreated" /\ Frame("SessionCreated", s).id = s
    BY DEF Frame, Frames, Ids
  <2>. QED  BY <2>1 DEF Announces
<1>. QED  BY <1>1, <1>2

\* An event that is persisted is announced when it is the first of its session.
LEMMA AnnounceTells ==
    ASSUME StoreTypes, LinkTypes, NEW k \in Conns, NEW e \in Rows, EnsureAndPersist(k, e), d2c' = Sent(k, Announce(k))
    PROVE  Tells
<1>1. sid' = [sid EXCEPT ![k] = EnsuredId(k)] /\ EnsuredId(k) \in 1 .. Len(stored') /\ StoreTypes'
  BY Persisted
<1>2. EnsuredId(k) \in Nat /\ EnsuredId(k) # NoSession
  BY <1>1 DEF StoreTypes, NoSession
<1>3. CASE seq[k] = 0
  <2>1. Announce(k) = <<Frame("SessionCreated", EnsuredId(k))>>
    BY <1>3 DEF Announce
  <2>2. Announce(k) \in Seq(Frames) /\ Announces(Announce(k), EnsuredId(k))
    BY <1>2, <2>1, FrameKinds
  <2>. QED  BY <1>1, <1>2, <2>2, SentTells
<1>4. CASE seq[k] # 0
  <2>1. Announce(k) = <<>>
    BY <1>4 DEF Announce
  <2>2. Announce(k) \in Seq(Frames) /\ Silent(Announce(k))
    BY <2>1 DEF Silent
  <2>3. sid' = sid
    BY <1>1, <1>4 DEF StoreTypes, EnsuredId
  <2>. QED  BY <2>2, <2>3, SentTells
<1>. QED  BY <1>3, <1>4

\* What the daemon does, the client is told of.
LEMMA TurnTells == ASSUME SessionTypes, TurnStep PROVE Tells
<1>0. StoreTypes /\ LinkTypes /\ TurnTypes /\ Len(stored) \in Nat
  BY DEF SessionTypes, StoreTypes
<1>1. ASSUME sid' = sid, d2c' = d2c PROVE Tells
  <2>1. d2c' = Sent(0, <<>>)
    BY <1>0, <1>1 DEF Sent, LinkTypes
  <2>2. <<>> \in Seq(Frames) /\ Silent(<<>>)
    BY DEF Silent
  <2>. QED  BY <1>0, <1>1, <2>1, <2>2, SentTells
<1>2. ASSUME NEW k, NEW t \in {"AgentComplete", "Error", "CompactionStarted", "CompactionComplete"}, NEW x \in Ids,
             sid' = sid, d2c' = Sent(k, <<Frame(t, x)>>)
      PROVE  Tells
  BY <1>0, <1>2, FrameKinds, SentTells
<1>3. ASSUME NEW r \in Requests, RunStep(r) PROVE Tells
  <2>1. sid' = sid /\ r \in Ids
    BY <1>0, <1>3, RunMoves DEF storeVars, Ids
  <2>2. CASE Answer(r)
    BY <1>2, <2>1, <2>2 DEF Answer, Finish
  <2>3. CASE Fail(r)
    BY <1>2, <2>1, <2>3 DEF Fail, Finish
  <2>4. CASE Return(r) \/ Drop(r)
    BY <1>1, <2>1, <2>4 DEF Return, Drop
  <2>. QED  BY <1>3, <2>2, <2>3, <2>4 DEF RunStep, RunEnds
<1>4. ASSUME NEW k \in Conns, NEW r, StartCompaction(k, r), sid' = sid PROVE Tells
  <2>1. CompactionId \in Ids
    BY DEF Ids
  <2>2. d2c' = d2c \/ d2c' = Sent(k, <<Frame("CompactionStarted", CompactionId)>>)
    BY <1>4 DEF StartCompaction
  <2>. QED  BY <1>1, <1>2, <1>4, <2>1, <2>2
<1>5. CASE DaemonHandle
  <2>1. Head(c2d) \in Messages /\ From \in Conns /\ Head(c2d).id \in Ids /\ c2d # <<>>
    BY <1>0, <1>5, MessageMoves, HeadMessage DEF Messages, From
  <2>2. CASE OnAgentRequest
    <3>1. sid' = sid
      BY <2>2 DEF OnAgentRequest, storeVars
    <3>2. StartCompaction(From, Head(c2d).id) \/ d2c' = d2c
      BY <2>2 DEF OnAgentRequest
    <3>. QED  BY <1>1, <1>4, <2>1, <3>1, <3>2
  <2>3. CASE OnCompactRequest
    BY <1>4, <2>1, <2>3 DEF OnCompactRequest, storeVars
  <2>4. CASE OnCancelRequest
    BY <1>2, <2>1, <2>4 DEF OnCancelRequest, storeVars
  <2>5. CASE OnNewSession
    <3>1. PICK s : s = Len(stored) + 1
      OBVIOUS
    <3>2. s \in Nat /\ s # NoSession /\ sid' = [sid EXCEPT ![From] = s]
          /\ d2c' = Sent(From, <<Frame("SessionCreated", s)>>)
      BY <1>0, <2>5, <3>1 DEF OnNewSession, NoSession
    <3>. QED  BY <1>0, <2>1, <3>2, FrameKinds, SentTells
  <2>6. CASE OnLoadSession
    <3>1. PICK s : s = Head(c2d).id
      OBVIOUS
    <3>2. s \in 1 .. Len(stored)
      BY <1>0, <2>6, <3>1, LoadSessionWritten DEF OnLoadSession
    <3>3. s \in Nat /\ s # NoSession /\ sid' = [sid EXCEPT ![From] = s]
          /\ d2c' = Sent(From, <<Frame("SessionCreated", s)>>)
      BY <1>0, <2>6, <3>1, <3>2 DEF OnLoadSession, NoSession
    <3>. QED  BY <1>0, <2>1, <3>3, FrameKinds, SentTells
  <2>7. CASE OnCommandResult
    <3>1. PICK e : e = Ev("command", Head(c2d).id)
      OBVIOUS
    <3>2. Head(c2d).id \in Nat
      <4>1. Head(c2d).type = "CommandResult"
        BY <2>7 DEF OnCommandResult, Receive
      <4>. QED  BY <1>0, <2>1, <4>1, HeadMessage DEF LinkTypes
    <3>3. e \in Rows /\ EnsureAndPersist(From, e) /\ d2c' = Sent(From, Announce(From))
      BY <2>7, <3>1, <3>2 DEF OnCommandResult, Ev, Rows, Kinds
    <3>. QED  BY <1>0, <2>1, <3>3, AnnounceTells
  <2>8. CASE Ignore
    BY <1>1, <2>8 DEF Ignore, storeVars
  <2>. QED  BY <1>5, <2>2, <2>3, <2>4, <2>5, <2>6, <2>7, <2>8 DEF DaemonHandle
<1>6. CASE BeginRun
  <2>1. loop.from \in Conns /\ loop.req \in Requests
    BY <1>0, <1>6, BeginMoves
  <2>2. PICK e : e = Ev("prompt", loop.req)
    OBVIOUS
  <2>3. e \in Rows /\ EnsureAndPersist(loop.from, e) /\ d2c' = Sent(loop.from, Announce(loop.from))
    BY <1>6, <2>1, <2>2 DEF BeginRun, Ev, Rows, Kinds
  <2>. QED  BY <1>0, <2>1, <2>3, AnnounceTells
<1>7. CASE CompactDone
  <2>1. PICK s : s = Len(stored) + 1
    OBVIOUS
  <2>2. PICK F : F = <<Frame("AgentComplete", CompactionId), Frame("SessionCreated", s),
                       Frame("CompactionComplete", CompactionId)>>
    OBVIOUS
  <2>3. s \in Nat /\ s # NoSession /\ sid' = [sid EXCEPT ![loop.from] = s] /\ d2c' = Sent(loop.from, F)
    BY <1>0, <1>7, <2>1, <2>2 DEF CompactDone, PersistAndRestart, NoSession
  <2>4. /\ Frame("AgentComplete", CompactionId) \in Frames
        /\ Frame("SessionCreated", s) \in Frames
        /\ Frame("CompactionComplete", CompactionId) \in Frames
    BY <2>3 DEF Frame, Frames, Ids
  <2>5. F \in Seq(Frames) /\ Len(F) = 3
    BY <2>2, <2>4
  <2>6. /\ F[1] = Frame("AgentComplete", CompactionId)
        /\ F[2] = Frame("SessionCreated", s)
        /\ F[3] = Frame("CompactionComplete", CompactionId)
    BY <2>2
  <2>7. F[1].type # "SessionCreated" /\ F[3].type # "SessionCreated" /\ F[2].type = "SessionCreated" /\ F[2].id = s
    BY <2>6 DEF Frame
  <2>8. Announces(F, s)
    BY <2>5, <2>7 DEF Announces
  <2>. QED  BY <1>0, <2>3, <2>5, <2>8, SentTells
<1>8. CASE CompactFail
  <2>1. CompactionId \in Ids
    BY DEF Ids
  <2>. QED  BY <1>2, <1>8, <2>1 DEF CompactFail, storeVars
<1>9. ASSUME NEW k \in Conns, Collect(k) PROVE Tells
  <2>1. rx[k] \in Requests /\ sid[k] # NoSession
    BY <1>0, <1>9 DEF TurnTypes, LinkTypes, Collect, Returned
  <2>2. sid' = [sid EXCEPT ![k] = sid[k]] /\ d2c' = d2c
    BY <1>9, <2>1 DEF Collect, Install, EnsureAndPersist, EnsuredId
  <2>3. sid' = sid
    BY <1>0, <2>2 DEF StoreTypes
  <2>. QED  BY <1>1, <2>2, <2>3
<1>10. CASE ConfigReload
  BY <1>1, <1>10 DEF ConfigReload, storeVars
<1>11. ASSUME NEW k, CleanupStale(k) PROVE Tells
  BY <1>1, <1>11 DEF CleanupStale, storeVars
<1>. QED  BY <1>3, <1>5, <1>6, <1>7, <1>8, <1>9, <1>10, <1>11 DEF TurnStep, LoopStep

\* The client takes the first frame, and shows the session it names.
HandledFrame ==
    /\ d2c # <<>> /\ d2c' = Tail(d2c)
    /\ view' = IF Head(d2c).type = "SessionCreated" THEN Head(d2c).id ELSE view

\* Frames arrive in order, after those that are there, or not at all.
LEMMA FrameStep ==
    ASSUME SessionTypes, Next
    PROVE  \/ Tells /\ UNCHANGED view
           \/ HandledFrame /\ UNCHANGED sid
           \/ d2c' = <<>> /\ ~ up' /\ view' \in {view, NoSession}
           \/ UNCHANGED <<d2c, sid, view>>
<1>1. CASE TurnStep /\ UNCHANGED <<clientVars, linkVars>>
  BY <1>1, TurnTells DEF clientVars
<1>2. CASE ClientStep /\ UNCHANGED <<storeVars, turnVars, linkVars>>
  <2>1. CASE HandleMessage
    <3>1. HandledFrame
      BY <2>1 DEF HandleMessage, HandleComplete, HandleError, HandleCreated, HandleCompactionStarted,
                  HandleCompactionComplete, Deliver, HandledFrame
    <3>. QED  BY <1>2, <3>1 DEF storeVars
  <2>2. CASE UserStep
    <3>1. d2c' = d2c /\ view' = view
      BY <2>2 DEF UserStep, Submit, PressEsc, RunCommand, Clear, Compact, Pick
    <3>. QED  BY <1>2, <3>1 DEF storeVars
  <2>. QED  BY <1>2, <2>1, <2>2 DEF ClientStep
<1>3. CASE Disconnect \/ ClientStop \/ DaemonStop
  BY <1>3 DEF Disconnect, ClientStop, DaemonStop, LinkDown, clientVars
<1>4. CASE Reconnect
  BY <1>4 DEF Reconnect, storeVars, clientVars
<1>. QED  BY <1>1, <1>2, <1>3, <1>4 DEF Next

----------------------------------------------------------------------------
(* Every state is one of these.                                            *)

\* A step of any kind moves the turns on, unless it begins a run.
LEMMA TurnMoves ==
    ASSUME SessionTypes, Next
    PROVE  /\ TurnTypes'
           /\ \/ BeginRun
              \/ /\ RunsMove /\ Forgets
                 /\ LoopKeeps \/ (OnAgentRequest /\ (loop'.at # "idle" => loop'.req = Head(c2d).id))
<1>0. TurnTypes
  BY DEF SessionTypes
<1>1. ASSUME NEW r \in Requests, RunStep(r) PROVE TurnTypes' /\ RunsMove /\ Forgets /\ LoopKeeps
  BY <1>0, <1>1, RunMoves
<1>2. CASE DaemonHandle
  BY <1>2, MessageMoves
<1>3. CASE BeginRun
  BY <1>0, <1>3, BeginMoves
<1>4. CASE CompactDone \/ CompactFail
  BY <1>0, <1>4, CompactionMoves
<1>5. ASSUME NEW k \in Conns, Collect(k) PROVE TurnTypes' /\ RunsMove /\ Forgets /\ LoopKeeps
  BY <1>0, <1>5, Cleared DEF Collect, Install
<1>6. CASE ConfigReload
  BY <1>0, <1>6, TurnsStay DEF ConfigReload
<1>7. ASSUME NEW k \in sess, CleanupStale(k) PROVE TurnTypes' /\ RunsMove /\ Forgets /\ LoopKeeps
  <2>1. rx' = [rx EXCEPT ![k] = NoRequest] /\ UNCHANGED <<run, loop>>
    BY <1>7 DEF CleanupStale
  <2>2. CASE k \in Conns
    BY <1>0, <2>1, <2>2, Cleared
  <2>3. CASE k \notin Conns
    <3>1. rx' = rx
      BY <1>0, <2>1, <2>3 DEF TurnTypes
    <3>. QED  BY <1>0, <2>1, <3>1, TurnsStay
  <2>. QED  BY <2>2, <2>3
<1>8. CASE DaemonStop
  BY <1>0, <1>8, StopMoves
<1>9. CASE (ClientStep /\ UNCHANGED <<storeVars, turnVars, linkVars>>) \/ Disconnect \/ ClientStop \/ Reconnect
  <2>1. UNCHANGED <<run, rx, loop>>
    BY <1>9 DEF Disconnect, ClientStop, LinkDown, Reconnect, turnVars
  <2>. QED  BY <1>0, <2>1, TurnsStay
<1>. QED  BY <1>1, <1>2, <1>3, <1>4, <1>5, <1>6, <1>7, <1>8, <1>9 DEF Next, TurnStep, LoopStep

\* Frames name sessions that are there.
LEMMA FrameNames ==
    ASSUME SessionTypes, Next, StoreTypes', Len(stored) <= Len(stored')
    PROVE  /\ view' \in 0 .. Len(stored') /\ d2c' \in Seq(Frames)
           /\ \A i \in 1 .. Len(d2c') : d2c'[i].type = "SessionCreated" => d2c'[i].id \in 1 .. Len(stored')
<1>0. /\ LinkTypes /\ Len(stored) \in Nat /\ Len(stored') \in Nat
      /\ d2c \in Seq(Frames) /\ Len(d2c) \in Nat /\ conn \in Conns
  BY DEF SessionTypes, StoreTypes, LinkTypes
<1>1. CASE Tells /\ UNCHANGED view
  <2>1. PICK fs \in Seq(Frames) :
          /\ d2c' = d2c \o fs
          /\ Silent(fs) \/ (Announces(fs, sid'[conn]) /\ sid'[conn] # NoSession)
    BY <1>1 DEF Tells
  <2>2. sid'[conn] \in 0 .. Len(stored')
    BY <1>0 DEF StoreTypes
  <2>3. ASSUME NEW i \in 1 .. Len(fs), fs[i].type = "SessionCreated" PROVE fs[i].id \in 1 .. Len(stored')
    BY <1>0, <2>1, <2>2, <2>3 DEF Silent, Announces, NoSession
  <2>4. d2c' \in Seq(Frames) /\ Len(d2c') = Len(d2c) + Len(fs) /\ Len(fs) \in Nat
    BY <1>0, <2>1, ConcatProperties
  <2>5. \A i \in 1 .. Len(d2c') : d2c'[i] = IF i <= Len(d2c) THEN d2c[i] ELSE fs[i - Len(d2c)]
    BY <1>0, <2>1, ConcatProperties
  <2>6. ASSUME NEW i \in 1 .. Len(d2c'), d2c'[i].type = "SessionCreated" PROVE d2c'[i].id \in 1 .. Len(stored')
    <3>1. CASE i <= Len(d2c)
      <4>1. i \in 1 .. Len(d2c) /\ d2c'[i] = d2c[i]
        BY <1>0, <2>4, <2>5, <3>1
      <4>2. d2c[i].id \in 1 .. Len(stored)
        BY <1>0, <2>6, <4>1 DEF LinkTypes
      <4>. QED  BY <1>0, <4>1, <4>2
    <3>2. CASE ~ (i <= Len(d2c))
      <4>1. i - Len(d2c) \in 1 .. Len(fs) /\ d2c'[i] = fs[i - Len(d2c)]
        BY <1>0, <2>4, <2>5, <3>2
      <4>. QED  BY <2>3, <2>6, <4>1
    <3>. QED  BY <3>1, <3>2
  <2>7. view' \in 0 .. Len(stored')
    BY <1>0, <1>1 DEF LinkTypes
  <2>. QED  BY <2>4, <2>6, <2>7
<1>2. CASE HandledFrame /\ UNCHANGED sid
  <2>1. d2c # <<>> /\ d2c' = Tail(d2c)
    BY <1>2 DEF HandledFrame
  <2>2. Len(d2c) \in Nat \ {0} /\ Head(d2c) = d2c[1] /\ 1 \in 1 .. Len(d2c)
    BY <1>0, <2>1, EmptySeq
  <2>3. /\ d2c' \in Seq(Frames) /\ Len(d2c') = Len(d2c) - 1
        /\ \A i \in 1 .. Len(d2c') : d2c'[i] = d2c[i + 1] /\ i + 1 \in 1 .. Len(d2c)
    BY <1>0, <2>1, <2>2, HeadTailProperties
  <2>4. \A i \in 1 .. Len(d2c') : d2c'[i].type = "SessionCreated" => d2c'[i].id \in 1 .. Len(stored)
    BY <1>0, <2>3 DEF LinkTypes
  <2>5. view' \in 0 .. Len(stored)
    BY <1>0, <1>2, <2>2 DEF HandledFrame, LinkTypes
  <2>. QED  BY <1>0, <2>3, <2>4, <2>5
<1>3. CASE d2c' = <<>> /\ view' \in {view, NoSession}
  BY <1>0, <1>3 DEF LinkTypes, NoSession
<1>4. CASE UNCHANGED <<d2c, sid, view>>
  BY <1>0, <1>4 DEF LinkTypes
<1>. QED  BY <1>1, <1>2, <1>3, <1>4, FrameStep

\* Who awaits a run goes on having a session.
LEMMA AwaitedHasSession ==
    ASSUME SessionTypes, Next, StoreTypes', TurnTypes'
    PROVE  \A k \in Conns : rx'[k] # NoRequest => sid'[k] # NoSession
<1>0. TurnTypes /\ StoreTypes /\ \A k \in Conns : rx[k] # NoRequest => sid[k] # NoSession
  BY DEF SessionTypes, LinkTypes
<1>1. \A k \in Conns : sid[k] # NoSession => sid'[k] # NoSession
  BY <1>0, SidStep DEF SessionMoves, StoreTypes, NoSession
<1>2. CASE BeginRun
  <2>1. rx' = [rx EXCEPT ![loop.from] = loop.req] /\ loop.from \in Conns /\ loop.req \in Requests
    BY <1>0, <1>2, BeginMoves
  <2>2. PICK e : e = Ev("prompt", loop.req)
    OBVIOUS
  <2>3. e \in Rows /\ EnsureAndPersist(loop.from, e)
    BY <1>2, <2>1, <2>2 DEF BeginRun, Ev, Rows, Kinds
  <2>4. sid' = [sid EXCEPT ![loop.from] = EnsuredId(loop.from)] /\ EnsuredId(loop.from) \in 1 .. Len(stored')
    BY <1>0, <2>1, <2>3, Persisted
  <2>5. sid'[loop.from] # NoSession
    BY <1>0, <2>1, <2>4 DEF StoreTypes, NoSession
  <2>. QED  BY <1>0, <1>1, <2>1, <2>5 DEF TurnTypes
<1>3. CASE Forgets
  BY <1>0, <1>1, <1>3 DEF Forgets
<1>. QED  BY <1>2, <1>3, TurnMoves

\* Messages name prompts, sessions and commands that are there.
LEMMA MessageNames ==
    ASSUME SessionTypes, Next, StoreTypes', Len(stored) <= Len(stored')
    PROVE  /\ c2d' \in Seq(Messages)
           /\ \A i \in 1 .. Len(c2d') :
                 /\ c2d'[i].type = "AgentRequest"  => c2d'[i].id \in Requests
                 /\ c2d'[i].type = "LoadSession"   => c2d'[i].id \in 1 .. Len(stored')
                 /\ c2d'[i].type = "CommandResult" => c2d'[i].id \in 1 .. inputs'
<1>0. /\ LinkTypes /\ Len(stored) \in Nat /\ Len(stored') \in Nat /\ c2d \in Seq(Messages) /\ Len(c2d) \in Nat
      /\ inputs \in Nat /\ inputs' \in Nat /\ inputs <= inputs'
  BY ChannelStep DEF SessionTypes, StoreTypes, LinkTypes, Inputs
<1>1. \A i \in 1 .. Len(c2d) :
        /\ c2d[i].type = "AgentRequest"  => c2d[i].id \in Requests
        /\ c2d[i].type = "LoadSession"   => c2d[i].id \in 1 .. Len(stored')
        /\ c2d[i].type = "CommandResult" => c2d[i].id \in 1 .. inputs'
  BY <1>0 DEF LinkTypes
<1>2. CASE Window
  BY <1>1, <1>2 DEF Window
<1>3. ASSUME NEW m, Sends(m)
      PROVE  /\ c2d' \in Seq(Messages)
             /\ \A i \in 1 .. Len(c2d') :
                   /\ c2d'[i].type = "AgentRequest"  => c2d'[i].id \in Requests
                   /\ c2d'[i].type = "LoadSession"   => c2d'[i].id \in 1 .. Len(stored')
                   /\ c2d'[i].type = "CommandResult" => c2d'[i].id \in 1 .. inputs'
  <2>1. c2d' = Append(c2d, m) /\ m \in Messages
    BY <1>3 DEF Sends
  <2>2. /\ c2d' \in Seq(Messages) /\ Len(c2d') = Len(c2d) + 1
        /\ \A i \in 1 .. Len(c2d') : c2d'[i] = IF i <= Len(c2d) THEN c2d[i] ELSE m
    BY <1>0, <2>1, AppendProperties
  <2>3. /\ m.type = "AgentRequest"  => m.id \in Requests
        /\ m.type = "LoadSession"   => m.id \in 1 .. Len(stored')
        /\ m.type = "CommandResult" => m.id \in 1 .. inputs'
    BY <1>0, <1>3 DEF Sends
  <2>4. \A i \in 1 .. Len(c2d') : i <= Len(c2d) => i \in 1 .. Len(c2d)
    BY <1>0, <2>2
  <2>. QED  BY <1>1, <2>2, <2>3, <2>4
<1>. QED  BY <1>2, <1>3, ChannelStep

\* Types are kept.
LEMMA TypesStep ==
    ASSUME SessionTypes, [Next]_vars
    PROVE  SessionTypes'
<1>1. CASE Next
  <2>1. StoreTypes' /\ Len(stored) <= Len(stored')
    BY <1>1, StoreStep
  <2>2. TurnTypes'
    BY <1>1, TurnMoves
  <2>3. conn' \in Conns /\ inputs' \in Nat /\ active' \in Requests \cup {NoRequest, CompactionId}
    BY <1>1, ChannelStep DEF Inputs
  <2>4. LinkTypes'
    BY <1>1, <2>1, <2>2, <2>3, FrameNames, AwaitedHasSession, MessageNames DEF LinkTypes, Conns
  <2>. QED  BY <2>1, <2>2, <2>4 DEF SessionTypes
<1>2. CASE UNCHANGED vars
  BY <1>2 DEF vars, storeVars, turnVars, clientVars, linkVars, SessionTypes, StoreTypes, TurnTypes, LinkTypes
<1>. QED  BY <1>1, <1>2

\* Types hold at first.
LEMMA TypesInit == Init => SessionTypes
<1>. SUFFICES ASSUME Init PROVE SessionTypes
  OBVIOUS
<1>0. 1 \in Conns
  BY BoundAssumption DEF Conns
<1>1. StoreTypes
  BY DEF Init, StoreInit, StoreTypes, NoSession
<1>2. TurnTypes
  <2>1. rx \in [Conns -> Requests \cup {NoRequest}] /\ loop = Idle /\ DOMAIN run = Requests
    BY DEF Init, TurnInit
  <2>2. ASSUME NEW r \in Requests
        PROVE  /\ run[r] = [st |-> run[r].st, from |-> run[r].from, history |-> run[r].history]
               /\ run[r].st \in Begun \cup {"none"}
    <3>1. run[r] = [st |-> "none", from |-> 0, history |-> <<>>]
      BY DEF Init, TurnInit
    <3>. QED  BY <3>1
  <2>. QED  BY <2>1, <2>2 DEF TurnTypes, Idle
<1>3. LinkTypes
  <2>1. conn \in Conns /\ inputs \in Nat /\ active \in Requests \cup {NoRequest, CompactionId} /\ view = 0
    BY <1>0 DEF Init, ClientInit, NoSession
  <2>2. stored = <<>> /\ d2c = <<>> /\ c2d = <<>> /\ \A k \in Conns : rx[k] = NoRequest
    BY DEF Init, StoreInit, TurnInit
  <2>3. Len(stored) = 0 /\ d2c \in Seq(Frames) /\ Len(d2c) = 0 /\ c2d \in Seq(Messages) /\ Len(c2d) = 0
    BY <2>2
  <2>. QED  BY <2>1, <2>2, <2>3 DEF LinkTypes
<1>. QED  BY <1>1, <1>2, <1>3 DEF SessionTypes

\* Every state has its types.
LEMMA Typed == Spec => []SessionTypes
  BY TypesInit, TypesStep, PTL DEF Spec

----------------------------------------------------------------------------
(* Nothing is stored twice.                                                *)

\* The main loop works for the prompt r.
AwaitsRun(r) == loop.at # "idle" /\ loop.req = r

\* A prompt is in one place: not yet sent, on its way, in the hands of the main
\* loop, or with its task, which one session at most awaits; a command is on its
\* way once.
OnceInv ==
    /\ \A r \in Requests : run[r].st # "none" \/ AwaitsRun(r) => r \in asked
    /\ \A r \in Requests : AwaitsRun(r) => run[r].st = "none"
    /\ \A i \in 1 .. Len(c2d) :
          c2d[i].type = "AgentRequest" =>
              c2d[i].id \in asked /\ run[c2d[i].id].st = "none" /\ ~ AwaitsRun(c2d[i].id)
    /\ \A i, j \in 1 .. Len(c2d) :
          /\ c2d[i].type \in {"AgentRequest", "CommandResult"}
          /\ c2d[j].type = c2d[i].type /\ c2d[j].id = c2d[i].id
          => i = j
    /\ \A k \in Conns : rx[k] # NoRequest => run[rx[k]].from = k /\ run[rx[k]].st # "none"

\* The clauses of OnceInv, for a run that begins.
LEMMA OnceRuns ==
    ASSUME SessionTypes, OnceInv, Next
    PROVE  /\ \A r \in Requests : run'[r].st # "none" \/ AwaitsRun(r)' => r \in asked'
           /\ \A r \in Requests : AwaitsRun(r)' => run'[r].st = "none"
           /\ \A k \in Conns : rx'[k] # NoRequest => run'[rx'[k]].from = k /\ run'[rx'[k]].st # "none"
<1>0. TurnTypes /\ LinkTypes /\ TurnTypes' /\ asked \subseteq asked'
  BY TurnMoves, ChannelStep DEF SessionTypes, Inputs
<1>1. CASE BeginRun
  <2>1. /\ loop.from \in Conns /\ loop.req \in Requests /\ loop' = Idle
        /\ rx' = [rx EXCEPT ![loop.from] = loop.req]
        /\ run'[loop.req].st = "running" /\ run'[loop.req].from = loop.from
        /\ \A q \in Requests \ {loop.req} : run'[q] = run[q]
    BY <1>0, <1>1, BeginMoves
  <2>2. AwaitsRun(loop.req)
    BY <1>1 DEF BeginRun, AwaitsRun
  <2>3. loop.req \in asked /\ run[loop.req].st = "none"
    BY <2>1, <2>2 DEF OnceInv
  <2>4. \A r \in Requests : ~ AwaitsRun(r)'
    BY <2>1 DEF AwaitsRun, Idle
  <2>5. ASSUME NEW k \in Conns, rx'[k] # NoRequest PROVE run'[rx'[k]].from = k /\ run'[rx'[k]].st # "none"
    <3>1. CASE k = loop.from
      BY <1>0, <2>1, <3>1 DEF TurnTypes
    <3>2. CASE k # loop.from
      <4>1. rx'[k] = rx[k] /\ rx[k] \in Requests
        BY <1>0, <2>1, <2>5, <3>2 DEF TurnTypes
      <4>2. run[rx[k]].from = k /\ run[rx[k]].st # "none"
        BY <2>5, <4>1 DEF OnceInv
      <4>. QED  BY <2>1, <2>3, <4>1, <4>2
    <3>. QED  BY <3>1, <3>2
  <2>6. ASSUME NEW r \in Requests, run'[r].st # "none" PROVE r \in asked'
    BY <1>0, <2>1, <2>3, <2>6 DEF OnceInv
  <2>. QED  BY <2>4, <2>5, <2>6
<1>2. CASE RunsMove /\ Forgets /\ (LoopKeeps \/ (OnAgentRequest /\ (loop'.at # "idle" => loop'.req = Head(c2d).id)))
  <2>1. ASSUME NEW r \in Requests, AwaitsRun(r)' PROVE r \in asked /\ run[r].st = "none"
    <3>1. CASE LoopKeeps
      BY <2>1, <3>1 DEF LoopKeeps, AwaitsRun, OnceInv
    <3>2. CASE OnAgentRequest /\ (loop'.at # "idle" => loop'.req = Head(c2d).id)
      <4>1. c2d # <<>> /\ Head(c2d).type = "AgentRequest" /\ Head(c2d).id = r
        BY <2>1, <3>2 DEF OnAgentRequest, Receive, AwaitsRun
      <4>2. 1 \in 1 .. Len(c2d) /\ c2d[1].type = "AgentRequest" /\ c2d[1].id = r
        BY <1>0, <4>1, HeadMessage
      <4>. QED  BY <4>2 DEF OnceInv
    <3>. QED  BY <1>2, <3>1, <3>2
  <2>2. ASSUME NEW r \in Requests, run'[r].st # "none" PROVE r \in asked
    BY <1>2, <2>2 DEF RunsMove, OnceInv
  <2>3. ASSUME NEW r \in Requests, AwaitsRun(r)' PROVE run'[r].st = "none"
    BY <1>2, <2>1, <2>3 DEF RunsMove
  <2>4. ASSUME NEW k \in Conns, rx'[k] # NoRequest PROVE run'[rx'[k]].from = k /\ run'[rx'[k]].st # "none"
    <3>1. rx'[k] = rx[k] /\ rx[k] \in Requests
      BY <1>0, <1>2, <2>4 DEF Forgets, TurnTypes
    <3>2. run[rx[k]].from = k /\ run[rx[k]].st # "none"
      BY <2>4, <3>1 DEF OnceInv
    <3>. QED  BY <1>2, <3>1, <3>2 DEF RunsMove
  <2>. QED  BY <1>0, <2>1, <2>2, <2>3, <2>4
<1>. QED  BY <1>1, <1>2, TurnMoves

\* What is on its way was, or is new.
LEMMA OnceMessages ==
    ASSUME SessionTypes, OnceInv, Next
    PROVE  /\ \A i \in 1 .. Len(c2d') : c2d'[i].type = "AgentRequest" => c2d'[i].id \in asked'
           /\ \A i, j \in 1 .. Len(c2d') :
                 /\ c2d'[i].type \in {"AgentRequest", "CommandResult"}
                 /\ c2d'[j].type = c2d'[i].type /\ c2d'[j].id = c2d'[i].id
                 => i = j
<1>0. LinkTypes /\ asked \subseteq asked' /\ inputs \in Nat /\ c2d \in Seq(Messages) /\ Len(c2d) \in Nat
  BY ChannelStep DEF SessionTypes, LinkTypes, Inputs
<1>1. CASE Window
  <2>1. PICK d \in Nat : \A i \in 1 .. Len(c2d') : i + d \in 1 .. Len(c2d) /\ c2d'[i] = c2d[i + d]
    BY <1>1 DEF Window
  <2>2. ASSUME NEW i \in 1 .. Len(c2d'), c2d'[i].type = "AgentRequest" PROVE c2d'[i].id \in asked'
    BY <1>0, <2>1, <2>2 DEF OnceInv
  <2>3. ASSUME NEW i \in 1 .. Len(c2d'), NEW j \in 1 .. Len(c2d'),
               c2d'[i].type \in {"AgentRequest", "CommandResult"},
               c2d'[j].type = c2d'[i].type, c2d'[j].id = c2d'[i].id
        PROVE  i = j
    <3>1. i + d \in 1 .. Len(c2d) /\ j + d \in 1 .. Len(c2d) /\ c2d'[i] = c2d[i + d] /\ c2d'[j] = c2d[j + d]
      BY <2>1
    <3>2. i + d = j + d
      BY <2>3, <3>1 DEF OnceInv
    <3>. QED  BY <3>2
  <2>. QED  BY <2>2, <2>3
<1>2. ASSUME NEW m, Sends(m)
      PROVE  /\ \A i \in 1 .. Len(c2d') : c2d'[i].type = "AgentRequest" => c2d'[i].id \in asked'
             /\ \A i, j \in 1 .. Len(c2d') :
                   /\ c2d'[i].type \in {"AgentRequest", "CommandResult"}
                   /\ c2d'[j].type = c2d'[i].type /\ c2d'[j].id = c2d'[i].id
                   => i = j
  <2>1. c2d' = Append(c2d, m) /\ m \in Messages
    BY <1>2 DEF Sends
  <2>2. /\ Len(c2d') = Len(c2d) + 1
        /\ \A i \in 1 .. Len(c2d') : c2d'[i] = IF i <= Len(c2d) THEN c2d[i] ELSE m
    BY <1>0, <2>1, AppendProperties
  <2>3. /\ m.type = "AgentRequest" => m.id \notin asked /\ m.id \in asked'
        /\ m.type = "CommandResult" => m.id = inputs + 1
    BY <1>2 DEF Sends
  <2>4. ASSUME NEW i \in 1 .. Len(c2d), c2d[i].type \in {"AgentRequest", "CommandResult"}, c2d[i].type = m.type
        PROVE  c2d[i].id # m.id
    <3>1. CASE c2d[i].type = "AgentRequest"
      BY <2>3, <2>4, <3>1 DEF OnceInv
    <3>2. CASE c2d[i].type = "CommandResult"
      <4>1. c2d[i].id \in 1 .. inputs
        BY <1>0, <3>2 DEF LinkTypes
      <4>. QED  BY <1>0, <2>3, <2>4, <3>2, <4>1
    <3>. QED  BY <2>4, <3>1, <3>2
  <2>5. ASSUME NEW i \in 1 .. Len(c2d'), c2d'[i].type = "AgentRequest" PROVE c2d'[i].id \in asked'
    <3>1. CASE i <= Len(c2d)
      <4>1. i \in 1 .. Len(c2d) /\ c2d'[i] = c2d[i]
        BY <1>0, <2>2, <3>1
      <4>. QED  BY <1>0, <2>5, <4>1 DEF OnceInv
    <3>2. CASE ~ (i <= Len(c2d))
      BY <2>2, <2>3, <2>5, <3>2
    <3>. QED  BY <3>1, <3>2
  <2>6. ASSUME NEW i \in 1 .. Len(c2d'), NEW j \in 1 .. Len(c2d'),
               c2d'[i].type \in {"AgentRequest", "CommandResult"},
               c2d'[j].type = c2d'[i].type, c2d'[j].id = c2d'[i].id
        PROVE  i = j
    <3>0. c2d'[i] = (IF i <= Len(c2d) THEN c2d[i] ELSE m) /\ c2d'[j] = (IF j <= Len(c2d) THEN c2d[j] ELSE m)
      BY <2>2
    <3>1. CASE i <= Len(c2d) /\ j <= Len(c2d)
      <4>1. i \in 1 .. Len(c2d) /\ j \in 1 .. Len(c2d)
        BY <1>0, <2>2, <3>1
      <4>. QED  BY <2>6, <3>0, <3>1, <4>1 DEF OnceInv
    <3>2. CASE i <= Len(c2d) /\ ~ (j <= Len(c2d))
      <4>1. i \in 1 .. Len(c2d)
        BY <1>0, <2>2, <3>2
      <4>. QED  BY <2>4, <2>6, <3>0, <3>2, <4>1
    <3>3. CASE ~ (i <= Len(c2d)) /\ j <= Len(c2d)
      <4>1. j \in 1 .. Len(c2d)
        BY <1>0, <2>2, <3>3
      <4>. QED  BY <2>4, <2>6, <3>0, <3>3, <4>1
    <3>4. CASE ~ (i <= Len(c2d)) /\ ~ (j <= Len(c2d))
      BY <1>0, <2>2, <3>4
    <3>. QED  BY <3>1, <3>2, <3>3, <3>4
  <2>. QED  BY <2>5, <2>6
<1>. QED  BY <1>1, <1>2, ChannelStep

\* A prompt on its way has no run yet.
LEMMA OnceUnbegun ==
    ASSUME SessionTypes, OnceInv, Next, NEW i \in 1 .. Len(c2d'), c2d'[i].type = "AgentRequest"
    PROVE  run'[c2d'[i].id].st = "none" /\ ~ (loop'.at # "idle" /\ loop'.req = c2d'[i].id)
<1>0. TurnTypes /\ LinkTypes /\ c2d \in Seq(Messages) /\ Len(c2d) \in Nat
  BY DEF SessionTypes, LinkTypes
<1>. DEFINE r == c2d'[i].id
<1>1. r \in Requests
  BY TypesStep DEF SessionTypes, LinkTypes
<1>2. /\ run[r].st = "none" /\ ~ AwaitsRun(r)
      /\ c2d' = Tail(c2d) /\ c2d # <<>> => r # Head(c2d).id \/ Head(c2d).type # "AgentRequest"
  <2>1. CASE Window /\ ~ (c2d' = Tail(c2d) /\ c2d # <<>>)
    <3>1. PICK d \in Nat : i + d \in 1 .. Len(c2d) /\ c2d'[i] = c2d[i + d]
      BY <2>1 DEF Window
    <3>. QED  BY <2>1, <3>1 DEF OnceInv
  <2>2. CASE c2d' = Tail(c2d) /\ c2d # <<>>
    <3>1. /\ c2d'[i] = c2d[i + 1] /\ i + 1 \in 1 .. Len(c2d) /\ 1 \in 1 .. Len(c2d) /\ Head(c2d) = c2d[1]
          /\ i \in Nat \ {0}
      BY <1>0, <2>2, HeadMessage
    <3>2. i + 1 # 1
      BY <3>1
    <3>. QED  BY <3>1, <3>2 DEF OnceInv
  <2>3. ASSUME NEW m, Sends(m), ~ (c2d' = Tail(c2d) /\ c2d # <<>>) PROVE run[r].st = "none" /\ ~ AwaitsRun(r)
    <3>1. c2d' = Append(c2d, m) /\ m \in Messages
      BY <2>3 DEF Sends
    <3>2. Len(c2d') = Len(c2d) + 1 /\ c2d'[i] = IF i <= Len(c2d) THEN c2d[i] ELSE m
      BY <1>0, <3>1, AppendProperties
    <3>3. CASE i <= Len(c2d)
      <4>1. i \in 1 .. Len(c2d) /\ c2d'[i] = c2d[i]
        BY <1>0, <3>2, <3>3
      <4>. QED  BY <4>1 DEF OnceInv
    <3>4. CASE ~ (i <= Len(c2d))
      <4>1. r \in Requests \ asked
        BY <2>3, <3>2, <3>4 DEF Sends
      <4>. QED  BY <4>1 DEF OnceInv
    <3>. QED  BY <3>3, <3>4
  <2>. QED  BY <2>1, <2>2, <2>3, ChannelStep
<1>. HIDE DEF r
<1>3. run'[r].st = "none"
  <2>1. CASE BeginRun
    <3>1. loop.req \in Requests /\ \A q \in Requests \ {loop.req} : run'[q] = run[q]
      BY <1>0, <2>1, BeginMoves
    <3>2. loop.req # r
      BY <1>2, <2>1 DEF BeginRun, AwaitsRun
    <3>. QED  BY <1>1, <1>2, <3>1, <3>2
  <2>2. CASE RunsMove
    BY <1>1, <1>2, <2>2 DEF RunsMove
  <2>. QED  BY <2>1, <2>2, TurnMoves
<1>4. ~ (loop'.at # "idle" /\ loop'.req = r)
  <2>1. CASE BeginRun
    BY <1>0, <2>1, BeginMoves DEF AwaitsRun, Idle
  <2>2. CASE LoopKeeps
    BY <1>1, <1>2, <2>2 DEF LoopKeeps, AwaitsRun
  <2>3. CASE OnAgentRequest /\ (loop'.at # "idle" => loop'.req = Head(c2d).id)
    <3>1. c2d # <<>> /\ c2d' = Tail(c2d) /\ Head(c2d).type = "AgentRequest"
      BY <2>3 DEF OnAgentRequest, Receive
    <3>. QED  BY <1>2, <2>3, <3>1 DEF AwaitsRun
  <2>. QED  BY <2>1, <2>2, <2>3, TurnMoves
<1>. QED  BY <1>3, <1>4 DEF r

\* OnceInv is kept.
LEMMA OnceStep == ASSUME SessionTypes, OnceInv, [Next]_vars PROVE OnceInv'
<1>1. CASE Next
  <2>1. \A i \in 1 .. Len(c2d') :
          c2d'[i].type = "AgentRequest" =>
              /\ c2d'[i].id \in asked' /\ run'[c2d'[i].id].st = "none"
              /\ ~ (loop'.at # "idle" /\ loop'.req = c2d'[i].id)
    BY <1>1, OnceMessages, OnceUnbegun
  <2>2. \A i, j \in 1 .. Len(c2d') :
          /\ c2d'[i].type \in {"AgentRequest", "CommandResult"}
          /\ c2d'[j].type = c2d'[i].type /\ c2d'[j].id = c2d'[i].id
          => i = j
    BY <1>1, OnceMessages
  <2>. QED  BY <1>1, <2>1, <2>2, OnceRuns DEF OnceInv, AwaitsRun
<1>2. CASE UNCHANGED vars
  BY <1>2 DEF vars, turnVars, clientVars, OnceInv, AwaitsRun
<1>. QED  BY <1>1, <1>2

\* A prompt in the store has begun; an outcome is that of an agent that is back
\* and that nobody awaits; a command is no longer on its way.
RowOk(e) ==
    /\ e.type \in {"prompt", "answer", "error"} => e.id \in Requests /\ run[e.id].st # "none"
    /\ e.type \in {"answer", "error"} => run[e.id].st \in Back /\ \A k \in Conns : rx[k] # e.id
    /\ e.type = "command" =>
          e.id \in 1 .. inputs /\ \A i \in 1 .. Len(c2d) : c2d[i].type = "CommandResult" => c2d[i].id # e.id

RowInv == \A s \in DOMAIN stored : \A i \in DOMAIN stored[s] : RowOk(stored[s][i])

UniqueInv ==
    \A s, u \in DOMAIN stored : \A i \in DOMAIN stored[s], j \in DOMAIN stored[u] :
        stored[s][i] = stored[u][j] /\ stored[s][i].type \in Kinds => s = u /\ i = j

\* What a row says stays so.
LEMMA RowKept ==
    ASSUME SessionTypes, OnceInv, Next, NEW e, RowOk(e)
    PROVE  RowOk(e)'
<1>0. TurnTypes /\ LinkTypes /\ inputs \in Nat /\ inputs' \in Nat /\ inputs <= inputs'
      /\ c2d \in Seq(Messages) /\ Len(c2d) \in Nat
  BY ChannelStep DEF SessionTypes, LinkTypes, Inputs
<1>1. ASSUME e.type \in {"prompt", "answer", "error"} PROVE e.id \in Requests /\ run'[e.id].st # "none"
  <2>1. e.id \in Requests /\ run[e.id].st # "none"
    BY <1>1 DEF RowOk
  <2>2. CASE BeginRun
    BY <1>0, <2>1, <2>2, BeginMoves
  <2>3. CASE RunsMove
    BY <2>1, <2>3 DEF RunsMove
  <2>. QED  BY <2>1, <2>2, <2>3, TurnMoves
<1>2. ASSUME e.type \in {"answer", "error"} PROVE run'[e.id].st \in Back /\ \A k \in Conns : rx'[k] # e.id
  <2>1. e.id \in Requests /\ run[e.id].st \in Back /\ \A k \in Conns : rx[k] # e.id
    BY <1>2 DEF RowOk
  <2>2. CASE BeginRun
    <3>1. /\ loop.req \in Requests /\ loop.from \in Conns /\ rx' = [rx EXCEPT ![loop.from] = loop.req]
          /\ \A q \in Requests \ {loop.req} : run'[q] = run[q]
      BY <1>0, <2>2, BeginMoves
    <3>2. run[loop.req].st = "none"
      BY <2>2, <3>1 DEF BeginRun, AwaitsRun, OnceInv
    <3>3. loop.req # e.id
      BY <2>1, <3>2 DEF Back
    <3>4. \A k \in Conns : rx'[k] # e.id
      BY <1>0, <2>1, <3>1, <3>3 DEF TurnTypes
    <3>. QED  BY <2>1, <3>1, <3>3, <3>4
  <2>3. CASE RunsMove /\ Forgets
    BY <2>1, <2>3, RequestAssumption DEF RunsMove, Forgets
  <2>. QED  BY <2>2, <2>3, TurnMoves
<1>3. ASSUME e.type = "command"
      PROVE  e.id \in 1 .. inputs' /\ \A i \in 1 .. Len(c2d') : c2d'[i].type = "CommandResult" => c2d'[i].id # e.id
  <2>1. e.id \in 1 .. inputs /\ \A i \in 1 .. Len(c2d) : c2d[i].type = "CommandResult" => c2d[i].id # e.id
    BY <1>3 DEF RowOk
  <2>2. e.id \in 1 .. inputs'
    BY <1>0, <2>1
  <2>3. CASE Window
    BY <2>1, <2>2, <2>3 DEF Window
  <2>4. ASSUME NEW m, Sends(m), NEW i \in 1 .. Len(c2d'), c2d'[i].type = "CommandResult" PROVE c2d'[i].id # e.id
    <3>1. c2d' = Append(c2d, m) /\ m \in Messages
      BY <2>4 DEF Sends
    <3>2. Len(c2d') = Len(c2d) + 1 /\ c2d'[i] = IF i <= Len(c2d) THEN c2d[i] ELSE m
      BY <1>0, <3>1, AppendProperties
    <3>3. CASE i <= Len(c2d)
      <4>1. i \in 1 .. Len(c2d) /\ c2d'[i] = c2d[i]
        BY <1>0, <3>2, <3>3
      <4>. QED  BY <2>1, <2>4, <4>1
    <3>4. CASE ~ (i <= Len(c2d))
      <4>1. m.type = "CommandResult" /\ c2d'[i] = m
        BY <2>4, <3>2, <3>4
      <4>2. m.id = inputs + 1
        BY <2>4, <4>1 DEF Sends
      <4>. QED  BY <1>0, <2>1, <4>1, <4>2
    <3>. QED  BY <3>3, <3>4
  <2>. QED  BY <2>2, <2>3, <2>4, ChannelStep
<1>. QED  BY <1>1, <1>2, <1>3 DEF RowOk

\* What is written is not there yet, and is as a row is to be.
NewRow(e) == Adds(e) /\ ~ RowOk(e) /\ RowOk(e)'

\* Every step writes nothing or a new row.
LEMMA RowWritten ==
    ASSUME SessionTypes, OnceInv, Next
    PROVE  AddsNone \/ \E e : e.type \in Kinds /\ NewRow(e)
<1>0. /\ TurnTypes /\ LinkTypes /\ TurnTypes' /\ LinkTypes' /\ inputs \in Nat /\ inputs' \in Nat /\ inputs <= inputs'
      /\ c2d \in Seq(Messages) /\ Len(c2d) \in Nat
  BY TypesStep, ChannelStep DEF SessionTypes, LinkTypes, Inputs
<1>1. ASSUME BeginRun, Adds(Ev("prompt", loop.req)) PROVE \E e : e.type \in Kinds /\ NewRow(e)
  <2>1. PICK e : e = Ev("prompt", loop.req)
    OBVIOUS
  <2>2. e.type = "prompt" /\ e.id = loop.req
    BY <2>1 DEF Ev
  <2>3. loop.req \in Requests /\ run'[loop.req].st = "running"
    BY <1>0, <1>1, BeginMoves
  <2>4. run[loop.req].st = "none"
    BY <1>1, <2>3 DEF BeginRun, AwaitsRun, OnceInv
  <2>5. ~ RowOk(e)
    BY <2>2, <2>4 DEF RowOk
  <2>6. RowOk(e)'
    BY <2>2, <2>3 DEF RowOk
  <2>7. Adds(e) /\ e.type \in Kinds
    BY <1>1, <2>1, <2>2 DEF Kinds
  <2>. QED  BY <2>5, <2>6, <2>7 DEF NewRow
<1>2. ASSUME OnCommandResult, Adds(Ev("command", Head(c2d).id)) PROVE \E e : e.type \in Kinds /\ NewRow(e)
  <2>1. PICK e : e = Ev("command", Head(c2d).id)
    OBVIOUS
  <2>2. c2d # <<>> /\ Head(c2d).type = "CommandResult" /\ c2d' = Tail(c2d)
    BY <1>2 DEF OnCommandResult, Receive
  <2>3. /\ 1 \in 1 .. Len(c2d) /\ Head(c2d) = c2d[1]
        /\ \A i \in 1 .. Len(c2d') : c2d'[i] = c2d[i + 1] /\ i + 1 \in 1 .. Len(c2d)
    BY <1>0, <2>2, HeadMessage
  <2>4. e.type = "command" /\ e.id = c2d[1].id /\ c2d[1].type = "CommandResult"
    BY <2>1, <2>2, <2>3 DEF Ev
  <2>5. ~ RowOk(e)
    BY <2>3, <2>4 DEF RowOk
  <2>6. e.id \in 1 .. inputs'
    <3>1. e.id \in 1 .. inputs
      BY <1>0, <2>3, <2>4 DEF LinkTypes
    <3>. QED  BY <1>0, <3>1
  <2>7. ASSUME NEW i \in 1 .. Len(c2d'), c2d'[i].type = "CommandResult" PROVE c2d'[i].id # e.id
    <3>1. c2d'[i] = c2d[i + 1] /\ i + 1 \in 1 .. Len(c2d) /\ i \in Nat /\ i + 1 # 1
      BY <1>0, <2>3
    <3>. QED  BY <2>3, <2>4, <2>7, <3>1 DEF OnceInv
  <2>8. RowOk(e)'
    BY <2>4, <2>6, <2>7 DEF RowOk
  <2>9. Adds(e) /\ e.type \in Kinds
    BY <1>2, <2>1, <2>4 DEF Kinds
  <2>. QED  BY <2>5, <2>8, <2>9 DEF NewRow
<1>3. ASSUME NEW k \in Conns, Collect(k), Adds(Outcome(rx[k])) PROVE \E e : e.type \in Kinds /\ NewRow(e)
  <2>1. PICK e : e = Outcome(rx[k])
    OBVIOUS
  <2>2. e.type \in {"answer", "error"} /\ e.id = rx[k]
    BY <2>1 DEF Outcome, Ev
  <2>3. /\ rx[k] \in Requests /\ run[rx[k]].st \in Back /\ run[rx[k]].st # "none"
        /\ rx' = [rx EXCEPT ![k] = NoRequest] /\ run' = run
    BY <1>0, <1>3 DEF TurnTypes, Collect, Returned, Install, Back
  <2>4. ~ RowOk(e)
    BY <2>2 DEF RowOk
  <2>5. ASSUME NEW j \in Conns, rx'[j] = rx[k] PROVE FALSE
    <3>1. rx'[j] # NoRequest
      BY <2>3, <2>5, RequestAssumption
    <3>2. j # k /\ rx[j] = rx[k]
      BY <1>0, <2>3, <2>5, <3>1 DEF TurnTypes
    <3>3. run[rx[j]].from = j /\ run[rx[k]].from = k
      BY <2>3, <3>2, RequestAssumption DEF OnceInv
    <3>. QED  BY <3>2, <3>3
  <2>6. RowOk(e)'
    BY <2>2, <2>3, <2>5 DEF RowOk
  <2>7. Adds(e) /\ e.type \in Kinds
    BY <1>3, <2>1, <2>2 DEF Kinds
  <2>. QED  BY <2>4, <2>6, <2>7 DEF NewRow
<1>. QED  BY <1>1, <1>2, <1>3, StoreStep

\* Rows that were there are in one place.
LEMMA OldRowsOnce ==
    ASSUME UniqueInv, NEW s, NEW u, NEW i, NEW j, OldRow(s, i), OldRow(u, j),
           stored'[s][i] = stored'[u][j], stored'[s][i].type \in Kinds
    PROVE  s = u /\ i = j
<1>1. /\ s \in DOMAIN stored /\ u \in DOMAIN stored /\ i \in DOMAIN stored[s] /\ j \in DOMAIN stored[u]
      /\ stored[s][i] = stored[u][j] /\ stored[s][i].type \in Kinds
  BY DEF OldRow
<1>. QED  BY <1>1 DEF UniqueInv

\* Rows stay as they are to be, and each in one place.
LEMMA RowStep ==
    ASSUME SessionTypes, OnceInv, RowInv, UniqueInv, [Next]_vars
    PROVE  RowInv' /\ UniqueInv'
<1>1. CASE Next /\ AddsNone
  <2>1. ASSUME NEW s \in DOMAIN stored', NEW i \in DOMAIN stored'[s], NEW e, e = stored'[s][i] PROVE RowOk(e)'
    <3>1. CASE e.type \notin Kinds
      BY <3>1 DEF RowOk, Kinds
    <3>2. CASE OldRow(s, i)
      <4>1. RowOk(e)
        BY <2>1, <3>2 DEF OldRow, RowInv
      <4>. QED  BY <1>1, <4>1, RowKept
    <3>. QED  BY <1>1, <2>1, <3>1, <3>2 DEF AddsNone
  <2>2. RowInv'
    BY <2>1 DEF RowInv, RowOk
  <2>3. ASSUME NEW s \in DOMAIN stored', NEW u \in DOMAIN stored', NEW i \in DOMAIN stored'[s], NEW j \in DOMAIN stored'[u],
               stored'[s][i] = stored'[u][j], stored'[s][i].type \in Kinds
        PROVE  s = u /\ i = j
    <3>1. OldRow(s, i) /\ OldRow(u, j)
      BY <1>1, <2>3 DEF AddsNone
    <3>. QED  BY <2>3, <3>1, OldRowsOnce
  <2>. QED  BY <2>2, <2>3 DEF UniqueInv
<1>2. ASSUME Next, NEW e, e.type \in Kinds, NewRow(e) PROVE RowInv' /\ UniqueInv'
  <2>0. PICK S, I : \A s \in DOMAIN stored' : \A i \in DOMAIN stored'[s] :
          stored'[s][i].type \notin Kinds \/ OldRow(s, i) \/ (s = S /\ i = I /\ stored'[s][i] = e)
    BY <1>2 DEF NewRow, Adds
  <2>1. ASSUME NEW s \in DOMAIN stored', NEW i \in DOMAIN stored'[s], NEW x, x = stored'[s][i] PROVE RowOk(x)'
    <3>1. CASE x.type \notin Kinds
      BY <3>1 DEF RowOk, Kinds
    <3>2. CASE OldRow(s, i)
      <4>1. RowOk(x)
        BY <2>1, <3>2 DEF OldRow, RowInv
      <4>. QED  BY <1>2, <4>1, RowKept
    <3>3. CASE x = e
      BY <1>2, <3>3 DEF NewRow
    <3>. QED  BY <2>0, <2>1, <3>1, <3>2, <3>3
  <2>2. RowInv'
    BY <2>1 DEF RowInv, RowOk
  <2>3. ASSUME NEW s, NEW i, OldRow(s, i) PROVE stored'[s][i] # e
    BY <1>2, <2>3 DEF OldRow, RowInv, NewRow
  <2>4. ASSUME NEW s \in DOMAIN stored', NEW u \in DOMAIN stored', NEW i \in DOMAIN stored'[s], NEW j \in DOMAIN stored'[u],
               stored'[s][i] = stored'[u][j], stored'[s][i].type \in Kinds
        PROVE  s = u /\ i = j
    <3>1. OldRow(s, i) \/ (s = S /\ i = I /\ stored'[s][i] = e)
      BY <2>0, <2>4
    <3>2. OldRow(u, j) \/ (u = S /\ j = I /\ stored'[u][j] = e)
      BY <2>0, <2>4
    <3>3. CASE OldRow(s, i) /\ OldRow(u, j)
      BY <2>4, <3>3, OldRowsOnce
    <3>. QED  BY <2>3, <2>4, <3>1, <3>2, <3>3
  <2>. QED  BY <2>2, <2>4 DEF UniqueInv
<1>3. CASE UNCHANGED vars
  BY <1>3 DEF vars, storeVars, turnVars, clientVars, RowInv, UniqueInv, RowOk
<1>. QED  BY <1>1, <1>2, <1>3, RowWritten

\* The inductive invariant of the store.
RowsOnce == SessionTypes /\ OnceInv /\ RowInv /\ UniqueInv

\* It holds of every state.
LEMMA RowsAreOnce == Spec => []RowsOnce
<1>1. Init => RowsOnce
  <2>. SUFFICES ASSUME Init PROVE RowsOnce
    OBVIOUS
  <2>1. SessionTypes
    BY TypesInit
  <2>2. OnceInv
    <3>1. c2d = <<>> /\ loop = Idle /\ \A r \in Requests : run[r].st = "none"
      BY DEF Init, TurnInit
    <3>2. \A k \in Conns : rx[k] = NoRequest
      BY DEF Init, TurnInit
    <3>3. Len(c2d) = 0
      BY <3>1
    <3>. QED  BY <3>1, <3>2, <3>3 DEF OnceInv, AwaitsRun, Idle
  <2>3. RowInv /\ UniqueInv
    BY DEF Init, StoreInit, RowInv, UniqueInv
  <2>. QED  BY <2>1, <2>2, <2>3 DEF RowsOnce
<1>2. RowsOnce /\ [Next]_vars => RowsOnce'
  BY TypesStep, OnceStep, RowStep DEF RowsOnce
<1>. QED  BY <1>1, <1>2, PTL DEF Spec

\* Nothing is stored twice, in one session or in two (codivd/src/store.rs,
\* handlers/agent_request.rs), however prompts, agents that return, cancellations,
\* reconnections and restarts cross, and whichever appends fail.
THEOREM StoredOnce == Spec => []NoDuplicates
<1>1. RowsOnce => NoDuplicates
  <2>. SUFFICES ASSUME RowsOnce, NEW s \in DOMAIN stored, NEW i \in DOMAIN stored[s], stored[s][i].type \in Kinds
                PROVE  Cardinality(Stored(stored[s][i])) = 1
    BY DEF NoDuplicates, Kinds
  <2>1. PICK e : e = stored[s][i]
    OBVIOUS
  <2>2. <<s, i>> \in Stored(e)
    <3>1. <<s, i>> \in {s} \X DOMAIN stored[s]
      OBVIOUS
    <3>2. <<s, i>> \in UNION {{u} \X DOMAIN stored[u] : u \in DOMAIN stored}
      BY <3>1
    <3>. QED  BY <2>1, <3>2 DEF Stored
  <2>3. ASSUME NEW p \in Stored(e) PROVE p = <<s, i>>
    <3>1. p \in UNION {{u} \X DOMAIN stored[u] : u \in DOMAIN stored} /\ stored[p[1]][p[2]] = e
      BY DEF Stored
    <3>2. PICK u \in DOMAIN stored : p \in {u} \X DOMAIN stored[u]
      BY <3>1
    <3>3. p = <<p[1], p[2]>> /\ p[1] = u /\ p[2] \in DOMAIN stored[u]
      BY <3>2
    <3>4. p[1] = s /\ p[2] = i
      BY <2>1, <3>1, <3>3 DEF RowsOnce, UniqueInv
    <3>. QED  BY <3>3, <3>4
  <2>4. Stored(e) = {<<s, i>>}
    BY <2>2, <2>3
  <2>. QED  BY <2>1, <2>4, FS_Singleton
<1>. QED  BY <1>1, RowsAreOnce, PTL

----------------------------------------------------------------------------
(* The client shows the session it is in.                                  *)

\* The client has asked the daemon for a session over its connection.
Asks == \E i \in 1 .. Len(c2d) : c2d[i].type = "LoadSession" /\ c2d[i].from = conn

\* The client shows its session, or will, having taken the frames under way.
Shown ==
    \/ view = sid[conn] /\ Silent(d2c)
    \/ \E i \in 1 .. Len(d2c) :
          /\ d2c[i].type = "SessionCreated" /\ d2c[i].id = sid[conn]
          /\ \A j \in 1 .. Len(d2c) : j > i => d2c[j].type # "SessionCreated"

\* Connections yet to come have no session; an open one is known to the daemon,
\* and its session is shown or asked for.
ViewInv ==
    /\ \A k \in sess : k \in 1 .. conn
    /\ \A k \in Conns : k > conn => sid[k] = NoSession
    /\ loop.at # "idle" => loop.from <= conn
    /\ up => conn \in sess /\ (Asks \/ Shown)
    /\ ~ up => d2c = <<>>

\* An announcement is the last word.
LEMMA AnnouncedIsShown ==
    ASSUME LinkTypes, NEW fs \in Seq(Frames), d2c' = d2c \o fs, UNCHANGED conn, Announces(fs, sid'[conn])
    PROVE  Shown'
<1>0. d2c \in Seq(Frames) /\ Len(d2c) \in Nat /\ Len(fs) \in Nat
  BY DEF LinkTypes
<1>1. /\ Len(d2c') = Len(d2c) + Len(fs)
      /\ \A i \in 1 .. Len(d2c') : d2c'[i] = IF i <= Len(d2c) THEN d2c[i] ELSE fs[i - Len(d2c)]
  BY <1>0, ConcatProperties
<1>2. PICK n \in 1 .. Len(fs) :
        /\ fs[n].type = "SessionCreated" /\ fs[n].id = sid'[conn]
        /\ \A i \in 1 .. Len(fs) : i # n => fs[i].type # "SessionCreated"
  BY DEF Announces
<1>3. PICK m \in Nat : m = Len(d2c) + n
  BY <1>0
<1>4. m \in 1 .. Len(d2c') /\ d2c'[m] = fs[n]
  <2>1. m \in 1 .. Len(d2c') /\ ~ (m <= Len(d2c)) /\ m - Len(d2c) = n
    BY <1>0, <1>1, <1>3
  <2>. QED  BY <1>1, <2>1
<1>5. ASSUME NEW j \in 1 .. Len(d2c'), j > m PROVE d2c'[j].type # "SessionCreated"
  <2>1. ~ (j <= Len(d2c)) /\ j - Len(d2c) \in 1 .. Len(fs) /\ j - Len(d2c) # n
    BY <1>0, <1>1, <1>3, <1>5
  <2>. QED  BY <1>1, <1>2, <2>1
<1>6. conn' = conn
  OBVIOUS
<1>. QED  BY <1>2, <1>4, <1>5, <1>6 DEF Shown

\* What says nothing of sessions changes nothing.
LEMMA SilenceShows ==
    ASSUME LinkTypes, Shown, NEW fs \in Seq(Frames), d2c' = d2c \o fs, Silent(fs), UNCHANGED <<conn, view>>,
           sid'[conn] = sid[conn]
    PROVE  Shown'
<1>0. d2c \in Seq(Frames) /\ Len(d2c) \in Nat /\ Len(fs) \in Nat /\ conn' = conn /\ view' = view
  BY DEF LinkTypes
<1>1. /\ Len(d2c') = Len(d2c) + Len(fs)
      /\ \A i \in 1 .. Len(d2c') : d2c'[i] = IF i <= Len(d2c) THEN d2c[i] ELSE fs[i - Len(d2c)]
  BY <1>0, ConcatProperties
<1>2. ASSUME NEW j \in 1 .. Len(d2c'), d2c'[j].type = "SessionCreated" PROVE j \in 1 .. Len(d2c) /\ d2c'[j] = d2c[j]
  <2>1. CASE j <= Len(d2c)
    BY <1>0, <1>1, <2>1
  <2>2. CASE ~ (j <= Len(d2c))
    <3>1. j - Len(d2c) \in 1 .. Len(fs) /\ d2c'[j] = fs[j - Len(d2c)]
      BY <1>0, <1>1, <2>2
    <3>. QED  BY <1>2, <3>1 DEF Silent
  <2>. QED  BY <2>1, <2>2
<1>3. CASE view = sid[conn] /\ Silent(d2c)
  <2>1. \A j \in 1 .. Len(d2c') : d2c'[j].type # "SessionCreated"
    BY <1>2, <1>3 DEF Silent
  <2>2. view' = sid'[conn']
    BY <1>0, <1>3
  <2>. QED  BY <2>1, <2>2 DEF Shown, Silent
<1>4. ASSUME NEW i \in 1 .. Len(d2c), d2c[i].type = "SessionCreated", d2c[i].id = sid[conn],
             \A j \in 1 .. Len(d2c) : j > i => d2c[j].type # "SessionCreated"
      PROVE  Shown'
  <2>1. i \in 1 .. Len(d2c') /\ d2c'[i] = d2c[i]
    BY <1>0, <1>1
  <2>2. \A j \in 1 .. Len(d2c') : j > i => d2c'[j].type # "SessionCreated"
    BY <1>2, <1>4
  <2>3. d2c'[i].id = sid'[conn'] /\ d2c'[i].type = "SessionCreated"
    BY <1>0, <1>4, <2>1
  <2>. QED  BY <2>1, <2>2, <2>3 DEF Shown
<1>. QED  BY <1>3, <1>4 DEF Shown

\* The client that takes a frame comes nearer.
LEMMA TakenIsShown ==
    ASSUME LinkTypes, Shown, HandledFrame, UNCHANGED <<sid, conn>>
    PROVE  Shown'
<1>0. d2c \in Seq(Frames) /\ Len(d2c) \in Nat /\ d2c # <<>> /\ d2c' = Tail(d2c) /\ sid' = sid /\ conn' = conn
  BY DEF LinkTypes, HandledFrame
<1>1. Len(d2c) \in Nat \ {0} /\ Head(d2c) = d2c[1] /\ 1 \in 1 .. Len(d2c)
  BY <1>0, EmptySeq
<1>2. Len(d2c') = Len(d2c) - 1 /\ \A i \in 1 .. Len(d2c') : d2c'[i] = d2c[i + 1] /\ i + 1 \in 1 .. Len(d2c)
  BY <1>0, <1>1, HeadTailProperties
<1>3. CASE view = sid[conn] /\ Silent(d2c)
  <2>1. view' = view
    BY <1>1, <1>3 DEF HandledFrame, Silent
  <2>2. \A j \in 1 .. Len(d2c') : d2c'[j].type # "SessionCreated"
    BY <1>2, <1>3 DEF Silent
  <2>. QED  BY <1>0, <1>3, <2>1, <2>2 DEF Shown, Silent
<1>4. ASSUME NEW i \in 1 .. Len(d2c), d2c[i].type = "SessionCreated", d2c[i].id = sid[conn],
             \A j \in 1 .. Len(d2c) : j > i => d2c[j].type # "SessionCreated"
      PROVE  Shown'
  <2>1. CASE i = 1
    <3>1. view' = sid[conn]
      BY <1>1, <1>4, <2>1 DEF HandledFrame
    <3>2. ASSUME NEW j \in 1 .. Len(d2c') PROVE d2c'[j].type # "SessionCreated"
      <4>1. d2c'[j] = d2c[j + 1] /\ j + 1 \in 1 .. Len(d2c) /\ j + 1 > i
        BY <1>0, <1>2, <2>1
      <4>. QED  BY <1>4, <4>1
    <3>. QED  BY <1>0, <3>1, <3>2 DEF Shown, Silent
  <2>2. CASE i # 1
    <3>1. PICK m \in 1 .. Len(d2c') : m + 1 = i
      <4>1. i - 1 \in 1 .. Len(d2c') /\ (i - 1) + 1 = i
        BY <1>0, <1>2, <2>2
      <4>. QED  BY <4>1
    <3>2. d2c'[m].type = "SessionCreated" /\ d2c'[m].id = sid'[conn']
      BY <1>0, <1>2, <1>4, <3>1
    <3>3. ASSUME NEW j \in 1 .. Len(d2c'), j > m PROVE d2c'[j].type # "SessionCreated"
      <4>1. d2c'[j] = d2c[j + 1] /\ j + 1 \in 1 .. Len(d2c) /\ j + 1 > i
        BY <1>0, <1>2, <3>1, <3>3
      <4>. QED  BY <1>4, <4>1
    <3>. QED  BY <3>2, <3>3 DEF Shown
  <2>. QED  BY <2>1, <2>2
<1>. QED  BY <1>3, <1>4 DEF Shown

\* The main loop works for a client session that is known, or the one it worked for.
LEMMA LoopFrom ==
    ASSUME SessionTypes, TurnStep
    PROVE  loop'.at # "idle" => loop'.from \in sess \/ (loop.at # "idle" /\ loop'.from = loop.from)
<1>0. TurnTypes /\ LinkTypes
  BY DEF SessionTypes
<1>1. ASSUME UNCHANGED loop
      PROVE  loop'.at # "idle" => loop'.from \in sess \/ (loop.at # "idle" /\ loop'.from = loop.from)
  BY <1>1
<1>2. ASSUME NEW r \in Requests, RunStep(r) PROVE UNCHANGED loop
  BY <1>0, <1>2, RunMoves
<1>3. CASE OnAgentRequest \/ OnCompactRequest
  <2>1. PICK k, r : /\ k \in sess
                    /\ StartCompaction(k, r) \/ loop' = [at |-> "request", from |-> k, req |-> r]
    BY <1>3 DEF OnAgentRequest, OnCompactRequest
  <2>2. loop' \in {Idle, [at |-> "request", from |-> k, req |-> r], [at |-> "compact", from |-> k, req |-> r]}
    BY <2>1 DEF StartCompaction
  <2>. QED  BY <2>1, <2>2 DEF Idle
<1>4. CASE OnCancelRequest \/ OnNewSession \/ OnLoadSession \/ OnCommandResult \/ Ignore
  BY <1>4 DEF OnCancelRequest, OnNewSession, OnLoadSession, OnCommandResult, Ignore, turnVars
<1>5. CASE BeginRun
  BY <1>5 DEF BeginRun, Idle
<1>6. CASE CompactDone \/ CompactFail
  <2>1. loop.at = "compact" /\ loop' = AfterCompaction
    BY <1>6 DEF CompactDone, CompactFail
  <2>2. loop \in [at : {"request", "compact"}, from : Conns, req : Requests \cup {NoRequest}]
    BY <1>0, <2>1 DEF TurnTypes, Idle
  <2>3. loop'.at # "idle" => loop'.from = loop.from
    BY <2>1, <2>2 DEF AfterCompaction, Idle
  <2>. QED  BY <2>1, <2>3
<1>7. ASSUME NEW k, Collect(k) \/ CleanupStale(k) PROVE UNCHANGED loop
  BY <1>7 DEF Collect, Install, CleanupStale
<1>8. CASE ConfigReload
  BY <1>8 DEF ConfigReload
<1>. QED  BY <1>1, <1>2, <1>3, <1>4, <1>5, <1>6, <1>7, <1>8 DEF TurnStep, LoopStep, DaemonHandle

\* The daemon forgets a client only when its connection is gone.
LEMMA SessKept ==
    ASSUME SessionTypes, TurnStep
    PROVE  sess' \subseteq sess /\ (up /\ conn \in sess => conn \in sess')
<1>1. ASSUME NEW r \in Requests, RunStep(r) PROVE sess' = sess
  BY <1>1, RunMoves DEF SessionTypes
<1>2. CASE DaemonHandle
  BY <1>2 DEF DaemonHandle, OnAgentRequest, OnCompactRequest, OnCancelRequest, OnNewSession, OnLoadSession,
              OnCommandResult, Ignore, turnVars
<1>3. CASE BeginRun \/ CompactDone \/ CompactFail \/ ConfigReload \/ \E k \in Conns : Collect(k)
  BY <1>3 DEF BeginRun, CompactDone, CompactFail, ConfigReload, Collect, Install
<1>4. ASSUME NEW k \in sess, CleanupStale(k) PROVE sess' \subseteq sess /\ (up /\ conn \in sess => conn \in sess')
  BY <1>4 DEF CleanupStale
<1>. QED  BY <1>1, <1>2, <1>3, <1>4 DEF TurnStep, LoopStep

\* What the client asked for it is told of.
LEMMA AskedIsShown ==
    ASSUME SessionTypes, ViewInv, TurnStep, up, Asks, UNCHANGED <<conn, view>>
    PROVE  Asks' \/ Shown'
<1>0. /\ StoreTypes /\ LinkTypes /\ c2d \in Seq(Messages) /\ Len(c2d) \in Nat /\ conn' = conn
      /\ d2c \in Seq(Frames)
  BY DEF SessionTypes, LinkTypes
<1>1. PICK i \in 1 .. Len(c2d) : c2d[i].type = "LoadSession" /\ c2d[i].from = conn
  BY DEF Asks
<1>2. CASE c2d' = c2d
  BY <1>0, <1>1, <1>2 DEF Asks
<1>3. CASE DaemonHandle
  <2>1. c2d # <<>> /\ c2d' = Tail(c2d)
    BY <1>3, MessageMoves
  <2>2. /\ Head(c2d) = c2d[1] /\ Len(Tail(c2d)) = Len(c2d) - 1 /\ 1 \in 1 .. Len(c2d)
        /\ \A j \in 1 .. Len(Tail(c2d)) : Tail(c2d)[j] = c2d[j + 1]
    BY <1>0, <2>1, HeadMessage
  <2>3. CASE i = 1
    <3>1. Head(c2d).type = "LoadSession" /\ From = conn
      BY <1>1, <2>2, <2>3 DEF From
    <3>2. conn \in sess
      BY DEF ViewInv
    <3>3. OnLoadSession
      BY <1>3, <3>1, <3>2 DEF DaemonHandle, OnAgentRequest, OnCompactRequest, OnCancelRequest, OnNewSession,
                              OnCommandResult, Ignore, Receive
    <3>4. PICK s : s = Head(c2d).id
      OBVIOUS
    <3>5. s \in 1 .. Len(stored) /\ s \in Nat
      BY <1>0, <3>3, <3>4, LoadSessionWritten DEF StoreTypes
    <3>6. sid' = [sid EXCEPT ![conn] = s] /\ d2c' = Sent(conn, <<Frame("SessionCreated", s)>>)
      BY <3>1, <3>3, <3>4 DEF OnLoadSession
    <3>7. sid'[conn] = s
      BY <1>0, <3>6 DEF StoreTypes, LinkTypes
    <3>8. PICK fs : fs = <<Frame("SessionCreated", s)>>
      OBVIOUS
    <3>9. d2c' = d2c \o fs /\ fs \in Seq(Frames) /\ Announces(fs, sid'[conn])
      BY <3>5, <3>6, <3>7, <3>8, FrameKinds DEF Sent
    <3>. QED  BY <1>0, <3>9, AnnouncedIsShown
  <2>4. CASE i # 1
    <3>1. PICK j \in 1 .. Len(c2d') : j + 1 = i
      <4>1. i - 1 \in 1 .. Len(c2d') /\ (i - 1) + 1 = i
        BY <1>0, <2>1, <2>2, <2>4
      <4>. QED  BY <4>1
    <3>2. c2d'[j].type = "LoadSession" /\ c2d'[j].from = conn'
      BY <1>0, <1>1, <2>1, <2>2, <3>1
    <3>. QED  BY <3>2 DEF Asks
  <2>. QED  BY <2>3, <2>4
<1>. QED  BY <1>2, <1>3, TurnReads

\* A step of the daemon or of a task keeps the view right.
LEMMA ViewTurn ==
    ASSUME SessionTypes, SessionTypes', ViewInv, Next, TurnStep, UNCHANGED <<clientVars, linkVars>>
    PROVE  ViewInv'
<1>0. /\ LinkTypes /\ StoreTypes /\ TurnTypes /\ conn \in Nat /\ conn' = conn /\ up' = up /\ view' = view
      /\ d2c \in Seq(Frames)
  BY DEF SessionTypes, LinkTypes, Conns, clientVars, linkVars
<1>1. \A k \in sess' : k \in 1 .. conn'
  BY <1>0, SessKept DEF ViewInv
<1>2. \A k \in Conns : k > conn' => sid'[k] = NoSession
  <2>1. ASSUME NEW k \in Conns, k > conn, SessionMoves PROVE sid'[k] = NoSession
    <3>1. PICK j \in Conns, v \in 1 .. Len(stored') :
            (j \in sess \/ (loop.at # "idle" /\ j = loop.from)) /\ sid' = [sid EXCEPT ![j] = v]
      BY <2>1 DEF SessionMoves
    <3>2. j \in Nat /\ j <= conn
      BY <1>0, <3>1 DEF ViewInv, Conns
    <3>3. j # k
      BY <1>0, <2>1, <3>2 DEF Conns
    <3>. QED  BY <1>0, <2>1, <3>1, <3>3 DEF StoreTypes, ViewInv
  <2>. QED  BY <1>0, <2>1, SidStep DEF ViewInv
<1>3. loop'.at # "idle" => loop'.from <= conn'
  BY <1>0, LoopFrom DEF ViewInv
<1>4. PICK fs \in Seq(Frames) :
        /\ d2c' = d2c \o fs /\ (~ up => fs = <<>>)
        /\ \/ Silent(fs) /\ (up => sid'[conn] = sid[conn])
           \/ Announces(fs, sid'[conn]) /\ sid'[conn] # NoSession
  BY TurnTells DEF Tells
<1>5. ~ up' => d2c' = <<>>
  BY <1>0, <1>4 DEF ViewInv
<1>6. ASSUME up PROVE conn' \in sess' /\ (Asks' \/ Shown')
  <2>1. conn' \in sess'
    BY <1>0, <1>6, SessKept DEF ViewInv
  <2>2. CASE Asks
    BY <1>0, <1>6, <2>1, <2>2, AskedIsShown
  <2>3. CASE Shown /\ Silent(fs) /\ sid'[conn] = sid[conn]
    BY <1>0, <1>4, <2>1, <2>3, SilenceShows
  <2>4. CASE Announces(fs, sid'[conn])
    BY <1>0, <1>4, <2>1, <2>4, AnnouncedIsShown
  <2>. QED  BY <1>4, <1>6, <2>2, <2>3, <2>4 DEF ViewInv
<1>. QED  BY <1>0, <1>1, <1>2, <1>3, <1>5, <1>6 DEF ViewInv

\* A step of the client does, too.
LEMMA ViewClient ==
    ASSUME SessionTypes, ViewInv, ClientStep, UNCHANGED <<storeVars, turnVars, linkVars>>
    PROVE  ViewInv'
<1>0. /\ LinkTypes /\ sid' = sid /\ sess' = sess /\ loop' = loop /\ conn' = conn /\ up' = up
      /\ c2d \in Seq(Messages) /\ Len(c2d) \in Nat
  BY DEF SessionTypes, LinkTypes, storeVars, turnVars, linkVars
<1>1. /\ \A k \in sess' : k \in 1 .. conn'
      /\ \A k \in Conns : k > conn' => sid'[k] = NoSession
      /\ loop'.at # "idle" => loop'.from <= conn'
      /\ up' => conn' \in sess'
  BY <1>0 DEF ViewInv
<1>2. CASE HandleMessage
  <2>1. HandledFrame /\ up /\ c2d' = c2d
    BY <1>2 DEF HandleMessage, HandleComplete, HandleError, HandleCreated, HandleCompactionStarted,
                HandleCompactionComplete, Deliver, HandledFrame
  <2>2. Asks => Asks'
    BY <1>0, <2>1 DEF Asks
  <2>3. Shown => Shown'
    BY <1>0, <2>1, TakenIsShown
  <2>. QED  BY <1>0, <1>1, <2>1, <2>2, <2>3 DEF ViewInv
<1>3. CASE UserStep
  <2>1. d2c' = d2c /\ view' = view
    BY <1>3 DEF UserStep, Submit, PressEsc, RunCommand, Clear, Compact, Pick
  <2>2. c2d' = c2d \/ \E m : c2d' = Append(c2d, m)
    BY <1>3 DEF UserStep, Submit, PressEsc, RunCommand, Clear, Compact, Pick, ToDaemon
  <2>3. Asks => Asks'
    <3>. SUFFICES ASSUME Asks PROVE Asks'
      OBVIOUS
    <3>1. PICK i \in 1 .. Len(c2d) : c2d[i].type = "LoadSession" /\ c2d[i].from = conn
      BY DEF Asks
    <3>2. i \in 1 .. Len(c2d') /\ c2d'[i] = c2d[i]
      BY <1>0, <2>2
    <3>. QED  BY <1>0, <3>1, <3>2 DEF Asks
  <2>4. Shown => Shown'
    BY <1>0, <2>1 DEF Shown, Silent
  <2>. QED  BY <1>0, <1>1, <2>1, <2>3, <2>4 DEF ViewInv
<1>. QED  BY <1>2, <1>3 DEF ClientStep

\* A client that connects asks for the session it shows, or has none yet.
LEMMA ViewReconnect ==
    ASSUME SessionTypes, ViewInv, Reconnect
    PROVE  ViewInv'
<1>0. /\ LinkTypes /\ StoreTypes /\ sid' = sid /\ loop' = Idle /\ conn' = conn + 1 /\ up' = TRUE /\ view' = view /\ ~ up
      /\ sess' = sess \cup {conn'} /\ d2c' = d2c /\ conn \in Nat /\ conn' \in Conns
      /\ c2d \in Seq(Messages) /\ Len(c2d) \in Nat /\ d2c = <<>>
  BY BoundAssumption DEF SessionTypes, LinkTypes, Reconnect, LoopFree, storeVars, clientVars, Conns, ViewInv
<1>1. \A k \in sess' : k \in 1 .. conn'
  BY <1>0 DEF ViewInv
<1>2. \A k \in Conns : k > conn' => sid'[k] = NoSession
  BY <1>0 DEF ViewInv, Conns
<1>3. Asks' \/ Shown'
  <2>1. CASE view = NoSession
    <3>1. sid'[conn'] = NoSession
      BY <1>0 DEF ViewInv
    <3>2. Len(d2c') = 0
      BY <1>0
    <3>. QED  BY <1>0, <2>1, <3>1, <3>2 DEF Shown, Silent
  <2>2. CASE view # NoSession
    <3>1. PICK m : m = [type |-> "LoadSession", id |-> view, from |-> conn']
      OBVIOUS
    <3>2. c2d' = Append(c2d, m) /\ m.type = "LoadSession" /\ m.from = conn'
      BY <2>2, <3>1 DEF Reconnect
    <3>3. Len(c2d) + 1 \in 1 .. Len(c2d') /\ c2d'[Len(c2d) + 1] = m
      BY <1>0, <3>2
    <3>. QED  BY <3>2, <3>3 DEF Asks
  <2>. QED  BY <2>1, <2>2
<1>. QED  BY <1>0, <1>1, <1>2, <1>3 DEF ViewInv, Idle

\* The view is right in every state.
LEMMA ViewStep == ASSUME SessionTypes, ViewInv, [Next]_vars PROVE ViewInv'
<1>1. CASE TurnStep /\ UNCHANGED <<clientVars, linkVars>>
  BY <1>1, TypesStep, ViewTurn DEF Next
<1>2. CASE ClientStep /\ UNCHANGED <<storeVars, turnVars, linkVars>>
  BY <1>2, ViewClient
<1>3. CASE Disconnect \/ ClientStop
  <2>1. up' = FALSE /\ d2c' = <<>> /\ UNCHANGED <<sid, sess, loop, conn>>
    BY <1>3 DEF Disconnect, ClientStop, LinkDown, storeVars, turnVars
  <2>. QED  BY <2>1 DEF ViewInv
<1>4. CASE DaemonStop
  <2>1. up' = FALSE /\ d2c' = <<>> /\ UNCHANGED <<sid, conn>> /\ sess' = {} /\ loop' = Idle
    BY <1>4 DEF DaemonStop, storeVars
  <2>. QED  BY <2>1 DEF ViewInv, Idle
<1>5. CASE Reconnect
  BY <1>5, ViewReconnect
<1>6. CASE UNCHANGED vars
  <2>1. UNCHANGED <<sid, sess, loop, conn, up, view, d2c, c2d>>
    BY <1>6 DEF vars, storeVars, turnVars, clientVars, linkVars
  <2>. QED  BY <2>1 DEF ViewInv, Asks, Shown, Silent
<1>. QED  BY <1>1, <1>2, <1>3, <1>4, <1>5, <1>6 DEF Next

\* The view is right at first.
LEMMA ViewInit == Init => ViewInv
<1>. SUFFICES ASSUME Init PROVE ViewInv
  OBVIOUS
<1>1. conn = 1 /\ up = TRUE /\ d2c = <<>> /\ view = NoSession /\ sess = {1} /\ loop = Idle /\ 1 \in Conns
  BY BoundAssumption DEF Init, TurnInit, ClientInit, Conns
<1>2. \A k \in Conns : sid[k] = NoSession
  BY DEF Init, StoreInit
<1>3. Len(d2c) = 0
  BY <1>1
<1>. QED  BY <1>1, <1>2, <1>3 DEF ViewInv, Shown, Silent, Idle

\* The session the client shows, and would ask for after a reconnection, is the
\* one the daemon writes its events to (codiv/src/ui/terminal/daemon,
\* codivd/src/handlers/session.rs), once all that is under way has arrived.
THEOREM ViewIsWritten == Spec => []ViewMatches
<1>1. Init => ViewInv
  BY ViewInit
<1>2. SessionTypes /\ ViewInv /\ [Next]_vars => ViewInv'
  BY ViewStep
<1>3. SessionTypes /\ ViewInv => ViewMatches
  <2>. SUFFICES ASSUME ViewInv, up, d2c = <<>>, c2d = <<>> PROVE view = sid[conn]
    BY DEF ViewMatches
  <2>1. Len(d2c) = 0 /\ Len(c2d) = 0
    OBVIOUS
  <2>. QED  BY <2>1 DEF ViewInv, Asks, Shown
<1>. QED  BY <1>1, <1>2, <1>3, Typed, PTL DEF Spec

----------------------------------------------------------------------------
(* An event is dropped only where that is explained.                       *)

\* The outcome of a run of another client session than the latest.
LeftOver(e) == e.type \in {"answer", "error"} /\ run[e.id].from # conn

\* Until an append fails no seq is skipped, no session counts more rows than there
\* are, and what the latest has not counted was left over by a run.
CountInv ==
    /\ faults \in Nat
    /\ faults = 0 =>
          /\ \A s \in DOMAIN stored : \A i \in DOMAIN stored[s] : stored[s][i] # Lost
          /\ \A k \in Conns : sid[k] # NoSession => seq[k] <= Len(stored[sid[k]])
          /\ sid[conn] # NoSession =>
                \A i \in DOMAIN stored[sid[conn]] : i > seq[conn] => LeftOver(stored[sid[conn]][i])

\* What the latest connection sends comes behind what earlier ones sent, which is
\* read, or ignored, before its session has a conversation.
OrderInv ==
    /\ \A i \in 1 .. Len(c2d) : c2d[i].from <= conn
    /\ \A i, j \in 1 .. Len(c2d) : i <= j /\ c2d[i].from = conn => c2d[j].from = conn
    /\ sid[conn] # NoSession \/ (loop.at # "idle" /\ loop.from = conn) =>
          \A i \in 1 .. Len(c2d) : c2d[i].from = conn
    /\ sid[conn] # NoSession /\ loop.at # "idle" => loop.from = conn

\* A row that is written behind the last extends the session.
LEMMA PutFits == ASSUME NEW log \in Seq(Rows), NEW n, n = Len(log), NEW e \in Rows PROVE Put(log, n, e) = Append(log, e)
<1>1. n \in Nat /\ ~ (n < Len(log)) /\ n >= Len(log)
  OBVIOUS
<1>. DEFINE w == Put(log, n, e)
            a == Append(log, e)
<1>2. w = [i \in 1 .. n + 1 |-> IF i = n + 1 THEN e ELSE IF i <= Len(log) THEN log[i] ELSE Lost]
  BY <1>1 DEF Put
<1>3. \A i \in 1 .. n + 1 : i = n + 1 \/ (i <= Len(log) /\ i \in 1 .. Len(log))
  BY <1>1
<1>4. \A i \in 1 .. n + 1 : w[i] \in Rows
  BY <1>2, <1>3, ElementOfSeq
<1>5. w \in [1 .. n + 1 -> Rows]
  BY <1>2, <1>4
<1>6. w \in Seq(Rows) /\ Len(w) = n + 1
  <2>1. w \in Seq(Rows)
    BY <1>1, <1>5, SeqDef
  <2>. QED  BY <1>1, <1>5, <2>1, LenProperties
<1>7. a \in Seq(Rows) /\ Len(a) = n + 1 /\ \A i \in 1 .. n + 1 : a[i] = IF i <= Len(log) THEN log[i] ELSE e
  BY AppendProperties
<1>8. \A i \in 1 .. n + 1 : w[i] = a[i]
  BY <1>1, <1>2, <1>3, <1>7
<1>. HIDE DEF w, a
<1>9. w = a
  BY <1>6, <1>7, <1>8, SeqEqual
<1>. QED  BY <1>9 DEF w, a

\* A conversation that skips no seq has as many events as rows.
LEMMA AllCounted ==
    ASSUME NEW log \in Seq(Rows), \A i \in DOMAIN log : log[i] # Lost
    PROVE  EventCount(log) = Len(log)
<1>1. DOMAIN log = 1 .. Len(log) /\ Len(log) \in Nat
  OBVIOUS
<1>2. {i \in DOMAIN log : log[i] # Lost} = 1 .. Len(log)
  BY <1>1
<1>3. Cardinality(1 .. Len(log)) = Len(log)
  BY <1>1, FS_Interval
<1>. QED  BY <1>2, <1>3 DEF EventCount

\* Rows of other runs stay so.
LEMMA LeftOverStays ==
    ASSUME SessionTypes, OnceInv, Next, UNCHANGED conn, NEW e, RowOk(e), LeftOver(e)
    PROVE  LeftOver(e)'
<1>1. e.id \in Requests /\ run[e.id].st # "none" /\ run[e.id].from # conn /\ TurnTypes
  BY DEF LeftOver, RowOk, SessionTypes
<1>2. CASE BeginRun
  <2>1. loop.req \in Requests /\ \A q \in Requests \ {loop.req} : run'[q] = run[q]
    BY <1>1, <1>2, BeginMoves
  <2>2. run[loop.req].st = "none"
    BY <1>2, <2>1 DEF BeginRun, AwaitsRun, OnceInv
  <2>. QED  BY <1>1, <2>1, <2>2 DEF LeftOver
<1>3. CASE RunsMove
  BY <1>1, <1>3 DEF RunsMove, LeftOver
<1>. QED  BY <1>2, <1>3, TurnMoves

\* An event that is persisted has a place behind all rows, or none.
LEMMA PersistedPlace ==
    ASSUME StoreTypes, CountInv, faults = 0, faults' = 0, NEW k \in Conns, NEW e \in Rows, e # Lost,
           EnsureAndPersist(k, e)
    PROVE  \E d \in DOMAIN stored' :
              /\ sid' = [sid EXCEPT ![k] = d] /\ seq' = [seq EXCEPT ![k] = seq[k] + 1]
              /\ d = sid[k] \/ (sid[k] = NoSession /\ d \notin DOMAIN stored)
              /\ \A s \in DOMAIN stored : s \in DOMAIN stored' /\ Len(stored[s]) <= Len(stored'[s])
              /\ seq[k] < Len(stored'[d])
              /\ \A s \in DOMAIN stored' : \A i \in DOMAIN stored'[s] :
                    \/ s \in DOMAIN stored /\ i \in DOMAIN stored[s] /\ stored'[s][i] = stored[s][i]
                    \/ s = d /\ i = seq[k] + 1 /\ i = Len(stored'[s]) /\ stored'[s][i] = e
<1>. DEFINE L == EnsuredLog(k)
            d == EnsuredId(k)
<1>1. PICK w :
        /\ w = Put(L[d], seq[k], e)
        /\ stored' = [L EXCEPT ![d] = w]
        /\ sid' = [sid EXCEPT ![k] = d] /\ seq' = [seq EXCEPT ![k] = seq[k] + 1]
  <2>1. \A ok : ~ ok => (IF ok THEN faults ELSE faults + 1) # 0
    OBVIOUS
  <2>. QED  BY <2>1 DEF EnsureAndPersist, Written
<1>2. /\ stored \in Seq(Seq(Rows)) /\ Len(stored) \in Nat /\ seq[k] \in Nat /\ sid[k] \in 0 .. Len(stored)
      /\ sid[k] = NoSession => seq[k] = 0
  BY DEF StoreTypes
<1>3. /\ L \in Seq(Seq(Rows)) /\ d \in 1 .. Len(L) /\ Len(L) \in Nat /\ Len(stored) <= Len(L)
      /\ \A s \in 1 .. Len(L) : (s \in 1 .. Len(stored) /\ L[s] = stored[s]) \/ (L[s] = <<>> /\ s = d)
      /\ \A s \in 1 .. Len(stored) : L[s] = stored[s]
      /\ seq[k] <= Len(L[d]) /\ \A i \in 1 .. Len(L[d]) : L[d][i] # Lost
      /\ d = sid[k] \/ (sid[k] = NoSession /\ d \notin 1 .. Len(stored))
  <2>1. CASE sid[k] = NoSession
    <3>1. L = Append(stored, <<>>) /\ d = Len(stored) + 1
      BY <2>1 DEF EnsuredLog, EnsuredId
    <3>2. <<>> \in Seq(Rows) /\ Len(<<>>) = 0
      OBVIOUS
    <3>3. /\ L \in Seq(Seq(Rows)) /\ Len(L) = Len(stored) + 1 /\ L[d] = <<>>
          /\ \A s \in 1 .. Len(stored) : L[s] = stored[s]
      BY <1>2, <3>1, <3>2, AppendProperties
    <3>. QED  BY <1>2, <2>1, <3>1, <3>2, <3>3 DEF NoSession
  <2>2. CASE sid[k] # NoSession
    <3>1. L = stored /\ d = sid[k]
      BY <2>2 DEF EnsuredLog, EnsuredId
    <3>2. d \in 1 .. Len(stored) /\ DOMAIN stored = 1 .. Len(stored)
      BY <1>2, <2>2, <3>1 DEF NoSession
    <3>3. stored[d] \in Seq(Rows)
      BY <1>2, <3>2, ElementOfSeq
    <3>4. seq[k] <= Len(stored[d]) /\ \A i \in 1 .. Len(stored[d]) : stored[d][i] # Lost
      BY <2>2, <3>1, <3>2, <3>3 DEF CountInv
    <3>. QED  BY <1>2, <3>1, <3>2, <3>4
  <2>. QED  BY <2>1, <2>2
<1>4. L[d] \in Seq(Rows) /\ Len(L[d]) \in Nat
  BY <1>3, ElementOfSeq
<1>. HIDE DEF L, d
<1>5. /\ w \in Seq(Rows) /\ Len(L[d]) <= Len(w) /\ seq[k] < Len(w)
      /\ \A i \in 1 .. Len(w) :
            (i \in 1 .. Len(L[d]) /\ w[i] = L[d][i]) \/ (i = seq[k] + 1 /\ i = Len(w) /\ w[i] = e)
  <2>1. CASE seq[k] = Len(L[d])
    <3>1. w = Append(L[d], e)
      BY <1>1, <1>2, <1>4, <2>1, PutFits
    <3>2. /\ w \in Seq(Rows) /\ Len(w) = Len(L[d]) + 1
          /\ \A i \in 1 .. Len(w) : w[i] = IF i <= Len(L[d]) THEN L[d][i] ELSE e
      BY <1>4, <3>1, AppendProperties
    <3>. QED  BY <1>2, <1>4, <2>1, <3>2
  <2>2. CASE seq[k] < Len(L[d])
    <3>1. PICK log, n : log = L[d] /\ n = seq[k]
      OBVIOUS
    <3>2. log \in Seq(Rows) /\ n \in Nat /\ n < Len(log) /\ Len(log) \in Nat /\ \A i \in 1 .. Len(log) : log[i] # Lost
      BY <1>2, <1>3, <1>4, <2>2, <3>1
    <3>3. w = [i \in 1 .. Len(log) |-> IF i = n + 1 /\ (n >= Len(log) \/ log[i] = Lost) THEN e
                                       ELSE IF i <= Len(log) THEN log[i] ELSE Lost]
      BY <1>1, <3>1, <3>2 DEF Put
    <3>4. \A i \in 1 .. Len(log) : w[i] = log[i]
      BY <3>2, <3>3
    <3>5. \A i \in 1 .. Len(log) : w[i] \in Rows
      BY <3>2, <3>4, ElementOfSeq
    <3>6. w \in Seq(Rows) /\ Len(w) = Len(log)
      BY <3>2, <3>3, <3>5
    <3>. QED  BY <3>1, <3>2, <3>4, <3>6
  <2>. QED  BY <1>2, <1>3, <1>4, <2>1, <2>2
<1>6. /\ stored' \in Seq(Seq(Rows)) /\ Len(stored') = Len(L)
      /\ \A s \in 1 .. Len(L) : stored'[s] = IF s = d THEN w ELSE L[s]
  BY <1>1, <1>3, <1>5, ExceptSeq
<1>7. DOMAIN stored' = 1 .. Len(L) /\ DOMAIN stored = 1 .. Len(stored)
  BY <1>2, <1>6
<1>8. ASSUME NEW s \in DOMAIN stored PROVE s \in DOMAIN stored' /\ Len(stored[s]) <= Len(stored'[s])
  <2>1. s \in 1 .. Len(L) /\ L[s] = stored[s] /\ stored[s] \in Seq(Rows) /\ Len(stored[s]) \in Nat
    <3>1. s \in 1 .. Len(stored) /\ Len(stored) \in Nat /\ Len(stored) <= Len(L) /\ Len(L) \in Nat
      BY <1>2, <1>3, <1>7
    <3>2. s \in 1 .. Len(L)
      BY <3>1
    <3>3. L[s] = stored[s]
      BY <1>3, <3>1
    <3>4. stored[s] \in Seq(Rows)
      BY <1>2, <3>1, ElementOfSeq
    <3>. QED  BY <3>2, <3>3, <3>4
  <2>2. CASE s = d
    BY <1>5, <1>6, <1>7, <2>1, <2>2
  <2>3. CASE s # d
    BY <1>6, <1>7, <2>1, <2>3
  <2>. QED  BY <2>2, <2>3
<1>9. ASSUME NEW s \in DOMAIN stored', NEW i \in DOMAIN stored'[s]
      PROVE  \/ s \in DOMAIN stored /\ i \in DOMAIN stored[s] /\ stored'[s][i] = stored[s][i]
             \/ s = d /\ i = seq[k] + 1 /\ i = Len(stored'[s]) /\ stored'[s][i] = e
  <2>1. s \in 1 .. Len(L)
    BY <1>7
  <2>2. L[s] # <<>> \/ s = d
    <3>. SUFFICES ASSUME L[s] = <<>>, s # d PROVE FALSE
      OBVIOUS
    <3>1. stored'[s] = <<>>
      BY <1>6, <2>1
    <3>2. i \in DOMAIN <<>>
      BY <1>9, <3>1
    <3>. QED  BY <3>2
  <2>3. CASE s # d
    <3>1. stored'[s] = L[s] /\ s \in 1 .. Len(stored) /\ L[s] = stored[s]
      BY <1>3, <1>6, <2>1, <2>2, <2>3
    <3>. QED  BY <1>7, <1>9, <3>1
  <2>4. CASE s = d
    <3>1. stored'[s] = w /\ i \in 1 .. Len(w)
      BY <1>5, <1>6, <1>9, <2>1, <2>4
    <3>2. CASE i \in 1 .. Len(L[d]) /\ w[i] = L[d][i]
      <4>1. L[d] # <<>>
        BY <3>2
      <4>2. s \in 1 .. Len(stored) /\ L[s] = stored[s] /\ stored[s] \in Seq(Rows)
        BY <1>2, <1>3, <2>1, <2>4, <4>1, ElementOfSeq
      <4>3. i \in DOMAIN stored[s]
        BY <2>4, <3>2, <4>2
      <4>. QED  BY <1>7, <2>4, <3>1, <3>2, <4>2, <4>3
    <3>3. CASE i = seq[k] + 1 /\ i = Len(w) /\ w[i] = e
      BY <2>4, <3>1, <3>3
    <3>. QED  BY <1>5, <3>1, <3>2, <3>3
  <2>. QED  BY <2>3, <2>4
<1>10. d \in DOMAIN stored' /\ seq[k] < Len(stored'[d])
  BY <1>3, <1>5, <1>6, <1>7
<1>11. d = sid[k] \/ (sid[k] = NoSession /\ d \notin DOMAIN stored)
  BY <1>3, <1>7
<1>. QED  BY <1>1, <1>8, <1>9, <1>10, <1>11


\* What holds for rows that are there, after a step.
RowsStay == \A s \in DOMAIN stored : \A i \in DOMAIN stored[s] : \A e :
                e = stored[s][i] /\ LeftOver(e) => LeftOver(e)'

\* An event that is persisted is counted, or is the outcome of another run.
LEMMA PersistedCounts ==
    ASSUME SessionTypes, CountInv, UNCHANGED conn, RowsStay, NEW k \in Conns, NEW e \in Rows, e # Lost,
           EnsureAndPersist(k, e), k = conn \/ sid[conn] = NoSession \/ LeftOver(e)'
    PROVE  CountInv'
<1>1. faults \in Nat /\ faults' \in Nat /\ (faults' = 0 => faults = 0)
  <2>1. faults \in Nat
    BY DEF CountInv
  <2>. QED  BY <2>1 DEF EnsureAndPersist
<1>. SUFFICES ASSUME faults' = 0
              PROVE  /\ \A s \in DOMAIN stored' : \A i \in DOMAIN stored'[s] : stored'[s][i] # Lost
                     /\ \A j \in Conns : sid'[j] # NoSession => seq'[j] <= Len(stored'[sid'[j]])
                     /\ sid'[conn] # NoSession =>
                          \A i \in DOMAIN stored'[sid'[conn]] :
                              i > seq'[conn] => LeftOver(stored[sid[conn]][i])'
  BY <1>1 DEF CountInv
<1>2. StoreTypes /\ conn \in Conns /\ conn' = conn
  BY DEF SessionTypes, LinkTypes
<1>3. PICK d \in DOMAIN stored' :
        /\ sid' = [sid EXCEPT ![k] = d] /\ seq' = [seq EXCEPT ![k] = seq[k] + 1]
        /\ d = sid[k] \/ (sid[k] = NoSession /\ d \notin DOMAIN stored)
        /\ \A s \in DOMAIN stored : s \in DOMAIN stored' /\ Len(stored[s]) <= Len(stored'[s])
        /\ seq[k] < Len(stored'[d])
        /\ \A s \in DOMAIN stored' : \A i \in DOMAIN stored'[s] :
              \/ s \in DOMAIN stored /\ i \in DOMAIN stored[s] /\ stored'[s][i] = stored[s][i]
              \/ s = d /\ i = seq[k] + 1 /\ i = Len(stored'[s]) /\ stored'[s][i] = e
  BY <1>1, <1>2, PersistedPlace
<1>4. /\ sid \in [Conns -> 0 .. Len(stored)] /\ seq \in [Conns -> Nat] /\ stored \in Seq(Seq(Rows))
      /\ DOMAIN stored = 1 .. Len(stored) /\ Len(stored) \in Nat
  BY <1>2 DEF StoreTypes
<1>4a. stored' \in Seq(Seq(Rows)) /\ DOMAIN stored' = 1 .. Len(stored')
  <2>1. stored' \in Seq(Seq(Rows))
    BY <1>2, Persisted DEF StoreTypes
  <2>. QED  BY <2>1
<1>5. ASSUME NEW s \in DOMAIN stored', NEW i \in DOMAIN stored'[s] PROVE stored'[s][i] # Lost
  BY <1>1, <1>3 DEF CountInv
<1>6. ASSUME NEW j \in Conns, sid'[j] # NoSession PROVE seq'[j] <= Len(stored'[sid'[j]])
  <2>1. CASE j = k
    <3>1. stored'[d] \in Seq(Rows) /\ Len(stored'[d]) \in Nat
      BY <1>3, <1>4a, ElementOfSeq
    <3>. QED  BY <1>3, <1>4, <2>1, <3>1
  <2>2. CASE j # k
    <3>1. sid'[j] = sid[j] /\ seq'[j] = seq[j] /\ sid[j] \in DOMAIN stored
      BY <1>3, <1>4, <1>6, <2>2 DEF NoSession
    <3>2. seq[j] <= Len(stored[sid[j]]) /\ Len(stored[sid[j]]) <= Len(stored'[sid[j]])
      <4>1. seq[j] <= Len(stored[sid[j]])
        BY <1>1, <1>6, <3>1 DEF CountInv
      <4>2. PICK u : u = sid[j]
        OBVIOUS
      <4>3. Len(stored[u]) <= Len(stored'[u])
        BY <1>3, <3>1, <4>2
      <4>. QED  BY <4>1, <4>2, <4>3
    <3>3. stored[sid[j]] \in Seq(Rows) /\ stored'[sid[j]] \in Seq(Rows)
      BY <1>3, <1>4, <1>4a, <3>1, ElementOfSeq
    <3>4. Len(stored[sid[j]]) \in Nat /\ Len(stored'[sid[j]]) \in Nat
      BY <3>3
    <3>. QED  BY <1>4, <3>1, <3>2, <3>4
  <2>. QED  BY <2>1, <2>2
<1>7. ASSUME sid'[conn] # NoSession, NEW i \in DOMAIN stored'[sid'[conn]], i > seq'[conn],
             NEW x, x = stored'[sid'[conn]][i]
      PROVE  LeftOver(x)'
  <2>1. sid'[conn] \in DOMAIN stored'
    BY <1>2, <1>3, <1>4, <1>7 DEF NoSession
  <2>2. \/ sid'[conn] \in DOMAIN stored /\ i \in DOMAIN stored[sid'[conn]] /\ x = stored[sid'[conn]][i]
        \/ sid'[conn] = d /\ i = seq[k] + 1 /\ i = Len(stored'[sid'[conn]]) /\ x = e
    BY <1>3, <1>7, <2>1
  <2>3. CASE k = conn
    <3>1. sid'[conn] = d /\ seq'[conn] = seq[conn] + 1 /\ seq[conn] \in Nat
      BY <1>2, <1>3, <1>4, <2>3
    <3>2. d \in DOMAIN stored /\ i \in DOMAIN stored[d] /\ x = stored[d][i]
      BY <1>7, <2>2, <2>3, <3>1
    <3>3. d = sid[conn] /\ d # NoSession
      BY <1>3, <1>4, <2>3, <3>2 DEF NoSession
    <3>4. i \in Nat
      <4>1. stored[d] \in Seq(Rows)
        BY <1>4, <3>2, ElementOfSeq
      <4>. QED  BY <3>2, <4>1
    <3>5. i > seq[conn]
      BY <1>7, <3>1, <3>4
    <3>6. LeftOver(x)
      BY <1>1, <3>2, <3>3, <3>5 DEF CountInv
    <3>. QED  BY <3>2, <3>6 DEF RowsStay
  <2>4. CASE k # conn
    <3>1. sid'[conn] = sid[conn] /\ seq'[conn] = seq[conn]
      BY <1>2, <1>3, <1>4, <2>4
    <3>2. CASE x = e
      BY <1>7, <2>4, <3>1, <3>2
    <3>3. CASE sid[conn] \in DOMAIN stored /\ i \in DOMAIN stored[sid[conn]] /\ x = stored[sid[conn]][i]
      <4>1. LeftOver(x)
        BY <1>1, <1>7, <3>1, <3>3 DEF CountInv
      <4>. QED  BY <3>3, <4>1 DEF RowsStay
    <3>. QED  BY <2>2, <3>1, <3>2, <3>3
  <2>. QED  BY <2>3, <2>4
<1>. QED  BY <1>2, <1>5, <1>6, <1>7 DEF LeftOver

\* A summary closes one session and opens another.
LEMMA RestartedCounts ==
    ASSUME SessionTypes, CountInv, UNCHANGED conn, RowsStay, NEW k \in Conns, NEW e \in Rows, e # Lost,
           PersistAndRestart(k, e), k = conn \/ sid[conn] = NoSession
    PROVE  CountInv'
<1>. DEFINE d == sid[k]
<1>0. faults \in Nat /\ faults' \in Nat /\ (faults' = 0 => faults = 0)
  <2>1. faults \in Nat
    BY DEF CountInv
  <2>. QED  BY <2>1 DEF PersistAndRestart
<1>. SUFFICES ASSUME faults' = 0
              PROVE  /\ \A s \in DOMAIN stored' : \A i \in DOMAIN stored'[s] : stored'[s][i] # Lost
                     /\ \A j \in Conns : sid'[j] # NoSession => seq'[j] <= Len(stored'[sid'[j]])
                     /\ sid'[conn] # NoSession =>
                          \A i \in DOMAIN stored'[sid'[conn]] :
                              i > seq'[conn] => LeftOver(stored[sid[conn]][i])'
  BY <1>0 DEF CountInv
<1>1. PICK w, n :
        /\ w = Put(stored[d], seq[k], e)
        /\ n = Put(<<>>, 0, e)
        /\ stored' = Append([stored EXCEPT ![d] = w], n)
        /\ sid' = [sid EXCEPT ![k] = Len(stored) + 1]
        /\ seq' = [seq EXCEPT ![k] = 1]
  <2>1. PICK old, new :
          /\ stored' = Append([stored EXCEPT ![sid[k]] = Written(@, seq[k], e, old)], Written(<<>>, 0, e, new))
          /\ sid' = [sid EXCEPT ![k] = Len(stored) + 1]
          /\ seq' = [seq EXCEPT ![k] = 1]
          /\ faults' = faults + (IF old THEN 0 ELSE 1) + (IF new THEN 0 ELSE 1)
    BY DEF PersistAndRestart
  <2>2. faults = 0
    BY <1>0
  <2>3. old /\ new
    BY <2>1, <2>2
  <2>. QED  BY <2>1, <2>3 DEF Written
<1>2. /\ stored \in Seq(Seq(Rows)) /\ Len(stored) \in Nat /\ seq[k] \in Nat /\ d \in 0 .. Len(stored)
      /\ DOMAIN stored = 1 .. Len(stored) /\ StoreTypes /\ conn \in Conns /\ conn' = conn
      /\ sid \in [Conns -> 0 .. Len(stored)] /\ seq \in [Conns -> Nat]
  BY DEF StoreTypes, SessionTypes, LinkTypes
<1>. DEFINE L == [stored EXCEPT ![d] = w]
<1>3. n = <<e>>
  <2>1. <<>> \in Seq(Rows) /\ 0 = Len(<<>>)
    OBVIOUS
  <2>2. Put(<<>>, 0, e) = Append(<<>>, e)
    BY <2>1, PutFits
  <2>. QED  BY <1>1, <2>2
<1>4. d \in 1 .. Len(stored) =>
        /\ w \in Seq(Rows) /\ Len(stored[d]) <= Len(w)
        /\ \A i \in 1 .. Len(w) : w[i] # Lost
  <2>. SUFFICES ASSUME d \in 1 .. Len(stored)
                PROVE  w \in Seq(Rows) /\ Len(stored[d]) <= Len(w) /\ \A i \in 1 .. Len(w) : w[i] # Lost
    OBVIOUS
  <2>1. PICK log, q : log = stored[d] /\ q = seq[k]
    OBVIOUS
  <2>2. log \in Seq(Rows) /\ Len(log) \in Nat /\ q \in Nat /\ w = Put(log, q, e)
    BY <1>1, <1>2, <2>1, ElementOfSeq
  <2>3. q <= Len(log) /\ \A i \in 1 .. Len(log) : log[i] # Lost
    <3>1. d \in DOMAIN stored /\ d # NoSession /\ faults = 0 /\ DOMAIN log = 1 .. Len(log)
      BY <1>0, <1>2, <2>2 DEF NoSession
    <3>. QED  BY <2>1, <3>1 DEF CountInv
  <2>4. CASE q = Len(log)
    <3>1. w = Append(log, e)
      BY <2>2, <2>4, PutFits
    <3>2. /\ w \in Seq(Rows) /\ Len(w) = Len(log) + 1
          /\ \A i \in 1 .. Len(w) : w[i] = IF i <= Len(log) THEN log[i] ELSE e
      BY <2>2, <3>1, AppendProperties
    <3>. QED  BY <2>1, <2>2, <2>3, <3>2
  <2>5. CASE q < Len(log)
    <3>1. w = [i \in 1 .. Len(log) |-> IF i = q + 1 /\ (q >= Len(log) \/ log[i] = Lost) THEN e
                                       ELSE IF i <= Len(log) THEN log[i] ELSE Lost]
      BY <2>2, <2>5 DEF Put
    <3>2. \A i \in 1 .. Len(log) : w[i] = log[i]
      BY <2>2, <2>3, <3>1
    <3>3. \A i \in 1 .. Len(log) : w[i] \in Rows
      BY <2>2, <3>2, ElementOfSeq
    <3>4. w \in Seq(Rows) /\ Len(w) = Len(log)
      BY <2>2, <3>1, <3>3
    <3>. QED  BY <2>1, <2>3, <3>2, <3>4
  <2>. QED  BY <2>2, <2>3, <2>4, <2>5
<1>5. /\ L \in Seq(Seq(Rows)) /\ Len(L) = Len(stored)
      /\ \A s \in 1 .. Len(stored) : L[s] = IF s = d THEN w ELSE stored[s]
  <2>1. CASE d \in 1 .. Len(stored)
    BY <1>2, <1>4, <2>1, ExceptSeq
  <2>2. CASE d \notin 1 .. Len(stored)
    <3>1. L = stored
      BY <1>2, <2>2
    <3>. QED  BY <1>2, <2>2, <3>1
  <2>. QED  BY <2>1, <2>2
<1>6. stored' = Append(L, n) /\ n \in Seq(Rows) /\ Len(n) = 1 /\ n[1] = e
  <2>1. stored' = Append(L, n)
    BY <1>1
  <2>. HIDE DEF L
  <2>2. n \in Seq(Rows) /\ Len(n) = 1 /\ n[1] = e
    BY <1>3
  <2>. QED  BY <2>1, <2>2
<1>. HIDE DEF L
<1>7. /\ Len(stored') = Len(stored) + 1 /\ stored' \in Seq(Seq(Rows))
      /\ \A s \in 1 .. Len(stored') : stored'[s] = IF s = Len(stored) + 1 THEN n ELSE IF s = d THEN w ELSE stored[s]
  BY <1>2, <1>5, <1>6, AppendProperties
<1>8. ASSUME NEW s \in DOMAIN stored', NEW i \in DOMAIN stored'[s] PROVE stored'[s][i] # Lost
  <2>1. s \in 1 .. Len(stored')
    BY <1>7
  <2>2. CASE s = Len(stored) + 1
    <3>1. stored'[s] = n
      BY <1>7, <2>1, <2>2
    <3>2. i \in 1 .. Len(n)
      BY <1>6, <1>8, <3>1
    <3>. QED  BY <1>6, <3>1, <3>2
  <2>3. CASE s # Len(stored) + 1 /\ s = d
    <3>1. s \in 1 .. Len(stored) /\ stored'[s] = w
      BY <1>2, <1>7, <2>1, <2>3
    <3>2. w \in Seq(Rows)
      BY <1>4, <2>3, <3>1
    <3>3. i \in 1 .. Len(w)
      BY <1>8, <3>1, <3>2
    <3>. QED  BY <1>4, <2>3, <3>1, <3>3
  <2>4. CASE s # Len(stored) + 1 /\ s # d
    <3>1. s \in DOMAIN stored /\ stored'[s] = stored[s]
      BY <1>2, <1>7, <2>1, <2>4
    <3>. QED  BY <1>0, <1>8, <3>1 DEF CountInv
  <2>. QED  BY <2>2, <2>3, <2>4
<1>9. sid'[k] = Len(stored) + 1 /\ seq'[k] = 1 /\ Len(stored'[Len(stored) + 1]) = 1
  BY <1>1, <1>2, <1>6, <1>7
<1>10. ASSUME NEW j \in Conns, sid'[j] # NoSession PROVE seq'[j] <= Len(stored'[sid'[j]])
  <2>1. CASE j = k
    <3>1. Len(stored'[sid'[j]]) = 1 /\ seq'[j] = 1
      BY <1>9, <2>1
    <3>. QED  BY <3>1
  <2>2. CASE j # k
    <3>1. sid'[j] = sid[j] /\ seq'[j] = seq[j] /\ sid[j] \in 1 .. Len(stored) /\ seq[j] \in Nat
      BY <1>1, <1>2, <1>10, <2>2 DEF NoSession
    <3>2. PICK u : u = sid[j]
      OBVIOUS
    <3>3. u \in 1 .. Len(stored) /\ u \in 1 .. Len(stored') /\ u # Len(stored) + 1
      BY <1>2, <1>7, <3>1, <3>2
    <3>4. seq[j] <= Len(stored[u]) /\ stored[u] \in Seq(Rows)
      BY <1>0, <1>2, <1>10, <3>1, <3>2, ElementOfSeq DEF CountInv
    <3>5. CASE u = d
      <4>1. stored'[u] = w /\ w \in Seq(Rows) /\ Len(stored[u]) <= Len(w)
        BY <1>4, <1>7, <3>3, <3>5
      <4>2. Len(w) \in Nat /\ Len(stored[u]) \in Nat
        BY <3>4, <4>1
      <4>. QED  BY <3>1, <3>2, <3>4, <4>1, <4>2
    <3>6. CASE u # d
      BY <1>7, <3>1, <3>2, <3>3, <3>4, <3>6
    <3>. QED  BY <3>5, <3>6
  <2>. QED  BY <2>1, <2>2
<1>11. ASSUME sid'[conn] # NoSession, NEW i \in DOMAIN stored'[sid'[conn]], i > seq'[conn] PROVE FALSE
  <2>1. k = conn
    BY <1>1, <1>2, <1>11
  <2>2. sid'[conn] = Len(stored) + 1 /\ seq'[conn] = 1 /\ stored'[sid'[conn]] = n
    BY <1>2, <1>7, <1>9, <2>1
  <2>3. i \in 1 .. 1
    BY <1>6, <1>11, <2>2
  <2>. QED  BY <1>11, <2>2, <2>3
<1>. QED  BY <1>2, <1>8, <1>10, <1>11

\* A new session is empty, and its first seq is 0.
LEMMA NewCounts ==
    ASSUME SessionTypes, CountInv, OrderInv, RowsStay, UNCHANGED conn, OnNewSession
    PROVE  CountInv'
<1>. DEFINE k == From
<1>1. /\ stored' = Append(stored, <<>>) /\ sid' = [sid EXCEPT ![k] = Len(stored) + 1] /\ seq' = [seq EXCEPT ![k] = 0]
      /\ faults' = faults /\ c2d # <<>>
  BY DEF OnNewSession, Receive
<1>2. k \in Conns /\ (k = conn \/ sid[conn] = NoSession)
  BY <1>1, HeadMessage DEF SessionTypes, Messages, From, OrderInv
<1>. HIDE DEF k
<1>3. /\ <<>> \in Seq(Rows) /\ stored \in Seq(Seq(Rows)) /\ Len(stored) \in Nat /\ Len(<<>>) = 0
      /\ sid \in [Conns -> 0 .. Len(stored)] /\ seq \in [Conns -> Nat] /\ DOMAIN stored = 1 .. Len(stored)
      /\ conn' = conn /\ conn \in Conns
  BY DEF SessionTypes, StoreTypes, LinkTypes
<1>4. /\ stored' \in Seq(Seq(Rows)) /\ Len(stored') = Len(stored) + 1
      /\ \A s \in 1 .. Len(stored) : stored'[s] = stored[s]
      /\ stored'[Len(stored) + 1] = <<>>
  BY <1>1, <1>3, AppendProperties
<1>5. sid'[k] = Len(stored) + 1 /\ seq'[k] = 0
  BY <1>1, <1>2, <1>3
<1>. SUFFICES ASSUME faults = 0
              PROVE  /\ \A s \in DOMAIN stored' : \A i \in DOMAIN stored'[s] : stored'[s][i] # Lost
                     /\ \A j \in Conns : sid'[j] # NoSession => seq'[j] <= Len(stored'[sid'[j]])
                     /\ sid'[conn] # NoSession => \A i \in DOMAIN stored'[sid'[conn]] : ~ (i > seq'[conn])
  BY <1>1, <1>3 DEF CountInv
<1>6. ASSUME NEW s \in DOMAIN stored', NEW i \in DOMAIN stored'[s] PROVE s \in DOMAIN stored /\ stored'[s] = stored[s]
  <2>1. s # Len(stored) + 1
    <3>. SUFFICES ASSUME s = Len(stored) + 1 PROVE FALSE
      OBVIOUS
    <3>1. stored'[s] = <<>>
      BY <1>4
    <3>2. i \in DOMAIN <<>>
      BY <1>6, <3>1
    <3>. QED  BY <3>2
  <2>2. DOMAIN stored' = 1 .. Len(stored) + 1
    BY <1>4
  <2>3. s \in 1 .. Len(stored)
    BY <1>3, <2>1, <2>2
  <2>. QED  BY <1>3, <1>4, <2>3
<1>7. \A s \in DOMAIN stored' : \A i \in DOMAIN stored'[s] : stored'[s][i] # Lost
  BY <1>6 DEF CountInv
<1>8. ASSUME NEW j \in Conns, sid'[j] # NoSession PROVE seq'[j] <= Len(stored'[sid'[j]])
  <2>1. CASE j = k
    <3>1. seq'[j] = 0 /\ stored'[sid'[j]] = <<>>
      BY <1>4, <1>5, <2>1
    <3>. QED  BY <1>3, <3>1
  <2>2. CASE j # k
    <3>1. sid'[j] = sid[j] /\ seq'[j] = seq[j] /\ sid[j] \in 1 .. Len(stored)
      BY <1>1, <1>3, <1>8, <2>2 DEF NoSession
    <3>2. stored'[sid[j]] = stored[sid[j]]
      BY <1>4, <3>1
    <3>. QED  BY <1>8, <3>1, <3>2 DEF CountInv
  <2>. QED  BY <2>1, <2>2
<1>9. ASSUME sid'[conn] # NoSession, NEW i \in DOMAIN stored'[sid'[conn]] PROVE FALSE
  <2>1. k = conn
    BY <1>1, <1>2, <1>3, <1>9
  <2>2. stored'[sid'[conn]] = <<>>
    BY <1>4, <1>5, <2>1
  <2>. QED  BY <1>9, <2>2
<1>. QED  BY <1>7, <1>8, <1>9

\* All rows of a loaded session are counted.
LEMMA LoadCounts ==
    ASSUME SessionTypes, CountInv, OrderInv, UNCHANGED conn, OnLoadSession
    PROVE  CountInv'
<1>. DEFINE k == From
            s == Head(c2d).id
<1>1. /\ stored' = stored /\ sid' = [sid EXCEPT ![k] = s] /\ seq' = [seq EXCEPT ![k] = EventCount(stored[s])]
      /\ faults' = faults /\ c2d # <<>>
  BY DEF OnLoadSession, Receive
<1>2. k \in Conns /\ (k = conn \/ sid[conn] = NoSession)
  BY <1>1, HeadMessage DEF SessionTypes, Messages, From, OrderInv
<1>3. s \in 1 .. Len(stored)
  BY LoadSessionWritten
<1>. HIDE DEF k, s
<1>4. /\ stored \in Seq(Seq(Rows)) /\ DOMAIN stored = 1 .. Len(stored) /\ conn' = conn /\ conn \in Conns
      /\ sid \in [Conns -> 0 .. Len(stored)] /\ seq \in [Conns -> Nat] /\ Len(stored) \in Nat
  BY DEF SessionTypes, StoreTypes, LinkTypes
<1>. SUFFICES ASSUME faults = 0
              PROVE  /\ \A j \in Conns : sid'[j] # NoSession => seq'[j] <= Len(stored[sid'[j]])
                     /\ sid'[conn] # NoSession => \A i \in DOMAIN stored[sid'[conn]] : ~ (i > seq'[conn])
  BY <1>1, <1>4 DEF CountInv
<1>5. stored[s] \in Seq(Rows) /\ \A i \in DOMAIN stored[s] : stored[s][i] # Lost
  BY <1>3, <1>4, ElementOfSeq DEF CountInv
<1>6. EventCount(stored[s]) = Len(stored[s]) /\ Len(stored[s]) \in Nat
  BY <1>5, AllCounted
<1>7. sid'[k] = s /\ seq'[k] = Len(stored[s])
  BY <1>1, <1>2, <1>4, <1>6
<1>8. ASSUME NEW j \in Conns, sid'[j] # NoSession PROVE seq'[j] <= Len(stored[sid'[j]])
  <2>1. CASE j = k
    BY <1>6, <1>7, <2>1
  <2>2. CASE j # k
    <3>1. sid'[j] = sid[j] /\ seq'[j] = seq[j]
      BY <1>1, <1>4, <2>2
    <3>. QED  BY <1>8, <3>1 DEF CountInv
  <2>. QED  BY <2>1, <2>2
<1>9. ASSUME sid'[conn] # NoSession, NEW i \in DOMAIN stored[sid'[conn]], i > seq'[conn] PROVE FALSE
  <2>1. k = conn
    BY <1>1, <1>2, <1>4, <1>9
  <2>2. sid'[conn] = s /\ seq'[conn] = Len(stored[s])
    BY <1>7, <2>1
  <2>3. i \in 1 .. Len(stored[s])
    BY <1>5, <1>9, <2>2
  <2>. QED  BY <1>6, <1>9, <2>2, <2>3
<1>. QED  BY <1>8, <1>9

\* A step that leaves the store and the connection leaves what has been counted.
LEMMA UnwrittenCounts ==
    ASSUME SessionTypes, CountInv, RowsStay, UNCHANGED <<storeVars, conn>>
    PROVE  CountInv'
<1>1. stored' = stored /\ sid' = sid /\ seq' = seq /\ faults' = faults /\ conn' = conn
  BY DEF storeVars
<1>2. conn \in Conns /\ \A k \in Conns : sid[k] # NoSession => sid[k] \in DOMAIN stored
  BY DEF SessionTypes, StoreTypes, LinkTypes, NoSession
<1>3. ASSUME faults = 0, sid[conn] # NoSession, NEW i \in DOMAIN stored[sid[conn]], i > seq[conn],
             NEW x, x = stored[sid[conn]][i]
      PROVE  LeftOver(x)'
  <2>1. LeftOver(x)
    BY <1>3 DEF CountInv
  <2>. QED  BY <1>2, <1>3, <2>1 DEF RowsStay
<1>4. faults' \in Nat
  BY <1>1 DEF CountInv
<1>5. faults' = 0 => \A s \in DOMAIN stored' : \A i \in DOMAIN stored'[s] : stored'[s][i] # Lost
  BY <1>1 DEF CountInv
<1>6. faults' = 0 => \A k \in Conns : sid'[k] # NoSession => seq'[k] <= Len(stored'[sid'[k]])
  BY <1>1 DEF CountInv
<1>7. faults' = 0 /\ sid'[conn'] # NoSession =>
          \A i \in DOMAIN stored'[sid'[conn']] : i > seq'[conn'] => LeftOver(stored[sid[conn]][i])'
  <2>. SUFFICES ASSUME faults' = 0, sid'[conn'] # NoSession, NEW i \in DOMAIN stored'[sid'[conn']], i > seq'[conn']
                PROVE  LeftOver(stored[sid[conn]][i])'
    OBVIOUS
  <2>1. PICK x : x = stored[sid[conn]][i]
    OBVIOUS
  <2>2. LeftOver(x)'
    BY <1>1, <1>3, <2>1
  <2>. QED  BY <1>1, <2>1, <2>2 DEF LeftOver
<1>. QED  BY <1>4, <1>5, <1>6, <1>7 DEF CountInv

\* Who moves: the client the main loop works for, or the one whose message it reads.
LEMMA WhoMoves ==
    ASSUME SessionTypes, TurnStep, NEW j \in Conns
    PROVE  \/ /\ c2d' = c2d
              /\ sid'[j] # sid[j] => (loop.at # "idle" /\ loop.from = j) \/ sid[j] # NoSession
              /\ loop'.at # "idle" => loop.at # "idle" /\ loop'.from = loop.from
           \/ /\ loop.at = "idle" /\ c2d # <<>> /\ c2d' = Tail(c2d)
              /\ sid'[j] # sid[j] => From = j
              /\ loop'.at # "idle" => loop'.from = From /\ sid' = sid
<1>0. TurnTypes /\ LinkTypes /\ StoreTypes
  BY DEF SessionTypes
<1>1. ASSUME NEW r \in Requests, RunStep(r) PROVE UNCHANGED <<sid, c2d, loop>>
  BY <1>0, <1>1, RunMoves DEF storeVars
<1>2. CASE DaemonHandle
  <2>1. loop.at = "idle" /\ c2d # <<>> /\ c2d' = Tail(c2d)
    BY <1>2 DEF DaemonHandle, OnAgentRequest, OnCancelRequest, OnNewSession, OnLoadSession, OnCommandResult,
                OnCompactRequest, Ignore, Receive, LoopFree, Idle
  <2>2. From \in Conns
    BY <1>0, <2>1, HeadMessage DEF Messages, From
  <2>3. CASE OnAgentRequest \/ OnCompactRequest
    <3>1. PICK r : StartCompaction(From, r) \/ loop' = [at |-> "request", from |-> From, req |-> r]
      BY <2>3 DEF OnAgentRequest, OnCompactRequest
    <3>2. loop' \in {Idle, [at |-> "request", from |-> From, req |-> r], [at |-> "compact", from |-> From, req |-> r]}
      BY <3>1 DEF StartCompaction
    <3>3. sid' = sid
      BY <2>3 DEF OnAgentRequest, OnCompactRequest, storeVars
    <3>. QED  BY <2>1, <3>2, <3>3 DEF Idle
  <2>4. CASE OnCancelRequest \/ Ignore
    BY <2>1, <2>4 DEF OnCancelRequest, Ignore, turnVars, storeVars
  <2>5. CASE OnNewSession \/ OnLoadSession \/ OnCommandResult
    <3>1. loop' = loop
      BY <2>5 DEF OnNewSession, OnLoadSession, OnCommandResult
    <3>2. \E v : sid' = [sid EXCEPT ![From] = v]
      BY <2>5 DEF OnNewSession, OnLoadSession, OnCommandResult, EnsureAndPersist
    <3>. QED  BY <1>0, <2>1, <2>2, <3>1, <3>2 DEF StoreTypes
  <2>. QED  BY <1>2, <2>3, <2>4, <2>5 DEF DaemonHandle
<1>3. CASE BeginRun
  <2>1. loop' = Idle /\ loop.at # "idle" /\ c2d' = c2d /\ \E v : sid' = [sid EXCEPT ![loop.from] = v]
    BY <1>3 DEF BeginRun, EnsureAndPersist
  <2>. QED  BY <1>0, <2>1 DEF StoreTypes, Idle
<1>4. CASE CompactDone \/ CompactFail
  <2>1. loop.at = "compact" /\ loop' = AfterCompaction /\ c2d' = c2d
    BY <1>4 DEF CompactDone, CompactFail
  <2>2. loop \in [at : {"request", "compact"}, from : Conns, req : Requests \cup {NoRequest}]
    BY <1>0, <2>1 DEF TurnTypes, Idle
  <2>3. loop'.at # "idle" => loop'.from = loop.from
    BY <2>1, <2>2 DEF AfterCompaction, Idle
  <2>4. sid' = sid \/ \E v : sid' = [sid EXCEPT ![loop.from] = v]
    BY <1>4 DEF CompactDone, CompactFail, PersistAndRestart, storeVars
  <2>. QED  BY <1>0, <2>1, <2>3, <2>4 DEF StoreTypes
<1>5. ASSUME NEW k \in Conns, Collect(k)
      PROVE  UNCHANGED <<c2d, loop>> /\ (sid'[j] # sid[j] => sid[j] # NoSession)
  <2>1. rx[k] \in Requests /\ sid[k] # NoSession
    BY <1>0, <1>5 DEF TurnTypes, LinkTypes, Collect, Returned
  <2>2. sid' = [sid EXCEPT ![k] = sid[k]] /\ UNCHANGED <<c2d, loop>>
    BY <1>5, <2>1 DEF Collect, Install, EnsureAndPersist, EnsuredId
  <2>. QED  BY <1>0, <2>2 DEF StoreTypes
<1>6. ASSUME NEW k, CleanupStale(k) PROVE UNCHANGED <<sid, c2d, loop>>
  BY <1>6 DEF CleanupStale, storeVars
<1>7. CASE ConfigReload
  BY <1>7 DEF ConfigReload, storeVars
<1>. QED  BY <1>1, <1>2, <1>3, <1>4, <1>5, <1>6, <1>7 DEF TurnStep, LoopStep

\* What is left of the channel, or one more message, keeps its order.
LEMMA OrderKept ==
    ASSUME LinkTypes, OrderInv, UNCHANGED <<conn, loop>>, sid'[conn] = sid[conn], Window \/ \E m : Sends(m)
    PROVE  OrderInv'
<1>0. conn' = conn /\ loop' = loop /\ c2d \in Seq(Messages) /\ Len(c2d) \in Nat /\ conn \in Nat
  BY DEF LinkTypes, Conns
<1>1. CASE Window
  <2>1. PICK d \in Nat : \A i \in 1 .. Len(c2d') : i + d \in 1 .. Len(c2d) /\ c2d'[i] = c2d[i + d]
    BY <1>1 DEF Window
  <2>2. \A i \in 1 .. Len(c2d') : c2d'[i].from <= conn'
    BY <1>0, <2>1 DEF OrderInv
  <2>3. ASSUME NEW i \in 1 .. Len(c2d'), NEW j \in 1 .. Len(c2d'), i <= j, c2d'[i].from = conn'
        PROVE  c2d'[j].from = conn'
    <3>1. i + d \in 1 .. Len(c2d) /\ j + d \in 1 .. Len(c2d) /\ c2d'[i] = c2d[i + d] /\ c2d'[j] = c2d[j + d]
      BY <2>1
    <3>2. i + d <= j + d
      BY <2>3, <3>1
    <3>. QED  BY <1>0, <2>3, <3>1, <3>2 DEF OrderInv
  <2>4. sid'[conn'] # NoSession \/ (loop'.at # "idle" /\ loop'.from = conn') =>
            \A i \in 1 .. Len(c2d') : c2d'[i].from = conn'
    BY <1>0, <2>1 DEF OrderInv
  <2>5. sid'[conn'] # NoSession /\ loop'.at # "idle" => loop'.from = conn'
    BY <1>0 DEF OrderInv
  <2>. QED  BY <2>2, <2>3, <2>4, <2>5 DEF OrderInv
<1>2. ASSUME NEW m, Sends(m) PROVE OrderInv'
  <2>1. /\ Len(c2d') = Len(c2d) + 1 /\ m.from = conn
        /\ \A i \in 1 .. Len(c2d') : c2d'[i] = IF i <= Len(c2d) THEN c2d[i] ELSE m
    BY <1>0, <1>2, AppendProperties DEF Sends
  <2>2. \A i \in 1 .. Len(c2d') : c2d'[i].from <= conn'
    BY <1>0, <2>1 DEF OrderInv
  <2>3. ASSUME NEW i \in 1 .. Len(c2d'), NEW j \in 1 .. Len(c2d'), i <= j, c2d'[i].from = conn'
        PROVE  c2d'[j].from = conn'
    <3>1. CASE j <= Len(c2d)
      <4>1. i \in 1 .. Len(c2d) /\ j \in 1 .. Len(c2d) /\ c2d'[i] = c2d[i] /\ c2d'[j] = c2d[j]
        BY <1>0, <2>1, <2>3, <3>1
      <4>. QED  BY <1>0, <2>3, <4>1 DEF OrderInv
    <3>2. CASE ~ (j <= Len(c2d))
      BY <1>0, <2>1, <3>2
    <3>. QED  BY <3>1, <3>2
  <2>4. sid'[conn'] # NoSession \/ (loop'.at # "idle" /\ loop'.from = conn') =>
            \A i \in 1 .. Len(c2d') : c2d'[i].from = conn'
    BY <1>0, <2>1 DEF OrderInv
  <2>5. sid'[conn'] # NoSession /\ loop'.at # "idle" => loop'.from = conn'
    BY <1>0 DEF OrderInv
  <2>. QED  BY <2>2, <2>3, <2>4, <2>5 DEF OrderInv
<1>. QED  BY <1>1, <1>2

\* A step of the daemon keeps the order.
LEMMA OrderTurn ==
    ASSUME SessionTypes, OrderInv, TurnStep, UNCHANGED conn
    PROVE  OrderInv'
<1>0. /\ LinkTypes /\ StoreTypes /\ TurnTypes /\ conn' = conn /\ conn \in Conns /\ conn \in Nat
      /\ c2d \in Seq(Messages) /\ Len(c2d) \in Nat
  BY DEF SessionTypes, LinkTypes, Conns
<1>1. PICK j : j = conn
  OBVIOUS
<1>2. j \in Conns
  BY <1>0, <1>1
<1>3. Window
  BY <1>0, TurnReads, MessageMoves, ChannelStays, ChannelRead
<1>4. PICK d \in Nat : \A i \in 1 .. Len(c2d') : i + d \in 1 .. Len(c2d) /\ c2d'[i] = c2d[i + d]
  BY <1>3 DEF Window
<1>5. \A i \in 1 .. Len(c2d') : c2d'[i].from <= conn'
  BY <1>0, <1>4 DEF OrderInv
<1>6. ASSUME NEW i \in 1 .. Len(c2d'), NEW n \in 1 .. Len(c2d'), i <= n, c2d'[i].from = conn'
      PROVE  c2d'[n].from = conn'
  <2>1. i + d \in 1 .. Len(c2d) /\ n + d \in 1 .. Len(c2d) /\ c2d'[i] = c2d[i + d] /\ c2d'[n] = c2d[n + d]
    BY <1>4
  <2>2. i + d <= n + d
    BY <1>6, <2>1
  <2>. QED  BY <1>0, <1>6, <2>1, <2>2 DEF OrderInv
<1>7. CASE /\ c2d' = c2d
           /\ sid'[j] # sid[j] => (loop.at # "idle" /\ loop.from = j) \/ sid[j] # NoSession
           /\ loop'.at # "idle" => loop.at # "idle" /\ loop'.from = loop.from
  <2>1. sid'[conn'] # NoSession \/ (loop'.at # "idle" /\ loop'.from = conn') =>
            \A i \in 1 .. Len(c2d') : c2d'[i].from = conn'
    BY <1>0, <1>1, <1>7 DEF OrderInv
  <2>2. sid'[conn'] # NoSession /\ loop'.at # "idle" => loop'.from = conn'
    BY <1>0, <1>1, <1>7 DEF OrderInv
  <2>. QED  BY <1>5, <1>6, <2>1, <2>2 DEF OrderInv
<1>8. CASE /\ loop.at = "idle" /\ c2d # <<>> /\ c2d' = Tail(c2d)
           /\ sid'[j] # sid[j] => From = j
           /\ loop'.at # "idle" => loop'.from = From /\ sid' = sid
  <2>1. /\ Head(c2d) = c2d[1] /\ 1 \in 1 .. Len(c2d)
        /\ \A i \in 1 .. Len(c2d') : c2d'[i] = c2d[i + 1] /\ i + 1 \in 1 .. Len(c2d) /\ 1 <= i + 1
    BY <1>0, <1>8, HeadMessage
  <2>2. From = conn => \A i \in 1 .. Len(c2d) : c2d[i].from = conn
    <3>. SUFFICES ASSUME From = conn, NEW i \in 1 .. Len(c2d) PROVE c2d[i].from = conn
      OBVIOUS
    <3>1. c2d[1].from = conn /\ 1 <= i
      BY <2>1 DEF From
    <3>. QED  BY <2>1, <3>1 DEF OrderInv
  <2>3. sid'[conn'] # NoSession \/ (loop'.at # "idle" /\ loop'.from = conn') =>
            \A i \in 1 .. Len(c2d) : c2d[i].from = conn
    BY <1>0, <1>1, <1>8, <2>2 DEF OrderInv
  <2>4. sid'[conn'] # NoSession \/ (loop'.at # "idle" /\ loop'.from = conn') =>
            \A i \in 1 .. Len(c2d') : c2d'[i].from = conn'
    BY <1>0, <2>1, <2>3
  <2>5. sid'[conn'] # NoSession /\ loop'.at # "idle" => loop'.from = conn'
    BY <1>0, <1>8, <2>1 DEF OrderInv, From
  <2>. QED  BY <1>5, <1>6, <2>4, <2>5 DEF OrderInv
<1>. QED  BY <1>2, <1>7, <1>8, WhoMoves

\* A client that connects comes behind the messages of those before.
LEMMA OrderReconnect ==
    ASSUME SessionTypes, ViewInv, OrderInv, Reconnect
    PROVE  OrderInv'
<1>0. /\ sid' = sid /\ loop' = Idle /\ conn' = conn + 1 /\ conn \in Nat /\ conn' \in Conns
      /\ c2d \in Seq(Messages) /\ Len(c2d) \in Nat
  BY BoundAssumption DEF SessionTypes, LinkTypes, Reconnect, LoopFree, storeVars, Conns
<1>1. sid'[conn'] = NoSession
  BY <1>0 DEF ViewInv
<1>2. PICK m : /\ m.from = conn'
               /\ c2d' = c2d \/ c2d' = Append(c2d, m)
  <2>1. [type |-> "LoadSession", id |-> view, from |-> conn'].from = conn'
    OBVIOUS
  <2>. QED  BY <2>1 DEF Reconnect
<1>3. \A i \in 1 .. Len(c2d') : (i \in 1 .. Len(c2d) /\ c2d'[i] = c2d[i]) \/ (i = Len(c2d') /\ c2d'[i] = m)
  <2>1. CASE c2d' = c2d
    BY <2>1
  <2>2. CASE c2d' = Append(c2d, m)
    <3>1. /\ Len(c2d') = Len(c2d) + 1
          /\ \A i \in 1 .. Len(c2d') : c2d'[i] = IF i <= Len(c2d) THEN c2d[i] ELSE m
      BY <1>0, <2>2, AppendProperties
    <3>. QED  BY <1>0, <3>1
  <2>. QED  BY <1>2, <2>1, <2>2
<1>3a. Len(c2d') \in Nat
  BY <1>0, <1>2
<1>3b. ASSUME NEW i \in 1 .. Len(c2d) PROVE c2d[i].from \in Nat /\ c2d[i].from <= conn
  <2>1. c2d[i] \in Messages
    BY <1>0, ElementOfSeq
  <2>. QED  BY <2>1 DEF Messages, Conns, OrderInv
<1>4. \A i \in 1 .. Len(c2d') : c2d'[i].from <= conn'
  BY <1>0, <1>2, <1>3, <1>3b
<1>5. ASSUME NEW i \in 1 .. Len(c2d'), NEW j \in 1 .. Len(c2d'), i <= j, c2d'[i].from = conn'
      PROVE  c2d'[j].from = conn'
  <2>1. i = Len(c2d') /\ c2d'[i] = m
    BY <1>0, <1>3, <1>3b, <1>5
  <2>2. j = i
    BY <1>3a, <1>5, <2>1
  <2>. QED  BY <1>5, <2>2
<1>. QED  BY <1>0, <1>1, <1>4, <1>5 DEF OrderInv, Idle

\* Every step keeps the order.
LEMMA OrderStep == ASSUME SessionTypes, ViewInv, OrderInv, [Next]_vars PROVE OrderInv'
<1>0. LinkTypes
  BY DEF SessionTypes
<1>1. CASE TurnStep /\ UNCHANGED <<clientVars, linkVars>>
  BY <1>1, OrderTurn DEF linkVars
<1>2. CASE (ClientStep /\ UNCHANGED <<storeVars, turnVars, linkVars>>) \/ Disconnect \/ ClientStop
  <2>1. Next /\ UNCHANGED <<conn, loop, sid>>
    BY <1>2 DEF Next, Disconnect, ClientStop, LinkDown, storeVars, turnVars, linkVars
  <2>2. Window \/ \E m : Sends(m)
    BY <2>1, ChannelStep
  <2>. QED  BY <1>0, <2>1, <2>2, OrderKept
<1>3. CASE DaemonStop
  <2>1. c2d' = <<>> /\ loop' = Idle /\ conn' = conn
    BY <1>3 DEF DaemonStop
  <2>2. Len(c2d') = 0
    BY <2>1
  <2>. QED  BY <2>1, <2>2 DEF OrderInv, Idle
<1>4. CASE Reconnect
  BY <1>4, OrderReconnect
<1>5. CASE UNCHANGED vars
  BY <1>5 DEF vars, storeVars, turnVars, linkVars, OrderInv
<1>. QED  BY <1>1, <1>2, <1>3, <1>4, <1>5 DEF Next

\* What has been counted stays right with every step.
LEMMA CountStep ==
    ASSUME RowsOnce, ViewInv, OrderInv, CountInv, [Next]_vars
    PROVE  CountInv'
<1>0. SessionTypes /\ OnceInv /\ StoreTypes /\ TurnTypes /\ LinkTypes /\ conn \in Conns
  BY DEF RowsOnce, SessionTypes, LinkTypes
<1>1. ASSUME UNCHANGED conn PROVE RowsStay
  <2>. SUFFICES ASSUME NEW s \in DOMAIN stored, NEW i \in DOMAIN stored[s], NEW e,
                       e = stored[s][i], LeftOver(e)
                PROVE  LeftOver(e)'
    BY DEF RowsStay
  <2>1. RowOk(e)
    BY DEF RowsOnce, RowInv
  <2>2. CASE Next
    BY <1>0, <1>1, <2>1, <2>2, LeftOverStays
  <2>3. CASE UNCHANGED vars
    BY <2>3 DEF vars, turnVars, linkVars, LeftOver
  <2>. QED  BY <2>2, <2>3
<1>2. CASE Reconnect
  <2>1. UNCHANGED <<stored, sid, seq, faults>> /\ conn' = conn + 1 /\ conn \in Nat /\ conn' \in Conns
    BY <1>0, <1>2, BoundAssumption DEF Reconnect, storeVars, Conns
  <2>2. sid'[conn'] = NoSession
    BY <2>1 DEF ViewInv
  <2>. QED  BY <2>1, <2>2 DEF CountInv
<1>3. CASE UNCHANGED <<storeVars, conn>>
  BY <1>0, <1>1, <1>3, UnwrittenCounts
<1>4. ASSUME TurnStep, UNCHANGED conn PROVE CountInv'
  <2>1. RowsStay
    BY <1>1, <1>4
  <2>2. CASE UNCHANGED storeVars
    BY <1>3, <1>4, <2>2
  <2>3. CASE OnNewSession
    BY <1>0, <1>4, <2>1, <2>3, NewCounts
  <2>4. CASE OnLoadSession
    BY <1>0, <1>4, <2>4, LoadCounts
  <2>5. CASE CompactDone
    <3>1. loop.from \in Conns /\ loop.at # "idle"
      BY <1>0, <2>5 DEF CompactDone, TurnTypes, Idle
    <3>2. Len(stored) + 1 \in Nat
      BY <1>0 DEF StoreTypes
    <3>3. PICK e : e = Ev("summary", Len(stored) + 1)
      OBVIOUS
    <3>4. e \in Rows /\ e # Lost /\ PersistAndRestart(loop.from, e)
      BY <2>5, <3>2, <3>3 DEF CompactDone, Ev, Rows, Kinds, Lost
    <3>5. PICK k : k = loop.from
      OBVIOUS
    <3>6. k = conn \/ sid[conn] = NoSession
      BY <3>1, <3>5 DEF OrderInv
    <3>. QED  BY <1>0, <1>4, <2>1, <3>1, <3>4, <3>5, <3>6, RestartedCounts
  <2>6. CASE BeginRun
    <3>1. loop.from \in Conns /\ loop.req \in Requests /\ loop.at # "idle"
      BY <1>0, <2>6, BeginMoves DEF BeginRun
    <3>2. PICK e : e = Ev("prompt", loop.req)
      OBVIOUS
    <3>3. e \in Rows /\ e # Lost /\ EnsureAndPersist(loop.from, e)
      BY <2>6, <3>1, <3>2 DEF BeginRun, Ev, Rows, Kinds, Lost
    <3>4. PICK k : k = loop.from
      OBVIOUS
    <3>5. k = conn \/ sid[conn] = NoSession
      BY <3>1, <3>4 DEF OrderInv
    <3>. QED  BY <1>0, <1>4, <2>1, <3>1, <3>3, <3>4, <3>5, PersistedCounts
  <2>7. CASE OnCommandResult
    <3>1. c2d # <<>> /\ Head(c2d).type = "CommandResult"
      BY <2>7 DEF OnCommandResult, Receive
    <3>2. From \in Conns /\ Head(c2d).id \in Nat
      BY <1>0, <3>1, HeadMessage DEF LinkTypes, Messages, From
    <3>3. PICK e : e = Ev("command", Head(c2d).id)
      OBVIOUS
    <3>4. e \in Rows /\ e # Lost /\ EnsureAndPersist(From, e)
      BY <2>7, <3>2, <3>3 DEF OnCommandResult, Ev, Rows, Kinds, Lost
    <3>5. PICK k : k = From
      OBVIOUS
    <3>6. k = conn \/ sid[conn] = NoSession
      BY <1>0, <3>1, <3>5, HeadMessage DEF OrderInv, From
    <3>. QED  BY <1>0, <1>4, <2>1, <3>2, <3>4, <3>5, <3>6, PersistedCounts
  <2>8. ASSUME NEW k \in Conns, Collect(k) PROVE CountInv'
    <3>1. rx[k] \in Requests /\ run' = run
      BY <1>0, <2>8 DEF TurnTypes, Collect, Returned, Install
    <3>2. PICK e : e = Outcome(rx[k])
      OBVIOUS
    <3>3. e \in Rows /\ e # Lost /\ EnsureAndPersist(k, e)
      BY <2>8, <3>1, <3>2 DEF Collect, Install, Outcome, Ev, Rows, Kinds, Lost
    <3>4. e.type \in {"answer", "error"} /\ e.id = rx[k]
      BY <3>2 DEF Outcome, Ev
    <3>5. run[rx[k]].from = k
      <4>1. rx[k] # NoRequest
        BY <3>1, RequestAssumption
      <4>. QED  BY <1>0, <4>1 DEF OnceInv
    <3>6. k = conn \/ LeftOver(e)'
      BY <1>4, <3>1, <3>4, <3>5 DEF LeftOver
    <3>. QED  BY <1>0, <1>4, <2>1, <3>3, <3>6, PersistedCounts
  <2>9. ASSUME NEW r \in Requests, RunStep(r) PROVE UNCHANGED storeVars
    BY <1>0, <2>9, RunMoves
  <2>10. CASE OnAgentRequest \/ OnCancelRequest \/ OnCompactRequest \/ Ignore \/ CompactFail \/ ConfigReload
    BY <2>2, <2>10 DEF OnAgentRequest, OnCancelRequest, OnCompactRequest, Ignore, CompactFail, ConfigReload
  <2>11. ASSUME NEW k, CleanupStale(k) PROVE UNCHANGED storeVars
    BY <2>11 DEF CleanupStale
  <2>. QED  BY <1>4, <2>2, <2>3, <2>4, <2>5, <2>6, <2>7, <2>8, <2>9, <2>10, <2>11 DEF TurnStep, LoopStep, DaemonHandle
<1>5. CASE TurnStep /\ UNCHANGED <<clientVars, linkVars>>
  BY <1>4, <1>5 DEF linkVars
<1>6. CASE (ClientStep /\ UNCHANGED <<storeVars, turnVars, linkVars>>) \/ Disconnect \/ ClientStop \/ DaemonStop
  BY <1>3, <1>6 DEF linkVars, Disconnect, ClientStop, LinkDown, DaemonStop
<1>7. CASE UNCHANGED vars
  BY <1>3, <1>7 DEF vars, linkVars
<1>. QED  BY <1>2, <1>5, <1>6, <1>7 DEF Next

\* A session is asked for its next seq when it is loaded, and only then
\* (codivd/src/handlers/session.rs:82): what the client's session persists is
\* dropped only after a failed append, or where a run that an earlier connection
\* left behind has stored its outcome since.
THEOREM LossExplained == Spec => DropsExplained
<1>. DEFINE LossInv == RowsOnce /\ ViewInv /\ OrderInv /\ CountInv
<1>1. Init => OrderInv /\ CountInv
  <2>. SUFFICES ASSUME Init PROVE OrderInv /\ CountInv
    OBVIOUS
  <2>1. c2d = <<>> /\ loop = Idle /\ conn = 1 /\ 1 \in Conns /\ stored = <<>> /\ faults = 0
    BY BoundAssumption DEF Init, StoreInit, TurnInit, Conns
  <2>2. \A k \in Conns : sid[k] = NoSession
    BY DEF Init, StoreInit
  <2>3. Len(c2d) = 0
    BY <2>1
  <2>. QED  BY <2>1, <2>2, <2>3 DEF OrderInv, CountInv, Idle
<1>2. RowsOnce /\ ViewInv /\ OrderInv /\ CountInv /\ [Next]_vars => OrderInv' /\ CountInv'
  BY OrderStep, CountStep DEF RowsOnce
<1>3. /\ SessionTypes /\ SessionTypes' /\ CountInv /\ CountInv' /\ [Next]_vars
      => [Dropped(conn) /\ faults = 0 =>
            LET taken == stored[sid[conn]][seq[conn] + 1] IN
            taken.type \in {"answer", "error"} /\ run[taken.id].from # conn]_vars
  <2>. SUFFICES ASSUME SessionTypes, CountInv, CountInv', SessionTypes', Dropped(conn), faults = 0
                PROVE  LeftOver(stored[sid[conn]][seq[conn] + 1])
    BY DEF LeftOver
  <2>1. /\ seq'[conn] = seq[conn] + 1 /\ sid'[conn] = sid[conn] /\ sid[conn] # NoSession
        /\ faults' = 0 /\ stored'[sid[conn]] = stored[sid[conn]]
    BY DEF Dropped
  <2>2. /\ conn \in Conns /\ seq[conn] \in Nat /\ sid[conn] \in 1 .. Len(stored)
        /\ stored \in Seq(Seq(Rows))
    BY <2>1 DEF SessionTypes, LinkTypes, StoreTypes, NoSession
  <2>3. PICK log : log = stored[sid[conn]]
    OBVIOUS
  <2>4. log \in Seq(Rows) /\ Len(log) \in Nat
    BY <2>2, <2>3, ElementOfSeq
  <2>5. seq[conn] + 1 <= Len(log)
    BY <2>1, <2>2, <2>3 DEF CountInv
  <2>6. seq[conn] + 1 \in DOMAIN log /\ seq[conn] + 1 > seq[conn]
    BY <2>2, <2>4, <2>5
  <2>. QED  BY <2>1, <2>3, <2>6 DEF CountInv
<1>4. Init => ViewInv
  BY ViewInit
<1>5. SessionTypes /\ ViewInv /\ [Next]_vars => ViewInv'
  BY ViewStep
<1>. QED  BY <1>1, <1>2, <1>3, <1>4, <1>5, Typed, RowsAreOnce, PTL DEF Spec, DropsExplained

----------------------------------------------------------------------------
(* A user who waits.                                                       *)

\* The user acts when nothing goes on, an answer starts no compaction and the link holds.
Patient == UserWaits = TRUE /\ AutoCompact = FALSE /\ Breaks = FALSE /\ "esc" \notin Repertoire

\* One connection, no cancellation, no compaction that nobody asked for.
Alone ==
    /\ up /\ conn = 1 /\ sess = {1} /\ doomed = {}
    /\ \A k \in Conns : needs[k] = FALSE

\* The types of frames.
Names == {"AgentComplete", "Error", "SessionCreated", "CompactionStarted", "CompactionComplete"}

\* The types of what is under way to the client.
Carries(fs, types) == Len(fs) = Len(types) /\ \A i \in 1 .. Len(types) : fs[i].type = types[i]

\* What the client streams, whether it compacts, and what it is to read.
Shows(a, c, types) == active = a /\ compacting = c /\ Carries(d2c, types)

NobodyRuns  == \A r \in Requests : run[r].st # "running"
OnlyRuns(r) == run[r].st = "running" /\ run[r].from = 1 /\ \A q \in Requests \ {r} : run[q].st # "running"

\* What is left to read when the work is done: of an answer, of a session, of a
\* compaction.
Rest(a, c, types) ==
    \/ a = NoRequest /\ c = FALSE
       /\ types \in {<<>>, <<"SessionCreated">>, <<"CompactionStarted", "AgentComplete">>,
                     <<"CompactionStarted", "AgentComplete", "SessionCreated", "CompactionComplete">>}
    \/ a \in Requests /\ c = FALSE
       /\ types \in {<<"AgentComplete">>, <<"Error">>, <<"SessionCreated", "AgentComplete">>, <<"SessionCreated", "Error">>}
    \/ a = CompactionId /\ c = TRUE
       /\ types \in {<<>>, <<"AgentComplete">>, <<"CompactionComplete">>, <<"SessionCreated", "CompactionComplete">>,
                     <<"AgentComplete", "SessionCreated", "CompactionComplete">>}

\* The stages of what the user has asked for: its message is on the way, the main
\* loop has it, a task has it, it is done.
AskedStage ==
    /\ Len(c2d) = 1 /\ c2d[1].from = 1 /\ c2d[1].type # "CancelRequest"
    /\ loop = Idle /\ NobodyRuns
    /\ Shows(IF c2d[1].type = "AgentRequest" THEN c2d[1].id ELSE NoRequest, FALSE, <<>>)

RequestStage ==
    /\ c2d = <<>> /\ loop.at = "request" /\ loop.from = 1 /\ NobodyRuns
    /\ Shows(loop.req, FALSE, <<>>)

CompactStage ==
    /\ c2d = <<>> /\ loop.at = "compact" /\ loop.from = 1 /\ loop.req = NoRequest /\ NobodyRuns
    /\ Shows(NoRequest, FALSE, <<"CompactionStarted">>) \/ Shows(CompactionId, TRUE, <<>>)

RunStage ==
    /\ c2d = <<>> /\ loop = Idle
    /\ \E r \in Requests : OnlyRuns(r) /\ (Shows(r, FALSE, <<>>) \/ Shows(r, FALSE, <<"SessionCreated">>))

RestStage ==
    /\ c2d = <<>> /\ loop = Idle /\ NobodyRuns
    /\ \E types \in Seq(Names) : Rest(active, compacting, types) /\ Carries(d2c, types)

StageInv == AskedStage \/ RequestStage \/ CompactStage \/ RunStage \/ RestStage

WaitInv == Alone /\ StageInv

\* Two sequences, one behind the other.
Joins(ts, us, all) ==
    /\ Len(all) = Len(ts) + Len(us)
    /\ \A i \in 1 .. Len(ts) : all[i] = ts[i]
    /\ \A i \in 1 .. Len(us) : all[Len(ts) + i] = us[i]

\* Short ones.
LEMMA Joined ==
    ASSUME NEW x, NEW y, NEW z, NEW w
    PROVE  /\ Joins(<<>>, <<>>, <<>>) /\ Joins(<<>>, <<x>>, <<x>>) /\ Joins(<<x>>, <<y>>, <<x, y>>)
           /\ Joins(<<>>, <<y, z, w>>, <<y, z, w>>) /\ Joins(<<x>>, <<y, z, w>>, <<x, y, z, w>>)
<1>1. Joins(<<>>, <<>>, <<>>) /\ Joins(<<>>, <<x>>, <<x>>)
  BY DEF Joins
<1>2. Joins(<<x>>, <<y>>, <<x, y>>)
  <2> DEFINE a == <<x>>
             b == <<y>>
             c == <<x, y>>
  <2>1. Len(c) = 2 /\ Len(a) = 1 /\ Len(b) = 1 /\ c[1] = a[1] /\ c[2] = b[1]
    OBVIOUS
  <2> HIDE DEF a, b, c
  <2>2. Joins(a, b, c)
    BY <2>1 DEF Joins
  <2> QED
    BY <2>2 DEF a, b, c
<1>3. Joins(<<>>, <<y, z, w>>, <<y, z, w>>)
  BY DEF Joins
<1>4. Joins(<<x>>, <<y, z, w>>, <<x, y, z, w>>)
  BY DEF Joins
<1> QED
  BY <1>1, <1>2, <1>3, <1>4

\* Frames behind others.
LEMMA CarriesMore ==
    ASSUME NEW fs \in Seq(Frames), NEW more \in Seq(Frames), NEW ts, NEW us, NEW all,
           Carries(fs, ts), Carries(more, us), Joins(ts, us, all)
    PROVE  Carries(fs \o more, all)
<1> DEFINE n == Len(fs)
           m == Len(more)
<1>1. n \in Nat /\ m \in Nat /\ Len(fs \o more) = n + m
  OBVIOUS
<1>2. Len(ts) = n /\ Len(us) = m /\ Len(all) = n + m
  BY DEF Carries, Joins
<1>3. ASSUME NEW i \in 1 .. n + m PROVE (fs \o more)[i].type = all[i]
  <2>1. CASE i <= n
    <3>1. (fs \o more)[i] = fs[i] /\ i \in 1 .. Len(ts)
      BY <1>1, <1>3, <1>2, <2>1
    <3> QED
      BY <3>1 DEF Carries, Joins
  <2>2. CASE ~ (i <= n)
    <3>1. (fs \o more)[i] = more[i - n] /\ i - n \in 1 .. Len(us) /\ i = Len(ts) + (i - n)
      BY <1>1, <1>3, <1>2, <2>2
    <3>2. all[Len(ts) + (i - n)] = us[i - n]
      BY <3>1 DEF Joins
    <3> QED
      BY <3>1, <3>2 DEF Carries
  <2> QED
    BY <2>1, <2>2
<1> QED
  BY <1>1, <1>3, <1>2 DEF Carries

\* The first frame taken.
LEMMA CarriesLess ==
    ASSUME NEW fs \in Seq(Frames), NEW ts \in Seq(Names), fs # <<>>, Carries(fs, ts)
    PROVE  ts # <<>> /\ Head(ts) = Head(fs).type /\ Carries(Tail(fs), Tail(ts))
BY DEF Carries

\* What the daemon sends.
LEMMA CarriesFrames ==
    ASSUME NEW s \in Nat
    PROVE  /\ \A t \in {"AgentComplete", "Error", "CompactionStarted", "CompactionComplete"}, x \in Ids :
                 <<Frame(t, x)>> \in Seq(Frames) /\ Carries(<<Frame(t, x)>>, <<t>>)
           /\ <<Frame("SessionCreated", s)>> \in Seq(Frames)
           /\ Carries(<<Frame("SessionCreated", s)>>, <<"SessionCreated">>)
           /\ <<Frame("AgentComplete", CompactionId), Frame("SessionCreated", s),
                Frame("CompactionComplete", CompactionId)>> \in Seq(Frames)
           /\ Carries(<<Frame("AgentComplete", CompactionId), Frame("SessionCreated", s),
                        Frame("CompactionComplete", CompactionId)>>,
                      <<"AgentComplete", "SessionCreated", "CompactionComplete">>)
BY DEF Frame, Frames, Ids, Carries

\* Short sequences without their first.
LEMMA Tails ==
    ASSUME NEW x, NEW y, NEW z, NEW w
    PROVE  /\ Head(<<x>>) = x /\ Tail(<<x>>) = <<>>
           /\ Head(<<x, y>>) = x /\ Tail(<<x, y>>) = <<y>>
           /\ Head(<<x, y, z>>) = x /\ Tail(<<x, y, z>>) = <<y, z>>
           /\ Head(<<x, y, z, w>>) = x /\ Tail(<<x, y, z, w>>) = <<y, z, w>>
           /\ <<>> # <<x>> /\ <<>> # <<x, y>>
OBVIOUS

\* The client reads what is left to read.
LEMMA RestRead ==
    ASSUME NEW a \in Requests \cup {NoRequest, CompactionId}, NEW c \in BOOLEAN, NEW ts \in Seq(Names),
           ts # <<>>, Rest(a, c, ts)
    PROVE  LET h == Head(ts) IN
           /\ h = "AgentComplete" => Rest(IF c THEN a ELSE NoRequest, c, Tail(ts))
           /\ h = "Error" => Rest(NoRequest, c, Tail(ts))
           /\ h = "SessionCreated" => Rest(a, c, Tail(ts))
           /\ h = "CompactionStarted" => Rest(CompactionId, TRUE, Tail(ts))
           /\ h = "CompactionComplete" => Rest(NoRequest, FALSE, Tail(ts))
<1>1. NoRequest \notin Requests /\ CompactionId \notin Requests /\ CompactionId # NoRequest
  BY RequestAssumption, TurnAssumption
<1>2. CASE a = NoRequest
  <2>1. ts \in {<<"SessionCreated">>, <<"CompactionStarted", "AgentComplete">>,
               <<"CompactionStarted", "AgentComplete", "SessionCreated", "CompactionComplete">>} /\ c = FALSE
    BY <1>1, <1>2 DEF Rest
  <2>2. CASE ts = <<"SessionCreated">>
    <3>1. Head(ts) = "SessionCreated" /\ Tail(ts) = <<>>
      BY <2>2, Tails
    <3> QED
      BY <1>2, <2>1, <3>1 DEF Rest
  <2>3. CASE ts = <<"CompactionStarted", "AgentComplete">>
    <3>1. Head(ts) = "CompactionStarted" /\ Tail(ts) = <<"AgentComplete">>
      BY <2>3, Tails
    <3> QED
      BY <3>1 DEF Rest
  <2>4. CASE ts = <<"CompactionStarted", "AgentComplete", "SessionCreated", "CompactionComplete">>
    <3>1. Head(ts) = "CompactionStarted" /\ Tail(ts) = <<"AgentComplete", "SessionCreated", "CompactionComplete">>
      BY <2>4, Tails
    <3> QED
      BY <3>1 DEF Rest
  <2> QED
    BY <2>1, <2>2, <2>3, <2>4
<1>3. CASE a \in Requests
  <2>1. /\ c = FALSE
        /\ ts \in {<<"AgentComplete">>, <<"Error">>, <<"SessionCreated", "AgentComplete">>, <<"SessionCreated", "Error">>}
    BY <1>1, <1>3 DEF Rest
  <2>2. ASSUME NEW t \in {"AgentComplete", "Error"}, ts = <<t>> PROVE Head(ts) = t /\ Tail(ts) = <<>>
    BY <2>2, Tails
  <2>3. ASSUME NEW t \in {"AgentComplete", "Error"}, ts = <<"SessionCreated", t>>
        PROVE  Head(ts) = "SessionCreated" /\ Tail(ts) = <<t>>
    BY <2>3, Tails
  <2>4. CASE \E t \in {"AgentComplete", "Error"} : ts = <<t>>
    BY <2>1, <2>2, <2>4 DEF Rest
  <2>5. CASE \E t \in {"AgentComplete", "Error"} : ts = <<"SessionCreated", t>>
    BY <1>3, <2>1, <2>3, <2>5 DEF Rest
  <2> QED
    BY <2>1, <2>4, <2>5
<1>4. CASE a = CompactionId
  <2>1. /\ c = TRUE
        /\ ts \in {<<"AgentComplete">>, <<"CompactionComplete">>, <<"SessionCreated", "CompactionComplete">>,
                    <<"AgentComplete", "SessionCreated", "CompactionComplete">>}
    BY <1>1, <1>4 DEF Rest
  <2>2. CASE ts = <<"AgentComplete">> \/ ts = <<"CompactionComplete">>
    <3>1. Head(ts) \in {"AgentComplete", "CompactionComplete"} /\ Tail(ts) = <<>>
      BY <2>2, Tails
    <3> QED
      BY <1>4, <2>1, <3>1 DEF Rest
  <2>3. CASE ts = <<"SessionCreated", "CompactionComplete">>
    <3>1. Head(ts) = "SessionCreated" /\ Tail(ts) = <<"CompactionComplete">>
      BY <2>3, Tails
    <3> QED
      BY <1>4, <2>1, <3>1 DEF Rest
  <2>4. CASE ts = <<"AgentComplete", "SessionCreated", "CompactionComplete">>
    <3>1. Head(ts) = "AgentComplete" /\ Tail(ts) = <<"SessionCreated", "CompactionComplete">>
      BY <2>4, Tails
    <3> QED
      BY <1>4, <2>1, <3>1 DEF Rest
  <2> QED
    BY <2>1, <2>2, <2>3, <2>4
<1> QED
  BY <1>2, <1>3, <1>4

\* Nothing happens to what is asked for.
LEMMA StageStays ==
    ASSUME StageInv, UNCHANGED <<c2d, d2c, loop, active, compacting>>,
           \A r \in Requests : run'[r].from = run[r].from /\ (run'[r].st = "running" <=> run[r].st = "running")
    PROVE  StageInv'
<1>1. NobodyRuns => NobodyRuns'
  BY DEF NobodyRuns
<1>2. \A r \in Requests : OnlyRuns(r) => OnlyRuns(r)'
  BY DEF OnlyRuns
<1>3. \A a, c, ts : Shows(a, c, ts) => Shows(a, c, ts)'
  BY DEF Shows
<1>4. AskedStage => AskedStage'
  BY <1>1, <1>3 DEF AskedStage
<1>5. RequestStage => RequestStage'
  BY <1>1, <1>3 DEF RequestStage
<1>6. CompactStage => CompactStage'
  BY <1>1, <1>3 DEF CompactStage
<1>7. RunStage => RunStage'
  BY <1>2, <1>3 DEF RunStage
<1>8. RestStage => RestStage'
  BY <1>1 DEF RestStage
<1> QED
  BY <1>4, <1>5, <1>6, <1>7, <1>8 DEF StageInv

\* What the daemon sends arrives behind what is under way.
LEMMA ShowsMore ==
    ASSUME LinkTypes, Alone, UNCHANGED <<active, compacting>>, NEW more \in Seq(Frames), d2c' = Sent(1, more),
           NEW a, NEW c, NEW ts, NEW us, NEW all, Shows(a, c, ts), Carries(more, us), Joins(ts, us, all)
    PROVE  Shows(a, c, all)'
<1>1. d2c' = d2c \o more /\ d2c \in Seq(Frames) /\ Carries(d2c, ts)
  BY DEF Sent, Alone, LinkTypes, Shows
<1>2. Carries(d2c \o more, all)
  BY <1>1, CarriesMore
<1> QED
  BY <1>1, <1>2 DEF Shows

\* Sequences of names.
LEMMA ShortNames ==
    ASSUME NEW x \in Names, NEW y \in Names, NEW z \in Names, NEW w \in Names
    PROVE  /\ <<>> \in Seq(Names) /\ <<x>> \in Seq(Names) /\ <<x, y>> \in Seq(Names)
           /\ <<x, y, z>> \in Seq(Names) /\ <<x, y, z, w>> \in Seq(Names)
OBVIOUS

\* What is left to read are names.
LEMMA RestTypes == ASSUME NEW a, NEW c, NEW ts, Rest(a, c, ts) PROVE ts \in Seq(Names)
<1> DEFINE A == "AgentComplete"
           E == "Error"
           S == "SessionCreated"
           B == "CompactionStarted"
           D == "CompactionComplete"
<1>1. A \in Names /\ E \in Names /\ S \in Names /\ B \in Names /\ D \in Names
  BY DEF Names
<1> HIDE DEF A, E, S, B, D
<1>2. <<>> \in Seq(Names) /\ <<A>> \in Seq(Names) /\ <<E>> \in Seq(Names) /\ <<S>> \in Seq(Names) /\ <<D>> \in Seq(Names)
  BY <1>1, ShortNames, Zenon
<1>3. /\ <<S, A>> \in Seq(Names) /\ <<S, E>> \in Seq(Names) /\ <<S, D>> \in Seq(Names) /\ <<B, A>> \in Seq(Names)
      /\ <<A, S, D>> \in Seq(Names) /\ <<B, A, S, D>> \in Seq(Names)
  BY <1>1, ShortNames, Zenon
<1>4. ts \in {<<>>, <<A>>, <<E>>, <<S>>, <<D>>, <<S, A>>, <<S, E>>, <<S, D>>, <<B, A>>, <<A, S, D>>, <<B, A, S, D>>}
  BY Zenon DEF Rest, A, E, S, B, D
<1> QED
  BY <1>2, <1>3, <1>4, Zenon

\* A task goes on, or ends.
LEMMA WaitRun ==
    ASSUME SessionTypes, WaitInv, NEW r \in Requests, RunStep(r), UNCHANGED <<clientVars, linkVars>>
    PROVE  WaitInv'
<1>1. Alone'
  BY DEF WaitInv, Alone, linkVars, RunStep, RunEnds, Answer, Fail, Finish, Return, Drop
<1>2. ASSUME NEW st \in {"answered", "failed"}, NEW t \in {"AgentComplete", "Error"}, Finish(r, st, t) PROVE StageInv'
  <2>1. run[r].st = "running" /\ run' = [run EXCEPT ![r].st = st] /\ UNCHANGED <<loop, c2d, active, compacting>>
    BY <1>2 DEF Finish, clientVars
  <2>2. RunStage
    BY <2>1 DEF WaitInv, StageInv, AskedStage, RequestStage, CompactStage, RestStage, NobodyRuns
  <2>3. PICK q \in Requests : OnlyRuns(q) /\ (Shows(q, FALSE, <<>>) \/ Shows(q, FALSE, <<"SessionCreated">>))
    BY <2>2 DEF RunStage
  <2>4. q = r /\ run[r].from = 1
    BY <2>1, <2>3 DEF OnlyRuns
  <2>5. NobodyRuns'
    <3>1. \A p \in Requests \ {r} : run'[p] = run[p]
      BY <2>1 DEF SessionTypes, TurnTypes
    <3>2. run'[r].st = st
      BY <2>1 DEF SessionTypes, TurnTypes
    <3> QED
      BY <2>3, <2>4, <3>1, <3>2 DEF NobodyRuns, OnlyRuns
  <2>6. PICK more : more = <<Frame(t, r)>>
    OBVIOUS
  <2>7. more \in Seq(Frames) /\ Carries(more, <<t>>) /\ d2c' = Sent(1, more)
    <3>1. r \in Ids /\ 1 \in Nat
      BY DEF Ids
    <3>2. d2c' = Sent(1, more)
      BY <1>2, <2>4, <2>6 DEF Finish
    <3> QED
      BY <2>6, <3>1, <3>2, CarriesFrames
  <2>8. PICK ts \in {<<>>, <<"SessionCreated">>} : Shows(r, FALSE, ts)
    BY <2>3, <2>4
  <2>9. PICK all \in {<<t>>, <<"SessionCreated", t>>} : Joins(ts, <<t>>, all)
    BY <2>8, Joined
  <2>10. Shows(r, FALSE, all)'
    <3>1. LinkTypes /\ Alone /\ UNCHANGED <<active, compacting>>
      BY <2>1 DEF WaitInv, SessionTypes
    <3> QED
      BY <2>7, <2>8, <2>9, <3>1, ShowsMore
  <2>11. Rest(r, FALSE, all) /\ all \in Seq(Names)
    <3>1. Rest(r, FALSE, all)
      BY <2>9 DEF Rest
    <3> QED
      BY <3>1, RestTypes
  <2>12. RestStage'
    BY <2>1, <2>2, <2>5, <2>10, <2>11 DEF RestStage, RunStage, Shows
  <2> QED
    BY <2>12 DEF StageInv
<1>3. CASE Return(r)
  <2>1. /\ UNCHANGED <<c2d, d2c, loop, active, compacting>> /\ run[r].st # "running"
        /\ \E st, h : run' = [run EXCEPT ![r].st = st, ![r].history = h] /\ st \in {"over", "returned", "returnedError"}
    BY <1>3 DEF Return, clientVars
  <2>2. \A q \in Requests : run'[q].from = run[q].from /\ (run'[q].st = "running" <=> run[q].st = "running")
    <3>1. PICK st, h : /\ run' = [run EXCEPT ![r].st = st, ![r].history = h]
                       /\ st \in {"over", "returned", "returnedError"}
      BY <2>1
    <3>2. \A q \in Requests \ {r} : run'[q] = run[q]
      BY <3>1 DEF SessionTypes, TurnTypes
    <3>3. run[r] = [st |-> run[r].st, from |-> run[r].from, history |-> run[r].history] /\ DOMAIN run = Requests
      BY DEF SessionTypes, TurnTypes
    <3>4. run'[r] = [st |-> st, from |-> run[r].from, history |-> h]
      BY <3>1, <3>3
    <3>5. run'[r].st = st /\ run'[r].from = run[r].from
      BY <3>4
    <3> QED
      BY <2>1, <3>1, <3>2, <3>5
  <2> QED
    BY <1>1, <2>1, <2>2, StageStays DEF WaitInv
<1>4. ~ Drop(r)
  BY DEF Drop, WaitInv, Alone
<1> QED
  BY <1>1, <1>2, <1>3, <1>4 DEF RunStep, RunEnds, Answer, Fail, WaitInv

\* The work is done, and only frames are left.
LEMMA NowRest ==
    ASSUME c2d' = <<>>, loop' = Idle, NobodyRuns, run' = run,
           NEW a, NEW c, NEW ts, Rest(a, c, ts), Shows(a, c, ts)'
    PROVE  StageInv'
<1>1. ts \in Seq(Names) /\ active' = a /\ compacting' = c /\ Carries(d2c', ts)
  BY RestTypes DEF Shows
<1>2. NobodyRuns'
  BY DEF NobodyRuns
<1>3. RestStage'
  BY <1>1, <1>2 DEF RestStage
<1> QED
  BY <1>3 DEF StageInv

\* The main loop reads a message.
LEMMA WaitRead ==
    ASSUME SessionTypes, WaitInv, DaemonHandle, UNCHANGED <<clientVars, linkVars>>
    PROVE  WaitInv'
<1>0. SessionTypes /\ LinkTypes /\ Alone /\ UNCHANGED <<active, compacting, conn, up>>
  BY DEF SessionTypes, WaitInv, clientVars, linkVars
<1>1. c2d # <<>> /\ c2d' = Tail(c2d)
  BY MessageMoves
<1>2. AskedStage
  BY <1>1 DEF WaitInv, StageInv, RequestStage, CompactStage, RunStage, RestStage
<1>3. From = 1 /\ From \in sess /\ Head(c2d) = c2d[1] /\ c2d' = <<>> /\ 1 \in Conns
  <2>1. Head(c2d) = c2d[1] /\ 1 \in Conns
    BY <1>0, <1>1, HeadMessage DEF Alone, LinkTypes
  <2>2. c2d' = <<>>
    BY <1>0, <1>1, <1>2, HeadMessage, EmptySeq DEF AskedStage, LinkTypes
  <2> QED
    BY <1>0, <1>2, <2>1, <2>2 DEF From, AskedStage, Alone
<1>4. loop = Idle /\ NobodyRuns /\ Head(c2d).type # "CancelRequest"
  BY <1>2, <1>3 DEF AskedStage
<1>5. ~ Ignore /\ ~ OnCancelRequest
  BY <1>3, <1>4 DEF Ignore, OnCancelRequest, Receive
<1>6. ~ needs[1]
  BY <1>0, <1>3 DEF Alone
<1>7. CASE OnAgentRequest
  <2>1. /\ Head(c2d).type = "AgentRequest" /\ UNCHANGED <<needs, d2c, sess, run, doomed>>
        /\ loop' = [at |-> "request", from |-> 1, req |-> Head(c2d).id]
    BY <1>3, <1>6, <1>7 DEF OnAgentRequest, Receive
  <2>2. loop'.at = "request" /\ loop'.from = 1 /\ loop'.req = c2d[1].id
    BY <1>3, <2>1
  <2>3. RequestStage'
    <3>1. Shows(c2d[1].id, FALSE, <<>>)
      BY <1>2, <1>3, <2>1 DEF AskedStage
    <3>2. active' = loop'.req /\ compacting' = FALSE /\ Carries(d2c', <<>>)
      BY <1>0, <2>1, <2>2, <3>1 DEF Shows
    <3>3. NobodyRuns'
      BY <1>4, <2>1 DEF NobodyRuns
    <3> QED
      BY <1>3, <2>2, <3>2, <3>3 DEF RequestStage, Shows
  <2> QED
    BY <1>0, <2>1, <2>3 DEF WaitInv, StageInv, Alone
<1>8. ASSUME Head(c2d).type # "AgentRequest" PROVE Shows(NoRequest, FALSE, <<>>)
  BY <1>2, <1>3, <1>8 DEF AskedStage
<1>9. ASSUME NEW more \in Seq(Frames), NEW us, Carries(more, us), d2c' = Sent(1, more),
             us \in {<<>>, <<"SessionCreated">>}, Head(c2d).type # "AgentRequest",
             UNCHANGED <<sess, needs, run, doomed, loop>>
      PROVE  WaitInv'
  <2>1. Joins(<<>>, us, us)
    BY <1>9, Joined
  <2>2. Shows(NoRequest, FALSE, us)'
    <3>1. Shows(NoRequest, FALSE, <<>>) /\ UNCHANGED <<active, compacting>>
      BY <1>0, <1>8, <1>9
    <3> QED
      BY <1>0, <1>9, <2>1, <3>1, ShowsMore
  <2>3. Rest(NoRequest, FALSE, us)
    BY <1>9 DEF Rest
  <2>4. StageInv'
    BY <1>3, <1>4, <1>9, <2>2, <2>3, NowRest
  <2> QED
    BY <1>0, <1>9, <2>4 DEF WaitInv, Alone
<1>10. CASE OnNewSession \/ OnLoadSession
  <2>1. PICK d : d = IF OnNewSession THEN Len(stored) + 1 ELSE Head(c2d).id
    OBVIOUS
  <2>2. /\ d2c' = Sent(1, <<Frame("SessionCreated", d)>>) /\ UNCHANGED <<sess, needs, run, doomed, loop>>
        /\ Head(c2d).type # "AgentRequest"
    <3>1. CASE OnNewSession
      BY <1>3, <2>1, <3>1 DEF OnNewSession, Receive
    <3>2. CASE ~ OnNewSession
      BY <1>3, <1>10, <2>1, <3>2 DEF OnLoadSession, Receive
    <3> QED
      BY <3>1, <3>2
  <2>3. d \in Nat
    <3>1. Len(stored) \in Nat
      BY DEF SessionTypes, StoreTypes
    <3>2. OnLoadSession => Head(c2d).id \in 1 .. Len(stored)
      BY LoadSessionWritten
    <3> QED
      BY <1>10, <2>1, <3>1, <3>2
  <2>4. PICK more : more = <<Frame("SessionCreated", d)>>
    OBVIOUS
  <2>5. more \in Seq(Frames) /\ Carries(more, <<"SessionCreated">>) /\ d2c' = Sent(1, more)
    BY <2>2, <2>3, <2>4, CarriesFrames
  <2> QED
    BY <1>9, <2>2, <2>5
<1>11. CASE OnCommandResult
  <2>1. d2c' = Sent(1, Announce(1)) /\ UNCHANGED <<sess, needs, run, doomed, loop>> /\ Head(c2d).type # "AgentRequest"
    BY <1>3, <1>11 DEF OnCommandResult, Receive
  <2>2. EnsuredId(1) \in Nat
    BY <1>3 DEF SessionTypes, StoreTypes, EnsuredId
  <2>3. CASE seq[1] = 0
    <3>1. PICK more : more = <<Frame("SessionCreated", EnsuredId(1))>>
      OBVIOUS
    <3>2. more \in Seq(Frames) /\ Carries(more, <<"SessionCreated">>) /\ d2c' = Sent(1, more)
      BY <2>1, <2>2, <2>3, <3>1, CarriesFrames DEF Announce
    <3> QED
      BY <1>9, <2>1, <3>2
  <2>4. CASE seq[1] # 0
    <3>1. <<>> \in Seq(Frames) /\ Carries(<<>>, <<>>)
      BY DEF Carries
    <3> QED
      BY <1>9, <2>1, <2>4, <3>1 DEF Announce
  <2> QED
    BY <2>3, <2>4
<1>12. CASE OnCompactRequest
  <2>1. StartCompaction(1, NoRequest) /\ UNCHANGED <<sess, run, doomed>> /\ Head(c2d).type # "AgentRequest"
    BY <1>3, <1>12 DEF OnCompactRequest, Receive
  <2>2. Alone'
    BY <1>0, <2>1 DEF Alone, StartCompaction
  <2>3. CASE agent[1] = NoAgent
    <3>1. loop' = Idle /\ d2c' = d2c
      BY <2>1, <2>3 DEF StartCompaction
    <3>2. Shows(NoRequest, FALSE, <<>>)'
      <4>1. Shows(NoRequest, FALSE, <<>>)
        BY <1>8, <2>1
      <4> QED
        BY <1>0, <3>1, <4>1 DEF Shows
    <3>3. Rest(NoRequest, FALSE, <<>>) /\ <<>> \in Seq(Names)
      BY DEF Rest
    <3> QED
      BY <1>3, <1>4, <2>1, <2>2, <3>1, <3>2, <3>3, NowRest DEF WaitInv
  <2>4. CASE agent[1] # NoAgent
    <3>1. /\ loop' = [at |-> "compact", from |-> 1, req |-> NoRequest]
          /\ d2c' = Sent(1, <<Frame("CompactionStarted", CompactionId)>>)
      BY <2>1, <2>4 DEF StartCompaction
    <3>2. /\ <<Frame("CompactionStarted", CompactionId)>> \in Seq(Frames)
          /\ Carries(<<Frame("CompactionStarted", CompactionId)>>, <<"CompactionStarted">>)
      <4>1. CompactionId \in Ids /\ 1 \in Nat
        BY DEF Ids
      <4> QED
        BY <4>1, CarriesFrames
    <3>3. Joins(<<>>, <<"CompactionStarted">>, <<"CompactionStarted">>)
      BY Joined
    <3>4. Shows(NoRequest, FALSE, <<"CompactionStarted">>)'
      <4>1. PICK more : more = <<Frame("CompactionStarted", CompactionId)>>
        OBVIOUS
      <4>2. more \in Seq(Frames) /\ Carries(more, <<"CompactionStarted">>) /\ d2c' = Sent(1, more)
        BY <3>1, <3>2, <4>1
      <4>3. Shows(NoRequest, FALSE, <<>>) /\ UNCHANGED <<active, compacting>>
        BY <1>0, <1>8, <2>1
      <4> QED
        BY <1>0, <3>3, <4>2, <4>3, ShowsMore
    <3>5. CompactStage'
      BY <1>3, <1>4, <2>1, <3>1, <3>4 DEF CompactStage, NobodyRuns
    <3> QED
      BY <2>2, <3>5 DEF WaitInv, StageInv
  <2> QED
    BY <2>3, <2>4
<1> QED
  BY <1>5, <1>7, <1>10, <1>11, <1>12 DEF DaemonHandle

\* Where the main loop is tells the stage.
LEMMA LoopStage ==
    ASSUME WaitInv
    PROVE  (loop.at = "request" => RequestStage) /\ (loop.at = "compact" => CompactStage)
<1>1. AskedStage \/ RunStage \/ RestStage => loop.at = "idle"
  <2>1. AskedStage \/ RunStage \/ RestStage => loop = Idle
    BY DEF AskedStage, RunStage, RestStage
  <2>2. Idle.at = "idle"
    BY DEF Idle
  <2> QED
    BY <2>1, <2>2
<1>2. (RequestStage => loop.at = "request") /\ (CompactStage => loop.at = "compact")
  BY DEF RequestStage, CompactStage
<1> QED
  BY <1>1, <1>2 DEF WaitInv, StageInv

\* The main loop begins the run.
LEMMA WaitBegin ==
    ASSUME SessionTypes, WaitInv, BeginRun, UNCHANGED <<clientVars, linkVars>>
    PROVE  WaitInv'
<1>0. LinkTypes /\ Alone /\ TurnTypes /\ UNCHANGED <<active, compacting, conn, up, sess, needs, doomed, c2d>>
  BY DEF SessionTypes, WaitInv, clientVars, linkVars, BeginRun
<1>1. RequestStage
  BY LoopStage DEF BeginRun
<1>2. PICK r \in Requests : r = loop.req /\ OnlyRuns(r)' /\ loop' = Idle
  <2>1. /\ loop.req \in Requests /\ loop' = Idle
        /\ run'[loop.req].st = "running" /\ run'[loop.req].from = loop.from
        /\ \A q \in Requests \ {loop.req} : run'[q] = run[q]
    BY <1>0, BeginMoves
  <2> QED
    BY <1>1, <2>1 DEF RequestStage, NobodyRuns, OnlyRuns
<1>3. Shows(r, FALSE, <<>>) /\ 1 \in Conns
  BY <1>0, <1>1, <1>2 DEF RequestStage, LinkTypes, Alone
<1>4. d2c' = Sent(1, Announce(1))
  BY <1>1 DEF BeginRun, RequestStage
<1>5. Shows(r, FALSE, <<>>)' \/ Shows(r, FALSE, <<"SessionCreated">>)'
  <2>1. CASE seq[1] = 0
    <3>1. EnsuredId(1) \in Nat
      BY <1>3 DEF SessionTypes, StoreTypes, EnsuredId
    <3>2. PICK more : more = <<Frame("SessionCreated", EnsuredId(1))>>
      OBVIOUS
    <3>3. more \in Seq(Frames) /\ Carries(more, <<"SessionCreated">>) /\ d2c' = Sent(1, more)
      BY <1>4, <2>1, <3>1, <3>2, CarriesFrames DEF Announce
    <3>4. Joins(<<>>, <<"SessionCreated">>, <<"SessionCreated">>)
      BY Joined
    <3>5. UNCHANGED <<active, compacting>>
      BY <1>0
    <3> QED
      BY <1>0, <1>3, <3>3, <3>4, <3>5, ShowsMore
  <2>2. CASE seq[1] # 0
    <3>1. d2c' = d2c
      BY <1>0, <1>4, <2>2 DEF Sent, Announce, LinkTypes
    <3> QED
      BY <1>0, <1>3, <3>1 DEF Shows
  <2> QED
    BY <2>1, <2>2
<1>6. RunStage'
  BY <1>0, <1>1, <1>2, <1>5 DEF RunStage, RequestStage
<1> QED
  BY <1>0, <1>6 DEF WaitInv, StageInv, Alone

\* A compaction ends, one way or the other.
LEMMA WaitCompact ==
    ASSUME SessionTypes, WaitInv, CompactDone \/ CompactFail, UNCHANGED <<clientVars, linkVars>>
    PROVE  WaitInv'
<1>0. LinkTypes /\ Alone /\ UNCHANGED <<active, compacting>>
  BY DEF SessionTypes, WaitInv, clientVars
<1>1. CompactStage
  BY LoopStage DEF CompactDone, CompactFail
<1>2. /\ loop' = Idle /\ UNCHANGED <<run, c2d>> /\ Alone'
  BY <1>0, <1>1 DEF CompactDone, CompactFail, AfterCompaction, CompactStage, Alone, linkVars
<1>3. CompactionId \in Ids /\ Len(stored) + 1 \in Nat
  BY DEF SessionTypes, StoreTypes, Ids
<1>4. PICK a, c, all : Rest(a, c, all) /\ Shows(a, c, all)'
  <2> DEFINE S == <<"AgentComplete", "SessionCreated", "CompactionComplete">>
  <2>1. PICK us \in {<<"AgentComplete">>, S}, more \in Seq(Frames) : Carries(more, us) /\ d2c' = Sent(1, more)
    <3>1. CASE CompactFail
      BY <1>1, <1>3, <3>1, CarriesFrames DEF CompactFail, CompactStage
    <3>2. CASE CompactDone
      <4>1. PICK more : more = <<Frame("AgentComplete", CompactionId), Frame("SessionCreated", Len(stored) + 1),
                                 Frame("CompactionComplete", CompactionId)>>
        OBVIOUS
      <4>2. d2c' = Sent(1, more)
        BY <1>1, <3>2, <4>1 DEF CompactDone, CompactStage
      <4> QED
        BY <1>3, <4>1, <4>2, CarriesFrames
    <3> QED
      BY <3>1, <3>2
  <2>2. CASE Shows(NoRequest, FALSE, <<"CompactionStarted">>)
    <3>1. PICK all \in {<<"CompactionStarted", "AgentComplete">>,
                        <<"CompactionStarted", "AgentComplete", "SessionCreated", "CompactionComplete">>} :
             Joins(<<"CompactionStarted">>, us, all)
      BY Joined
    <3>2. Shows(NoRequest, FALSE, all)'
      BY <1>0, <2>1, <2>2, <3>1, ShowsMore
    <3>3. Rest(NoRequest, FALSE, all)
      BY <3>1, Zenon DEF Rest
    <3> QED
      BY <3>2, <3>3
  <2>3. CASE Shows(CompactionId, TRUE, <<>>)
    <3>1. Joins(<<>>, us, us)
      BY Joined
    <3>2. Shows(CompactionId, TRUE, us)'
      BY <1>0, <2>1, <2>3, <3>1, ShowsMore
    <3>3. Rest(CompactionId, TRUE, us)
      BY <2>1, Zenon DEF Rest
    <3> QED
      BY <3>2, <3>3
  <2> QED
    BY <1>1, <2>2, <2>3 DEF CompactStage
<1>5. c2d' = <<>> /\ NobodyRuns
  BY <1>1, <1>2 DEF CompactStage
<1> QED
  BY <1>2, <1>4, <1>5, NowRest DEF WaitInv

\* The client reads a frame.
LEMMA WaitHandle ==
    ASSUME SessionTypes, WaitInv, HandleMessage, UNCHANGED <<storeVars, turnVars, linkVars>>
    PROVE  WaitInv'
<1>0. LinkTypes /\ Alone /\ d2c \in Seq(Frames) /\ active \in Requests \cup {NoRequest, CompactionId}
  BY DEF SessionTypes, WaitInv, LinkTypes
<1>1. d2c # <<>> /\ d2c' = Tail(d2c) /\ UNCHANGED <<c2d, loop, run, sess, needs, doomed, conn, up>>
  BY DEF HandleMessage, HandleComplete, HandleError, HandleCreated, HandleCompactionStarted,
         HandleCompactionComplete, Deliver, turnVars, linkVars
<1>2. Alone'
  BY <1>0, <1>1 DEF Alone
<1>3. ASSUME NEW ts \in Seq(Names), Carries(d2c, ts)
      PROVE  ts # <<>> /\ Head(ts) = Head(d2c).type /\ Carries(d2c', Tail(ts))
  BY <1>0, <1>1, <1>3, CarriesLess
<1>4. ~ Carries(d2c, <<>>)
  BY <1>0, <1>1, EmptySeq DEF Carries
<1>5. ~ AskedStage /\ ~ RequestStage
  BY <1>4 DEF AskedStage, RequestStage, Shows
<1>6. CASE CompactStage
  <2>1. Shows(NoRequest, FALSE, <<"CompactionStarted">>)
    BY <1>4, <1>6 DEF CompactStage, Shows
  <2>2. Head(d2c).type = "CompactionStarted" /\ Carries(d2c', <<>>)
    <3>1. <<"CompactionStarted">> \in Seq(Names)
      BY ShortNames DEF Names
    <3>2. Head(<<"CompactionStarted">>) = "CompactionStarted" /\ Tail(<<"CompactionStarted">>) = <<>>
      BY Tails
    <3> QED
      BY <1>3, <2>1, <3>1, <3>2 DEF Shows
  <2>3. active' = CompactionId /\ compacting' = TRUE
    BY <2>2 DEF HandleMessage, HandleComplete, HandleError, HandleCreated, HandleCompactionStarted,
                HandleCompactionComplete, Deliver
  <2>4. CompactStage'
    BY <1>1, <1>6, <2>2, <2>3 DEF CompactStage, Shows, NobodyRuns
  <2> QED
    BY <1>2, <2>4 DEF WaitInv, StageInv
<1>7. CASE RunStage
  <2>1. PICK r \in Requests : OnlyRuns(r) /\ Shows(r, FALSE, <<"SessionCreated">>)
    BY <1>4, <1>7 DEF RunStage, Shows
  <2>2. Head(d2c).type = "SessionCreated" /\ Carries(d2c', <<>>)
    <3>1. <<"SessionCreated">> \in Seq(Names)
      BY ShortNames DEF Names
    <3>2. Head(<<"SessionCreated">>) = "SessionCreated" /\ Tail(<<"SessionCreated">>) = <<>>
      BY Tails
    <3> QED
      BY <1>3, <2>1, <3>1, <3>2 DEF Shows
  <2>3. UNCHANGED <<active, compacting>>
    BY <2>2 DEF HandleMessage, HandleComplete, HandleError, HandleCreated, HandleCompactionStarted,
                HandleCompactionComplete, Deliver
  <2>4. Shows(r, FALSE, <<>>)' /\ OnlyRuns(r)'
    BY <1>1, <2>1, <2>2, <2>3 DEF Shows, OnlyRuns
  <2>5. RunStage'
    BY <1>1, <1>7, <2>4 DEF RunStage
  <2> QED
    BY <1>2, <2>5 DEF WaitInv, StageInv
<1>8. CASE RestStage
  <2>1. PICK ts \in Seq(Names) : Rest(active, compacting, ts) /\ Carries(d2c, ts)
    BY <1>8 DEF RestStage
  <2>2. ts # <<>> /\ Head(ts) = Head(d2c).type /\ Carries(d2c', Tail(ts))
    BY <1>3, <2>1
  <2>3. compacting \in BOOLEAN
    BY <2>1 DEF Rest
  <2>4. Rest(active', compacting', Tail(ts))
    <3>1. /\ Head(ts) = "AgentComplete" => Rest(IF compacting THEN active ELSE NoRequest, compacting, Tail(ts))
          /\ Head(ts) = "Error" => Rest(NoRequest, compacting, Tail(ts))
          /\ Head(ts) = "SessionCreated" => Rest(active, compacting, Tail(ts))
          /\ Head(ts) = "CompactionStarted" => Rest(CompactionId, TRUE, Tail(ts))
          /\ Head(ts) = "CompactionComplete" => Rest(NoRequest, FALSE, Tail(ts))
      BY <1>0, <2>1, <2>2, <2>3, RestRead
    <3> QED
      BY <2>2, <3>1 DEF HandleMessage, HandleComplete, HandleError, HandleCreated, HandleCompactionStarted,
                        HandleCompactionComplete, Deliver
  <2>5. NobodyRuns /\ c2d' = <<>> /\ loop' = Idle /\ run' = run
    BY <1>1, <1>8 DEF RestStage
  <2>6. PICK a, c : a = active' /\ c = compacting'
    OBVIOUS
  <2>7. StageInv'
    <3>1. Rest(a, c, Tail(ts)) /\ Shows(a, c, Tail(ts))'
      BY <2>2, <2>4, <2>6 DEF Shows
    <3> QED
      BY <2>5, <3>1, NowRest
  <2> QED
    BY <1>2, <2>7 DEF WaitInv
<1> QED
  BY <1>5, <1>6, <1>7, <1>8 DEF WaitInv, StageInv

\* The user acts.
LEMMA WaitUser ==
    ASSUME Patient, SessionTypes, WaitInv, UserStep, UNCHANGED <<storeVars, turnVars, linkVars>>
    PROVE  WaitInv'
<1>0. LinkTypes /\ Alone /\ UNCHANGED <<loop, run, sess, needs, doomed, conn, up>>
  BY DEF SessionTypes, WaitInv, turnVars, linkVars
<1>1. ~ PressEsc
  BY DEF PressEsc, Input, Patient
<1>2. Settled /\ UNCHANGED <<d2c, compacting>>
  BY <1>1 DEF UserStep, Submit, RunCommand, Clear, Pick, Compact, MayAct, Patient
<1>3. c2d = <<>> /\ d2c = <<>> /\ loop = Idle /\ active = NoRequest
  BY <1>2 DEF Settled, Streaming, LoopFree
<1>4. RestStage
  <2>1. NoRequest \notin Requests
    BY RequestAssumption
  <2> QED
    BY <1>3, <2>1 DEF WaitInv, StageInv, AskedStage, RequestStage, CompactStage, RunStage, Idle, Shows
<1>5. compacting = FALSE
  <2>1. NoRequest # CompactionId
    BY TurnAssumption
  <2> QED
    BY <1>3, <1>4, <2>1 DEF RestStage, Rest
<1>6. PICK type, id : /\ type \in Types /\ ToDaemon(type, id) /\ type # "CancelRequest"
                      /\ active' = IF type = "AgentRequest" THEN id ELSE NoRequest
  <2>1. ASSUME NEW r \in Requests, Submit(r) PROVE ToDaemon("AgentRequest", r) /\ active' = r
    BY <2>1 DEF Submit
  <2>2. CASE RunCommand
    BY <1>3, <2>2 DEF RunCommand, Types
  <2>3. CASE Clear
    BY <1>3, <2>3 DEF Clear, Types
  <2>4. CASE Compact
    BY <1>3, <2>4 DEF Compact, Types
  <2>5. ASSUME NEW s, Pick(s) PROVE ToDaemon("LoadSession", s) /\ active' = NoRequest
    BY <1>3, <2>5 DEF Pick
  <2> QED
    BY <1>1, <2>1, <2>2, <2>3, <2>4, <2>5 DEF UserStep, Types
<1>7. PICK m : m = [type |-> type, id |-> id, from |-> conn]
  OBVIOUS
<1>8. c2d' = <<m>> /\ m.type = type /\ m.id = id /\ m.from = 1
  BY <1>0, <1>3, <1>6, <1>7 DEF ToDaemon, Alone
<1>9. AskedStage'
  <2>1. Len(c2d') = 1 /\ c2d'[1] = m
    BY <1>8
  <2>2. NobodyRuns' /\ loop' = Idle
    BY <1>0, <1>3, <1>4 DEF RestStage, NobodyRuns
  <2>3. Carries(d2c', <<>>) /\ compacting' = FALSE
    BY <1>2, <1>3, <1>5 DEF Carries
  <2> QED
    BY <1>6, <1>8, <2>1, <2>2, <2>3 DEF AskedStage, Shows
<1> QED
  BY <1>0, <1>9 DEF WaitInv, StageInv, Alone

\* Whatever happens, a stage follows on a stage.
LEMMA WaitStep ==
    ASSUME Patient, SessionTypes, WaitInv, [Next]_vars
    PROVE  WaitInv'
<1>1. CASE TurnStep /\ UNCHANGED <<clientVars, linkVars>>
  <2>1. ASSUME NEW r \in Requests, RunStep(r) PROVE WaitInv'
    BY <1>1, <2>1, WaitRun
  <2>2. CASE DaemonHandle
    BY <1>1, <2>2, WaitRead
  <2>3. CASE BeginRun
    BY <1>1, <2>3, WaitBegin
  <2>4. CASE CompactDone \/ CompactFail
    BY <1>1, <2>4, WaitCompact
  <2>5. ASSUME UNCHANGED <<sess, run, doomed, loop, d2c, c2d, needs>> PROVE WaitInv'
    <3>1. UNCHANGED <<active, compacting, conn, up>>
      BY <1>1 DEF clientVars, linkVars
    <3>2. StageInv'
      BY <2>5, <3>1, StageStays DEF WaitInv
    <3> QED
      BY <2>5, <3>1, <3>2 DEF WaitInv, Alone
  <2>6. ASSUME NEW k \in Conns, Collect(k) PROVE WaitInv'
    <3>1. UNCHANGED <<sess, run, doomed, loop, d2c, c2d, needs>>
      BY <2>6 DEF Collect, Install, Patient
    <3> QED
      BY <2>5, <3>1
  <2>7. CASE ConfigReload
    <3>1. UNCHANGED <<sess, run, doomed, loop, d2c, c2d, needs>>
      BY <2>7 DEF ConfigReload
    <3> QED
      BY <2>5, <3>1
  <2> QED
    BY <1>1, <2>1, <2>2, <2>3, <2>4, <2>6, <2>7 DEF TurnStep, LoopStep, Patient
<1>2. CASE ClientStep /\ UNCHANGED <<storeVars, turnVars, linkVars>>
  BY <1>2, WaitHandle, WaitUser DEF ClientStep
<1>3. ~ Disconnect /\ ~ ClientStop /\ ~ DaemonStop /\ ~ Reconnect
  BY DEF Disconnect, ClientStop, LinkDown, DaemonStop, Reconnect, Patient, WaitInv, Alone
<1>4. CASE UNCHANGED vars
  <2>1. UNCHANGED <<sess, run, doomed, loop, d2c, c2d, needs, active, compacting, conn, up>>
    BY <1>4 DEF vars, turnVars, clientVars, linkVars
  <2>2. StageInv'
    BY <2>1, StageStays DEF WaitInv
  <2> QED
    BY <2>1, <2>2 DEF WaitInv, Alone
<1> QED
  BY <1>1, <1>2, <1>3, <1>4 DEF Next

\* At first nothing is asked for.
LEMMA WaitInit == Init => WaitInv
<1> SUFFICES ASSUME Init PROVE WaitInv
  OBVIOUS
<1>1. c2d = <<>> /\ d2c = <<>> /\ loop = Idle /\ active = NoRequest /\ compacting = FALSE
  BY DEF Init, TurnInit, ClientInit
<1>2. Alone
  BY DEF Init, TurnInit, Alone
<1>3. NobodyRuns
  BY DEF Init, TurnInit, NobodyRuns
<1>4. Rest(active, compacting, <<>>) /\ Carries(d2c, <<>>)
  BY <1>1 DEF Rest, Carries
<1>5. <<>> \in Seq(Names)
  OBVIOUS
<1>6. RestStage
  BY <1>1, <1>3, <1>4, <1>5 DEF RestStage
<1> QED
  BY <1>2, <1>6 DEF WaitInv, StageInv

\* Every state of a session with a user who waits is at its stage.
LEMMA Waited == ASSUME Patient PROVE Spec => []WaitInv
<1>1. SessionTypes /\ WaitInv /\ [Next]_vars => WaitInv'
  BY WaitStep
<1> QED
  BY <1>1, WaitInit, Typed, PTL DEF Spec

\* The client shows that the agent works exactly while it does (StreamState in
\* codiv/src/ui/terminal, against the daemon's agent_return_rx and main loop),
\* whatever fails in a run, however late its agent comes back and whatever the
\* configuration does meanwhile, as long as the user waits for what was asked.
THEOREM StreamIsHonest == ASSUME Patient PROVE Spec => []HonestStream
<1>1. SessionTypes /\ WaitInv => HonestStream
  <2> SUFFICES ASSUME SessionTypes, WaitInv, up, d2c = <<>>, c2d = <<>>, ~ Abandoned
               PROVE  Streaming <=> \/ loop.at # "idle"
                                    \/ \E r \in Requests : run[r].from = conn /\ run[r].st = "running"
    BY DEF HonestStream
  <2>1. NoRequest \notin Requests /\ CompactionId # NoRequest
    BY RequestAssumption, TurnAssumption
  <2>2. conn = 1 /\ Idle.at = "idle"
    BY DEF WaitInv, Alone, Idle
  <2>3. ~ AskedStage
    BY DEF AskedStage
  <2>4. CASE RequestStage
    <3>1. active = loop.req /\ loop.req # NoRequest
      BY <2>4 DEF RequestStage, Shows, SessionTypes, TurnTypes
    <3> QED
      BY <2>4, <3>1 DEF RequestStage, Streaming
  <2>5. CASE CompactStage
    <3>1. ~ Carries(d2c, <<"CompactionStarted">>)
      BY DEF Carries
    <3> QED
      BY <2>1, <2>5, <3>1 DEF CompactStage, Shows, Streaming
  <2>6. CASE RunStage
    BY <2>1, <2>2, <2>6 DEF RunStage, Shows, OnlyRuns, Streaming
  <2>7. CASE RestStage
    <3>1. PICK types \in Seq(Names) : Rest(active, compacting, types) /\ Carries(d2c, types)
      BY <2>7 DEF RestStage
    <3>2. types = <<>>
      BY <3>1 DEF Carries
    <3>3. ~ compacting
      BY <2>7 DEF Abandoned, LoopFree, RestStage
    <3>4. \A x \in {"AgentComplete", "Error"} : <<>> # <<x>> /\ <<>> # <<"SessionCreated", x>>
      OBVIOUS
    <3>5. active = NoRequest
      BY <3>1, <3>2, <3>3, <3>4 DEF Rest
    <3> QED
      BY <2>2, <2>7, <3>5 DEF RestStage, NobodyRuns, Streaming
  <2> QED
    BY <2>3, <2>4, <2>5, <2>6, <2>7 DEF WaitInv, StageInv
<1> QED
  BY <1>1, Waited, Typed, PTL

----------------------------------------------------------------------------
(* What is stored stays.                                                   *)

\* The rows that are there are there afterwards, in their places.
Kept ==
    \A s \in DOMAIN stored : \A i \in DOMAIN stored[s] :
        stored[s][i] # Lost => s \in DOMAIN stored' /\ i \in DOMAIN stored'[s] /\ stored'[s][i] = stored[s][i]

\* A row is written where there is none.
LEMMA LogKept ==
    ASSUME NEW log \in Seq(Rows), NEW n \in Nat, NEW e \in Rows, NEW w, w = log \/ w = Put(log, n, e)
    PROVE  \A i \in 1 .. Len(log) : log[i] # Lost => i \in DOMAIN w /\ w[i] = log[i]
<1>1. CASE w = log
  BY <1>1
<1>2. CASE w = Put(log, n, e)
  <2> DEFINE m == IF n < Len(log) THEN Len(log) ELSE n + 1
  <2>1. m \in Nat /\ Len(log) \in Nat /\ Len(log) <= m
    OBVIOUS
  <2>2. w = [i \in 1 .. m |-> IF i = n + 1 /\ (n >= Len(log) \/ log[i] = Lost) THEN e
                              ELSE IF i <= Len(log) THEN log[i] ELSE Lost]
    BY <1>2 DEF Put
  <2> HIDE DEF m
  <2>3. ASSUME NEW i \in 1 .. Len(log), log[i] # Lost PROVE i \in DOMAIN w /\ w[i] = log[i]
    <3>1. i \in 1 .. m /\ i <= Len(log) /\ ~ (i = n + 1 /\ n >= Len(log))
      BY <2>1
    <3> QED
      BY <2>2, <2>3, <3>1
  <2> QED
    BY <2>3
<1> QED
  BY <1>1, <1>2

\* Persisting an event keeps the rows.
LEMMA PersistedKeeps ==
    ASSUME StoreTypes, NEW k \in Conns, NEW e \in Rows, EnsureAndPersist(k, e)
    PROVE  Kept
<1> DEFINE L == EnsuredLog(k)
           d == EnsuredId(k)
<1>1. PICK w :
        /\ w = L[d] \/ w = Put(L[d], seq[k], e)
        /\ stored' = [L EXCEPT ![d] = w]
  BY DEF EnsureAndPersist, Written
<1>2. stored \in Seq(Seq(Rows)) /\ Len(stored) \in Nat /\ seq[k] \in Nat /\ sid[k] \in 0 .. Len(stored)
  BY DEF StoreTypes
<1>3. /\ L \in Seq(Seq(Rows)) /\ d \in 1 .. Len(L) /\ Len(stored) <= Len(L) /\ Len(L) \in Nat
      /\ \A s \in 1 .. Len(stored) : L[s] = stored[s]
  <2>1. CASE sid[k] = NoSession
    <3>1. L = Append(stored, <<>>) /\ d = Len(stored) + 1
      BY <2>1 DEF EnsuredLog, EnsuredId
    <3>2. <<>> \in Seq(Rows)
      OBVIOUS
    <3> QED
      BY <1>2, <3>1, <3>2, AppendProperties
  <2>2. CASE sid[k] # NoSession
    BY <1>2, <2>2 DEF EnsuredLog, EnsuredId, NoSession
  <2> QED
    BY <2>1, <2>2
<1>4. L[d] \in Seq(Rows)
  BY <1>3, ElementOfSeq
<1> HIDE DEF L, d
<1>5. w \in Seq(Rows) /\ \A i \in 1 .. Len(L[d]) : L[d][i] # Lost => i \in DOMAIN w /\ w[i] = L[d][i]
  <2>1. w \in Seq(Rows)
    BY <1>1, <1>2, <1>4, WrittenRows
  <2> QED
    BY <1>1, <1>2, <1>4, <2>1, LogKept
<1>6. /\ Len(stored') = Len(L) /\ stored' \in Seq(Seq(Rows))
      /\ \A s \in 1 .. Len(L) : stored'[s] = IF s = d THEN w ELSE L[s]
  BY <1>1, <1>3, <1>5, ExceptSeq
<1>7. ASSUME NEW s \in DOMAIN stored, NEW i \in DOMAIN stored[s], stored[s][i] # Lost
      PROVE  s \in DOMAIN stored' /\ i \in DOMAIN stored'[s] /\ stored'[s][i] = stored[s][i]
  <2>1. s \in 1 .. Len(stored) /\ s \in 1 .. Len(L) /\ L[s] = stored[s] /\ stored[s] \in Seq(Rows)
    BY <1>2, <1>3, ElementOfSeq
  <2>2. i \in 1 .. Len(L[s])
    BY <1>7, <2>1
  <2> QED
    BY <1>5, <1>6, <1>7, <2>1, <2>2
<1> QED
  BY <1>7 DEF Kept

\* So does a summary that closes one session and opens another.
LEMMA RestartedKeeps ==
    ASSUME StoreTypes, NEW k \in Conns, NEW e \in Rows, PersistAndRestart(k, e)
    PROVE  Kept
<1> DEFINE d == sid[k]
<1>1. PICK w, n :
        /\ w = stored[d] \/ w = Put(stored[d], seq[k], e)
        /\ n = <<>> \/ n = Put(<<>>, 0, e)
        /\ stored' = Append([stored EXCEPT ![d] = w], n)
  BY DEF PersistAndRestart, Written
<1> DEFINE L == [stored EXCEPT ![d] = w]
<1>2. stored \in Seq(Seq(Rows)) /\ Len(stored) \in Nat /\ seq[k] \in Nat /\ d \in 0 .. Len(stored)
  BY DEF StoreTypes
<1>3. n \in Seq(Rows)
  <2>1. PICK none, zero : none = <<>> /\ zero = 0
    OBVIOUS
  <2>2. /\ none \in Seq(Rows) /\ zero \in Nat
        /\ n = none \/ n = Put(none, zero, e)
    BY <1>1, <2>1
  <2> QED
    BY <2>1, <2>2, WrittenRows
<1>4. d \in 1 .. Len(stored) =>
        /\ w \in Seq(Rows)
        /\ \A i \in 1 .. Len(stored[d]) : stored[d][i] # Lost => i \in DOMAIN w /\ w[i] = stored[d][i]
  <2> SUFFICES ASSUME d \in 1 .. Len(stored)
               PROVE  /\ w \in Seq(Rows)
                      /\ \A i \in 1 .. Len(stored[d]) : stored[d][i] # Lost => i \in DOMAIN w /\ w[i] = stored[d][i]
    OBVIOUS
  <2>1. PICK log, q : log = stored[d] /\ q = seq[k]
    OBVIOUS
  <2>2. log \in Seq(Rows) /\ q \in Nat /\ (w = log \/ w = Put(log, q, e))
    BY <1>1, <1>2, <2>1, ElementOfSeq
  <2>3. w \in Seq(Rows)
    BY <2>2, WrittenRows
  <2>4. \A i \in 1 .. Len(log) : log[i] # Lost => i \in DOMAIN w /\ w[i] = log[i]
    BY <2>2, LogKept
  <2> QED
    BY <2>1, <2>3, <2>4
<1>5. /\ L \in Seq(Seq(Rows)) /\ Len(L) = Len(stored)
      /\ \A s \in 1 .. Len(stored) : L[s] = IF s = d THEN w ELSE stored[s]
  <2>1. CASE d \in 1 .. Len(stored)
    BY <1>2, <1>4, <2>1, ExceptSeq
  <2>2. CASE d \notin 1 .. Len(stored)
    <3>1. L = stored
      BY <1>2, <2>2
    <3> QED
      BY <1>2, <2>2, <3>1
  <2> QED
    BY <2>1, <2>2
<1>6. stored' = Append(L, n)
  BY <1>1
<1> HIDE DEF L
<1>7. /\ stored' \in Seq(Seq(Rows)) /\ Len(stored') = Len(stored) + 1
      /\ \A s \in 1 .. Len(stored) : stored'[s] = IF s = d THEN w ELSE stored[s]
  BY <1>2, <1>3, <1>5, <1>6, AppendProperties
<1>8. ASSUME NEW s \in DOMAIN stored, NEW i \in DOMAIN stored[s], stored[s][i] # Lost
      PROVE  s \in DOMAIN stored' /\ i \in DOMAIN stored'[s] /\ stored'[s][i] = stored[s][i]
  <2>1. s \in 1 .. Len(stored) /\ s \in DOMAIN stored' /\ stored[s] \in Seq(Rows)
    BY <1>2, <1>7, ElementOfSeq
  <2>2. i \in 1 .. Len(stored[s])
    BY <1>8, <2>1
  <2> QED
    BY <1>4, <1>7, <1>8, <2>1, <2>2
<1> QED
  BY <1>8 DEF Kept

\* Every step keeps the rows.
LEMMA StoreKeeps == ASSUME SessionTypes, [Next]_vars PROVE Kept
<1>0. StoreTypes /\ TurnTypes
  BY DEF SessionTypes
<1>1. CASE UNCHANGED stored
  BY <1>1 DEF Kept
<1>2. CASE OnNewSession
  <2>1. stored' = Append(stored, <<>>) /\ stored \in Seq(Seq(Rows)) /\ <<>> \in Seq(Rows)
    BY <1>0, <1>2 DEF OnNewSession, StoreTypes
  <2>2. Len(stored') = Len(stored) + 1 /\ stored' \in Seq(Seq(Rows)) /\ \A s \in 1 .. Len(stored) : stored'[s] = stored[s]
    BY <2>1, AppendProperties
  <2>3. \A s \in DOMAIN stored : s \in DOMAIN stored' /\ stored'[s] = stored[s]
    BY <2>1, <2>2
  <2> QED
    BY <2>3 DEF Kept
<1>3. CASE CompactDone
  <2>1. loop.from \in Conns
    BY <1>0, <1>3 DEF CompactDone, TurnTypes, Idle
  <2>2. Len(stored) + 1 \in Nat
    BY <1>0 DEF StoreTypes
  <2>3. PICK e : e = Ev("summary", Len(stored) + 1)
    OBVIOUS
  <2>4. e \in Rows /\ PersistAndRestart(loop.from, e)
    BY <1>3, <2>2, <2>3 DEF CompactDone, Ev, Rows, Kinds
  <2> QED
    BY <1>0, <2>1, <2>4, RestartedKeeps
<1>4. CASE BeginRun
  <2>1. loop.from \in Conns /\ loop.req \in Requests
    BY <1>0, <1>4, BeginMoves
  <2>2. PICK e : e = Ev("prompt", loop.req)
    OBVIOUS
  <2>3. e \in Rows /\ EnsureAndPersist(loop.from, e)
    BY <1>4, <2>1, <2>2 DEF BeginRun, Ev, Rows, Kinds
  <2> QED
    BY <1>0, <2>1, <2>3, PersistedKeeps
<1>5. CASE OnCommandResult
  <2>1. From \in Conns /\ Head(c2d).id \in Nat
    <3>1. c2d # <<>> /\ Head(c2d).type = "CommandResult"
      BY <1>5 DEF OnCommandResult, Receive
    <3> QED
      BY <3>1, HeadMessage DEF SessionTypes, LinkTypes, Messages, From
  <2>2. PICK e : e = Ev("command", Head(c2d).id)
    OBVIOUS
  <2>3. e \in Rows /\ EnsureAndPersist(From, e)
    BY <1>5, <2>1, <2>2 DEF OnCommandResult, Ev, Rows, Kinds
  <2> QED
    BY <1>0, <2>1, <2>3, PersistedKeeps
<1>6. ASSUME NEW k \in Conns, Collect(k) PROVE Kept
  <2>1. rx[k] \in Requests
    BY <1>0, <1>6 DEF TurnTypes, Collect, Returned
  <2>2. PICK e : e = Outcome(rx[k])
    OBVIOUS
  <2>3. e \in Rows /\ EnsureAndPersist(k, e)
    BY <1>6, <2>1, <2>2 DEF Collect, Install, Outcome, Ev, Rows, Kinds
  <2> QED
    BY <1>0, <2>3, PersistedKeeps
<1>7. ASSUME NEW r \in Requests, RunStep(r) PROVE Kept
  <2>1. UNCHANGED stored
    BY <1>0, <1>7, RunMoves DEF storeVars
  <2> QED
    BY <1>1, <2>1
<1>8. CASE OnAgentRequest \/ OnCancelRequest \/ OnLoadSession \/ OnCompactRequest \/ Ignore \/ CompactFail \/ ConfigReload
  BY <1>1, <1>8 DEF OnAgentRequest, OnCancelRequest, OnLoadSession, OnCompactRequest, Ignore, CompactFail,
                    ConfigReload, storeVars
<1>9. ASSUME NEW k, CleanupStale(k) PROVE Kept
  BY <1>1, <1>9 DEF CleanupStale, storeVars
<1>10. CASE Disconnect \/ ClientStop \/ DaemonStop \/ Reconnect
  BY <1>1, <1>10 DEF Disconnect, ClientStop, LinkDown, DaemonStop, Reconnect, storeVars
<1>11. CASE UNCHANGED <<storeVars, turnVars, linkVars>> \/ UNCHANGED vars
  BY <1>1, <1>11 DEF vars, storeVars
<1> QED
  BY <1>2, <1>3, <1>4, <1>5, <1>6, <1>7, <1>8, <1>9, <1>10, <1>11 DEF Next, TurnStep, LoopStep, DaemonHandle

\* What is stored stays stored, in its session and at its seq (append_event in
\* codivd/src/store.rs), whoever writes beside it, whatever fails and whoever
\* stops: a taken seq is not written again, and no session is shortened.
THEOREM StoredForGood == Spec => [][Kept]_vars
<1>1. SessionTypes /\ [Next]_vars => [Kept]_vars
  BY StoreKeeps
<1> QED
  BY <1>1, Typed, PTL DEF Spec

=============================================================================
