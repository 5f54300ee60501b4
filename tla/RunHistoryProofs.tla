-------------------------- MODULE RunHistoryProofs --------------------------
(***************************************************************************)
(* What a run with tools leaves behind, for any number of calls, chunks,   *)
(* prompts and failures: a history whose calls have their results, blocks  *)
(* whose results have their arguments, and one permission mode.            *)
(***************************************************************************)
EXTENDS ApprovalProofs

----------------------------------------------------------------------------
(* The history.                                                            *)

CallFrame    == [type : {"ToolCall", "ToolResult"}, of : Calls]
MusingFrame  == [type : {"AssistantReasoning"}, of : Nat]
ClosingFrame == [type : {"AssistantText", "Error"}, of : Nat]

\* A result for the call at i comes later in s.
ResultFollows(s, i) == \E j \in 1 .. Len(s) : j > i /\ s[j] = Frame("ToolResult", s[i].of)

AllAnswered(s) == \A i \in 1 .. Len(s) : s[i].type = "ToolCall" => ResultFollows(s, i)

NoRepeats(s) ==
    \A i, j \in 1 .. Len(s) : s[j] = s[i] => j = i \/ s[i].type = "AssistantReasoning"

\* Runs are numbered, and the prompts on their way to the daemon are later ones.
RequestInv ==
    /\ turn <= prompts
    /\ phase # "idle" => turn # 0
    /\ \A i \in 1 .. Len(c2d) : c2d[i].type = "AgentRequest" =>
          /\ turn < c2d[i].of /\ c2d[i].of <= prompts
          /\ \A j \in 1 .. Len(c2d) : c2d[j].type = "AgentRequest" /\ i < j => c2d[i].of < c2d[j].of

\* The events of a stream: its calls were made in this run, and are answered or in
\* the batch.
Regular(s) ==
    /\ NoRepeats(s)
    /\ \A i \in 1 .. Len(s) :
          /\ s[i].type \in {"ToolCall", "ToolResult"} => made[s[i].of] = turn
          /\ s[i].type = "ToolResult" => ~ InSeq(batch, s[i].of)
          /\ s[i].type = "ToolCall" => InSeq(batch, s[i].of) \/ ResultFollows(s, i)

EventsInv ==
    /\ phase \in {"idle", "streaming", "backoff"}
    /\ mused \in BOOLEAN
    /\ made \in [Calls -> Nat]
    /\ events \in Seq(CallFrame \cup MusingFrame)
    /\ batch \in Seq(Calls)
    /\ phase # "streaming" => events = <<>> /\ batch = <<>> /\ ~ mused
    /\ \A c \in Calls : made[c] <= turn
    /\ \A i, j \in 1 .. Len(batch) : batch[i] = batch[j] => i = j
    /\ \A i \in 1 .. Len(batch) : made[batch[i]] = turn
    /\ Regular(events)

\* A run that is over.
Ended(t) == t # 0 /\ t <= turn /\ (phase # "idle" => t < turn)

\* The store has the events of runs that are over.
StoredInv ==
    /\ stored \in Seq(CallFrame \cup MusingFrame \cup ClosingFrame)
    /\ AllAnswered(stored)
    /\ NoRepeats(stored)
    /\ \A i \in 1 .. Len(stored) :
          /\ stored[i].type \in {"ToolCall", "ToolResult"} => Ended(made[stored[i].of])
          /\ stored[i].type \in {"AssistantText", "Error"} => Ended(stored[i].of)

HistoryInv == RequestInv /\ EventsInv /\ StoredInv

----------------------------------------------------------------------------
(* The mode.                                                               *)

Told(i) == d2c[i].type = "PermissionModeChanged"

\* What the client will show when it has read its frames is the daemon's mode.
Agreed ==
    /\ \A i \in 1 .. Len(d2c) : Told(i) /\ (\A j \in 1 .. Len(d2c) : Told(j) => j <= i) => d2c[i].of = mode
    /\ (\A i \in 1 .. Len(d2c) : ~ Told(i)) => shown = mode

ModeInv ==
    /\ reset => mode = ConfigMode
    /\ ~ reset /\ (\A i \in 1 .. Len(c2d) : c2d[i].type # "SetPermissionMode") => Agreed

----------------------------------------------------------------------------
(* The blocks.                                                             *)

Block ==
    [type : {"Thinking"}] \cup [type : {"AiResponse"}, of : Nat]
        \cup [type : {"Tool"}, result : Nat, outcome : Nat, args : Nat]

ViewTypes ==
    /\ queue \in Seq(Nat)
    /\ spinner \in BOOLEAN
    /\ open \in Nat /\ outcome.of \in Nat
    /\ blocks \in Seq(Block)

\* The numbers of the channel's frames of one type are those from lo + 1 to hi,
\* in that order.
Carries(type, lo, hi) ==
    /\ \A i \in 1 .. Len(d2c) : d2c[i].type = type => d2c[i].of \in lo + 1 .. hi
    /\ \A i, j \in 1 .. Len(d2c) : d2c[i].type = type /\ d2c[j].type = type /\ i < j => d2c[i].of < d2c[j].of
    /\ \A x \in lo + 1 .. hi : \E i \in 1 .. Len(d2c) : d2c[i].type = type /\ d2c[i].of = x

\* A call is on the wire before its result, and after what announces it.
InTurn ==
    /\ \A i, j \in 1 .. Len(d2c) :
          d2c[i].type = "ToolCall" /\ d2c[j].type = "ToolResult" /\ d2c[i].of = d2c[j].of => i < j
    /\ \A i \in 1 .. Len(d2c) : d2c[i].type = "ToolCallDelta" =>
          \E j \in 1 .. Len(d2c) : i < j /\ d2c[j].type = "ToolCall" /\ d2c[j].of = d2c[i].of

\* A sequence of the numbers from lo + 1 to hi.
Counts(s, lo, hi) == Len(s) = hi - lo /\ \A i \in 1 .. Len(s) : s[i] = lo + i

\* Calls are numbered as they are made.  Of the n that were made, b are reported;
\* the client has seen k and the results of a.
Wired(a, k, b, n) ==
    /\ Carries("ToolCall", k, n)
    /\ Carries("ToolResult", a, b)
    /\ InTurn

Seen(a, k, n) ==
    /\ Counts(queue, a, k)
    /\ spinner => a < n
    /\ \A i \in Tools : blocks[i].args = blocks[i].result /\ blocks[i].result <= a

Paired(a, k, b, n) ==
    /\ a <= k /\ k <= n /\ a <= b /\ b <= n
    /\ \A c \in Calls : made[c] # 0 <=> c <= n
    /\ Counts(batch, b, n)
    /\ Wired(a, k, b, n)
    /\ Seen(a, k, n)

Pairing == LostCalls = {} => \E a, k, b, n \in 0 .. MaxCalls : Paired(a, k, b, n)

BlockInv == ViewTypes /\ Pairing

----------------------------------------------------------------------------
(* Lists of events.                                                        *)

\* An event that is new at the end of a list repeats none and parts no pair.
LEMMA AppendedEvents ==
    ASSUME NEW S, NEW s \in Seq(S), NEW x \in S, NoRepeats(s),
           \A i \in 1 .. Len(s) : s[i] = x => x.type = "AssistantReasoning"
    PROVE  /\ NoRepeats(Append(s, x))
           /\ \A i \in 1 .. Len(s) : ResultFollows(s, i) => ResultFollows(Append(s, x), i)
BY DEF NoRepeats, ResultFollows

\* Two lists that have no event in common.
LEMMA JoinedEvents ==
    ASSUME NEW S, NEW s \in Seq(S), NEW t \in Seq(S), NoRepeats(s), NoRepeats(t),
           AllAnswered(s), AllAnswered(t),
           \A i \in 1 .. Len(s), j \in 1 .. Len(t) : s[i] = t[j] => s[i].type = "AssistantReasoning"
    PROVE  NoRepeats(s \o t) /\ AllAnswered(s \o t)
<1>1. /\ s \o t \in Seq(S) /\ Len(s \o t) = Len(s) + Len(t) /\ Len(s) \in Nat /\ Len(t) \in Nat
      /\ \A i \in 1 .. Len(s) : (s \o t)[i] = s[i]
      /\ \A i \in Len(s) + 1 .. Len(s \o t) : (s \o t)[i] = t[i - Len(s)]
  BY ConcatProperties
<1>2. \A i \in Len(s) + 1 .. Len(s \o t) : i - Len(s) \in 1 .. Len(t)
  BY <1>1
<1>3. NoRepeats(s \o t)
  <2>. SUFFICES ASSUME NEW i \in 1 .. Len(s \o t), NEW j \in 1 .. Len(s \o t),
                       (s \o t)[j] = (s \o t)[i], (s \o t)[i].type # "AssistantReasoning"
       PROVE  j = i
    BY DEF NoRepeats
  <2>1. CASE i <= Len(s) /\ j <= Len(s)
    BY <1>1, <2>1 DEF NoRepeats
  <2>2. CASE i > Len(s) /\ j > Len(s)
    BY <1>1, <1>2, <2>2 DEF NoRepeats
  <2>3. CASE i <= Len(s) /\ j > Len(s)
    BY <1>1, <1>2, <2>3
  <2>4. CASE i > Len(s) /\ j <= Len(s)
    BY <1>1, <1>2, <2>4
  <2>. QED  BY <1>1, <2>1, <2>2, <2>3, <2>4
<1>4. AllAnswered(s \o t)
  <2>. SUFFICES ASSUME NEW i \in 1 .. Len(s \o t), (s \o t)[i].type = "ToolCall"
       PROVE  ResultFollows(s \o t, i)
    BY DEF AllAnswered
  <2>1. CASE i <= Len(s)
    <3>1. PICK j \in 1 .. Len(s) : j > i /\ s[j] = Frame("ToolResult", s[i].of)
      BY <1>1, <2>1 DEF AllAnswered, ResultFollows
    <3>2. j \in 1 .. Len(s \o t) /\ (s \o t)[j] = s[j] /\ (s \o t)[i] = s[i]
      BY <1>1, <2>1
    <3>. QED  BY <3>1, <3>2 DEF ResultFollows
  <2>2. CASE i > Len(s)
    <3>1. i - Len(s) \in 1 .. Len(t) /\ (s \o t)[i] = t[i - Len(s)]
      BY <1>1, <1>2, <2>2
    <3>2. PICK j \in 1 .. Len(t) : j > i - Len(s) /\ t[j] = Frame("ToolResult", t[i - Len(s)].of)
      BY <3>1 DEF AllAnswered, ResultFollows
    <3>3. j + Len(s) \in 1 .. Len(s \o t) /\ j + Len(s) > i /\ (s \o t)[j + Len(s)] = t[j]
      BY <1>1, <3>2
    <3>. QED  BY <3>1, <3>2, <3>3 DEF ResultFollows
  <2>. QED  BY <1>1, <2>1, <2>2
<1>. QED  BY <1>3, <1>4

\* With the reasoning that waits, the events of a stream are still in order.
LEMMA FlushedEvents ==
    ASSUME TypeInv, EventsInv
    PROVE  Flushed \in Seq(CallFrame \cup MusingFrame) /\ Regular(Flushed)
<1>1. CASE ~ mused
  BY <1>1 DEF Flushed, EventsInv
<1>2. CASE mused
  <2>1. PICK x : x = Frame("AssistantReasoning", turn)
    OBVIOUS
  <2>2. x \in CallFrame \cup MusingFrame /\ x.type = "AssistantReasoning" /\ Flushed = Append(events, x)
    BY <1>2, <2>1 DEF Flushed, Frame, MusingFrame, TypeInv
  <2>3. events \in Seq(CallFrame \cup MusingFrame) /\ Regular(events)
    BY DEF EventsInv
  <2>4. /\ NoRepeats(Append(events, x))
        /\ \A i \in 1 .. Len(events) : ResultFollows(events, i) => ResultFollows(Append(events, x), i)
    BY <2>2, <2>3, AppendedEvents DEF Regular
  <2>5. /\ Append(events, x) \in Seq(CallFrame \cup MusingFrame)
        /\ Len(Append(events, x)) = Len(events) + 1 /\ Len(events) \in Nat
        /\ \A i \in 1 .. Len(events) : Append(events, x)[i] = events[i]
        /\ Append(events, x)[Len(events) + 1] = x
    BY <2>2, <2>3
  <2>6. Regular(Append(events, x))
    <3>. SUFFICES ASSUME NEW i \in 1 .. Len(events) + 1
         PROVE  LET s == Append(events, x) IN
                /\ s[i].type \in {"ToolCall", "ToolResult"} => made[s[i].of] = turn
                /\ s[i].type = "ToolResult" => ~ InSeq(batch, s[i].of)
                /\ s[i].type = "ToolCall" => InSeq(batch, s[i].of) \/ ResultFollows(s, i)
      BY <2>4, <2>5 DEF Regular
    <3>1. CASE i = Len(events) + 1
      BY <2>2, <2>5, <3>1
    <3>2. CASE i \in 1 .. Len(events)
      BY <2>3, <2>4, <2>5, <3>2 DEF Regular
    <3>. QED  BY <2>5, <3>1, <3>2
  <2>. QED  BY <2>2, <2>5, <2>6
<1>. QED  BY <1>1, <1>2 DEF EventsInv

\* What a longer and a shorter sequence contain.
LEMMA InAppended ==
    ASSUME NEW S, NEW s \in Seq(S), NEW x \in S, NEW y
    PROVE  InSeq(Append(s, x), y) <=> InSeq(s, y) \/ y = x
<1>1. /\ Len(s) \in Nat /\ DOMAIN s = 1 .. Len(s) /\ DOMAIN Append(s, x) = 1 .. Len(s) + 1
      /\ \A i \in 1 .. Len(s) : Append(s, x)[i] = s[i]
      /\ Append(s, x)[Len(s) + 1] = x
  OBVIOUS
<1>2. \A i \in 1 .. Len(s) + 1 : i \in 1 .. Len(s) \/ i = Len(s) + 1
  BY <1>1
<1>3. \A i \in 1 .. Len(s) : i \in 1 .. Len(s) + 1
  BY <1>1
<1>4. Len(s) + 1 \in 1 .. Len(s) + 1
  BY <1>1
<1>. QED  BY <1>1, <1>2, <1>3, <1>4 DEF InSeq

\* A sequence without repetitions loses its head only.
LEMMA InTail ==
    ASSUME NEW S, NEW s \in Seq(S), s # <<>>, NEW y, \A i, j \in 1 .. Len(s) : s[i] = s[j] => i = j
    PROVE  InSeq(Tail(s), y) <=> InSeq(s, y) /\ y # Head(s)
<1>1. /\ Len(s) \in Nat \ {0} /\ DOMAIN s = 1 .. Len(s) /\ DOMAIN Tail(s) = 1 .. Len(s) - 1
      /\ \A i \in 1 .. Len(s) - 1 : Tail(s)[i] = s[i + 1]
      /\ Head(s) = s[1] /\ 1 \in 1 .. Len(s)
  OBVIOUS
<1>2. \A i \in 1 .. Len(s) - 1 : i + 1 \in 1 .. Len(s) /\ i + 1 # 1
  BY <1>1
<1>3. \A i \in 1 .. Len(s) : i = 1 \/ (i - 1 \in 1 .. Len(s) - 1 /\ (i - 1) + 1 = i)
  BY <1>1
<1>4. ASSUME InSeq(Tail(s), y) PROVE InSeq(s, y) /\ y # Head(s)
  <2>1. PICK i \in 1 .. Len(s) - 1 : s[i + 1] = y
    BY <1>1, <1>4 DEF InSeq
  <2>2. y # s[1]
    BY <1>1, <1>2, <2>1
  <2>. QED  BY <1>1, <1>2, <2>1, <2>2 DEF InSeq
<1>5. ASSUME InSeq(s, y), y # Head(s) PROVE InSeq(Tail(s), y)
  <2>1. PICK i \in 1 .. Len(s) : s[i] = y
    BY <1>1, <1>5 DEF InSeq
  <2>2. i - 1 \in 1 .. Len(s) - 1 /\ Tail(s)[i - 1] = y
    BY <1>1, <1>3, <1>5, <2>1
  <2>. QED  BY <1>1, <2>2 DEF InSeq
<1>. QED  BY <1>4, <1>5

----------------------------------------------------------------------------
(* What steps do to the history.                                           *)

\* The prompts on their way stay in order when one is taken or anything else is
\* sent after them.
LEMMA RequestsKept ==
    ASSUME TypeInv, RequestInv, UNCHANGED <<turn, prompts>>, phase' # "idle" => phase # "idle",
           \/ UNCHANGED c2d
           \/ c2d # <<>> /\ c2d' = Tail(c2d)
           \/ \E f : c2d' = Append(c2d, f) /\ f.type # "AgentRequest"
    PROVE  RequestInv'
<1>1. c2d \in Seq(ClientFrame)
  BY DEF TypeInv
<1>2. CASE UNCHANGED c2d
  BY <1>2 DEF RequestInv
<1>3. CASE c2d # <<>> /\ c2d' = Tail(c2d)
  <2>1. /\ Len(c2d) \in Nat \ {0} /\ Len(c2d') = Len(c2d) - 1
        /\ \A i \in 1 .. Len(c2d') : c2d'[i] = c2d[i + 1]
    BY <1>1, <1>3
  <2>2. \A i \in 1 .. Len(c2d') : i + 1 \in 1 .. Len(c2d)
    BY <2>1
  <2>3. \A i, j \in 1 .. Len(c2d') : i < j => i + 1 < j + 1
    BY <2>1
  <2>. QED  BY <2>1, <2>2, <2>3 DEF RequestInv
<1>4. ASSUME NEW f, c2d' = Append(c2d, f), f.type # "AgentRequest" PROVE RequestInv'
  <2>1. /\ Len(c2d) \in Nat /\ Len(c2d') = Len(c2d) + 1
        /\ \A i \in 1 .. Len(c2d) : c2d'[i] = c2d[i]
        /\ c2d'[Len(c2d) + 1] = f
    BY <1>1, <1>4
  <2>2. \A i \in 1 .. Len(c2d') : c2d'[i].type = "AgentRequest" => i \in 1 .. Len(c2d) /\ c2d'[i] = c2d[i]
    BY <1>4, <2>1
  <2>. QED  BY <2>2 DEF RequestInv
<1>. QED  BY <1>2, <1>3, <1>4

historyVars == <<phase, turn, batch, mused, made, events, stored>>

\* What leaves events, batch and store alone keeps the history.
LEMMA HistoryKept ==
    ASSUME EventsInv, StoredInv, UNCHANGED historyVars
    PROVE  EventsInv' /\ StoredInv'
BY DEF historyVars, EventsInv, StoredInv, Regular, NoRepeats, ResultFollows, AllAnswered, InSeq, Ended

\* A run that is over stays over when no run starts and none is resumed.
LEMMA StoredKept ==
    ASSUME TypeInv, StoredInv, UNCHANGED <<turn, stored>>, phase' # "idle" => phase # "idle",
           EventsInv, \A c \in Calls : made'[c] = made[c] \/ made[c] = 0
    PROVE  StoredInv'
<1>1. \A t : Ended(t) => Ended(t)'
  BY DEF Ended
<1>2. \A i \in 1 .. Len(stored) : stored[i].type \in {"ToolCall", "ToolResult"} =>
        stored[i].of \in Calls /\ made'[stored[i].of] = made[stored[i].of]
  <2>. SUFFICES ASSUME NEW i \in 1 .. Len(stored), stored[i].type \in {"ToolCall", "ToolResult"}
       PROVE  stored[i].of \in Calls /\ made'[stored[i].of] = made[stored[i].of]
    OBVIOUS
  <2>1. stored[i] \in CallFrame \cup MusingFrame \cup ClosingFrame
    BY DEF StoredInv
  <2>2. stored[i].of \in Calls
    BY <2>1 DEF CallFrame, MusingFrame, ClosingFrame
  <2>3. made[stored[i].of] # 0
    BY DEF StoredInv, Ended
  <2>. QED  BY <2>2, <2>3
<1>3. StoredInv'
  BY <1>1, <1>2 DEF StoredInv, AllAnswered, NoRepeats, ResultFollows
<1>. QED  BY <1>3

\* A stream that is dropped leaves no events.
LEMMA FreshEvents ==
    ASSUME TypeInv, EventsInv, FreshStream, made' = made, turn' \in Nat, turn <= turn',
           phase' \in {"idle", "streaming", "backoff"}
    PROVE  EventsInv'
<1>1. batch' = <<>> /\ events' = <<>> /\ mused' = FALSE
  BY DEF FreshStream
<1>2. Len(<<>>) = 0
  OBVIOUS
<1>3. Regular(events)'
  BY <1>1, <1>2 DEF Regular, NoRepeats
<1>4. \A c \in Calls : made'[c] <= turn'
  BY DEF EventsInv, TypeInv
<1>5. events' \in Seq(CallFrame \cup MusingFrame) /\ batch' \in Seq(Calls)
  BY <1>1
<1>6. made' \in [Calls -> Nat]
  BY DEF EventsInv
<1>7. /\ \A i, j \in 1 .. Len(batch') : batch'[i] = batch'[j] => i = j
      /\ \A i \in 1 .. Len(batch') : made'[batch'[i]] = turn'
  BY <1>1, <1>2
<1>8. mused' \in BOOLEAN /\ ~ mused'
  BY <1>1
<1>. QED  BY <1>1, <1>3, <1>4, <1>5, <1>6, <1>7, <1>8 DEF EventsInv

----------------------------------------------------------------------------
(* The steps of a stream.                                                  *)

\* A chunk of text or thought keeps the history.
LEMMA ChunkHistory ==
    ASSUME TypeInv, HistoryInv, NEW kind, Chunk(kind), UNCHANGED prompts
    PROVE  HistoryInv'
<1>1. UNCHANGED <<c2d, phase, turn, batch, made, events, stored>> /\ mused' \in BOOLEAN /\ phase = "streaming"
  BY DEF Chunk, HistoryInv, EventsInv
<1>2. RequestInv'
  BY <1>1, RequestsKept DEF HistoryInv
<1>3. EventsInv'
  <2>1. EventsInv /\ Regular(events)
    BY DEF HistoryInv, EventsInv
  <2>2. Regular(events)'
    BY <1>1, <2>1 DEF Regular, NoRepeats, ResultFollows, InSeq
  <2>. QED  BY <1>1, <2>1, <2>2 DEF EventsInv
<1>4. StoredInv'
  BY <1>1, StoredKept DEF HistoryInv
<1>. QED  BY <1>2, <1>3, <1>4 DEF HistoryInv

\* A call is new, and waits for its result.
LEMMA ToolCallHistory ==
    ASSUME TypeInv, HistoryInv, NEW c \in Calls, ToolCall(c), UNCHANGED prompts
    PROVE  HistoryInv'
<1>1. PICK x : x = Frame("ToolCall", c)
  OBVIOUS
<1>2. /\ x \in CallFrame \cup MusingFrame /\ x.type = "ToolCall" /\ x.of = c
  BY <1>1 DEF Frame, CallFrame
<1>3. /\ UNCHANGED <<c2d, phase, turn, stored>> /\ phase = "streaming" /\ made[c] = 0
      /\ made' = [made EXCEPT ![c] = turn] /\ batch' = Append(batch, c) /\ mused' = FALSE
      /\ events' = Append(Flushed, x)
  BY <1>1 DEF ToolCall
<1>4. EventsInv /\ StoredInv /\ RequestInv /\ turn # 0 /\ turn \in Nat
  BY <1>3 DEF HistoryInv, RequestInv, TypeInv
<1>5. PICK F : F = Flushed
  OBVIOUS
<1>6. F \in Seq(CallFrame \cup MusingFrame) /\ Regular(F)
  BY <1>4, <1>5, FlushedEvents
<1>7. RequestInv'
  BY <1>3, <1>4, RequestsKept
<1>8. made' \in [Calls -> Nat] /\ made'[c] = turn /\ \A d \in Calls \ {c} : made'[d] = made[d]
  BY <1>3, <1>4 DEF EventsInv
<1>9. StoredInv'
  BY <1>3, <1>4, <1>8, StoredKept
<1>10. \A i \in 1 .. Len(F) : F[i].type \in {"ToolCall", "ToolResult"} => F[i].of \in Calls \ {c} /\ made'[F[i].of] = turn
  <2>. SUFFICES ASSUME NEW i \in 1 .. Len(F), F[i].type \in {"ToolCall", "ToolResult"}
       PROVE  F[i].of \in Calls \ {c} /\ made'[F[i].of] = turn
    OBVIOUS
  <2>1. F[i] \in CallFrame \cup MusingFrame /\ made[F[i].of] = turn
    BY <1>6 DEF Regular
  <2>2. F[i].of \in Calls /\ F[i].of # c
    BY <1>3, <1>4, <2>1 DEF CallFrame, MusingFrame
  <2>. QED  BY <1>8, <2>1, <2>2
<1>11. \A i \in 1 .. Len(F) : F[i] # x
  BY <1>2, <1>10
<1>12. /\ NoRepeats(Append(F, x))
       /\ \A i \in 1 .. Len(F) : ResultFollows(F, i) => ResultFollows(Append(F, x), i)
  BY <1>2, <1>6, <1>11, AppendedEvents DEF Regular
<1>13. /\ Append(F, x) \in Seq(CallFrame \cup MusingFrame)
       /\ Len(Append(F, x)) = Len(F) + 1 /\ Len(F) \in Nat
       /\ \A i \in 1 .. Len(F) : Append(F, x)[i] = F[i]
       /\ Append(F, x)[Len(F) + 1] = x
  BY <1>2, <1>6
<1>14. \A y : InSeq(batch', y) <=> InSeq(batch, y) \/ y = c
  BY <1>3, <1>4, InAppended DEF EventsInv
<1>15. Regular(events)'
  <2>0. events' = Append(F, x)
    BY <1>3, <1>5
  <2>. SUFFICES ASSUME NEW i \in 1 .. Len(F) + 1
       PROVE  LET s == Append(F, x) IN
              /\ s[i].type \in {"ToolCall", "ToolResult"} => made'[s[i].of] = turn'
              /\ s[i].type = "ToolResult" => ~ InSeq(batch', s[i].of)
              /\ s[i].type = "ToolCall" => InSeq(batch', s[i].of) \/ ResultFollows(s, i)
    BY <2>0, <1>12, <1>13 DEF Regular, NoRepeats, ResultFollows, InSeq
  <2>1. CASE i = Len(F) + 1
    BY <1>2, <1>3, <1>8, <1>13, <1>14, <2>1
  <2>2. CASE i \in 1 .. Len(F)
    BY <1>3, <1>6, <1>10, <1>12, <1>13, <1>14, <2>2 DEF Regular
  <2>. QED  BY <1>13, <2>1, <2>2
<1>16. /\ batch' \in Seq(Calls) /\ Len(batch') = Len(batch) + 1 /\ Len(batch) \in Nat
       /\ \A i \in 1 .. Len(batch) : batch'[i] = batch[i] /\ batch[i] \in Calls /\ batch[i] # c
       /\ batch'[Len(batch) + 1] = c
  BY <1>3, <1>4 DEF EventsInv
<1>17. /\ \A i, j \in 1 .. Len(batch') : batch'[i] = batch'[j] => i = j
       /\ \A i \in 1 .. Len(batch') : made'[batch'[i]] = turn'
  <2>1. \A i \in 1 .. Len(batch') : i \in 1 .. Len(batch) \/ i = Len(batch) + 1
    BY <1>16
  <2>a. \A i, j \in 1 .. Len(batch) : batch[i] = batch[j] => i = j
    BY <1>4 DEF EventsInv
  <2>b. Len(batch) + 1 \notin 1 .. Len(batch)
    BY <1>16
  <2>2. \A i, j \in 1 .. Len(batch') : batch'[i] = batch'[j] => i = j
    BY <1>16, <2>1, <2>a, <2>b
  <2>3. \A i \in 1 .. Len(batch') : made'[batch'[i]] = turn'
    BY <1>3, <1>4, <1>8, <1>16, <2>1 DEF EventsInv
  <2>. QED  BY <2>2, <2>3
<1>18. \A d \in Calls : made'[d] <= turn'
  BY <1>3, <1>4, <1>8 DEF EventsInv
<1>19. EventsInv'
  BY <1>3, <1>5, <1>8, <1>13, <1>15, <1>16, <1>17, <1>18 DEF EventsInv
<1>. QED  BY <1>7, <1>9, <1>19 DEF HistoryInv

\* The oldest call of the stream gets its one result.
LEMMA ToolResultHistory ==
    ASSUME TypeInv, HistoryInv, NEW c \in Calls, ToolResult(c), UNCHANGED prompts
    PROVE  HistoryInv'
<1>1. PICK x : x = Frame("ToolResult", c)
  OBVIOUS
<1>2. x \in CallFrame \cup MusingFrame /\ x.type = "ToolResult" /\ x.of = c
  BY <1>1 DEF Frame, CallFrame
<1>3. /\ UNCHANGED <<c2d, phase, turn, mused, made, stored>> /\ phase = "streaming" /\ batch # <<>> /\ c = Head(batch)
      /\ batch' = Tail(batch) /\ events' = Append(events, x)
  BY <1>1 DEF ToolResult
<1>4. EventsInv /\ StoredInv /\ RequestInv
  BY DEF HistoryInv
<1>5. RequestInv' /\ StoredInv'
  BY <1>3, <1>4, RequestsKept, StoredKept
<1>6. /\ batch' \in Seq(Calls) /\ Len(batch') = Len(batch) - 1 /\ Len(batch) \in Nat \ {0}
      /\ \A i \in 1 .. Len(batch') : batch'[i] = batch[i + 1]
      /\ batch[1] = c /\ DOMAIN batch = 1 .. Len(batch)
  BY <1>3, <1>4 DEF EventsInv
<1>7. InSeq(batch, c) /\ made[c] = turn
  <2>1. 1 \in 1 .. Len(batch)
    BY <1>6
  <2>. QED  BY <1>4, <1>6, <2>1 DEF InSeq, EventsInv
<1>8. \A y : InSeq(batch', y) <=> InSeq(batch, y) /\ y # c
  BY <1>3, <1>4, InTail DEF EventsInv
<1>9. events \in Seq(CallFrame \cup MusingFrame) /\ Regular(events)
  BY <1>4 DEF EventsInv
<1>10. \A i \in 1 .. Len(events) : events[i] # x
  BY <1>2, <1>7, <1>9 DEF Regular
<1>11. /\ NoRepeats(Append(events, x))
       /\ \A i \in 1 .. Len(events) : ResultFollows(events, i) => ResultFollows(Append(events, x), i)
  BY <1>2, <1>9, <1>10, AppendedEvents DEF Regular
<1>12. /\ Append(events, x) \in Seq(CallFrame \cup MusingFrame)
       /\ Len(Append(events, x)) = Len(events) + 1 /\ Len(events) \in Nat
       /\ \A i \in 1 .. Len(events) : Append(events, x)[i] = events[i]
       /\ Append(events, x)[Len(events) + 1] = x
  BY <1>2, <1>9
<1>13. \A i \in 1 .. Len(events) : events[i].of = c => ResultFollows(Append(events, x), i)
  <2>. SUFFICES ASSUME NEW i \in 1 .. Len(events), events[i].of = c
       PROVE  ResultFollows(Append(events, x), i)
    OBVIOUS
  <2>1. Len(events) + 1 \in 1 .. Len(Append(events, x)) /\ Len(events) + 1 > i
    BY <1>12
  <2>. QED  BY <1>1, <1>12, <2>1 DEF ResultFollows
<1>14. Regular(events)'
  <2>. SUFFICES ASSUME NEW i \in 1 .. Len(events) + 1
       PROVE  LET s == Append(events, x) IN
              /\ s[i].type \in {"ToolCall", "ToolResult"} => made[s[i].of] = turn
              /\ s[i].type = "ToolResult" => ~ InSeq(batch', s[i].of)
              /\ s[i].type = "ToolCall" => InSeq(batch', s[i].of) \/ ResultFollows(s, i)
    BY <1>3, <1>11, <1>12 DEF Regular, NoRepeats, ResultFollows, InSeq
  <2>1. CASE i = Len(events) + 1
    BY <1>2, <1>7, <1>8, <1>12, <2>1
  <2>2. CASE i \in 1 .. Len(events)
    BY <1>8, <1>9, <1>11, <1>12, <1>13, <2>2 DEF Regular
  <2>. QED  BY <1>12, <2>1, <2>2
<1>15. \A i \in 1 .. Len(batch') : i + 1 \in 1 .. Len(batch)
  BY <1>6
<1>16. \A i, j \in 1 .. Len(batch') : i + 1 = j + 1 => i = j
  BY <1>6
<1>17. /\ \A i, j \in 1 .. Len(batch') : batch'[i] = batch'[j] => i = j
       /\ \A i \in 1 .. Len(batch') : made'[batch'[i]] = turn'
  BY <1>3, <1>4, <1>6, <1>15, <1>16 DEF EventsInv
<1>18. EventsInv'
  BY <1>3, <1>4, <1>6, <1>12, <1>14, <1>17 DEF EventsInv
<1>. QED  BY <1>5, <1>18 DEF HistoryInv

\* The store gets the events of the run that ends, and then its last words.
LEMMA CompleteHistory ==
    ASSUME TypeInv, HistoryInv, Complete, UNCHANGED prompts
    PROVE  HistoryInv'
<1>1. PICK x : x = Frame("AssistantText", turn)
  OBVIOUS
<1>2. PICK F : F = Flushed
  OBVIOUS
<1>3. /\ UNCHANGED <<c2d, turn, made>> /\ phase = "streaming" /\ batch = <<>> /\ phase' = "idle"
      /\ stored' = Append(stored \o F, x) /\ FreshStream
  <2>1. stored' = stored \o F \o <<x>> /\ stored \in Seq(CallFrame \cup MusingFrame \cup ClosingFrame)
    BY <1>1, <1>2 DEF Complete, HistoryInv, StoredInv
  <2>2. F \in Seq(CallFrame \cup MusingFrame)
    BY <1>2, FlushedEvents DEF HistoryInv
  <2>3. stored \o F \o <<x>> = Append(stored \o F, x)
    BY <2>1, <2>2
  <2>. QED  BY <2>1, <2>3 DEF Complete
<1>4. EventsInv /\ StoredInv /\ RequestInv /\ turn # 0 /\ turn \in Nat
  BY <1>3 DEF HistoryInv, RequestInv, TypeInv
<1>5. x \in ClosingFrame /\ x.type = "AssistantText" /\ x.of = turn
  BY <1>1, <1>4 DEF Frame, ClosingFrame
<1>6. RequestInv' /\ EventsInv'
  BY <1>3, <1>4, RequestsKept, FreshEvents
<1>7. F \in Seq(CallFrame \cup MusingFrame) /\ Regular(F)
  BY <1>2, <1>4, FlushedEvents
<1>8. PICK S : S = CallFrame \cup MusingFrame \cup ClosingFrame
  OBVIOUS
<1>9. stored \in Seq(S) /\ F \in Seq(S) /\ x \in S
  BY <1>4, <1>5, <1>7, <1>8 DEF StoredInv
<1>10. AllAnswered(F)
  BY <1>3, <1>7 DEF Regular, AllAnswered, InSeq
<1>11. \A j \in 1 .. Len(F) :
         /\ F[j].type \in {"ToolCall", "ToolResult", "AssistantReasoning"}
         /\ F[j].type \in {"ToolCall", "ToolResult"} => made[F[j].of] = turn
  <2>1. \A j \in 1 .. Len(F) : F[j] \in CallFrame \cup MusingFrame
    BY <1>7
  <2>. QED  BY <1>7, <2>1 DEF Regular, CallFrame, MusingFrame
<1>12. \A i \in 1 .. Len(stored) :
         /\ stored[i].type \in {"ToolCall", "ToolResult"} => Ended(made[stored[i].of]) /\ made[stored[i].of] # turn
         /\ stored[i].type \in {"AssistantText", "Error"} => Ended(stored[i].of) /\ stored[i].of # turn
  BY <1>3, <1>4 DEF StoredInv, Ended
<1>13. \A i \in 1 .. Len(stored), j \in 1 .. Len(F) : stored[i] = F[j] => stored[i].type = "AssistantReasoning"
  BY <1>11, <1>12
<1>14. NoRepeats(stored \o F) /\ AllAnswered(stored \o F)
  <2>1. NoRepeats(stored) /\ NoRepeats(F) /\ AllAnswered(stored)
    BY <1>4, <1>7 DEF StoredInv, Regular
  <2>. QED  BY <1>9, <1>10, <1>13, <2>1, JoinedEvents
<1>15. PICK G : G = stored \o F
  OBVIOUS
<1>16. /\ G \in Seq(S) /\ Len(G) = Len(stored) + Len(F) /\ Len(stored) \in Nat /\ Len(F) \in Nat
       /\ \A i \in 1 .. Len(stored) : G[i] = stored[i]
       /\ \A i \in Len(stored) + 1 .. Len(G) : G[i] = F[i - Len(stored)]
  BY <1>9, <1>15, ConcatProperties
<1>17. \A i \in 1 .. Len(G) : \/ i \in 1 .. Len(stored) /\ G[i] = stored[i]
                              \/ i - Len(stored) \in 1 .. Len(F) /\ G[i] = F[i - Len(stored)]
  BY <1>16
<1>18. \A i \in 1 .. Len(G) :
         /\ G[i].type \in {"ToolCall", "ToolResult"} => Ended(made[G[i].of])'
         /\ G[i].type \in {"AssistantText", "Error"} => Ended(G[i].of)' /\ G[i].of # turn
  <2>. SUFFICES ASSUME NEW i \in 1 .. Len(G)
       PROVE  /\ G[i].type \in {"ToolCall", "ToolResult"} => Ended(made[G[i].of])'
              /\ G[i].type \in {"AssistantText", "Error"} => Ended(G[i].of)' /\ G[i].of # turn
    OBVIOUS
  <2>2. CASE i \in 1 .. Len(stored) /\ G[i] = stored[i]
    BY <1>3, <1>12, <2>2 DEF Ended
  <2>3. CASE i - Len(stored) \in 1 .. Len(F) /\ G[i] = F[i - Len(stored)]
    BY <1>3, <1>4, <1>11, <2>3 DEF Ended
  <2>. QED  BY <1>17, <2>2, <2>3
<1>19. \A i \in 1 .. Len(G) : G[i] # x
  BY <1>5, <1>18
<1>20. /\ NoRepeats(Append(G, x))
       /\ \A i \in 1 .. Len(G) : ResultFollows(G, i) => ResultFollows(Append(G, x), i)
  BY <1>9, <1>14, <1>15, <1>16, <1>19, AppendedEvents
<1>21. /\ Append(G, x) \in Seq(S)
       /\ Len(Append(G, x)) = Len(G) + 1 /\ Len(G) \in Nat
       /\ \A i \in 1 .. Len(G) : Append(G, x)[i] = G[i]
       /\ Append(G, x)[Len(G) + 1] = x
       /\ \A i \in 1 .. Len(Append(G, x)) : i \in 1 .. Len(G) \/ i = Len(G) + 1
  BY <1>9, <1>16
<1>22. stored' = Append(G, x)
  BY <1>3, <1>15
<1>23. AllAnswered(Append(G, x))
  BY <1>5, <1>14, <1>15, <1>20, <1>21 DEF AllAnswered
<1>24. \A i \in 1 .. Len(stored') :
         /\ stored'[i].type \in {"ToolCall", "ToolResult"} => Ended(made[stored[i].of])'
         /\ stored'[i].type \in {"AssistantText", "Error"} => Ended(stored[i].of)'
  BY <1>3, <1>4, <1>5, <1>18, <1>21, <1>22 DEF Ended
<1>25. StoredInv'
  BY <1>8, <1>20, <1>21, <1>22, <1>23, <1>24 DEF StoredInv, NoRepeats, AllAnswered, ResultFollows
<1>. QED  BY <1>6, <1>25 DEF HistoryInv

\* A run that fails leaves its error and none of its events.
LEMMA GiveUpHistory ==
    ASSUME TypeInv, HistoryInv, GiveUpRun, UNCHANGED prompts
    PROVE  HistoryInv'
<1>1. PICK x : x = Frame("Error", turn)
  OBVIOUS
<1>2. /\ UNCHANGED <<c2d, turn, made>> /\ phase = "streaming" /\ phase' = "idle"
      /\ stored' = Append(stored, x) /\ FreshStream
  BY <1>1 DEF GiveUpRun
<1>3. EventsInv /\ StoredInv /\ RequestInv /\ turn # 0 /\ turn \in Nat
  BY <1>2 DEF HistoryInv, RequestInv, TypeInv
<1>4. x \in ClosingFrame /\ x.type = "Error" /\ x.of = turn
  BY <1>1, <1>3 DEF Frame, ClosingFrame
<1>5. RequestInv' /\ EventsInv'
  BY <1>2, <1>3, RequestsKept, FreshEvents
<1>6. PICK S : S = CallFrame \cup MusingFrame \cup ClosingFrame
  OBVIOUS
<1>7. stored \in Seq(S) /\ x \in S
  BY <1>3, <1>4, <1>6 DEF StoredInv
<1>8. \A i \in 1 .. Len(stored) : stored[i] # x
  BY <1>2, <1>3, <1>4 DEF StoredInv, Ended
<1>9. /\ NoRepeats(Append(stored, x))
      /\ \A i \in 1 .. Len(stored) : ResultFollows(stored, i) => ResultFollows(Append(stored, x), i)
  BY <1>3, <1>7, <1>8, AppendedEvents DEF StoredInv
<1>10. /\ Append(stored, x) \in Seq(S)
       /\ Len(Append(stored, x)) = Len(stored) + 1 /\ Len(stored) \in Nat
       /\ \A i \in 1 .. Len(stored) : Append(stored, x)[i] = stored[i]
       /\ Append(stored, x)[Len(stored) + 1] = x
       /\ \A i \in 1 .. Len(Append(stored, x)) : i \in 1 .. Len(stored) \/ i = Len(stored) + 1
  BY <1>7
<1>11. AllAnswered(Append(stored, x))
  BY <1>3, <1>4, <1>9, <1>10 DEF AllAnswered, StoredInv
<1>12. \A i \in 1 .. Len(stored') :
         /\ stored'[i].type \in {"ToolCall", "ToolResult"} => Ended(made[stored[i].of])'
         /\ stored'[i].type \in {"AssistantText", "Error"} => Ended(stored[i].of)'
  BY <1>2, <1>3, <1>4, <1>10 DEF StoredInv, Ended
<1>13. StoredInv'
  BY <1>2, <1>6, <1>9, <1>10, <1>11, <1>12 DEF StoredInv, NoRepeats, AllAnswered, ResultFollows
<1>. QED  BY <1>5, <1>13 DEF HistoryInv

\* An attempt that fails or a run that is cancelled leaves nothing, and the next
\* attempt starts with nothing.
LEMMA DroppedHistory ==
    ASSUME TypeInv, HistoryInv, Retry \/ BackoffOver \/ HandleCancelRequest, UNCHANGED prompts
    PROVE  HistoryInv'
<1>1. EventsInv /\ StoredInv /\ RequestInv /\ turn \in Nat
  BY DEF HistoryInv, TypeInv
<1>2. CASE Retry
  <2>1. UNCHANGED <<c2d, turn, made, stored>> /\ phase = "streaming" /\ phase' = "backoff" /\ FreshStream
    BY <1>2 DEF Retry
  <2>. QED  BY <1>1, <2>1, RequestsKept, FreshEvents, StoredKept DEF HistoryInv
<1>3. CASE BackoffOver
  <2>1. /\ UNCHANGED <<c2d, turn, made, stored, events, batch, mused>> /\ phase = "backoff" /\ phase' = "streaming"
    BY <1>3 DEF BackoffOver
  <2>2. RequestInv' /\ StoredInv'
    BY <1>1, <2>1, RequestsKept, StoredKept
  <2>3. EventsInv'
    BY <1>1, <2>1 DEF EventsInv, Regular, NoRepeats, ResultFollows, InSeq
  <2>. QED  BY <2>2, <2>3 DEF HistoryInv
<1>4. CASE HandleCancelRequest
  <2>1. UNCHANGED <<turn, made, stored>> /\ phase' = "idle" /\ FreshStream /\ c2d # <<>> /\ c2d' = Tail(c2d)
    BY <1>4 DEF HandleCancelRequest, Receive
  <2>. QED  BY <1>1, <2>1, RequestsKept, FreshEvents, StoredKept DEF HistoryInv
<1>. QED  BY <1>2, <1>3, <1>4

\* The next prompt on its way is a later one than the runs so far.
LEMMA StartedHistory ==
    ASSUME TypeInv, HistoryInv, HandleAgentRequest, UNCHANGED prompts
    PROVE  HistoryInv'
<1>1. /\ UNCHANGED <<made, stored>> /\ phase = "idle" /\ phase' = "streaming" /\ turn' = Head(c2d).of /\ FreshStream
      /\ c2d # <<>> /\ c2d' = Tail(c2d) /\ Head(c2d).type = "AgentRequest"
  BY DEF HandleAgentRequest, Receive
<1>2. EventsInv /\ StoredInv /\ RequestInv /\ turn \in Nat /\ prompts \in Nat /\ c2d \in Seq(ClientFrame)
  BY DEF HistoryInv, TypeInv
<1>3. turn' \in Nat
  BY <1>1, <1>2, Received DEF Receive
<1>4. /\ Len(c2d) \in Nat \ {0} /\ Len(c2d') = Len(c2d) - 1 /\ Head(c2d) = c2d[1] /\ 1 \in 1 .. Len(c2d)
      /\ \A i \in 1 .. Len(c2d') : c2d'[i] = c2d[i + 1]
  BY <1>1, <1>2
<1>5. turn < turn' /\ turn' <= prompts
  BY <1>1, <1>2, <1>4 DEF RequestInv
<1>6. RequestInv'
  <2>1. \A i \in 1 .. Len(c2d') : i + 1 \in 1 .. Len(c2d) /\ 1 < i + 1
    BY <1>4
  <2>2. \A i, j \in 1 .. Len(c2d') : i < j => i + 1 < j + 1
    BY <1>4
  <2>3. \A i \in 1 .. Len(c2d') : c2d'[i].type = "AgentRequest" => turn' < c2d'[i].of /\ c2d'[i].of <= prompts
    BY <1>1, <1>2, <1>4, <2>1 DEF RequestInv
  <2>4. \A i, j \in 1 .. Len(c2d') : c2d'[i].type = "AgentRequest" /\ c2d'[j].type = "AgentRequest" /\ i < j =>
          c2d'[i].of < c2d'[j].of
    BY <1>2, <1>4, <2>1, <2>2 DEF RequestInv
  <2>. QED  BY <1>2, <1>3, <1>5, <2>3, <2>4 DEF RequestInv
<1>7. EventsInv'
  BY <1>1, <1>2, <1>3, <1>5, FreshEvents
<1>8. \A t \in Nat : Ended(t) => Ended(t)'
  BY <1>2, <1>3, <1>5 DEF Ended
<1>9. \A i \in 1 .. Len(stored) :
        /\ stored[i].type \in {"ToolCall", "ToolResult"} => made[stored[i].of] \in Nat
        /\ stored[i].type \in {"AssistantText", "Error"} => stored[i].of \in Nat
  <2>1. \A i \in 1 .. Len(stored) : stored[i] \in CallFrame \cup MusingFrame \cup ClosingFrame
    BY <1>2 DEF StoredInv
  <2>2. made \in [Calls -> Nat]
    BY <1>2 DEF EventsInv
  <2>. QED  BY <2>1, <2>2 DEF CallFrame, MusingFrame, ClosingFrame
<1>10. StoredInv'
  BY <1>1, <1>2, <1>8, <1>9 DEF StoredInv, AllAnswered, NoRepeats, ResultFollows
<1>. QED  BY <1>6, <1>7, <1>10 DEF HistoryInv

----------------------------------------------------------------------------
(* The history, in every state.                                            *)

\* The history is right at first.
LEMMA InitHistory == Init => HistoryInv
<1>. SUFFICES ASSUME Init PROVE HistoryInv
  OBVIOUS
<1>1. /\ c2d = <<>> /\ phase = "idle" /\ turn = 0 /\ batch = <<>> /\ mused = FALSE /\ prompts = 0
      /\ made = [c \in Calls |-> 0] /\ events = <<>> /\ stored = <<>>
  BY DEF Init, RunInit, ViewInit
<1>2. Len(<<>>) = 0 /\ \A S : <<>> \in Seq(S)
  OBVIOUS
<1>3. RequestInv
  BY <1>1, <1>2 DEF RequestInv
<1>4. Regular(events)
  BY <1>1, <1>2 DEF Regular, NoRepeats
<1>5. \A c \in Calls : made[c] <= turn
  <2>1. turn = 0 /\ made = [c \in Calls |-> 0]
    BY <1>1
  <2>2. \A c \in Calls : made[c] = 0
    BY <2>1
  <2>3. 0 <= 0
    OBVIOUS
  <2>. QED  BY <2>1, <2>2, <2>3, Zenon
<1>6. EventsInv
  <2>1. events \in Seq(CallFrame \cup MusingFrame) /\ batch \in Seq(Calls) /\ made \in [Calls -> Nat]
    BY <1>1
  <2>2. /\ \A i, j \in 1 .. Len(batch) : batch[i] = batch[j] => i = j
        /\ \A i \in 1 .. Len(batch) : made[batch[i]] = turn
    BY <1>1, <1>2
  <2>3. mused \in BOOLEAN /\ ~ mused /\ events = <<>> /\ batch = <<>> /\ phase = "idle"
    BY <1>1
  <2>. QED  BY <1>4, <1>5, <2>1, <2>2, <2>3 DEF EventsInv
<1>7. StoredInv
  <2>1. AllAnswered(stored) /\ NoRepeats(stored)
    BY <1>1, <1>2 DEF AllAnswered, NoRepeats
  <2>2. stored \in Seq(CallFrame \cup MusingFrame \cup ClosingFrame) /\ Len(stored) = 0
    BY <1>1, <1>2
  <2>. QED  BY <2>1, <2>2 DEF StoredInv
<1>. QED  BY <1>3, <1>6, <1>7 DEF HistoryInv

\* No step outside the stream touches the history.
LEMMA DaemonHistory ==
    ASSUME TypeInv, HistoryInv, DaemonStep
    PROVE  HistoryInv'
<1>1. RunNext /\ UNCHANGED prompts
  BY DEF DaemonStep, viewVars
<1>2. ASSUME UNCHANGED historyVars, UNCHANGED c2d \/ (c2d # <<>> /\ c2d' = Tail(c2d)) PROVE HistoryInv'
  <2>1. UNCHANGED <<turn, phase>>
    BY <1>2 DEF historyVars
  <2>. QED  BY <1>1, <1>2, <2>1, HistoryKept, RequestsKept DEF HistoryInv
<1>3. CASE StreamStep
  BY <1>1, <1>3, ChunkHistory, ToolCallHistory, CompleteHistory, DroppedHistory, GiveUpHistory DEF StreamStep
<1>4. CASE LoopStep
  <2>1. CASE HandleAgentRequest \/ HandleCancelRequest
    BY <1>1, <2>1, StartedHistory, DroppedHistory
  <2>2. CASE OnConfirmation \/ OnSetPermissionMode \/ Reloads
    BY <1>2, <2>2 DEF OnConfirmation, OnSetPermissionMode, Reloads, Receive, runVars, historyVars
  <2>. QED  BY <1>4, <2>1, <2>2 DEF LoopStep
<1>5. ASSUME NEW c \in Calls, ToolResult(c) PROVE HistoryInv'
  BY <1>1, <1>5, ToolResultHistory
<1>6. ASSUME NEW c \in Calls, Starts(c) \/ Gate(c) \/ Vanishes(c) PROVE HistoryInv'
  BY <1>2, <1>6 DEF Starts, Gate, Vanishes, runVars, historyVars
<1>. QED  BY <1>1, <1>3, <1>4, <1>5, <1>6 DEF RunNext

\* The client only adds a prompt to those on their way.
LEMMA ClientHistory ==
    ASSUME TypeInv, HistoryInv, HandleFrame \/ PromptKey \/ FreeKey
    PROVE  HistoryInv'
<1>1. UNCHANGED historyVars /\ UNCHANGED <<phase, turn>>
  BY DEF HandleFrame, PromptKey, FreeKey, runVars, historyVars
<1>2. EventsInv' /\ StoredInv'
  BY <1>1, HistoryKept DEF HistoryInv
<1>3. ASSUME UNCHANGED prompts, UNCHANGED c2d \/ \E f : c2d' = Append(c2d, f) /\ f.type # "AgentRequest" PROVE HistoryInv'
  <2>1. RequestInv'
    BY <1>1, <1>3, RequestsKept DEF HistoryInv
  <2>. QED  BY <1>2, <2>1 DEF HistoryInv
<1>4. CASE HandleFrame
  BY <1>3, <1>4 DEF HandleFrame, HandleText, HandleReasoning, HandleToolCallDelta, HandleToolCall, HandleToolResult,
    HandleAgentComplete, HandleError, HandleConfirmationRequest, HandleModeChanged, HandleOutcome, userVars
<1>5. CASE PromptKey
  <2>1. PICK k \in Kinds : SendConfirmation(k)
    BY <1>5, PromptAnswers DEF TypeInv
  <2>2. Frame("Confirmation", Answer(prompt, k)).type # "AgentRequest"
    BY DEF Frame
  <2>. QED  BY <1>3, <2>1, <2>2 DEF SendConfirmation
<1>6. CASE FreeKey /\ ~ Submit
  <2>1. \A x : Frame("CancelRequest", x).type # "AgentRequest" /\ Frame("SetPermissionMode", x).type # "AgentRequest"
    BY DEF Frame
  <2>. QED  BY <1>3, <1>6, <2>1 DEF FreeKey, PressEsc, CycleMode
<1>7. CASE Submit
  <2>1. PICK f : f = Frame("AgentRequest", prompts + 1)
    OBVIOUS
  <2>2. prompts' = prompts + 1 /\ c2d' = Append(c2d, f) /\ f.type = "AgentRequest" /\ f.of = prompts + 1
    BY <1>7, <2>1 DEF Submit, Frame
  <2>3. /\ Len(c2d) \in Nat /\ Len(c2d') = Len(c2d) + 1 /\ prompts \in Nat /\ turn \in Nat
        /\ \A i \in 1 .. Len(c2d) : c2d'[i] = c2d[i] /\ c2d[i] \in ClientFrame
        /\ c2d'[Len(c2d) + 1] = f
        /\ \A i \in 1 .. Len(c2d') : i \in 1 .. Len(c2d) \/ i = Len(c2d) + 1
    BY <2>2 DEF TypeInv
  <2>4. \A i \in 1 .. Len(c2d) : c2d[i].type = "AgentRequest" => c2d[i].of \in Nat
    BY <2>3 DEF ClientFrame
  <2>5. turn <= prompts /\ (phase # "idle" => turn # 0)
    BY DEF HistoryInv, RequestInv
  <2>6. \A i \in 1 .. Len(c2d') : c2d'[i].type = "AgentRequest" => turn < c2d'[i].of /\ c2d'[i].of <= prompts'
    <3>1. \A i \in 1 .. Len(c2d) : c2d[i].type = "AgentRequest" => turn < c2d[i].of /\ c2d[i].of <= prompts
      BY DEF HistoryInv, RequestInv
    <3>. QED  BY <2>2, <2>3, <2>4, <2>5, <3>1
  <2>7. ASSUME NEW i \in 1 .. Len(c2d'), NEW j \in 1 .. Len(c2d'), i < j,
               c2d'[i].type = "AgentRequest", c2d'[j].type = "AgentRequest"
        PROVE  c2d'[i].of < c2d'[j].of
    <3>1. CASE j = Len(c2d) + 1
      <4>1. i \in 1 .. Len(c2d) /\ c2d'[i] = c2d[i]
        BY <2>3, <2>7, <3>1
      <4>2. c2d[i].of <= prompts
        BY <2>7, <4>1 DEF HistoryInv, RequestInv
      <4>. QED  BY <2>2, <2>3, <2>4, <2>7, <3>1, <4>1, <4>2
    <3>2. CASE j \in 1 .. Len(c2d)
      <4>1. i \in 1 .. Len(c2d)
        BY <2>3, <2>7, <3>2
      <4>. QED  BY <2>3, <2>7, <3>2, <4>1 DEF HistoryInv, RequestInv
    <3>. QED  BY <2>3, <3>1, <3>2
  <2>8. RequestInv'
    BY <1>1, <2>2, <2>3, <2>5, <2>6, <2>7 DEF RequestInv
  <2>. QED  BY <1>2, <2>8 DEF HistoryInv
<1>. QED  BY <1>4, <1>5, <1>6, <1>7 DEF FreeKey

\* Every step keeps the history right.
LEMMA StepHistory == ApprovalInv /\ HistoryInv /\ [Next]_vars => HistoryInv'
<1>. SUFFICES ASSUME ApprovalInv, HistoryInv, [Next]_vars PROVE HistoryInv'
  OBVIOUS
<1>1. TypeInv
  BY DEF ApprovalInv
<1>2. CASE UNCHANGED vars
  <2>1. UNCHANGED historyVars /\ UNCHANGED <<phase, turn, prompts, c2d>>
    BY <1>2 DEF vars, runVars, viewVars, historyVars
  <2>. QED  BY <1>1, <2>1, HistoryKept, RequestsKept DEF HistoryInv
<1>. QED  BY <1>1, <1>2, DaemonHistory, ClientHistory DEF Next

\* The history is right in every state.
LEMMA History == ToolSpec => []HistoryInv
BY InitHistory, StepHistory, Approval, PTL DEF ToolSpec

\* What runs leave in the store can be sent to a provider again: each call is
\* followed by its one result, whatever was retried, cancelled or given up in
\* between (streaming.rs, spawn_agent_task).
THEOREM StoredHistoryComplete == ToolSpec => []StoredCallsHaveResults
<1>1. HistoryInv => StoredCallsHaveResults
  <2>. SUFFICES ASSUME HistoryInv PROVE StoredCallsHaveResults
    OBVIOUS
  <2>1. stored \in Seq(CallFrame \cup MusingFrame \cup ClosingFrame) /\ AllAnswered(stored) /\ NoRepeats(stored)
    BY DEF HistoryInv, StoredInv
  <2>2. DOMAIN stored = 1 .. Len(stored)
    BY <2>1
  <2>. QED  BY <2>1, <2>2 DEF StoredCallsHaveResults, AllAnswered, NoRepeats, ResultFollows
<1>. QED  BY History, <1>1, PTL

----------------------------------------------------------------------------
(* What steps do to the mode.                                              *)

NoNews(frames) == \A i \in 1 .. Len(frames) : frames[i].type # "PermissionModeChanged"

\* Frames that say nothing of the mode leave the agreement of both sides.
LEMMA SentAgreed ==
    ASSUME d2c \in Seq(DaemonFrame), NEW frames \in Seq(DaemonFrame), NoNews(frames),
           Send(frames) \/ TrySend(frames), UNCHANGED <<mode, shown>>, Agreed
    PROVE  Agreed'
<1>1. CASE d2c' = d2c
  BY <1>1 DEF Agreed, Told
<1>2. CASE d2c' = d2c \o frames
  <2>1. /\ Len(d2c') = Len(d2c) + Len(frames) /\ Len(d2c) \in Nat /\ Len(frames) \in Nat
        /\ \A i \in 1 .. Len(d2c) : d2c'[i] = d2c[i]
        /\ \A i \in Len(d2c) + 1 .. Len(d2c') : d2c'[i] = frames[i - Len(d2c)]
    BY <1>2, ConcatProperties
  <2>2. \A i \in 1 .. Len(d2c') : d2c'[i].type = "PermissionModeChanged" => i \in 1 .. Len(d2c) /\ d2c'[i] = d2c[i]
    BY <2>1 DEF NoNews
  <2>3. \A i \in 1 .. Len(d2c) : i \in 1 .. Len(d2c') /\ d2c'[i] = d2c[i]
    BY <2>1
  <2>. QED  BY <2>2, <2>3 DEF Agreed, Told
<1>. QED  BY <1>1, <1>2 DEF Send, TrySend

\* The last news is the mode that was set.
LEMMA NewsAgreed ==
    ASSUME d2c \in Seq(DaemonFrame), NEW m \in Modes, Send(<<Frame("PermissionModeChanged", m)>>), mode' = m
    PROVE  Agreed'
<1>1. d2c' = Append(d2c, Frame("PermissionModeChanged", m))
  BY DEF Send
<1>2. /\ Len(d2c') = Len(d2c) + 1 /\ Len(d2c) \in Nat
      /\ d2c'[Len(d2c) + 1] = Frame("PermissionModeChanged", m)
  BY <1>1
<1>3. Len(d2c) + 1 \in 1 .. Len(d2c') /\ d2c'[Len(d2c) + 1].type = "PermissionModeChanged"
  BY <1>2 DEF Frame
<1>4. \A i \in 1 .. Len(d2c') : Len(d2c) + 1 <= i => i = Len(d2c) + 1
  BY <1>2
<1>5. d2c'[Len(d2c) + 1].of = mode'
  BY <1>2 DEF Frame
<1>6. \A i \in 1 .. Len(d2c') : (\A j \in 1 .. Len(d2c') : d2c'[j].type = "PermissionModeChanged" => j <= i) => d2c'[i].of = mode'
  BY <1>3, <1>4, <1>5
<1>7. ~ \A i \in 1 .. Len(d2c') : d2c'[i].type # "PermissionModeChanged"
  BY <1>3
<1>. QED  BY <1>6, <1>7 DEF Agreed, Told

\* The client shows the news it takes.
LEMMA FrameAgreed ==
    ASSUME d2c \in Seq(DaemonFrame), Agreed, d2c # <<>>, d2c' = Tail(d2c), mode' = mode,
           IF Head(d2c).type = "PermissionModeChanged" THEN shown' = Head(d2c).of ELSE shown' = shown
    PROVE  Agreed'
<1>1. /\ Len(d2c) \in Nat \ {0} /\ Len(d2c') = Len(d2c) - 1 /\ Head(d2c) = d2c[1] /\ 1 \in 1 .. Len(d2c)
      /\ \A i \in 1 .. Len(d2c') : d2c'[i] = d2c[i + 1] /\ i + 1 \in 1 .. Len(d2c)
      /\ \A i \in 1 .. Len(d2c) : i = 1 \/ (i - 1 \in 1 .. Len(d2c') /\ d2c'[i - 1] = d2c[i])
  OBVIOUS
<1>2. ASSUME NEW i \in 1 .. Len(d2c'), d2c'[i].type = "PermissionModeChanged",
             \A j \in 1 .. Len(d2c') : d2c'[j].type = "PermissionModeChanged" => j <= i
      PROVE  d2c'[i].of = mode'
  <2>1. i + 1 \in 1 .. Len(d2c) /\ d2c[i + 1] = d2c'[i]
    BY <1>1
  <2>2. ASSUME NEW j \in 1 .. Len(d2c), d2c[j].type = "PermissionModeChanged" PROVE j <= i + 1
    <3>1. CASE j = 1
      BY <1>1, <3>1
    <3>2. CASE j - 1 \in 1 .. Len(d2c') /\ d2c'[j - 1] = d2c[j]
      <4>1. j - 1 <= i
        BY <1>2, <2>2, <3>2
      <4>. QED  BY <1>1, <4>1
    <3>. QED  BY <1>1, <3>1, <3>2
  <2>. QED  BY <1>2, <2>1, <2>2 DEF Agreed, Told
<1>3. ASSUME \A i \in 1 .. Len(d2c') : d2c'[i].type # "PermissionModeChanged"
      PROVE  shown' = mode'
  <2>1. \A i \in 1 .. Len(d2c) : d2c[i].type = "PermissionModeChanged" => i = 1
    BY <1>1, <1>3
  <2>2. CASE d2c[1].type = "PermissionModeChanged"
    <3>1. \A j \in 1 .. Len(d2c) : Told(j) => j <= 1
      BY <1>1, <2>1 DEF Told
    <3>2. d2c[1].of = mode
      BY <1>1, <2>2, <3>1 DEF Agreed, Told
    <3>. QED  BY <1>1, <2>2, <3>2
  <2>3. CASE d2c[1].type # "PermissionModeChanged"
    <3>1. shown = mode
      BY <2>1, <2>3 DEF Agreed, Told
    <3>. QED  BY <1>1, <2>3, <3>1
  <2>. QED  BY <2>2, <2>3
<1>. QED  BY <1>2, <1>3 DEF Agreed, Told

\* The settings of the gate that the mode depends on.
modeVars == <<mode, reset>>

\* A request to set the mode is in none of the shorter and longer sequences.
LEMMA NoOtherSetting ==
    ASSUME c2d \in Seq(ClientFrame),
           \/ UNCHANGED c2d
           \/ c2d # <<>> /\ c2d' = Tail(c2d) /\ Head(c2d).type # "SetPermissionMode"
           \/ \E f : c2d' = Append(c2d, f) /\ f.type # "SetPermissionMode",
           \A i \in 1 .. Len(c2d') : c2d'[i].type # "SetPermissionMode"
    PROVE  \A i \in 1 .. Len(c2d) : c2d[i].type # "SetPermissionMode"
<1>1. CASE UNCHANGED c2d
  BY <1>1
<1>2. CASE c2d # <<>> /\ c2d' = Tail(c2d) /\ Head(c2d).type # "SetPermissionMode"
  <2>1. \A i \in 1 .. Len(c2d) : i = 1 \/ (i - 1 \in 1 .. Len(c2d') /\ c2d'[i - 1] = c2d[i])
    BY <1>2
  <2>2. Head(c2d) = c2d[1]
    BY <1>2
  <2>. QED  BY <1>2, <2>1, <2>2
<1>3. ASSUME NEW f, c2d' = Append(c2d, f) PROVE \A i \in 1 .. Len(c2d) : c2d[i].type # "SetPermissionMode"
  <2>1. \A i \in 1 .. Len(c2d) : i \in 1 .. Len(c2d') /\ c2d'[i] = c2d[i]
    BY <1>3
  <2>. QED  BY <2>1
<1>. QED  BY <1>1, <1>2, <1>3

\* Nothing about the mode changes, and what the client will show stays right.
LEMMA ModeKept ==
    ASSUME c2d \in Seq(ClientFrame), ModeInv, UNCHANGED modeVars, Agreed => Agreed',
           \/ UNCHANGED c2d
           \/ c2d # <<>> /\ c2d' = Tail(c2d) /\ Head(c2d).type # "SetPermissionMode"
           \/ \E f : c2d' = Append(c2d, f) /\ f.type # "SetPermissionMode"
    PROVE  ModeInv'
BY NoOtherSetting DEF ModeInv, modeVars

\* Of what the daemon sends only the answer to a setting is news of the mode.
LEMMA NoNewsFrames ==
    /\ \A type \in Numbered, x \in Nat : <<Frame(type, x)>> \in Seq(DaemonFrame) /\ NoNews(<<Frame(type, x)>>)
    /\ \A c \in Calls : LET frames == (IF StreamsArgs THEN <<Frame("ToolCallDelta", c)>> ELSE <<>>) \o <<Frame("ToolCall", c)>>
                        IN  frames \in Seq(DaemonFrame) /\ NoNews(frames)
    /\ \A c \in Calls : <<Frame("ConfirmationRequest", c)>> \in Seq(DaemonFrame) /\ NoNews(<<Frame("ConfirmationRequest", c)>>)
    /\ \A c \in Calls, b \in BOOLEAN : Outcome(c, b) \in Seq(DaemonFrame) /\ NoNews(Outcome(c, b))
<1>1. \A type \in Numbered, x \in Nat : <<Frame(type, x)>> \in Seq(DaemonFrame) /\ NoNews(<<Frame(type, x)>>)
  <2>1. \A type \in Numbered, x \in Nat : <<Frame(type, x)>> \in Seq(DaemonFrame)
    BY FramesTyped
  <2>. QED  BY <2>1 DEF NoNews, Frame, Numbered
<1>2. ASSUME NEW c \in Calls
      PROVE  LET frames == (IF StreamsArgs THEN <<Frame("ToolCallDelta", c)>> ELSE <<>>) \o <<Frame("ToolCall", c)>>
             IN  frames \in Seq(DaemonFrame) /\ NoNews(frames)
  <2>1. PICK f, g : f = Frame("ToolCallDelta", c) /\ g = Frame("ToolCall", c)
    OBVIOUS
  <2>2. f \in DaemonFrame /\ g \in DaemonFrame /\ f.type # "PermissionModeChanged" /\ g.type # "PermissionModeChanged"
    <3>1. f \in DaemonFrame /\ g \in DaemonFrame
      BY <2>1, FramesTyped, CallsAreNumbers DEF Numbered
    <3>. QED  BY <2>1, <3>1 DEF Frame
  <2>3. PICK h \in Seq(DaemonFrame) : h = (IF StreamsArgs THEN <<f>> ELSE <<>>) /\ NoNews(h)
    <3>1. <<f>> \in Seq(DaemonFrame) /\ <<>> \in Seq(DaemonFrame)
      BY <2>2
    <3>2. NoNews(<<f>>) /\ NoNews(<<>>)
      BY <2>2 DEF NoNews
    <3>. QED  BY <3>1, <3>2
  <2>4. <<g>> \in Seq(DaemonFrame) /\ Len(<<g>>) = 1 /\ <<g>>[1] = g
    BY <2>2
  <2>5. /\ h \o <<g>> \in Seq(DaemonFrame) /\ Len(h \o <<g>>) = Len(h) + 1 /\ Len(h) \in Nat
        /\ \A i \in 1 .. Len(h) : (h \o <<g>>)[i] = h[i]
        /\ (h \o <<g>>)[Len(h) + 1] = g
    BY <2>3, <2>4, ConcatProperties
  <2>6. \A i \in 1 .. Len(h \o <<g>>) : i \in 1 .. Len(h) \/ i = Len(h) + 1
    BY <2>5
  <2>7. NoNews(h \o <<g>>)
    BY <2>2, <2>3, <2>5, <2>6 DEF NoNews
  <2>. QED  BY <2>1, <2>3, <2>5, <2>7
<1>3. ASSUME NEW c \in Calls
      PROVE  <<Frame("ConfirmationRequest", c)>> \in Seq(DaemonFrame) /\ NoNews(<<Frame("ConfirmationRequest", c)>>)
  <2>1. Frame("ConfirmationRequest", c) \in DaemonFrame
    BY FramesTyped
  <2>. QED  BY <2>1 DEF NoNews, Frame
<1>4. ASSUME NEW c \in Calls, NEW b \in BOOLEAN PROVE Outcome(c, b) \in Seq(DaemonFrame) /\ NoNews(Outcome(c, b))
  BY FramesTyped DEF NoNews, Outcome
<1>. QED  BY <1>1, <1>2, <1>3, <1>4

\* The daemon's steps keep the mode known.
LEMMA DaemonMode ==
    ASSUME TypeInv, ModeInv, DaemonStep
    PROVE  ModeInv'
<1>1. RunNext /\ UNCHANGED shown
  BY DEF DaemonStep, viewVars
<1>2. d2c \in Seq(DaemonFrame) /\ c2d \in Seq(ClientFrame)
  BY DEF TypeInv
<1>3. ASSUME NEW frames \in Seq(DaemonFrame), NoNews(frames), Send(frames) \/ TrySend(frames) \/ UNCHANGED d2c, UNCHANGED mode
      PROVE  Agreed => Agreed'
  BY <1>1, <1>2, <1>3, SentAgreed DEF Agreed, Told
<1>4. ASSUME UNCHANGED d2c, UNCHANGED mode PROVE Agreed => Agreed'
  BY <1>1, <1>4 DEF Agreed, Told
<1>5. ASSUME StreamStep \/ HandleCancelRequest \/ HandleAgentRequest \/ \E c \in Calls : ToolResult(c)
      PROVE  ModeInv'
  <2>1. UNCHANGED modeVars
    BY <1>5 DEF StreamStep, Chunk, ToolCall, Complete, Retry, BackoffOver, GiveUpRun, HandleCancelRequest,
      HandleAgentRequest, ToolResult, gateVars, modeVars
  <2>2. UNCHANGED c2d \/ (c2d # <<>> /\ c2d' = Tail(c2d) /\ Head(c2d).type # "SetPermissionMode")
    BY <1>5 DEF StreamStep, Chunk, ToolCall, Complete, Retry, BackoffOver, GiveUpRun, HandleCancelRequest,
      HandleAgentRequest, ToolResult, Receive
  <2>3. \/ UNCHANGED d2c
        \/ \E type \in Numbered, x \in Nat : Send(<<Frame(type, x)>>)
        \/ \E c \in Calls : Send((IF StreamsArgs THEN <<Frame("ToolCallDelta", c)>> ELSE <<>>) \o <<Frame("ToolCall", c)>>)
    <3>1. CASE HandleCancelRequest
      BY <1>2, <3>1, Received DEF HandleCancelRequest, Numbered
    <3>2. CASE ~ HandleCancelRequest
      BY <1>5, <3>2, CallsAreNumbers, RunAssumption
      DEF TypeInv, StreamStep, Chunk, ToolCall, Complete, Retry, BackoffOver, GiveUpRun, ToolResult, HandleAgentRequest, Numbered
    <3>. QED  BY <3>1, <3>2
  <2>4. Agreed => Agreed'
    <3>1. UNCHANGED mode
      BY <2>1 DEF modeVars
    <3>. QED  BY <1>3, <1>4, <2>3, <3>1, NoNewsFrames
  <2>. QED  BY <1>2, <2>1, <2>2, <2>4, ModeKept
<1>6. CASE OnConfirmation
  <2>1. /\ c2d # <<>> /\ c2d' = Tail(c2d) /\ Head(c2d).type = "Confirmation"
        /\ UNCHANGED <<d2c, mode, reset>>
    BY <1>6 DEF OnConfirmation, Receive, HandleConfirmation
  <2>2. Agreed => Agreed'
    BY <1>4, <2>1
  <2>. QED  BY <1>2, <2>1, <2>2, ModeKept DEF modeVars
<1>7. CASE OnSetPermissionMode
  <2>1. /\ Send(<<Frame("PermissionModeChanged", Head(c2d).of)>>) /\ mode' = Head(c2d).of /\ reset' = FALSE
    BY <1>7 DEF OnSetPermissionMode, HandleSetPermissionMode
  <2>2. Head(c2d).of \in Modes
    BY <1>2, <1>7, Received DEF OnSetPermissionMode
  <2>3. Agreed'
    BY <1>2, <2>1, <2>2, NewsAgreed
  <2>. QED  BY <2>1, <2>3 DEF ModeInv
<1>8. CASE Reloads
  BY <1>8, <1>4 DEF Reloads, Reload, ReloadRules, ResetMode, ModeInv
<1>9. ASSUME NEW c \in Calls, Starts(c) \/ Gate(c) \/ Vanishes(c) PROVE ModeInv'
  <2>1. UNCHANGED <<mode, reset>> /\ UNCHANGED c2d
    BY <1>9 DEF Starts, Enter, Gate, Evaluated, NotEvaluated, Ask, Answered, TimeOut, GiveUp, Execute, Vanishes, Drop
  <2>2. \/ UNCHANGED d2c
        \/ Send(<<Frame("ConfirmationRequest", c)>>)
        \/ \E b \in BOOLEAN : TrySend(Outcome(c, b))
    BY <1>9 DEF Starts, Gate, Vanishes
  <2>3. Agreed => Agreed'
    BY <1>3, <1>4, <2>1, <2>2, NoNewsFrames
  <2>. QED  BY <1>2, <2>1, <2>3, ModeKept DEF modeVars
<1>. QED  BY <1>1, <1>5, <1>6, <1>7, <1>8, <1>9 DEF RunNext, LoopStep

\* So do the client's, whose keys and frames change what it shows.
LEMMA ClientMode ==
    ASSUME TypeInv, ModeInv, HandleFrame \/ PromptKey \/ FreeKey
    PROVE  ModeInv'
<1>1. UNCHANGED modeVars /\ UNCHANGED <<mode, reset>>
  BY DEF HandleFrame, PromptKey, FreeKey, gateVars, modeVars
<1>2. d2c \in Seq(DaemonFrame) /\ c2d \in Seq(ClientFrame)
  BY DEF TypeInv
<1>3. CASE HandleFrame
  <2>1. d2c # <<>> /\ d2c' = Tail(d2c) /\ UNCHANGED c2d
    BY <1>3 DEF HandleFrame, HandleText, HandleReasoning, HandleToolCallDelta, HandleToolCall, HandleToolResult,
      HandleAgentComplete, HandleError, HandleConfirmationRequest, HandleModeChanged, HandleOutcome, Deliver
  <2>2. IF Head(d2c).type = "PermissionModeChanged" THEN shown' = Head(d2c).of ELSE shown' = shown
    BY <1>3 DEF HandleFrame, HandleText, HandleReasoning, HandleToolCallDelta, HandleToolCall, HandleToolResult,
      HandleAgentComplete, HandleError, HandleConfirmationRequest, HandleModeChanged, HandleOutcome, Deliver, userVars
  <2>3. Agreed => Agreed'
    BY <1>1, <1>2, <2>1, <2>2, FrameAgreed
  <2>. QED  BY <1>1, <1>2, <2>1, <2>3, ModeKept
<1>4. ASSUME UNCHANGED <<d2c, shown>> PROVE Agreed => Agreed'
  BY <1>1, <1>4 DEF Agreed, Told
<1>5. CASE PromptKey
  <2>1. PICK k \in Kinds : SendConfirmation(k)
    BY <1>5, PromptAnswers DEF TypeInv
  <2>2. Frame("Confirmation", Answer(prompt, k)).type # "SetPermissionMode"
    BY DEF Frame
  <2>3. UNCHANGED <<d2c, shown>> /\ c2d' = Append(c2d, Frame("Confirmation", Answer(prompt, k)))
    BY <1>5, <2>1 DEF PromptKey, SendConfirmation
  <2>. QED  BY <1>1, <1>2, <1>4, <2>2, <2>3, ModeKept
<1>6. CASE FreeKey /\ ~ CycleMode
  <2>1. \A x : Frame("CancelRequest", x).type # "SetPermissionMode" /\ Frame("AgentRequest", x).type # "SetPermissionMode"
    BY DEF Frame
  <2>2. UNCHANGED <<d2c, shown>> /\ \E f : c2d' = Append(c2d, f) /\ f.type # "SetPermissionMode"
    BY <1>6, <2>1 DEF FreeKey, PressEsc, Submit
  <2>. QED  BY <1>1, <1>2, <1>4, <2>2, ModeKept
<1>7. CASE CycleMode
  <2>1. /\ Len(c2d') = Len(c2d) + 1 /\ Len(c2d) \in Nat
        /\ c2d'[Len(c2d) + 1] = Frame("SetPermissionMode", NextMode[shown])
    BY <1>2, <1>7 DEF CycleMode
  <2>2. Len(c2d) + 1 \in 1 .. Len(c2d') /\ c2d'[Len(c2d) + 1].type = "SetPermissionMode"
    BY <2>1 DEF Frame
  <2>. QED  BY <1>1, <2>2 DEF ModeInv
<1>. QED  BY <1>3, <1>5, <1>6, <1>7

\* Every step keeps the mode known.
LEMMA StepMode == ApprovalInv /\ ModeInv /\ [Next]_vars => ModeInv'
<1>. SUFFICES ASSUME ApprovalInv, ModeInv, [Next]_vars PROVE ModeInv'
  OBVIOUS
<1>1. TypeInv
  BY DEF ApprovalInv
<1>2. CASE UNCHANGED vars
  BY <1>2 DEF vars, gateVars, viewVars, ModeInv, Agreed, Told
<1>. QED  BY <1>1, <1>2, DaemonMode, ClientMode DEF Next

\* A session begins with the configured mode.
LEMMA InitMode == Init => ModeInv
BY DEF Init, GateInit, ModeInv

\* With nothing under way the daemon applies the mode that the client shows, or
\* the configured one if a change of config.toml has brought it back since the
\* user last chose one (handlers/permission.rs, daemon.rs, keys/input_keys.rs).
THEOREM OneMode == ToolSpec => []ModeShownOrConfigured
<1>1. Init => ModeInv
  BY InitMode
<1>2. ModeInv => ModeShownOrConfigured
  <2>1. Len(<<>>) = 0
    OBVIOUS
  <2>. QED  BY <2>1 DEF ModeInv, ModeShownOrConfigured, Quiet, Agreed
<1>. QED  BY Approval, StepMode, <1>1, <1>2, PTL DEF ToolSpec

----------------------------------------------------------------------------
(* The frames of calls on the wire.                                        *)

Longer == /\ Len(d2c) \in Nat /\ Len(d2c') \in Nat /\ Len(d2c) <= Len(d2c')
          /\ \A i \in 1 .. Len(d2c) : d2c'[i] = d2c[i]

\* Nothing of the type is added.
LEMMA CarriesSame ==
    ASSUME NEW type, NEW lo \in Nat, NEW hi \in Nat, Longer, Carries(type, lo, hi),
           \A i \in Len(d2c) + 1 .. Len(d2c') : d2c'[i].type # type
    PROVE  Carries(type, lo, hi)'
<1>1. \A i \in 1 .. Len(d2c') : d2c'[i].type = type => i \in 1 .. Len(d2c) /\ d2c'[i] = d2c[i]
  BY DEF Longer
<1>2. \A i \in 1 .. Len(d2c) : i \in 1 .. Len(d2c') /\ d2c'[i] = d2c[i]
  BY DEF Longer
<1>3. \A i \in 1 .. Len(d2c') : d2c'[i].type = type => d2c'[i].of \in lo + 1 .. hi
  BY <1>1 DEF Carries
<1>4. \A i, j \in 1 .. Len(d2c') : d2c'[i].type = type /\ d2c'[j].type = type /\ i < j => d2c'[i].of < d2c'[j].of
  BY <1>1 DEF Carries
<1>5. \A x \in lo + 1 .. hi : \E i \in 1 .. Len(d2c') : d2c'[i].type = type /\ d2c'[i].of = x
  BY <1>2 DEF Carries
<1>. QED  BY <1>3, <1>4, <1>5 DEF Carries

\* The next number is added at the end.
LEMMA CarriesNext ==
    ASSUME NEW type, NEW lo \in Nat, NEW hi \in Nat, lo <= hi, Longer, Carries(type, lo, hi), Len(d2c) < Len(d2c'),
           \A i \in Len(d2c) + 1 .. Len(d2c') - 1 : d2c'[i].type # type,
           d2c'[Len(d2c')].type = type, d2c'[Len(d2c')].of = hi + 1
    PROVE  Carries(type, lo, hi + 1)'
<1>1. \A i \in 1 .. Len(d2c') : d2c'[i].type = type =>
         (i \in 1 .. Len(d2c) /\ d2c'[i] = d2c[i]) \/ (i = Len(d2c') /\ d2c'[i].of = hi + 1 /\ i \notin 1 .. Len(d2c))
  BY DEF Longer
<1>2. \A i \in 1 .. Len(d2c) : i \in 1 .. Len(d2c') /\ d2c'[i] = d2c[i]
  BY DEF Longer
<1>3. \A i \in 1 .. Len(d2c') : d2c'[i].type = type => d2c'[i].of \in lo + 1 .. hi + 1
  BY <1>1 DEF Carries
<1>4. \A i \in 1 .. Len(d2c) : d2c[i].type = type => d2c[i].of \in lo + 1 .. hi
  BY DEF Carries
<1>5. ASSUME NEW i \in 1 .. Len(d2c'), NEW j \in 1 .. Len(d2c'), d2c'[i].type = type, d2c'[j].type = type, i < j
      PROVE  d2c'[i].of < d2c'[j].of
  <2>1. i \in 1 .. Len(d2c) /\ d2c'[i] = d2c[i]
    BY <1>1, <1>5 DEF Longer
  <2>2. CASE j \in 1 .. Len(d2c) /\ d2c'[j] = d2c[j]
    BY <1>5, <2>1, <2>2 DEF Carries
  <2>3. CASE d2c'[j].of = hi + 1
    BY <1>4, <1>5, <2>1, <2>3
  <2>. QED  BY <1>1, <1>5, <2>2, <2>3
<1>6. ASSUME NEW x \in lo + 1 .. hi + 1 PROVE \E i \in 1 .. Len(d2c') : d2c'[i].type = type /\ d2c'[i].of = x
  <2>1. CASE x \in lo + 1 .. hi
    BY <1>2, <2>1 DEF Carries
  <2>2. CASE x = hi + 1
    <3>1. Len(d2c') \in 1 .. Len(d2c')
      BY DEF Longer
    <3>. QED  BY <2>2, <3>1
  <2>. QED  BY <2>1, <2>2
<1>. QED  BY <1>3, <1>5, <1>6 DEF Carries

Shorter == /\ Len(d2c) \in Nat \ {0} /\ Len(d2c') = Len(d2c) - 1 /\ Head(d2c) = d2c[1] /\ 1 \in 1 .. Len(d2c)
           /\ \A i \in 1 .. Len(d2c') : d2c'[i] = d2c[i + 1] /\ i + 1 \in 1 .. Len(d2c) /\ i + 1 # 1
           /\ \A i \in 1 .. Len(d2c) : i = 1 \/ (i - 1 \in 1 .. Len(d2c') /\ d2c'[i - 1] = d2c[i])

\* The frame that is taken is of another type.
LEMMA CarriesRest ==
    ASSUME NEW type, NEW lo \in Nat, NEW hi \in Nat, Shorter, Carries(type, lo, hi), Head(d2c).type # type
    PROVE  Carries(type, lo, hi)'
<1>1. \A i \in 1 .. Len(d2c') : i + 1 \in 1 .. Len(d2c) /\ d2c'[i] = d2c[i + 1]
  BY DEF Shorter
<1>2. \A i \in 1 .. Len(d2c') : d2c'[i].type = type => d2c'[i].of \in lo + 1 .. hi
  BY <1>1 DEF Carries
<1>3. \A i, j \in 1 .. Len(d2c') : i < j => i + 1 < j + 1
  BY DEF Shorter
<1>4. ASSUME NEW i \in 1 .. Len(d2c'), NEW j \in 1 .. Len(d2c'), d2c'[i].type = type, d2c'[j].type = type, i < j
      PROVE  d2c'[i].of < d2c'[j].of
  <2>1. i + 1 < j + 1 /\ d2c[i + 1].type = type /\ d2c[j + 1].type = type
    BY <1>1, <1>3, <1>4
  <2>2. d2c[i + 1].of < d2c[j + 1].of
    BY <1>1, <2>1 DEF Carries
  <2>. QED  BY <1>1, <2>2
<1>5. ASSUME NEW x \in lo + 1 .. hi PROVE \E i \in 1 .. Len(d2c') : d2c'[i].type = type /\ d2c'[i].of = x
  <2>1. PICK i \in 1 .. Len(d2c) : d2c[i].type = type /\ d2c[i].of = x
    BY DEF Carries
  <2>2. i # 1
    BY <2>1 DEF Shorter
  <2>. QED  BY <2>1, <2>2 DEF Shorter
<1>. QED  BY <1>2, <1>4, <1>5 DEF Carries

\* The first number is taken.
LEMMA CarriesLess ==
    ASSUME NEW type, NEW lo \in Nat, NEW hi \in Nat, Shorter, Carries(type, lo, hi), Head(d2c).type = type
    PROVE  Head(d2c).of = lo + 1 /\ lo < hi /\ Carries(type, lo + 1, hi)'
<1>1. d2c[1].of \in lo + 1 .. hi
  BY DEF Carries, Shorter
<1>2. lo < hi /\ lo + 1 \in lo + 1 .. hi
  BY <1>1
<1>3. PICK i \in 1 .. Len(d2c) : d2c[i].type = type /\ d2c[i].of = lo + 1
  BY <1>2 DEF Carries
<1>4. i = 1
  <2>1. i # 1 => 1 < i
    BY DEF Shorter
  <2>2. 1 < i => d2c[1].of < lo + 1
    BY <1>3 DEF Carries, Shorter
  <2>. QED  BY <1>1, <2>1, <2>2
<1>5. \A j \in 1 .. Len(d2c') : d2c'[j].type = type => d2c'[j].of \in lo + 1 + 1 .. hi
  <2>. SUFFICES ASSUME NEW j \in 1 .. Len(d2c'), d2c'[j].type = type PROVE d2c'[j].of \in lo + 1 + 1 .. hi
    OBVIOUS
  <2>1. j + 1 \in 1 .. Len(d2c) /\ d2c[j + 1] = d2c'[j] /\ 1 < j + 1
    BY DEF Shorter
  <2>2. d2c[j + 1].of \in lo + 1 .. hi /\ d2c[1].of < d2c[j + 1].of
    BY <2>1 DEF Carries, Shorter
  <2>. QED  BY <1>3, <1>4, <2>1, <2>2
<1>6. \A j, l \in 1 .. Len(d2c') : j < l => j + 1 < l + 1
  BY DEF Shorter
<1>7. \A j, l \in 1 .. Len(d2c') : d2c'[j].type = type /\ d2c'[l].type = type /\ j < l => d2c'[j].of < d2c'[l].of
  BY <1>6 DEF Carries, Shorter
<1>8. \A x \in lo + 1 + 1 .. hi : \E j \in 1 .. Len(d2c') : d2c'[j].type = type /\ d2c'[j].of = x
  <2>. SUFFICES ASSUME NEW x \in lo + 1 + 1 .. hi PROVE \E j \in 1 .. Len(d2c') : d2c'[j].type = type /\ d2c'[j].of = x
    OBVIOUS
  <2>1. x \in lo + 1 .. hi /\ x # lo + 1
    OBVIOUS
  <2>2. PICK j \in 1 .. Len(d2c) : d2c[j].type = type /\ d2c[j].of = x
    BY <2>1 DEF Carries
  <2>3. j # 1
    BY <1>3, <1>4, <2>1, <2>2
  <2>. QED  BY <2>2, <2>3 DEF Shorter
<1>. QED  BY <1>2, <1>3, <1>4, <1>5, <1>7, <1>8 DEF Carries, Shorter

CallTypes == {"ToolCall", "ToolResult", "ToolCallDelta"}

\* Other frames change nothing.
LEMMA WiredSame ==
    ASSUME NEW a \in Nat, NEW k \in Nat, NEW b \in Nat, NEW n \in Nat, Wired(a, k, b, n), Longer,
           \A i \in Len(d2c) + 1 .. Len(d2c') : d2c'[i].type \notin CallTypes
    PROVE  Wired(a, k, b, n)'
<1>1. Carries("ToolCall", k, n)' /\ Carries("ToolResult", a, b)'
  BY CarriesSame DEF Wired, CallTypes
<1>2. \A i \in 1 .. Len(d2c') : d2c'[i].type \in CallTypes => i \in 1 .. Len(d2c) /\ d2c'[i] = d2c[i]
  BY DEF Longer
<1>3. \A i \in 1 .. Len(d2c) : i \in 1 .. Len(d2c') /\ d2c'[i] = d2c[i]
  BY DEF Longer
<1>4. \A i, j \in 1 .. Len(d2c') :
        d2c'[i].type = "ToolCall" /\ d2c'[j].type = "ToolResult" /\ d2c'[i].of = d2c'[j].of => i < j
  BY <1>2 DEF Wired, InTurn, CallTypes
<1>5. \A i \in 1 .. Len(d2c') : d2c'[i].type = "ToolCallDelta" =>
        \E j \in 1 .. Len(d2c') : i < j /\ d2c'[j].type = "ToolCall" /\ d2c'[j].of = d2c'[i].of
  BY <1>2, <1>3 DEF Wired, InTurn, CallTypes
<1>. QED  BY <1>1, <1>4, <1>5 DEF Wired, InTurn

\* The next call is sent, with or without its announcement.
LEMMA WiredCall ==
    ASSUME NEW a \in Nat, NEW k \in Nat, NEW b \in Nat, NEW n \in Nat, Wired(a, k, b, n), Longer, Len(d2c) < Len(d2c'),
           k <= n, b <= n,
           \A i \in Len(d2c) + 1 .. Len(d2c') - 1 : d2c'[i].type = "ToolCallDelta" /\ d2c'[i].of = n + 1,
           d2c'[Len(d2c')].type = "ToolCall", d2c'[Len(d2c')].of = n + 1
    PROVE  Wired(a, k, b, n + 1)'
<1>1. Carries("ToolCall", k, n + 1)' /\ Carries("ToolResult", a, b)'
  <2>1. \A i \in Len(d2c) + 1 .. Len(d2c') : i = Len(d2c') \/ i \in Len(d2c) + 1 .. Len(d2c') - 1
    BY DEF Longer
  <2>2. \A i \in Len(d2c) + 1 .. Len(d2c') : d2c'[i].type # "ToolResult"
    BY <2>1
  <2>. QED  BY <2>2, CarriesSame, CarriesNext DEF Wired
<1>2. \A i \in 1 .. Len(d2c') : \/ i \in 1 .. Len(d2c) /\ d2c'[i] = d2c[i]
                                \/ i = Len(d2c')
                                \/ i < Len(d2c') /\ i \in Len(d2c) + 1 .. Len(d2c') - 1
  BY DEF Longer
<1>3. \A i \in 1 .. Len(d2c) : i \in 1 .. Len(d2c') /\ d2c'[i] = d2c[i]
  BY DEF Longer
<1>4. ASSUME NEW i \in 1 .. Len(d2c'), NEW j \in 1 .. Len(d2c'), d2c'[i].type = "ToolCall",
             d2c'[j].type = "ToolResult", d2c'[i].of = d2c'[j].of
      PROVE  i < j
  <2>1. j \in 1 .. Len(d2c) /\ d2c'[j] = d2c[j]
    BY <1>2, <1>4
  <2>2. d2c[j].of \in a + 1 .. b
    BY <1>4, <2>1 DEF Wired, Carries
  <2>3. i # Len(d2c')
    BY <1>4, <2>1, <2>2
  <2>4. i \in 1 .. Len(d2c) /\ d2c'[i] = d2c[i]
    BY <1>2, <1>4, <2>3
  <2>. QED  BY <1>4, <2>1, <2>4 DEF Wired, InTurn
<1>5. ASSUME NEW i \in 1 .. Len(d2c'), d2c'[i].type = "ToolCallDelta"
      PROVE  \E j \in 1 .. Len(d2c') : i < j /\ d2c'[j].type = "ToolCall" /\ d2c'[j].of = d2c'[i].of
  <2>1. CASE i \in 1 .. Len(d2c) /\ d2c'[i] = d2c[i]
    <3>1. PICK j \in 1 .. Len(d2c) : i < j /\ d2c[j].type = "ToolCall" /\ d2c[j].of = d2c[i].of
      BY <1>5, <2>1 DEF Wired, InTurn
    <3>2. j \in 1 .. Len(d2c') /\ d2c'[j] = d2c[j]
      BY <1>3
    <3>. QED  BY <2>1, <3>1, <3>2
  <2>2. CASE i < Len(d2c') /\ i \in Len(d2c) + 1 .. Len(d2c') - 1
    <3>1. Len(d2c') \in 1 .. Len(d2c')
      BY DEF Longer
    <3>. QED  BY <2>2, <3>1
  <2>. QED  BY <1>2, <1>5, <2>1, <2>2
<1>. QED  BY <1>1, <1>4, <1>5 DEF Wired, InTurn

\* The next result is sent.
LEMMA WiredResult ==
    ASSUME NEW a \in Nat, NEW k \in Nat, NEW b \in Nat, NEW n \in Nat, Wired(a, k, b, n), Longer,
           Len(d2c') = Len(d2c) + 1, a <= b,
           d2c'[Len(d2c')].type = "ToolResult", d2c'[Len(d2c')].of = b + 1
    PROVE  Wired(a, k, b + 1, n)'
<1>1. \A i \in 1 .. Len(d2c') : \/ i \in 1 .. Len(d2c) /\ d2c'[i] = d2c[i]
                                \/ i = Len(d2c')
  BY DEF Longer
<1>2. \A i \in 1 .. Len(d2c) : i \in 1 .. Len(d2c') /\ d2c'[i] = d2c[i]
  BY DEF Longer
<1>3. Carries("ToolCall", k, n)' /\ Carries("ToolResult", a, b + 1)'
  <2>1. \A i \in Len(d2c) + 1 .. Len(d2c') : i = Len(d2c')
    BY DEF Longer
  <2>2. \A i \in Len(d2c) + 1 .. Len(d2c') - 1 : FALSE
    BY DEF Longer
  <2>. QED  BY <2>1, <2>2, CarriesSame, CarriesNext DEF Wired, Longer
<1>4. ASSUME NEW i \in 1 .. Len(d2c'), NEW j \in 1 .. Len(d2c'), d2c'[i].type = "ToolCall",
             d2c'[j].type = "ToolResult", d2c'[i].of = d2c'[j].of
      PROVE  i < j
  <2>1. i \in 1 .. Len(d2c) /\ d2c'[i] = d2c[i]
    BY <1>1, <1>4
  <2>2. CASE j = Len(d2c')
    BY <2>1, <2>2 DEF Longer
  <2>3. CASE j \in 1 .. Len(d2c) /\ d2c'[j] = d2c[j]
    BY <1>4, <2>1, <2>3 DEF Wired, InTurn
  <2>. QED  BY <1>1, <2>2, <2>3
<1>5. ASSUME NEW i \in 1 .. Len(d2c'), d2c'[i].type = "ToolCallDelta"
      PROVE  \E j \in 1 .. Len(d2c') : i < j /\ d2c'[j].type = "ToolCall" /\ d2c'[j].of = d2c'[i].of
  <2>1. i \in 1 .. Len(d2c) /\ d2c'[i] = d2c[i]
    BY <1>1, <1>5
  <2>. QED  BY <1>2, <1>5, <2>1 DEF Wired, InTurn
<1>. QED  BY <1>3, <1>4, <1>5 DEF Wired, InTurn

\* Whatever frame is taken, calls stay before their results.
LEMMA InTurnRest ==
    ASSUME Shorter, InTurn
    PROVE  InTurn'
<1>1. \A i \in 1 .. Len(d2c') : i + 1 \in 1 .. Len(d2c) /\ d2c'[i] = d2c[i + 1]
  BY DEF Shorter
<1>2. ASSUME NEW i \in 1 .. Len(d2c'), NEW j \in 1 .. Len(d2c'), d2c'[i].type = "ToolCall",
             d2c'[j].type = "ToolResult", d2c'[i].of = d2c'[j].of
      PROVE  i < j
  <2>1. i + 1 < j + 1
    BY <1>1, <1>2 DEF InTurn
  <2>. QED  BY <2>1 DEF Shorter
<1>3. ASSUME NEW i \in 1 .. Len(d2c'), d2c'[i].type = "ToolCallDelta"
      PROVE  \E j \in 1 .. Len(d2c') : i < j /\ d2c'[j].type = "ToolCall" /\ d2c'[j].of = d2c'[i].of
  <2>1. PICK j \in 1 .. Len(d2c) : i + 1 < j /\ d2c[j].type = "ToolCall" /\ d2c[j].of = d2c'[i].of
    BY <1>1, <1>3 DEF InTurn
  <2>2. j - 1 \in 1 .. Len(d2c') /\ d2c'[j - 1] = d2c[j] /\ i < j - 1
    BY <2>1 DEF Shorter
  <2>. QED  BY <2>1, <2>2
<1>. QED  BY <1>2, <1>3 DEF InTurn

\* What one frame that is handled takes from the wire.
LEMMA WiredRest ==
    ASSUME NEW a \in Nat, NEW k \in Nat, NEW b \in Nat, NEW n \in Nat, Wired(a, k, b, n), Shorter
    PROVE  /\ Head(d2c).type \notin {"ToolCall", "ToolResult"} => Wired(a, k, b, n)'
           /\ Head(d2c).type = "ToolCall" => Head(d2c).of = k + 1 /\ k < n /\ Wired(a, k + 1, b, n)'
           /\ Head(d2c).type = "ToolResult" => Head(d2c).of = a + 1 /\ a < b /\ Wired(a + 1, k, b, n)'
BY CarriesRest, CarriesLess, InTurnRest DEF Wired

\* A result that arrives was preceded by its call.
LEMMA ResultHasArgs ==
    ASSUME NEW a \in Nat, NEW k \in Nat, NEW b \in Nat, NEW n \in Nat, Wired(a, k, b, n), Shorter,
           Head(d2c).type = "ToolResult", a <= k, b <= n
    PROVE  a < k
<1>. SUFFICES ASSUME a = k PROVE FALSE
  OBVIOUS
<1>1. Head(d2c).of = a + 1 /\ a < b
  BY WiredRest
<1>2. a + 1 \in k + 1 .. n
  BY <1>1
<1>3. PICK i \in 1 .. Len(d2c) : d2c[i].type = "ToolCall" /\ d2c[i].of = a + 1
  BY <1>2 DEF Wired, Carries
<1>4. i < 1
  BY <1>1, <1>3 DEF Wired, InTurn, Shorter
<1>. QED  BY <1>4 DEF Shorter

----------------------------------------------------------------------------
(* Calls that are lost, and the blocks.                                    *)

\* A send leaves what is on the wire and puts its frames behind it.
LEMMA LongerBySend ==
    ASSUME d2c \in Seq(DaemonFrame), NEW frames \in Seq(DaemonFrame), Send(frames)
    PROVE  /\ Longer /\ Len(d2c') = Len(d2c) + Len(frames) /\ Len(frames) \in Nat
           /\ \A i \in Len(d2c) + 1 .. Len(d2c') : i - Len(d2c) \in 1 .. Len(frames) /\ d2c'[i] = frames[i - Len(d2c)]
<1>1. d2c' = d2c \o frames
  BY DEF Send
<1>2. /\ Len(d2c') = Len(d2c) + Len(frames) /\ Len(d2c) \in Nat /\ Len(frames) \in Nat
      /\ \A i \in 1 .. Len(d2c) : d2c'[i] = d2c[i]
      /\ \A i \in Len(d2c) + 1 .. Len(d2c') : d2c'[i] = frames[i - Len(d2c)]
  BY <1>1, ConcatProperties
<1>. QED  BY <1>2 DEF Longer

\* A wire that is left alone has no new frame.
LEMMA LongerByNothing == ASSUME d2c \in Seq(DaemonFrame), UNCHANGED d2c PROVE Longer /\ Len(d2c') = Len(d2c)
BY DEF Longer

\* A frame that is handled is the first on the wire.
LEMMA ShorterByDelivery == ASSUME d2c \in Seq(DaemonFrame), d2c # <<>>, d2c' = Tail(d2c) PROVE Shorter
BY DEF Shorter

Reported(c) == InSeq(d2c, Frame("ToolResult", c)) \/ \E i \in Tools : blocks[i].result = c

\* A lost call stays lost: its result is never reported.
LEMMA LostStays ==
    ASSUME \A c \in Calls : made[c] # 0 => made'[c] # 0,
           \A c \in Calls : made[c] # 0 /\ InSeq(batch', c) => InSeq(batch, c),
           \A c \in Calls : InSeq(d2c', Frame("ToolResult", c)) => Reported(c) \/ InSeq(batch, c),
           \A c \in Calls : (\E i \in Tools' : blocks'[i].result = c) => Reported(c),
           LostCalls' = {}
    PROVE  LostCalls = {}
<1>. SUFFICES ASSUME NEW c \in LostCalls PROVE c \in LostCalls'
  OBVIOUS
<1>1. c \in Calls /\ made[c] # 0 /\ ~ InSeq(batch, c) /\ ~ Reported(c)
  BY DEF LostCalls, Reported
<1>. QED  BY <1>1 DEF LostCalls

\* A frame on a wire that grew was there, unless it is one of the new.
LEMMA LongerReports ==
    ASSUME d2c \in Seq(DaemonFrame), d2c' \in Seq(DaemonFrame), Longer, NEW f, InSeq(d2c', f),
           \A i \in Len(d2c) + 1 .. Len(d2c') : d2c'[i] # f
    PROVE  InSeq(d2c, f)
<1>1. PICK i \in 1 .. Len(d2c') : d2c'[i] = f
  BY DEF InSeq
<1>2. i \in 1 .. Len(d2c) /\ d2c[i] = f
  BY <1>1 DEF Longer
<1>3. DOMAIN d2c = 1 .. Len(d2c)
  OBVIOUS
<1>. QED  BY <1>2, <1>3 DEF InSeq

\* A frame on the rest of the wire was there.
LEMMA ShorterReports ==
    ASSUME d2c \in Seq(DaemonFrame), d2c' \in Seq(DaemonFrame), Shorter, NEW f, InSeq(d2c', f)
    PROVE  InSeq(d2c, f)
<1>1. PICK i \in 1 .. Len(d2c') : d2c'[i] = f
  BY DEF InSeq
<1>2. i + 1 \in 1 .. Len(d2c) /\ d2c[i + 1] = f
  BY <1>1 DEF Shorter
<1>3. DOMAIN d2c = 1 .. Len(d2c)
  OBVIOUS
<1>. QED  BY <1>2, <1>3 DEF InSeq

SameTools == Tools' = Tools /\ \A i \in Tools : blocks'[i] = blocks[i]

\* The thinking block and the block of the reply are no results.
LEMMA ClosedBlocks ==
    ASSUME ViewTypes, NEW more \in Seq([type : {"Thinking"}] \cup [type : {"AiResponse"}, of : Nat]), blocks' = blocks \o more
    PROVE  blocks' \in Seq(Block) /\ SameTools
<1>1. blocks \in Seq(Block)
  BY DEF ViewTypes
<1>2. /\ Len(blocks') = Len(blocks) + Len(more) /\ Len(blocks) \in Nat /\ Len(more) \in Nat
      /\ \A i \in 1 .. Len(blocks) : blocks'[i] = blocks[i]
      /\ \A i \in Len(blocks) + 1 .. Len(blocks') : blocks'[i] = more[i - Len(blocks)]
  BY <1>1, ConcatProperties
<1>3. more \in Seq(Block)
  <2>1. \A i \in 1 .. Len(more) : more[i] \in Block
    BY DEF Block
  <2>. QED  BY <2>1
<1>4. blocks' \in Seq(Block)
  BY <1>1, <1>3, ConcatProperties
<1>5. DOMAIN blocks = 1 .. Len(blocks) /\ DOMAIN blocks' = 1 .. Len(blocks')
  BY <1>1, <1>4
<1>6. \A i \in Len(blocks) + 1 .. Len(blocks') : i - Len(blocks) \in 1 .. Len(more)
  BY <1>2
<1>7. \A i \in Len(blocks) + 1 .. Len(blocks') : blocks'[i].type # "Tool"
  <2>1. \A i \in 1 .. Len(more) : more[i].type # "Tool"
    <3>1. \A i \in 1 .. Len(more) : more[i] \in [type : {"Thinking"}] \cup [type : {"AiResponse"}, of : Nat]
      OBVIOUS
    <3>. QED  BY <3>1
  <2>. QED  BY <1>2, <1>6, <2>1
<1>8. \A i \in 1 .. Len(blocks') : i \in 1 .. Len(blocks) \/ i \in Len(blocks) + 1 .. Len(blocks')
  BY <1>2
<1>9. \A i \in 1 .. Len(blocks) : i \in 1 .. Len(blocks')
  BY <1>2
<1>10. \A i : i \in Tools' <=> i \in Tools
  BY <1>2, <1>5, <1>7, <1>8, <1>9 DEF Tools
<1>11. \A i \in Tools : blocks'[i] = blocks[i]
  BY <1>2, <1>5 DEF Tools
<1>. QED  BY <1>4, <1>10, <1>11 DEF SameTools

\* The blocks that close an open text or thought are no tools.
LEMMA ClosingTyped ==
    ASSUME ViewTypes
    PROVE  LET S == [type : {"Thinking"}] \cup [type : {"AiResponse"}, of : Nat]
           IN  Thought \in Seq(S) /\ Thought \o Reply \in Seq(S)
<1>1. PICK S : S = [type : {"Thinking"}] \cup [type : {"AiResponse"}, of : Nat]
  OBVIOUS
<1>2. [type |-> "Thinking"] \in S /\ [type |-> "AiResponse", of |-> open] \in S
  BY <1>1 DEF ViewTypes
<1>3. Thought \in Seq(S) /\ Reply \in Seq(S)
  BY <1>2 DEF Thought, Reply
<1>4. Thought \o Reply \in Seq(S)
  BY <1>3, ConcatProperties
<1>. QED  BY <1>1, <1>3, <1>4

\* However the blocks are closed, the results stay as they are.
LEMMA ClosedKeeps ==
    ASSUME ViewTypes, blocks' = blocks \/ blocks' = blocks \o Thought \/ blocks' = blocks \o Thought \o Reply
    PROVE  blocks' \in Seq(Block) /\ SameTools
<1>1. CASE blocks' = blocks
  BY <1>1 DEF SameTools, Tools, ViewTypes
<1>2. CASE blocks' = blocks \o Thought
  BY <1>2, ClosingTyped, ClosedBlocks
<1>3. CASE blocks' = blocks \o Thought \o Reply
  <2>1. PICK S : S = [type : {"Thinking"}] \cup [type : {"AiResponse"}, of : Nat]
    OBVIOUS
  <2>2. [type |-> "Thinking"] \in S /\ [type |-> "AiResponse", of |-> open] \in S
    BY <2>1 DEF ViewTypes
  <2>a. PICK T : T = S \cup Block
    OBVIOUS
  <2>c. [type |-> "Thinking"] \in T /\ [type |-> "AiResponse", of |-> open] \in T
    BY <2>2, <2>a
  <2>3. Thought \in Seq(T) /\ Reply \in Seq(T)
    BY <2>c DEF Thought, Reply
  <2>b. blocks \in Seq(T)
    <3>1. blocks \in Seq(Block) /\ Block \subseteq T
      BY <2>a DEF ViewTypes
    <3>2. \A i \in 1 .. Len(blocks) : blocks[i] \in T
      BY <3>1
    <3>. QED  BY <3>1, <3>2
  <2>4. blocks \o Thought \o Reply = blocks \o (Thought \o Reply)
    BY <2>3, <2>b, ConcatAssociative
  <2>. QED  BY <1>3, <2>4, ClosingTyped, ClosedBlocks
<1>. QED  BY <1>1, <1>2, <1>3

\* The number a frame carries.
LEMMA HeadNumbered ==
    ASSUME d2c \in Seq(DaemonFrame), d2c # <<>>
    PROVE  /\ Head(d2c).type \in Numbered \cup {"PermissionOutcome"} => Head(d2c).of \in Nat
           /\ Head(d2c).type = "ToolResult" => Head(d2c) = Frame("ToolResult", Head(d2c).of)
<1>1. Head(d2c) \in DaemonFrame
  OBVIOUS
<1>2. Head(d2c).type \in Numbered \cup {"PermissionOutcome"} => Head(d2c).of \in Nat
  BY <1>1, CallsAreNumbers DEF DaemonFrame, Numbered
<1>3. Head(d2c).type = "ToolResult" => Head(d2c) \in [type : Numbered, of : Nat]
  BY <1>1 DEF DaemonFrame
<1>. QED  BY <1>2, <1>3 DEF Frame

\* What closes or leaves the blocks, in a step of the client.
Closing == blocks' = blocks \/ blocks' = blocks \o Thought \/ blocks' = blocks \o Thought \o Reply

\* What the client shows keeps its types when it handles a frame.
LEMMA FrameTypes ==
    ASSUME TypeInv, ViewTypes, HandleFrame
    PROVE  ViewTypes'
<1>1. d2c \in Seq(DaemonFrame)
  BY DEF TypeInv
<1>2. queue \in Seq(Nat) /\ spinner \in BOOLEAN /\ open \in Nat /\ outcome.of \in Nat /\ blocks \in Seq(Block)
  BY DEF ViewTypes
<1>3. Closing => blocks' \in Seq(Block)
  BY ClosedKeeps DEF Closing
<1>4. CASE HandleText
  <2>1. open' \in Nat
    BY <1>1, <1>2, <1>4, HeadNumbered DEF HandleText, Deliver, Numbered
  <2>. QED  BY <1>2, <1>3, <1>4, <2>1 DEF HandleText, Closing, ViewTypes
<1>5. CASE HandleReasoning \/ HandleError \/ HandleConfirmationRequest \/ HandleModeChanged
  BY <1>2, <1>5 DEF HandleReasoning, HandleError, HandleConfirmationRequest, HandleModeChanged, ViewTypes
<1>6. CASE HandleToolCallDelta \/ HandleToolCall \/ HandleAgentComplete
  <2>1. open' \in Nat /\ Closing /\ outcome' = outcome /\ spinner' \in BOOLEAN
    <3>1. CloseBlocks => open' \in Nat /\ Closing
      BY DEF CloseBlocks, Closing
    <3>2. UNCHANGED <<open, blocks>> => open' \in Nat /\ Closing
      BY <1>2 DEF Closing
    <3>3. CASE HandleToolCallDelta
      <4>1. CloseBlocks \/ UNCHANGED <<open, blocks>>
        BY <3>3 DEF HandleToolCallDelta
      <4>2. outcome' = outcome /\ spinner' \in BOOLEAN
        BY <3>3 DEF HandleToolCallDelta
      <4>. QED  BY <3>1, <3>2, <4>1, <4>2
    <3>4. CASE HandleToolCall
      <4>1. CloseBlocks \/ UNCHANGED <<open, blocks>>
        BY <3>4 DEF HandleToolCall
      <4>2. outcome' = outcome /\ spinner' \in BOOLEAN
        BY <1>2, <3>4 DEF HandleToolCall
      <4>. QED  BY <3>1, <3>2, <4>1, <4>2
    <3>5. CASE HandleAgentComplete
      <4>1. CloseBlocks \/ (open' = open /\ blocks' = blocks \o Thought)
        BY <3>5 DEF HandleAgentComplete
      <4>2. outcome' = outcome /\ spinner' \in BOOLEAN
        BY <1>2, <3>5 DEF HandleAgentComplete
      <4>. QED  BY <1>2, <3>1, <4>1, <4>2 DEF Closing
    <3>. QED  BY <1>6, <3>3, <3>4, <3>5
  <2>2. queue' \in Seq(Nat)
    <3>1. CASE HandleToolCall
      <4>1. Head(d2c).of \in Nat
        BY <1>1, <3>1, HeadNumbered DEF HandleToolCall, Deliver, Numbered
      <4>. QED  BY <1>2, <3>1, <4>1 DEF HandleToolCall
    <3>2. CASE HandleToolCallDelta \/ HandleAgentComplete
      BY <1>2, <3>2 DEF HandleToolCallDelta, HandleAgentComplete
    <3>. QED  BY <1>6, <3>1, <3>2
  <2>. QED  BY <1>2, <1>3, <2>1, <2>2 DEF ViewTypes
<1>7. CASE HandleToolResult
  <2>1. Head(d2c).of \in Nat /\ UNCHANGED open
    BY <1>1, <1>7, HeadNumbered DEF HandleToolResult, Deliver, Numbered
  <2>a. PICK o : o = IF IsFor(outcome, Head(d2c).of) THEN outcome ELSE NoOutcome
    OBVIOUS
  <2>b. PICK x : x = IF queue = <<>> THEN NoCall ELSE Head(queue)
    OBVIOUS
  <2>2. blocks' = Append(blocks, [type |-> "Tool", result |-> Head(d2c).of, outcome |-> o.of, args |-> x])
    BY <1>7, <2>a, <2>b DEF HandleToolResult
  <2>3. o.of \in Nat /\ x \in Nat
    BY <1>2, <2>a, <2>b DEF NoCall, NoOutcome
  <2>4. blocks' \in Seq(Block)
    <3>1. [type |-> "Tool", result |-> Head(d2c).of, outcome |-> o.of, args |-> x] \in Block
      BY <2>1, <2>3 DEF Block
    <3>. QED  BY <1>2, <2>2, <3>1
  <2>5. outcome'.of \in Nat
    <3>1. outcome' = outcome \/ outcome' = NoOutcome
      BY <1>7 DEF HandleToolResult
    <3>. QED  BY <1>2, <3>1 DEF NoOutcome, NoCall
  <2>6. queue' \in Seq(Nat)
    <3>1. queue' = queue \/ (queue # <<>> /\ queue' = Tail(queue))
      BY <1>7 DEF HandleToolResult
    <3>2. \A t \in Seq(Nat) : t # <<>> => Tail(t) \in Seq(Nat)
      OBVIOUS
    <3>. QED  BY <1>2, <3>1, <3>2
  <2>7. spinner' \in BOOLEAN
    BY <1>7 DEF HandleToolResult
  <2>. QED  BY <1>2, <2>1, <2>4, <2>5, <2>6, <2>7 DEF ViewTypes
<1>8. CASE HandleOutcome
  <2>1. Head(d2c).of \in Nat
    BY <1>1, <1>8, HeadNumbered DEF HandleOutcome, Deliver
  <2>. QED  BY <1>2, <1>8, <2>1 DEF HandleOutcome, ViewTypes
<1>. QED  BY <1>4, <1>5, <1>6, <1>7, <1>8 DEF HandleFrame

\* What the client shows keeps its types.
LEMMA ViewTyped ==
    ASSUME TypeInv, ViewTypes, [Next]_vars
    PROVE  ViewTypes'
<1>1. CASE DaemonStep \/ UNCHANGED vars
  BY <1>1 DEF DaemonStep, vars, viewVars, ViewTypes
<1>2. CASE HandleFrame
  BY <1>2, FrameTypes
<1>3. CASE PromptKey
  <2>1. PICK k \in Kinds : SendConfirmation(k)
    BY <1>3, PromptAnswers DEF TypeInv
  <2>. QED  BY <2>1 DEF SendConfirmation, ViewTypes
<1>4. CASE FreeKey
  <2>1. UNCHANGED <<queue, spinner, outcome>> /\ (open' = open \/ open' = 0) /\ Closing
    BY <1>4 DEF FreeKey, Submit, PressEsc, CycleMode, CloseBlocks, Closing
  <2>. QED  BY <2>1, ClosedKeeps DEF Closing, ViewTypes
<1>. QED  BY <1>1, <1>2, <1>3, <1>4 DEF Next

----------------------------------------------------------------------------
(* What steps do to the pairing.                                           *)

\* Frames of other kinds come and go, and blocks that are no results.
LEMMA QuietPairing ==
    ASSUME TypeInv, TypeInv', Pairing, UNCHANGED <<made, batch, queue>>, SameTools,
           spinner' => spinner \/ (Shorter /\ Head(d2c).type = "ToolCallDelta"),
           \/ Longer /\ \A i \in Len(d2c) + 1 .. Len(d2c') : d2c'[i].type \notin CallTypes
           \/ Shorter /\ Head(d2c).type \notin {"ToolCall", "ToolResult"}
    PROVE  Pairing'
<1>. SUFFICES ASSUME LostCalls' = {} PROVE \E a, k, b, n \in 0 .. MaxCalls : Paired(a, k, b, n)'
  BY DEF Pairing
<1>1. d2c \in Seq(DaemonFrame) /\ d2c' \in Seq(DaemonFrame)
  BY DEF TypeInv
<1>2. \A c \in Calls : InSeq(d2c', Frame("ToolResult", c)) => InSeq(d2c, Frame("ToolResult", c))
  <2>1. \A c \in Calls : Frame("ToolResult", c).type \in CallTypes
    BY DEF Frame, CallTypes
  <2>2. CASE Longer /\ \A i \in Len(d2c) + 1 .. Len(d2c') : d2c'[i].type \notin CallTypes
    BY <1>1, <2>1, <2>2, LongerReports
  <2>3. CASE Shorter
    BY <1>1, <2>3, ShorterReports
  <2>. QED  BY <2>2, <2>3
<1>3. LostCalls = {}
  <2>1. \A c \in Calls : (\E i \in Tools' : blocks'[i].result = c) => Reported(c)
    BY DEF SameTools, Reported
  <2>. QED  BY <1>2, <2>1, LostStays DEF Reported
<1>4. PICK a \in 0 .. MaxCalls, k \in 0 .. MaxCalls, b \in 0 .. MaxCalls, n \in 0 .. MaxCalls : Paired(a, k, b, n)
  BY <1>3 DEF Pairing
<1>5. a \in Nat /\ k \in Nat /\ b \in Nat /\ n \in Nat
  OBVIOUS
<1>6. Wired(a, k, b, n)'
  <2>1. Wired(a, k, b, n)
    BY <1>4 DEF Paired
  <2>. QED  BY <1>5, <2>1, WiredSame, WiredRest
<1>7. spinner' => a < n
  <2>1. ASSUME Shorter, Head(d2c).type = "ToolCallDelta" PROVE a < n
    <3>1. PICK j \in 1 .. Len(d2c) : d2c[j].type = "ToolCall"
      BY <1>4, <2>1 DEF Paired, Wired, InTurn, Shorter
    <3>2. d2c[j].of \in k + 1 .. n
      BY <1>4, <3>1 DEF Paired, Wired, Carries
    <3>. QED  BY <1>4, <1>5, <3>2 DEF Paired
  <2>2. spinner => a < n
    BY <1>4 DEF Paired, Seen
  <2>. QED  BY <2>1, <2>2
<1>8. Seen(a, k, n)'
  BY <1>4, <1>7 DEF Paired, Seen, Counts, SameTools
<1>9. Paired(a, k, b, n)'
  BY <1>4, <1>6, <1>8 DEF Paired, Counts
<1>. QED  BY <1>9

\* A stream is dropped: if it has a call in it, that is lost.
LEMMA DroppedPairing ==
    ASSUME TypeInv, TypeInv', EventsInv, Pairing, UNCHANGED <<made, queue, spinner, blocks>>, batch' = <<>>,
           Longer, \A i \in Len(d2c) + 1 .. Len(d2c') : d2c'[i].type \notin CallTypes
    PROVE  Pairing'
<1>. SUFFICES ASSUME LostCalls' = {} PROVE Pairing'
  BY DEF Pairing
<1>1. d2c \in Seq(DaemonFrame) /\ d2c' \in Seq(DaemonFrame)
  BY DEF TypeInv
<1>2. \A c \in Calls : InSeq(d2c', Frame("ToolResult", c)) => InSeq(d2c, Frame("ToolResult", c))
  <2>1. \A c \in Calls : Frame("ToolResult", c).type \in CallTypes
    BY DEF Frame, CallTypes
  <2>. QED  BY <1>1, <2>1, LongerReports
<1>3. \A c : ~ InSeq(batch', c)
  BY DEF InSeq
<1>4. Tools' = Tools
  BY DEF Tools
<1>5. LostCalls = {}
  BY <1>2, <1>3, <1>4, LostStays DEF Reported
<1>6. PICK a \in 0 .. MaxCalls, k \in 0 .. MaxCalls, b \in 0 .. MaxCalls, n \in 0 .. MaxCalls : Paired(a, k, b, n)
  BY <1>5 DEF Pairing
<1>7. a \in Nat /\ k \in Nat /\ b \in Nat /\ n \in Nat /\ a <= b /\ b <= n /\ n <= MaxCalls /\ MaxCalls \in Nat
  BY <1>6, RunAssumption DEF Paired
<1>8. b = n
  <2>. SUFFICES ASSUME b < n PROVE FALSE
    BY <1>7
  <2>1. b + 1 \in Calls /\ made'[b + 1] # 0
    BY <1>6, <1>7, RunAssumption DEF Paired
  <2>2. ~ InSeq(d2c, Frame("ToolResult", b + 1))
    <3>. SUFFICES ASSUME NEW i \in 1 .. Len(d2c), d2c[i] = Frame("ToolResult", b + 1) PROVE FALSE
      BY <1>1 DEF InSeq
    <3>1. d2c[i].type = "ToolResult" /\ d2c[i].of = b + 1
      BY DEF Frame
    <3>2. d2c[i].of \in a + 1 .. b
      BY <1>6, <3>1 DEF Paired, Wired, Carries
    <3>. QED  BY <1>7, <3>1, <3>2
  <2>3. \A i \in Tools : blocks[i].result # b + 1
    BY <1>6, <1>7 DEF Paired, Seen
  <2>4. b + 1 \in LostCalls'
    BY <1>2, <1>3, <1>4, <2>1, <2>2, <2>3 DEF LostCalls
  <2>. QED  BY <2>4
<1>9. batch = <<>>
  BY <1>6, <1>7, <1>8 DEF Paired, Counts, EventsInv
<1>10. batch' = batch /\ SameTools
  BY <1>9, <1>4 DEF SameTools
<1>. QED  BY <1>10, QuietPairing

\* The next call is made and announced.
LEMMA CallPairing ==
    ASSUME TypeInv, TypeInv', HistoryInv, Pairing, NEW c \in Calls, ToolCall(c), UNCHANGED viewVars
    PROVE  Pairing'
<1>. SUFFICES ASSUME LostCalls' = {} PROVE \E a, k, b, n \in 0 .. MaxCalls : Paired(a, k, b, n)'
  BY DEF Pairing
<1>0. UNCHANGED <<queue, spinner, blocks>> /\ Tools' = Tools
  BY DEF viewVars, Tools
<1>1. d2c \in Seq(DaemonFrame) /\ d2c' \in Seq(DaemonFrame)
  BY DEF TypeInv
<1>2. /\ phase = "streaming" /\ made[c] = 0 /\ \A d \in Calls : d < c => made[d] # 0
      /\ made' = [made EXCEPT ![c] = turn] /\ batch' = Append(batch, c)
  BY DEF ToolCall
<1>3. made \in [Calls -> Nat] /\ batch \in Seq(Calls) /\ turn # 0
  BY <1>2 DEF HistoryInv, EventsInv, RequestInv
<1>4. PICK f, g : f = Frame("ToolCallDelta", c) /\ g = Frame("ToolCall", c)
  OBVIOUS
<1>5. f.type = "ToolCallDelta" /\ g.type = "ToolCall" /\ f.of = c /\ g.of = c
  BY <1>4 DEF Frame
<1>6. PICK h : h = (IF StreamsArgs THEN <<f>> ELSE <<>>)
  OBVIOUS
<1>7. f \in DaemonFrame /\ g \in DaemonFrame
  BY <1>4, FramesTyped, CallsAreNumbers DEF Numbered
<1>8. /\ h \in Seq(DaemonFrame) /\ Len(h) \in Nat /\ <<g>> \in Seq(DaemonFrame) /\ Len(<<g>>) = 1 /\ <<g>>[1] = g
      /\ \A i \in 1 .. Len(h) : h[i] = f
  BY <1>6, <1>7
<1>9. /\ h \o <<g>> \in Seq(DaemonFrame) /\ Len(h \o <<g>>) = Len(h) + 1
      /\ \A i \in 1 .. Len(h) : (h \o <<g>>)[i] = f
      /\ (h \o <<g>>)[Len(h) + 1] = g
  BY <1>8, ConcatProperties
<1>10. PICK frames : frames = h \o <<g>>
  OBVIOUS
<1>11. Send(frames)
  BY <1>4, <1>6, <1>10 DEF ToolCall
<1>12. /\ Longer /\ Len(d2c') = Len(d2c) + Len(h) + 1 /\ Len(d2c) < Len(d2c')
       /\ \A i \in Len(d2c) + 1 .. Len(d2c') : i - Len(d2c) \in 1 .. Len(frames) /\ d2c'[i] = frames[i - Len(d2c)]
  <2>1. frames \in Seq(DaemonFrame) /\ Len(frames) = Len(h) + 1
    BY <1>9, <1>10
  <2>2. Longer /\ Len(d2c') = Len(d2c) + (Len(h) + 1)
    BY <1>1, <1>11, <2>1, LongerBySend
  <2>3. Len(d2c) \in Nat /\ Len(h) \in Nat
    BY <1>1, <1>8
  <2>. QED  BY <1>1, <1>11, <2>1, <2>2, <2>3, LongerBySend
<1>13. /\ \A i \in Len(d2c) + 1 .. Len(d2c') - 1 : d2c'[i] = f
       /\ d2c'[Len(d2c')] = g
  <2>1. Len(d2c) \in Nat /\ Len(h) \in Nat /\ Len(frames) = Len(h) + 1
    BY <1>1, <1>8, <1>9, <1>10
  <2>2. \A i \in Len(d2c) + 1 .. Len(d2c') - 1 : i \in Len(d2c) + 1 .. Len(d2c') /\ i - Len(d2c) \in 1 .. Len(h)
    BY <1>12, <2>1
  <2>3. Len(d2c') \in Len(d2c) + 1 .. Len(d2c') /\ Len(d2c') - Len(d2c) = Len(h) + 1
    BY <1>12, <2>1
  <2>4. \A i \in Len(d2c) + 1 .. Len(d2c') - 1 : d2c'[i] = f
    BY <1>9, <1>10, <1>12, <2>2
  <2>. QED  BY <1>9, <1>10, <1>12, <2>3, <2>4
<1>14. LostCalls = {}
  <2>1. \A d \in Calls : made[d] # 0 => made'[d] # 0
    BY <1>2, <1>3
  <2>2. \A d \in Calls : made[d] # 0 /\ InSeq(batch', d) => InSeq(batch, d)
    BY <1>2, <1>3, InAppended
  <2>3. \A d \in Calls : Frame("ToolResult", d).type # "ToolCallDelta" /\ Frame("ToolResult", d).type # "ToolCall"
    BY DEF Frame
  <2>4. \A d \in Calls, i \in Len(d2c) + 1 .. Len(d2c') : d2c'[i] # Frame("ToolResult", d)
    <3>1. \A i \in Len(d2c) + 1 .. Len(d2c') : i \in Len(d2c) + 1 .. Len(d2c') - 1 \/ i = Len(d2c')
      BY <1>12 DEF Longer
    <3>. QED  BY <1>5, <1>13, <2>3, <3>1
  <2>5. \A d \in Calls : InSeq(d2c', Frame("ToolResult", d)) => Reported(d)
    BY <1>1, <1>12, <2>4, LongerReports DEF Reported
  <2>. QED  BY <1>0, <2>1, <2>2, <2>5, LostStays DEF Reported
<1>15. PICK a \in 0 .. MaxCalls, k \in 0 .. MaxCalls, b \in 0 .. MaxCalls, n \in 0 .. MaxCalls : Paired(a, k, b, n)
  BY <1>14 DEF Pairing
<1>16. a \in Nat /\ k \in Nat /\ b \in Nat /\ n \in Nat /\ a <= k /\ k <= n /\ a <= b /\ b <= n /\ MaxCalls \in Nat
  BY <1>15, RunAssumption DEF Paired
<1>17. c = n + 1 /\ n + 1 \in 0 .. MaxCalls
  <2>1. c \in Nat /\ c <= MaxCalls /\ n < c
    BY <1>2, <1>15, <1>16, RunAssumption DEF Paired
  <2>2. n + 1 < c => n + 1 \in Calls
    BY <1>16, <2>1, RunAssumption
  <2>3. ~ (n + 1 < c)
    BY <1>2, <1>15, <1>16, <2>2 DEF Paired
  <2>. QED  BY <1>16, <2>1, <2>3
<1>18. Wired(a, k, b, n + 1)'
  <2>1. Wired(a, k, b, n)
    BY <1>15 DEF Paired
  <2>. QED  BY <1>5, <1>12, <1>13, <1>16, <1>17, <2>1, WiredCall
<1>19. \A d \in Calls : made'[d] # 0 <=> d <= n + 1
  <2>1. \A d \in Calls : d \in Nat
    BY RunAssumption
  <2>2. \A d \in Calls : made[d] # 0 <=> d <= n
    BY <1>15 DEF Paired
  <2>3. made'[c] # 0 /\ \A d \in Calls : d # c => made'[d] = made[d]
    BY <1>2, <1>3
  <2>. QED  BY <1>16, <1>17, <2>1, <2>2, <2>3
<1>20. Counts(batch, b, n + 1)'
  <2>1. /\ Len(batch') = Len(batch) + 1 /\ Len(batch) \in Nat
        /\ \A i \in 1 .. Len(batch) : batch'[i] = batch[i]
        /\ batch'[Len(batch) + 1] = c
    BY <1>2, <1>3
  <2>2. Len(batch) = n - b /\ \A i \in 1 .. Len(batch) : batch[i] = b + i
    BY <1>15 DEF Paired, Counts
  <2>3. \A i \in 1 .. Len(batch') : i \in 1 .. Len(batch) \/ i = Len(batch) + 1
    BY <2>1
  <2>4. c = b + (Len(batch) + 1)
    BY <1>16, <1>17, <2>2
  <2>. QED  BY <1>16, <2>1, <2>2, <2>3, <2>4 DEF Counts
<1>21. Seen(a, k, n + 1)'
  BY <1>0, <1>15, <1>16 DEF Paired, Seen, Counts
<1>22. Paired(a, k, b, n + 1)'
  BY <1>16, <1>18, <1>19, <1>20, <1>21 DEF Paired
<1>. QED  BY <1>17, <1>22

\* The next result is reported.
LEMMA ResultPairing ==
    ASSUME TypeInv, TypeInv', HistoryInv, Pairing, NEW c \in Calls, ToolResult(c), UNCHANGED viewVars
    PROVE  Pairing'
<1>. SUFFICES ASSUME LostCalls' = {} PROVE \E a, k, b, n \in 0 .. MaxCalls : Paired(a, k, b, n)'
  BY DEF Pairing
<1>0. UNCHANGED <<queue, spinner, blocks, made>> /\ Tools' = Tools
  BY DEF viewVars, Tools, ToolResult
<1>1. d2c \in Seq(DaemonFrame) /\ d2c' \in Seq(DaemonFrame)
  BY DEF TypeInv
<1>2. batch # <<>> /\ c = Head(batch) /\ batch' = Tail(batch) /\ batch \in Seq(Calls)
  BY DEF ToolResult, HistoryInv, EventsInv
<1>3. PICK f : f = Frame("ToolResult", c) /\ f.type = "ToolResult" /\ f.of = c
  <2>1. Frame("ToolResult", c).type = "ToolResult" /\ Frame("ToolResult", c).of = c
    BY DEF Frame
  <2>. QED  BY <2>1
<1>4. Longer /\ Len(d2c') = Len(d2c) + 1 /\ d2c'[Len(d2c')] = f
  <2>1. f \in DaemonFrame /\ Send(<<f>>)
    BY <1>3, FramesTyped, CallsAreNumbers DEF ToolResult, Numbered
  <2>2. <<f>> \in Seq(DaemonFrame) /\ Len(<<f>>) = 1 /\ <<f>>[1] = f
    BY <2>1
  <2>3. Longer /\ Len(d2c') = Len(d2c) + 1
    BY <1>1, <2>1, <2>2, LongerBySend
  <2>4. Len(d2c') \in Len(d2c) + 1 .. Len(d2c') /\ Len(d2c') - Len(d2c) = 1
    BY <2>3 DEF Longer
  <2>. QED  BY <1>1, <2>1, <2>2, <2>3, <2>4, LongerBySend
<1>5. /\ Len(batch) \in Nat \ {0} /\ Len(batch') = Len(batch) - 1 /\ batch[1] = c /\ DOMAIN batch = 1 .. Len(batch)
      /\ DOMAIN batch' = 1 .. Len(batch')
      /\ \A i \in 1 .. Len(batch') : batch'[i] = batch[i + 1] /\ i + 1 \in 1 .. Len(batch)
  BY <1>2
<1>6. LostCalls = {}
  <2>1. \A d \in Calls : InSeq(batch', d) => InSeq(batch, d)
    BY <1>5 DEF InSeq
  <2>2. InSeq(batch, c)
    BY <1>5 DEF InSeq
  <2>3. \A d \in Calls : InSeq(d2c', Frame("ToolResult", d)) => Reported(d) \/ InSeq(batch, d)
    <3>. SUFFICES ASSUME NEW d \in Calls, d # c, InSeq(d2c', Frame("ToolResult", d)) PROVE Reported(d)
      BY <2>2
    <3>1. f # Frame("ToolResult", d)
      BY <1>3 DEF Frame
    <3>2. \A i \in Len(d2c) + 1 .. Len(d2c') : i = Len(d2c')
      BY <1>4 DEF Longer
    <3>. QED  BY <1>1, <1>4, <3>1, <3>2, LongerReports DEF Reported
  <2>. QED  BY <1>0, <2>1, <2>3, LostStays DEF Reported
<1>7. PICK a \in 0 .. MaxCalls, k \in 0 .. MaxCalls, b \in 0 .. MaxCalls, n \in 0 .. MaxCalls : Paired(a, k, b, n)
  BY <1>6 DEF Pairing
<1>8. a \in Nat /\ k \in Nat /\ b \in Nat /\ n \in Nat /\ a <= k /\ k <= n /\ a <= b /\ b <= n /\ MaxCalls \in Nat
  BY <1>7, RunAssumption DEF Paired
<1>9. Len(batch) = n - b /\ \A i \in 1 .. Len(batch) : batch[i] = b + i
  BY <1>7 DEF Paired, Counts
<1>10. c = b + 1 /\ b < n /\ b + 1 \in 0 .. MaxCalls
  <2>1. 1 \in 1 .. Len(batch)
    BY <1>5
  <2>. QED  BY <1>5, <1>8, <1>9, <2>1
<1>11. Wired(a, k, b + 1, n)'
  <2>1. Wired(a, k, b, n)
    BY <1>7 DEF Paired
  <2>. QED  BY <1>3, <1>4, <1>8, <1>10, <2>1, WiredResult
<1>12. Counts(batch, b + 1, n)'
  BY <1>5, <1>8, <1>9 DEF Counts
<1>13. Seen(a, k, n)'
  BY <1>0, <1>7 DEF Paired, Seen, Counts
<1>14. Paired(a, k, b + 1, n)'
  BY <1>0, <1>7, <1>8, <1>10, <1>11, <1>12, <1>13 DEF Paired
<1>. QED  BY <1>10, <1>14

\* The client queues the arguments of the next call.
LEMMA ArgsPairing ==
    ASSUME TypeInv, TypeInv', BlockInv, HandleToolCall, UNCHANGED <<made, batch>>
    PROVE  Pairing'
<1>. SUFFICES ASSUME LostCalls' = {} PROVE \E a, k, b, n \in 0 .. MaxCalls : Paired(a, k, b, n)'
  BY DEF Pairing
<1>1. d2c \in Seq(DaemonFrame) /\ d2c' \in Seq(DaemonFrame)
  BY DEF TypeInv
<1>2. Head(d2c).type = "ToolCall" /\ queue' = Append(queue, Head(d2c).of) /\ queue \in Seq(Nat) /\ UNCHANGED spinner
  BY DEF HandleToolCall, Deliver, BlockInv, ViewTypes
<1>3. Shorter
  BY <1>1, ShorterByDelivery DEF HandleToolCall, Deliver
<1>4. SameTools
  <2>1. Closing
    BY DEF HandleToolCall, CloseBlocks, Closing
  <2>. QED  BY <2>1, ClosedKeeps DEF Closing, BlockInv
<1>5. LostCalls = {}
  <2>1. \A c \in Calls : InSeq(d2c', Frame("ToolResult", c)) => InSeq(d2c, Frame("ToolResult", c))
    BY <1>1, <1>3, ShorterReports
  <2>2. \A c \in Calls : (\E i \in Tools' : blocks'[i].result = c) => Reported(c)
    BY <1>4 DEF SameTools, Reported
  <2>. QED  BY <2>1, <2>2, LostStays DEF Reported
<1>6. PICK a \in 0 .. MaxCalls, k \in 0 .. MaxCalls, b \in 0 .. MaxCalls, n \in 0 .. MaxCalls : Paired(a, k, b, n)
  BY <1>5 DEF BlockInv, Pairing
<1>7. a \in Nat /\ k \in Nat /\ b \in Nat /\ n \in Nat /\ a <= k /\ k <= n /\ a <= b /\ b <= n /\ MaxCalls \in Nat
  BY <1>6, RunAssumption DEF Paired
<1>8. Head(d2c).of = k + 1 /\ k < n /\ Wired(a, k + 1, b, n)'
  <2>1. Wired(a, k, b, n)
    BY <1>6 DEF Paired
  <2>. QED  BY <1>2, <1>3, <1>7, <2>1, WiredRest
<1>9. Counts(queue, a, k + 1)'
  <2>0. Head(d2c).of \in Nat
    BY <1>7, <1>8
  <2>1. /\ Len(queue') = Len(queue) + 1 /\ Len(queue) \in Nat
        /\ \A i \in 1 .. Len(queue) : queue'[i] = queue[i]
        /\ queue'[Len(queue) + 1] = k + 1
        /\ \A i \in 1 .. Len(queue) + 1 : i \in 1 .. Len(queue) \/ i = Len(queue) + 1
    BY <1>2, <1>8, <2>0
  <2>2. Len(queue) = k - a /\ \A i \in 1 .. Len(queue) : queue[i] = a + i
    BY <1>6 DEF Paired, Seen, Counts
  <2>3. k + 1 = a + (Len(queue) + 1)
    BY <1>7, <2>2
  <2>. QED  BY <1>7, <2>1, <2>2, <2>3 DEF Counts
<1>10. Seen(a, k + 1, n)'
  BY <1>2, <1>4, <1>6, <1>9 DEF Paired, Seen, SameTools
<1>11. Paired(a, k + 1, b, n)'
  <2>1. Counts(batch, b, n)'
    BY <1>6 DEF Paired, Counts
  <2>2. \A c \in Calls : made'[c] # 0 <=> c <= n
    BY <1>6 DEF Paired
  <2>3. a <= k + 1 /\ k + 1 <= n
    BY <1>7, <1>8
  <2>. QED  BY <1>7, <1>8, <1>10, <2>1, <2>2, <2>3 DEF Paired
<1>12. k + 1 \in 0 .. MaxCalls
  BY <1>7, <1>8
<1>. QED  BY <1>11, <1>12

\* The next result takes the oldest arguments, which are its own.
LEMMA ShownPairing ==
    ASSUME TypeInv, TypeInv', BlockInv, HandleToolResult, UNCHANGED <<made, batch>>
    PROVE  Pairing'
<1>. SUFFICES ASSUME LostCalls' = {} PROVE \E a, k, b, n \in 0 .. MaxCalls : Paired(a, k, b, n)'
  BY DEF Pairing
<1>1. d2c \in Seq(DaemonFrame) /\ d2c' \in Seq(DaemonFrame) /\ d2c # <<>> /\ blocks \in Seq(Block) /\ queue \in Seq(Nat)
  BY DEF TypeInv, HandleToolResult, Deliver, BlockInv, ViewTypes
<1>2. PICK c : c = Head(d2c).of
  OBVIOUS
<1>3. PICK o : o = IF IsFor(outcome, c) THEN outcome ELSE NoOutcome
  OBVIOUS
<1>4. PICK x : x = IF queue = <<>> THEN NoCall ELSE Head(queue)
  OBVIOUS
<1>5. PICK t : t = [type |-> "Tool", result |-> c, outcome |-> o.of, args |-> x]
  OBVIOUS
<1>6. /\ Head(d2c).type = "ToolResult" /\ blocks' = Append(blocks, t)
      /\ queue' = IF queue = <<>> THEN queue ELSE Tail(queue)
      /\ spinner' = FALSE
  BY <1>2, <1>3, <1>4, <1>5 DEF HandleToolResult, Deliver
<1>7. Head(d2c) = Frame("ToolResult", c) /\ c \in Nat
  BY <1>1, <1>2, <1>6, HeadNumbered DEF Numbered
<1>8. Shorter
  BY <1>1, ShorterByDelivery DEF HandleToolResult, Deliver
<1>9. t.type = "Tool" /\ t.result = c /\ t.args = x
  BY <1>5
<1>10. /\ \A i \in Tools' : (i \in Tools /\ blocks'[i] = blocks[i]) \/ blocks'[i] = t
       /\ DOMAIN blocks' = 1 .. Len(blocks) + 1
  <2>1. /\ DOMAIN blocks = 1 .. Len(blocks) /\ DOMAIN blocks' = 1 .. Len(blocks) + 1 /\ Len(blocks) \in Nat
        /\ \A i \in 1 .. Len(blocks) : blocks'[i] = blocks[i]
        /\ blocks'[Len(blocks) + 1] = t
    <3>1. PICK S : S = Block \cup {t}
      OBVIOUS
    <3>2. blocks \in Seq(S) /\ t \in S
      <4>1. \A i \in 1 .. Len(blocks) : blocks[i] \in S
        BY <1>1, <3>1
      <4>. QED  BY <1>1, <3>1, <4>1
    <3>. QED  BY <1>6, <3>2
  <2>2. \A i \in 1 .. Len(blocks) + 1 : i \in 1 .. Len(blocks) \/ i = Len(blocks) + 1
    BY <2>1
  <2>. QED  BY <2>1, <2>2 DEF Tools
<1>11. LostCalls = {}
  <2>1. \A d \in Calls : InSeq(d2c', Frame("ToolResult", d)) => InSeq(d2c, Frame("ToolResult", d))
    BY <1>1, <1>8, ShorterReports
  <2>2. InSeq(d2c, Frame("ToolResult", c))
    <3>1. 1 \in DOMAIN d2c /\ d2c[1] = Head(d2c)
      BY <1>1, <1>8 DEF Shorter
    <3>. QED  BY <1>7, <3>1 DEF InSeq
  <2>3. \A d \in Calls : (\E i \in Tools' : blocks'[i].result = d) => Reported(d)
    BY <1>9, <1>10, <2>2 DEF Reported
  <2>. QED  BY <2>1, <2>3, LostStays DEF Reported
<1>12. PICK a \in 0 .. MaxCalls, k \in 0 .. MaxCalls, b \in 0 .. MaxCalls, n \in 0 .. MaxCalls : Paired(a, k, b, n)
  BY <1>11 DEF BlockInv, Pairing
<1>13. a \in Nat /\ k \in Nat /\ b \in Nat /\ n \in Nat /\ a <= k /\ k <= n /\ a <= b /\ b <= n /\ MaxCalls \in Nat
  BY <1>12, RunAssumption DEF Paired
<1>14. Wired(a, k, b, n)
  BY <1>12 DEF Paired
<1>15. c = a + 1 /\ a < b /\ Wired(a + 1, k, b, n)'
  BY <1>2, <1>6, <1>8, <1>13, <1>14, WiredRest
<1>16. a < k
  BY <1>6, <1>8, <1>13, <1>14, ResultHasArgs
<1>17. Len(queue) = k - a /\ \A i \in 1 .. Len(queue) : queue[i] = a + i
  BY <1>12 DEF Paired, Seen, Counts
<1>18. /\ queue # <<>> /\ Len(queue) \in Nat \ {0} /\ Head(queue) = queue[1] /\ 1 \in 1 .. Len(queue)
       /\ queue' = Tail(queue) /\ Len(queue') = Len(queue) - 1
       /\ \A i \in 1 .. Len(queue') : queue'[i] = queue[i + 1] /\ i + 1 \in 1 .. Len(queue)
  <2>1. queue # <<>>
    BY <1>1, <1>13, <1>16, <1>17
  <2>. QED  BY <1>1, <1>6, <2>1
<1>19. x = a + 1
  BY <1>4, <1>17, <1>18
<1>20. Counts(queue, a + 1, k)'
  BY <1>13, <1>17, <1>18 DEF Counts
<1>21. \A i \in Tools' : blocks'[i].args = blocks'[i].result /\ blocks'[i].result <= a + 1
  <2>1. \A i \in Tools : blocks[i].args = blocks[i].result /\ blocks[i].result <= a
    BY <1>12 DEF Paired, Seen
  <2>2. \A i \in Tools : blocks[i].result \in Nat
    <3>1. \A i \in Tools : blocks[i] \in Block /\ blocks[i].type = "Tool"
      BY <1>1 DEF Tools
    <3>. QED  BY <3>1 DEF Block
  <2>3. \A i \in Tools : blocks[i].result <= a + 1
    BY <1>13, <2>1, <2>2
  <2>4. c <= a + 1
    BY <1>13, <1>15
  <2>. QED  BY <1>9, <1>10, <1>15, <1>19, <2>1, <2>3, <2>4
<1>22. Seen(a + 1, k, n)'
  BY <1>6, <1>20, <1>21 DEF Seen
<1>23. Paired(a + 1, k, b, n)'
  <2>1. Counts(batch, b, n)'
    BY <1>12 DEF Paired, Counts
  <2>2. \A d \in Calls : made'[d] # 0 <=> d <= n
    BY <1>12 DEF Paired
  <2>3. a + 1 <= k /\ a + 1 <= b
    BY <1>13, <1>15, <1>16
  <2>. QED  BY <1>13, <1>15, <1>22, <2>1, <2>2, <2>3 DEF Paired
<1>24. a + 1 \in 0 .. MaxCalls
  BY <1>13, <1>16
<1>. QED  BY <1>23, <1>24

\* What the daemon sends besides calls and results.
Neutral == Longer /\ \A i \in Len(d2c) + 1 .. Len(d2c') : d2c'[i].type \notin CallTypes

\* A frame that is no call and no result is neutral.
LEMMA NeutralSent ==
    ASSUME d2c \in Seq(DaemonFrame), NEW f \in DaemonFrame, f.type \notin CallTypes, Send(<<f>>) \/ TrySend(<<f>>)
    PROVE  Neutral
<1>1. CASE UNCHANGED d2c
  <2>1. Longer /\ Len(d2c') = Len(d2c) /\ Len(d2c) \in Nat
    BY <1>1, LongerByNothing
  <2>2. \A i \in Len(d2c) + 1 .. Len(d2c') : FALSE
    BY <2>1
  <2>. QED  BY <2>1, <2>2 DEF Neutral
<1>2. CASE Send(<<f>>)
  <2>1. <<f>> \in Seq(DaemonFrame) /\ Len(<<f>>) = 1 /\ <<f>>[1] = f
    OBVIOUS
  <2>2. /\ Longer
        /\ \A i \in Len(d2c) + 1 .. Len(d2c') : i - Len(d2c) \in 1 .. 1 /\ d2c'[i] = <<f>>[i - Len(d2c)]
    BY <1>2, <2>1, LongerBySend
  <2>3. \A i \in Len(d2c) + 1 .. Len(d2c') : i - Len(d2c) = 1
    BY <2>2
  <2>. QED  BY <2>1, <2>2, <2>3 DEF Neutral
<1>. QED  BY <1>1, <1>2 DEF Send, TrySend

\* The sends of the daemon that are neutral.
LEMMA NeutralFrames ==
    ASSUME d2c \in Seq(DaemonFrame)
    PROVE  /\ \A type \in {"Text", "Reasoning", "AgentComplete", "Error"}, x \in Nat : Send(<<Frame(type, x)>>) => Neutral
           /\ \A c \in Calls : Send(<<Frame("ConfirmationRequest", c)>>) => Neutral
           /\ \A m \in Modes : Send(<<Frame("PermissionModeChanged", m)>>) => Neutral
           /\ \A c \in Calls, y \in BOOLEAN : TrySend(Outcome(c, y)) => Neutral
           /\ UNCHANGED d2c => Neutral
<1>1. \A type \in {"Text", "Reasoning", "AgentComplete", "Error"}, x \in Nat : Send(<<Frame(type, x)>>) => Neutral
  <2>. SUFFICES ASSUME NEW type \in {"Text", "Reasoning", "AgentComplete", "Error"}, NEW x \in Nat, Send(<<Frame(type, x)>>)
       PROVE  Neutral
    OBVIOUS
  <2>1. Frame(type, x) \in DaemonFrame /\ Frame(type, x).type \notin CallTypes
    BY FramesTyped DEF Frame, CallTypes, Numbered
  <2>. QED  BY <2>1, NeutralSent
<1>2. \A c \in Calls : Send(<<Frame("ConfirmationRequest", c)>>) => Neutral
  <2>1. \A c \in Calls : Frame("ConfirmationRequest", c) \in DaemonFrame /\ Frame("ConfirmationRequest", c).type \notin CallTypes
    BY FramesTyped DEF Frame, CallTypes
  <2>. QED  BY <2>1, NeutralSent
<1>3. \A m \in Modes : Send(<<Frame("PermissionModeChanged", m)>>) => Neutral
  <2>1. \A m \in Modes : Frame("PermissionModeChanged", m) \in DaemonFrame /\ Frame("PermissionModeChanged", m).type \notin CallTypes
    BY FramesTyped DEF Frame, CallTypes
  <2>. QED  BY <2>1, NeutralSent
<1>4. ASSUME NEW c \in Calls, NEW y \in BOOLEAN, TrySend(Outcome(c, y)) PROVE Neutral
  <2>1. PICK f : f = [type |-> "PermissionOutcome", of |-> c, granted |-> y]
    OBVIOUS
  <2>2. f \in DaemonFrame /\ f.type \notin CallTypes
    BY <2>1 DEF DaemonFrame, CallTypes
  <2>. QED  BY <1>4, <2>1, <2>2, NeutralSent DEF Outcome
<1>5. UNCHANGED d2c => Neutral
  <2>1. ASSUME UNCHANGED d2c PROVE Longer /\ \A i \in Len(d2c) + 1 .. Len(d2c') : FALSE
    BY <2>1 DEF Longer
  <2>. QED  BY <2>1 DEF Neutral
<1>. QED  BY <1>1, <1>2, <1>3, <1>4, <1>5

\* The daemon's steps keep calls and results paired.
LEMMA DaemonPairing ==
    ASSUME TypeInv, TypeInv', HistoryInv, BlockInv, DaemonStep
    PROVE  Pairing'
<1>1. RunNext /\ UNCHANGED viewVars /\ UNCHANGED <<queue, spinner, blocks>>
  BY DEF DaemonStep, viewVars
<1>2. d2c \in Seq(DaemonFrame) /\ turn \in Nat /\ EventsInv /\ Pairing
  BY DEF TypeInv, HistoryInv, BlockInv
<1>3. SameTools
  BY <1>1 DEF SameTools, Tools
<1>4. ASSUME Neutral, UNCHANGED <<made, batch>> PROVE Pairing'
  BY <1>1, <1>2, <1>3, <1>4, QuietPairing DEF Neutral
<1>5. ASSUME Neutral, made' = made, batch' = <<>> PROVE Pairing'
  BY <1>1, <1>2, <1>5, DroppedPairing DEF Neutral
<1>6. ASSUME NEW kind \in ChunkKinds, Chunk(kind) PROVE Pairing'
  <2>1. Neutral
    BY <1>2, <1>6, NeutralFrames, RunAssumption DEF Chunk
  <2>. QED  BY <1>4, <1>6, <2>1 DEF Chunk
<1>7. CASE Complete \/ Retry \/ GiveUpRun
  <2>1. Neutral
    BY <1>2, <1>7, NeutralFrames DEF Complete, Retry, GiveUpRun
  <2>. QED  BY <1>5, <1>7, <2>1 DEF Complete, Retry, GiveUpRun, FreshStream
<1>8. CASE BackoffOver \/ OnConfirmation \/ Reloads
  BY <1>2, <1>4, <1>8, NeutralFrames DEF BackoffOver, OnConfirmation, Reloads, runVars
<1>9. CASE HandleAgentRequest
  BY <1>2, <1>5, <1>9, NeutralFrames DEF HandleAgentRequest, FreshStream
<1>10. CASE HandleCancelRequest
  <2>1. Head(c2d).of \in Nat
    BY <1>10, Received DEF HandleCancelRequest, TypeInv
  <2>. QED  BY <1>2, <1>5, <1>10, <2>1, NeutralFrames DEF HandleCancelRequest, FreshStream
<1>11. CASE OnSetPermissionMode
  <2>1. Head(c2d).of \in Modes
    BY <1>11, Received DEF OnSetPermissionMode, TypeInv
  <2>. QED  BY <1>2, <1>4, <1>11, <2>1, NeutralFrames DEF OnSetPermissionMode, runVars
<1>12. ASSUME NEW c \in Calls, Starts(c) \/ Vanishes(c) PROVE Pairing'
  BY <1>2, <1>4, <1>12, NeutralFrames DEF Starts, Vanishes, runVars
<1>13. ASSUME NEW c \in Calls, Gate(c) PROVE Pairing'
  <2>1. Neutral
    <3>1. \/ UNCHANGED d2c
          \/ Send(<<Frame("ConfirmationRequest", c)>>)
          \/ \E y \in BOOLEAN : TrySend(Outcome(c, y))
      BY <1>13 DEF Gate
    <3>. QED  BY <1>2, <3>1, NeutralFrames
  <2>. QED  BY <1>4, <1>13, <2>1 DEF Gate, runVars
<1>14. ASSUME NEW c \in Calls, ToolCall(c) \/ ToolResult(c) PROVE Pairing'
  BY <1>1, <1>2, <1>14, CallPairing, ResultPairing
<1>. QED  BY <1>1, <1>6, <1>7, <1>8, <1>9, <1>10, <1>11, <1>12, <1>13, <1>14 DEF RunNext, StreamStep, LoopStep

\* The client keeps them paired when it handles a frame.
LEMMA FramePairing ==
    ASSUME TypeInv, TypeInv', BlockInv, HandleFrame
    PROVE  Pairing'
<1>1. UNCHANGED <<made, batch>>
  BY DEF HandleFrame, runVars
<1>2. Shorter
  <2>1. d2c # <<>> /\ d2c' = Tail(d2c)
    BY DEF HandleFrame, HandleText, HandleReasoning, HandleToolCallDelta, HandleToolCall, HandleToolResult,
      HandleAgentComplete, HandleError, HandleConfirmationRequest, HandleModeChanged, HandleOutcome, Deliver
  <2>. QED  BY <2>1, ShorterByDelivery DEF TypeInv
<1>3. CASE HandleToolCall
  BY <1>1, <1>3, ArgsPairing
<1>4. CASE HandleToolResult
  BY <1>1, <1>4, ShownPairing
<1>5. CASE ~ HandleToolCall /\ ~ HandleToolResult
  <2>1. Head(d2c).type \notin {"ToolCall", "ToolResult"} /\ UNCHANGED queue /\ Closing
    BY <1>5 DEF HandleFrame, HandleText, HandleReasoning, HandleToolCallDelta, HandleAgentComplete, HandleError,
      HandleConfirmationRequest, HandleModeChanged, HandleOutcome, Deliver, CloseBlocks, Closing
  <2>2. spinner' = spinner \/ Head(d2c).type = "ToolCallDelta"
    BY <1>5 DEF HandleFrame, HandleText, HandleReasoning, HandleToolCallDelta, HandleAgentComplete, HandleError,
      HandleConfirmationRequest, HandleModeChanged, HandleOutcome, Deliver
  <2>3. SameTools
    BY <2>1, ClosedKeeps DEF Closing, BlockInv
  <2>. QED  BY <1>1, <1>2, <2>1, <2>2, <2>3, QuietPairing DEF BlockInv
<1>. QED  BY <1>3, <1>4, <1>5

\* It keeps them paired when a key is pressed.
LEMMA KeyPairing ==
    ASSUME TypeInv, TypeInv', BlockInv, PromptKey \/ FreeKey \/ UNCHANGED vars
    PROVE  Pairing'
<1>1. UNCHANGED <<made, batch, d2c>>
  BY DEF PromptKey, FreeKey, vars, runVars
<1>2. UNCHANGED <<queue, spinner>> /\ Closing
  <2>1. CASE PromptKey
    <3>1. PICK k \in Kinds : SendConfirmation(k)
      BY <2>1, PromptAnswers DEF TypeInv
    <3>. QED  BY <3>1 DEF SendConfirmation, Closing
  <2>2. CASE FreeKey
    BY <2>2 DEF FreeKey, Submit, PressEsc, CycleMode, CloseBlocks, Closing
  <2>3. CASE UNCHANGED vars
    BY <2>3 DEF vars, viewVars, Closing
  <2>. QED  BY <2>1, <2>2, <2>3
<1>3. SameTools
  BY <1>2, ClosedKeeps DEF Closing, BlockInv
<1>4. Neutral
  BY <1>1, NeutralFrames DEF TypeInv
<1>. QED  BY <1>1, <1>2, <1>3, <1>4, QuietPairing DEF BlockInv, Neutral

\* Every step keeps the blocks right.
LEMMA StepBlocks == ApprovalInv /\ ApprovalInv' /\ HistoryInv /\ BlockInv /\ [Next]_vars => BlockInv'
<1>. SUFFICES ASSUME ApprovalInv, ApprovalInv', HistoryInv, BlockInv, [Next]_vars PROVE BlockInv'
  OBVIOUS
<1>1. TypeInv /\ TypeInv'
  BY DEF ApprovalInv
<1>2. ViewTypes'
  BY <1>1, ViewTyped DEF BlockInv
<1>3. Pairing'
  BY <1>1, DaemonPairing, FramePairing, KeyPairing DEF Next
<1>. QED  BY <1>2, <1>3 DEF BlockInv

\* There are no blocks at first.
LEMMA InitBlocks == Init => BlockInv
<1>. SUFFICES ASSUME Init PROVE BlockInv
  OBVIOUS
<1>1. /\ d2c = <<>> /\ batch = <<>> /\ queue = <<>> /\ blocks = <<>> /\ open = 0
      /\ outcome = NoOutcome /\ spinner = FALSE /\ made = [c \in Calls |-> 0]
  BY DEF Init, RunInit, ViewInit
<1>2. Len(<<>>) = 0 /\ \A i : i \notin 1 .. 0 /\ i \notin 0 + 1 .. 0
  OBVIOUS
<1>3. ViewTypes
  <2>1. queue \in Seq(Nat) /\ blocks \in Seq(Block) /\ open \in Nat
    BY <1>1
  <2>2. outcome.of \in Nat
    BY <1>1 DEF NoOutcome, NoCall
  <2>3. spinner \in BOOLEAN
    BY <1>1
  <2>. QED  BY <2>1, <2>2, <2>3 DEF ViewTypes
<1>4. Wired(0, 0, 0, 0)
  BY <1>1, <1>2 DEF Wired, Carries, InTurn
<1>5. Seen(0, 0, 0)
  <2>1. Counts(queue, 0, 0)
    BY <1>1, <1>2 DEF Counts
  <2>2. Tools = {}
    BY <1>1 DEF Tools
  <2>3. ~ spinner
    BY <1>1
  <2>. QED  BY <2>1, <2>2, <2>3 DEF Seen
<1>6. Counts(batch, 0, 0)
  BY <1>1, <1>2 DEF Counts
<1>7. \A c \in Calls : made[c] # 0 <=> c <= 0
  <2>1. \A c \in Calls : made[c] = 0
    BY <1>1
  <2>2. \A c \in Calls : ~ (c <= 0)
    BY RunAssumption
  <2>. QED  BY <2>1, <2>2
<1>8. 0 \in 0 .. MaxCalls /\ 0 <= 0
  BY RunAssumption
<1>9. Paired(0, 0, 0, 0)
  BY <1>4, <1>5, <1>6, <1>7, <1>8 DEF Paired
<1>. QED  BY <1>3, <1>8, <1>9 DEF BlockInv, Pairing

\* The blocks are right in every state.
LEMMA Blocks == ToolSpec => []BlockInv
BY InitBlocks, StepBlocks, Approval, History, PTL DEF ToolSpec

\* If no stream was dropped with a call in it, every result is shown with the
\* arguments of its own call, and nothing is left over when the run has ended
\* (blocks.rs, record_tool_call and record_tool_result).
THEOREM ResultsKeepTheirArguments == ToolSpec => []ResultsPairUp
<1>1. BlockInv /\ HistoryInv => ResultsPairUp
  <2>. SUFFICES ASSUME BlockInv, HistoryInv, LostCalls = {}
       PROVE  /\ \A i \in Tools : blocks[i].args = blocks[i].result
              /\ Quiet /\ phase = "idle" => queue = <<>> /\ ~ spinner
    BY DEF ResultsPairUp
  <2>1. PICK a \in 0 .. MaxCalls, k \in 0 .. MaxCalls, b \in 0 .. MaxCalls, n \in 0 .. MaxCalls : Paired(a, k, b, n)
    BY DEF BlockInv, Pairing
  <2>2. a \in Nat /\ k \in Nat /\ b \in Nat /\ n \in Nat /\ a <= k /\ k <= n /\ a <= b /\ b <= n
    BY <2>1 DEF Paired
  <2>3. \A i \in Tools : blocks[i].args = blocks[i].result
    BY <2>1 DEF Paired, Seen
  <2>4. ASSUME Quiet, phase = "idle" PROVE queue = <<>> /\ ~ spinner
    <3>1. d2c = <<>> /\ Len(<<>>) = 0
      BY <2>4 DEF Quiet
    <3>2. k = n
      <4>1. k < n => k + 1 \in k + 1 .. n
        BY <2>2
      <4>. QED  BY <2>1, <2>2, <3>1, <4>1 DEF Paired, Wired, Carries
    <3>3. a = b
      <4>1. a < b => a + 1 \in a + 1 .. b
        BY <2>2
      <4>. QED  BY <2>1, <2>2, <3>1, <4>1 DEF Paired, Wired, Carries
    <3>4. b = n
      <4>1. batch = <<>>
        BY <2>4 DEF HistoryInv, EventsInv
      <4>. QED  BY <2>1, <2>2, <3>1, <4>1 DEF Paired, Counts
    <3>5. a = k /\ ~ spinner
      BY <2>1, <2>2, <3>2, <3>3, <3>4 DEF Paired, Seen
    <3>6. Len(queue) = 0 /\ queue \in Seq(Nat)
      BY <2>1, <2>2, <3>5 DEF Paired, Seen, Counts, BlockInv, ViewTypes
    <3>. QED  BY <3>5, <3>6
  <2>. QED  BY <2>3, <2>4
<1>. QED  BY Blocks, History, <1>1, PTL
=============================================================================
