----------------------------- MODULE LineEditor ------------------------------
(***************************************************************************)
(* The input line of the client: editing, pasted blocks that are shown     *)
(* collapsed, history, and the completion popup over it (codiv/src/ui/     *)
(* input.rs, completion_popup.rs, terminal/keys/completion.rs and          *)
(* input_keys.rs, shell/command_index.rs).                                 *)
(*                                                                         *)
(* The buffer is a sequence of characters.  A large paste is one of them,  *)
(* a marker; its text waits in a list beside the buffer.  To the code all  *)
(* markers are the same; here each carries the paste it stands for, so     *)
(* that what is sent can be compared with what was pasted.                 *)
(***************************************************************************)
EXTENDS Naturals, Sequences, FiniteSets, SequencesExt, FiniteSetsExt

CONSTANTS Markers,    \* bound: the large pastes in the line and the list at a time
          Texts,      \* what each of them stands for
          Chars,      \* bound: the characters typed, some of "x", "/" and the space "sp"
          MaxLen,     \* bound: characters in the buffer
          MaxHistory, \* bound: submissions that are browsed
          MaxKept     \* bound: characters of one of them, and of a line left for it

\* What is not a marker.
Plain == {"x", "r", "/", "sp", "\n"} \cup {Texts[m] : m \in Markers}

ASSUME EditorAssumption ==
    /\ Chars \subseteq {"x", "sp", "/"}
    /\ Markers \cap Plain = {}
    /\ MaxLen \in Nat /\ MaxHistory \in Nat /\ MaxKept \in Nat

VARIABLES buffer,   \* InputLine::buffer
          cursor,   \* InputLine::cursor, in characters
          history,  \* InputLine::history, oldest first
          index,    \* history_index, from 1; 0: not browsing
          saved,    \* saved_input while browsing, which is when it is read
          blocks,   \* paste_blocks: the pastes in the order of the list
          popup,    \* CompletionPopup
          mode,     \* InputMode
          faithful, \* every line free of mishaps was sent as meant
          mishaps   \* what has happened to this line that the list of blocks is
                    \* not made for

lineVars == <<buffer, cursor, history, index, saved, blocks>>
vars == <<lineVars, popup, mode, faithful, mishaps>>

IsMarker(t) == t \in Markers
Blank(t)    == t \in {"sp", "\n"}

\* Where the markers stand.
Marks(b) == {i \in DOMAIN b : IsMarker(b[i])}

\* exact: the word before the cursor is still the one that was completed.
Closed == [visible |-> FALSE, start |-> 0, end |-> 0, candidates |-> {}, exact |-> TRUE]

Init ==
    /\ buffer   = <<>>
    /\ cursor   = 0
    /\ history  = <<>>
    /\ index    = 0
    /\ saved    = <<>>
    /\ blocks   = <<>>
    /\ popup    = Closed
    /\ mode     = "Command"
    /\ faithful = TRUE
    /\ mishaps  = {}

----------------------------------------------------------------------------
(* Editing.                                                                *)

Before(c) == SubSeq(buffer, 1, c)
After(c)  == SubSeq(buffer, c + 1, Len(buffer))

\* replace_range: the cursor ends up behind the replacement.
ReplaceRange(start, end, text) ==
    /\ start + Len(text) + Len(buffer) - end <= MaxLen
    /\ buffer' = Before(start) \o text \o After(end)
    /\ cursor' = start + Len(text)

\* A key other than the popup's own closes it.
KeyDone == popup' = Closed /\ UNCHANGED <<faithful, mishaps>>

Insert(ch) ==
    /\ ReplaceRange(cursor, cursor, <<ch>>)
    /\ UNCHANGED <<history, index, saved, blocks>>

\* On an empty line "!" and "?" switch the mode.
Type ==
    \/ \E ch \in Chars : Insert(ch) /\ UNCHANGED mode /\ KeyDone
    \/ mode = "Ai" /\ Insert("\n") /\ UNCHANGED mode /\ KeyDone
    \/ buffer = <<>> /\ mode' \in {"Command", "Ai"} \ {mode} /\ UNCHANGED lineVars /\ KeyDone

\* As many blocks stand before the one of a marker as markers before the marker.
BlockIndex(p) == Cardinality(Marks(Before(p - 1))) + 1

\* Mutant of BlocksWithout: the newest block goes.
BlocksWithoutLast(p) == IF IsMarker(buffer[p]) THEN Front(blocks) ELSE blocks

BlocksWithout(p) == IF IsMarker(buffer[p]) THEN RemoveAt(blocks, BlockIndex(p)) ELSE blocks

\* Backspace before, Delete at the cursor.  Without a block for its marker the
\* client panics and is gone.
RemoveChar(p) ==
    /\ p \in DOMAIN buffer
    /\ IsMarker(buffer[p]) => BlockIndex(p) <= Len(blocks)
    /\ blocks' = BlocksWithout(p)
    /\ buffer' = RemoveAt(buffer, p)
    /\ cursor' = p - 1
    /\ UNCHANGED <<history, index, saved, mode>>
    /\ KeyDone

Backspace == cursor > 0 /\ RemoveChar(cursor)
Delete    == cursor < Len(buffer) /\ RemoveChar(cursor + 1)

\* The line is cleared; history is still being browsed.
CtrlC ==
    /\ buffer' = <<>>
    /\ cursor' = 0
    /\ blocks' = <<>>
    /\ mishaps' = mishaps \cup IF index # 0 /\ Marks(saved) # {} THEN {"cleared"} ELSE {}
    /\ popup' = Closed
    /\ UNCHANGED <<history, index, saved, mode, faithful>>

----------------------------------------------------------------------------
(* The cursor.                                                             *)

Newlines(from, to) == {i \in from .. to : buffer[i] = "\n"}

LineStart(c) == Max(Newlines(1, c) \cup {0})
LineEnd(c)   == Min(Newlines(c + 1, Len(buffer)) \cup {Len(buffer) + 1}) - 1

Least(a, b) == IF a < b THEN a ELSE b

\* The same column of the line that ends at e, or its end.
InLine(start, e) == start + Least(cursor - LineStart(cursor), e - start)

Goto(c) == cursor' = c /\ UNCHANGED <<buffer, history, index, saved, blocks, mode>> /\ KeyDone

MoveCursor ==
    \/ cursor > 0 /\ Goto(cursor - 1)
    \/ cursor < Len(buffer) /\ Goto(cursor + 1)
    \/ Goto(LineStart(cursor))
    \/ Goto(LineEnd(cursor))

CanMoveUp   == mode = "Ai" /\ LineStart(cursor) > 0
CanMoveDown == mode = "Ai" /\ LineEnd(cursor) < Len(buffer)

MoveUp ==
    /\ ~ popup.visible /\ CanMoveUp
    /\ LET e == LineStart(cursor) - 1 IN Goto(InLine(LineStart(e), e))

MoveDown ==
    /\ ~ popup.visible /\ CanMoveDown
    /\ LET start == LineEnd(cursor) + 1 IN Goto(InLine(start, LineEnd(start)))

----------------------------------------------------------------------------
(* History.                                                                *)

\* Mutant of Show: the blocks go with the line.
ShowForgettingBlocks(text, i) ==
    /\ buffer' = text
    /\ cursor' = Len(text)
    /\ index' = i
    /\ blocks' = <<>>
    /\ UNCHANGED <<history, mode>>
    /\ KeyDone

Show(text, i) ==
    /\ buffer' = text
    /\ cursor' = Len(text)
    /\ index' = i
    /\ UNCHANGED <<history, blocks, mode>>
    /\ KeyDone

\* The line being written is saved, but not its blocks: they stay in the list.
HistoryUp ==
    /\ ~ popup.visible /\ ~ CanMoveUp
    /\ IF index = 0
       THEN /\ history # <<>> /\ Len(buffer) <= MaxKept
            /\ saved' = buffer
            /\ Show(Last(history), Len(history))
       ELSE index > 1 /\ UNCHANGED saved /\ Show(history[index - 1], index - 1)

HistoryDown ==
    /\ ~ popup.visible /\ ~ CanMoveDown
    /\ index # 0
    /\ IF index < Len(history) THEN Show(history[index + 1], index + 1) /\ UNCHANGED saved
       ELSE Show(saved, 0) /\ saved' = <<>>

----------------------------------------------------------------------------
(* Pastes.                                                                 *)

\* Up to three lines are inserted as they are, here two.  The event is not a key: a popup
\* stays.
PasteText ==
    /\ ReplaceRange(cursor, cursor, <<"\n", "x">>)
    /\ popup' = IF popup.visible THEN [popup EXCEPT !.exact = FALSE] ELSE popup
    /\ UNCHANGED <<history, index, saved, blocks, mode, faithful, mishaps>>

Unused == Markers \ (ToSet(buffer) \cup ToSet(saved) \cup ToSet(blocks))

\* What the list is not made for: a paste before another, into an entry of the
\* history, or where an open popup will put its choice.
OutOfStep ==
    \/ Marks(After(cursor)) # {}
    \/ index # 0
    \/ popup.visible /\ cursor < popup.end

\* The block goes to the end of the list, wherever its marker goes.
PasteBlock ==
    /\ Unused # {}
    /\ LET m == CHOOSE m \in Unused : TRUE IN
         /\ ReplaceRange(cursor, cursor, <<m>>)
         /\ blocks' = Append(blocks, m)
    /\ mishaps' = IF OutOfStep THEN mishaps \cup {"order"} ELSE mishaps
    /\ popup' = IF popup.visible THEN [popup EXCEPT !.exact = FALSE] ELSE popup
    /\ UNCHANGED <<history, index, saved, mode, faithful>>

----------------------------------------------------------------------------
(* Enter.                                                                  *)

Nth(b, i) == Cardinality(Marks(SubSeq(b, 1, i)))

\* The markers become the texts of the blocks, the first the first's.
Expanded ==
    [i \in DOMAIN buffer |->
        IF IsMarker(buffer[i]) /\ Nth(buffer, i) <= Len(blocks) THEN Texts[blocks[Nth(buffer, i)]] ELSE buffer[i]]

Meant == [i \in DOMAIN buffer |-> IF IsMarker(buffer[i]) THEN Texts[buffer[i]] ELSE buffer[i]]

Trim(text) ==
    LET solid == {i \in DOMAIN text : ~ Blank(text[i])} IN
    IF solid = {} THEN <<>> ELSE SubSeq(text, Min(solid), Max(solid))

Remembered(text) ==
    IF Trim(text) = <<>> \/ (history # <<>> /\ Last(history) = Trim(text)) THEN history
    ELSE Append(history, Trim(text))

Reset == <<"/", "r">>

\* submit; "/reset" forgets the history.
Enter ==
    /\ ~ popup.visible
    /\ history' = IF Trim(Expanded) = Reset THEN <<>> ELSE Remembered(Expanded)
    /\ buffer' = <<>> /\ cursor' = 0 /\ index' = 0 /\ saved' = <<>> /\ blocks' = <<>>
    /\ faithful' = (faithful /\ (mishaps = {} => Expanded = Meant))
    /\ mishaps' = {}
    /\ UNCHANGED <<popup, mode>>

----------------------------------------------------------------------------
(* Tab and the popup.                                                      *)

Open(start, end, candidates, exact) ==
    popup' = [visible |-> TRUE, start |-> start, end |-> end, candidates |-> candidates, exact |-> exact]

WordStart == Max({i \in 1 .. cursor : Blank(buffer[i])} \cup {0})
Word      == SubSeq(buffer, WordStart + 1, cursor)

\* The completion engine answers with what completes the word before the cursor:
\* one candidate, or several, which may have more in common than the word.
OneCandidate ==
    /\ ReplaceRange(WordStart, cursor, Word \o <<"x", "sp">>)
    /\ popup' = Closed

\* Mutant of SeveralCandidates: the choice replaces the line.
SeveralOverLine ==
    /\ Open(0, cursor, {Word \o <<"x">>, Word \o <<"/">>}, TRUE)
    /\ UNCHANGED <<buffer, cursor>>

SeveralCandidates ==
    \E common \in {<<>>, <<"x">>} :
        /\ IF common = <<>> THEN UNCHANGED <<buffer, cursor>>
           ELSE ReplaceRange(WordStart, cursor, Word \o common)
        /\ Open(WordStart, cursor, {Word \o common \o <<"x">>, Word \o common \o <<"/">>}, common = <<>>)

SlashCommands == {Reset, <<"/", "x">>}

\* Slash commands are completed over the whole line, whatever the cursor is at.
SlashTab ==
    LET candidates == {c \in SlashCommands : IsPrefix(buffer, c)} IN
    \/ /\ Cardinality(candidates) = 1
       /\ \E c \in candidates : ReplaceRange(0, Len(buffer), c \o <<"sp">>)
       /\ UNCHANGED popup
    \/ /\ Cardinality(candidates) > 1
       /\ Open(0, Len(buffer), candidates, TRUE)
       /\ UNCHANGED <<buffer, cursor>>

Tab ==
    /\ ~ popup.visible
    /\ \/ buffer = <<>> /\ mode' \in {"Command", "Ai"} \ {mode} /\ UNCHANGED <<buffer, cursor, popup>>
       \/ buffer # <<>> /\ mode = "Command" /\ (OneCandidate \/ SeveralCandidates) /\ UNCHANGED mode
       \/ buffer # <<>> /\ mode = "Ai" /\ Head(buffer) = "/" /\ SlashTab /\ UNCHANGED mode
    /\ UNCHANGED <<history, index, saved, blocks, faithful, mishaps>>

\* Enter or Tab on the popup.  Up and Down wrap around: any candidate.
Confirm ==
    /\ popup.visible
    /\ \E c \in popup.candidates : ReplaceRange(popup.start, popup.end, c \o <<"sp">>)
    /\ UNCHANGED <<history, index, saved, blocks, mode>>
    /\ KeyDone

Dismiss == popup.visible /\ UNCHANGED <<lineVars, mode>> /\ KeyDone

----------------------------------------------------------------------------
Step ==
    \/ Type \/ Backspace \/ Delete \/ CtrlC \/ MoveCursor \/ MoveUp \/ MoveDown
    \/ HistoryUp \/ HistoryDown \/ PasteText \/ PasteBlock \/ Enter
    \/ Tab \/ Confirm \/ Dismiss

\* Bound: a line whose blocks Ctrl-C has cleared is not followed further, and
\* neither is what follows a submission too long for the history.
Followed ==
    /\ "cleared" \notin mishaps
    /\ Len(history) <= MaxHistory
    /\ \A i \in DOMAIN history : Len(history[i]) <= MaxKept

Next == Followed /\ Step

Spec == Init /\ [][Next]_vars

----------------------------------------------------------------------------

\* Whatever is edited, browsed and completed between the pastes and Enter, each
\* paste is sent where its marker stands, unless one was pasted before another,
\* into an entry of the history or where an open popup put its choice, or Ctrl-C
\* cleared the list under a saved line (input.rs, submit and paste_block_index_at).
SubmitsAsMeant == faithful

\* Every marker has a block to show, to send and to remove, unless Ctrl-C
\* cleared the list under a saved line: otherwise Backspace would index out of
\* the list (input.rs, backspace and delete).
MarkersHaveBlocks ==
    "cleared" \notin mishaps => Cardinality(Marks(buffer)) <= Len(blocks)

\* A choice replaces the word up to the cursor, unless text was pasted under the
\* popup or Tab itself has extended the word (input_keys.rs, Tab).
PopupCompletesWord ==
    popup.visible /\ popup.exact =>
        /\ mode = "Command" => popup.end = cursor
        /\ \A c \in popup.candidates : IsPrefix(SubSeq(buffer, popup.start + 1, popup.end), c)
=============================================================================
