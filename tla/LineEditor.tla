----------------------------- MODULE LineEditor -----------------------------
(***************************************************************************)
(* The shell's command history and line editor (History and                *)
(* read_line_with_history of kernel/shell/mod.rs): a ring of the last      *)
(* commands, and a line that typing, backspace and the arrow keys change   *)
(* together with what the terminal shows.                                  *)
(***************************************************************************)
EXTENDS Integers, Sequences

CONSTANTS
    HISTORY_SIZE,  \* entries of the history
    LINE_LENGTH,   \* bytes of the line buffer, of a history entry, of the draft
    Keys,          \* printable characters
    Commands       \* bound: lines entered

ASSUME EditorConstants == HISTORY_SIZE \in Nat \ {0} /\ LINE_LENGTH \in Nat \ {0}

VARIABLES
    history,   \* HISTORY: [buffer, head, count]
    line,      \* buf[..n]
    screen,    \* what the terminal shows after the prompt
    back,      \* history_temp_idx
    draft,     \* draft_buf[..draft_len]
    entered    \* history variable: the lines push has stored

editorVars == <<history, line, screen, back, draft, entered>>

EditorInit ==
    /\ history = [buffer |-> [i \in 0 .. HISTORY_SIZE - 1 |-> << >>], head |-> 0, count |-> 0]
    /\ line = << >> /\ screen = << >> /\ back = 0 /\ draft = << >>
    /\ entered = << >>

\* Mutant: one entry too far back.
RecallOneMore(steps) ==
    history.buffer[(history.head + HISTORY_SIZE - steps - 1) % HISTORY_SIZE]

\* History::get, for 1 <= steps <= count.
Recall(steps) == history.buffer[(history.head + HISTORY_SIZE - steps) % HISTORY_SIZE]

\* n times backspace, blank, backspace.
Erased(n) == SubSeq(screen, 1, Len(screen) - n)

Type(k) ==
    /\ IF Len(line) < LINE_LENGTH
       THEN line' = Append(line, k) /\ screen' = Append(screen, k) /\ back' = 0
       ELSE UNCHANGED <<line, screen, back>>
    /\ UNCHANGED <<history, draft, entered>>

Backspace ==
    /\ line # << >>
    /\ line' = SubSeq(line, 1, Len(line) - 1) /\ screen' = Erased(1)
    /\ UNCHANGED <<history, back, draft, entered>>

Up ==
    /\ history.count > 0 /\ back < history.count
    /\ draft' = IF back = 0 THEN line ELSE draft
    /\ back' = back + 1
    /\ line' = Recall(back + 1)
    /\ screen' = Erased(Len(line)) \o Recall(back + 1)
    /\ UNCHANGED <<history, entered>>

Down ==
    /\ back > 0
    /\ back' = back - 1
    /\ line' = IF back = 1 THEN draft ELSE Recall(back - 1)
    /\ screen' = Erased(Len(line)) \o line'
    /\ UNCHANGED <<history, draft, entered>>

\* History::push does not store a line twice in a row.
PushHistory(cmd) ==
    IF history.count > 0 /\ Recall(1) = cmd
    THEN UNCHANGED <<history, entered>>
    ELSE /\ history' = [buffer |-> [history.buffer EXCEPT ![history.head] = cmd],
                        head   |-> (history.head + 1) % HISTORY_SIZE,
                        count  |-> IF history.count < HISTORY_SIZE
                                   THEN history.count + 1 ELSE history.count]
         /\ entered' = Append(entered, cmd)

\* Return: the line goes to shell_main; the next call starts afresh.
Return ==
    /\ IF line = << >> THEN UNCHANGED <<history, entered>>
       ELSE Len(entered) < Commands /\ PushHistory(line)
    /\ line' = << >> /\ screen' = << >> /\ back' = 0 /\ draft' = << >>

EditorNext == Backspace \/ Up \/ Down \/ Return \/ \E k \in Keys : Type(k)

EditorSpec == EditorInit /\ [][EditorNext]_editorVars

-----------------------------------------------------------------------------

\* What the terminal shows is the line that Return executes, whatever mixture
\* of typing, erasing and walking through the history came before; and
\* the history offers the last lines entered, newest first, as far as it goes.
EditorShowsTheLine ==
    /\ screen = line
    /\ history.count = (IF Len(entered) < HISTORY_SIZE THEN Len(entered) ELSE HISTORY_SIZE)
    /\ \A i \in 1 .. history.count : Recall(i) = entered[Len(entered) + 1 - i]
    /\ back \in 0 .. history.count

=============================================================================
