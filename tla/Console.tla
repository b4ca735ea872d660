------------------------------ MODULE Console ------------------------------
(***************************************************************************)
(* The console: the line editor and command dispatcher kern/cons/shell.c,  *)
(* driven from the keyboard interrupt (kern/trap/trap.c, kern/drivers/     *)
(* kdb.c), and the text screen kern/drivers/cga.c it echoes to.            *)
(*                                                                         *)
(* The whole shell runs inside the keyboard interrupt.  Its gate leaves    *)
(* the interrupt flag set and the PIC ends interrupts by itself, so the    *)
(* next key may interrupt the handler of the last one, a running command   *)
(* included; the new handler runs to its end first.  The handlers form a   *)
(* stack.  A cons_putc() or a printed text is one step.                    *)
(***************************************************************************)
EXTENDS Integers, Sequences, FiniteSets, SequencesExt

CONSTANTS CMD_BUF_SIZE,
          CRT_ROWS, CRT_COLS,
          Chars,        \* printable characters the keyboard can produce
          Prompt,       \* what shell_prompt() prints
          commands,     \* the names in the command table
          Clear,        \* the place of "clear" in the table
          PosSize,      \* the values of crt_pos, 2^16 in the code
          MaxKeys,      \* bound: keys pressed
          MaxNest       \* bound: handlers under way at the same time

(***************************************************************************)
(* A space looks like an erased cell (CRT_ERASE_CHAR).  "esc" stands for   *)
(* the keys whose character is not printable.                              *)
(***************************************************************************)
Blank == " "

ASSUME ConsoleAssumption ==
    /\ CMD_BUF_SIZE \in Nat /\ CMD_BUF_SIZE > 1
    /\ CRT_ROWS \in Nat /\ CRT_ROWS > 1 /\ CRT_COLS \in Nat /\ CRT_COLS > 1
    /\ PosSize \in Nat /\ PosSize >= (CRT_ROWS + 1) * CRT_COLS
    /\ MaxKeys \in Nat /\ MaxNest \in Nat \ {0}
    /\ Blank \in Chars /\ {"NL", "BS", "esc", "nul"} \cap Chars = {}
    /\ Prompt \in Seq(STRING \ {"NL", "BS"})

(***************************************************************************)
(* What the command table promises: names are not empty, and a name that   *)
(* is the beginning of another in whole words comes after it.              *)
(***************************************************************************)
ASSUME TableAssumption ==
    /\ commands \in Seq(Seq(Chars) \ {<<>>})
    /\ Clear \in 1 .. Len(commands)
    /\ \A i, j \in 1 .. Len(commands) :
          i < j => ~IsPrefix(Append(commands[i], Blank), commands[j])

Keys == Chars \cup {"NL", "BS", "esc"}

Visible == 0 .. CRT_ROWS * CRT_COLS - 1

VARIABLES cmd_buffer, cmd_pos,
          crt,          \* what crt_buf shows, and crt_pos
          handlers,     \* shell_handle_char() calls, the running one last
          ran,          \* the last line executed and the command it ran
          typed,        \* the line as the user edited it (not in the code)
          keys          \* keys pressed so far (bounds the model)

vars == <<cmd_buffer, cmd_pos, crt, handlers, ran, typed, keys>>

-----------------------------------------------------------------------------
(***************************************************************************)
(* A screen is the visible cells of crt_buf, crt_pos, and two marks that   *)
(* are not in the code: full, a character has been written in the last     *)
(* visible cell, and over, crt_pos has overflowed.  The code never reads   *)
(* the cells that are not visible, nor tests that crt_pos is in front of   *)
(* them: a store there shows nothing.                                      *)
(***************************************************************************)
Store(buf, cell, c) == [i \in Visible |-> IF i = cell THEN c ELSE buf[i]]

(* crt_pos += n, of 16 bits. *)
Forward(s, n) ==
    [s EXCEPT !.pos  = (s.pos + n) % PosSize,
              !.over = s.over \/ s.pos + n >= PosSize]

(* Mutant: the bottom row is copied up and not erased. *)
ScrupKeep(s) ==
    [s EXCEPT !.buf = [i \in Visible |->
                          IF i < (CRT_ROWS - 1) * CRT_COLS THEN s.buf[i + CRT_COLS]
                          ELSE s.buf[i]],
              !.pos = s.pos - CRT_COLS]

(***************************************************************************)
(* cga_scrup(): the visible rows move up, the last one is erased.          *)
(***************************************************************************)
Scrup(s) ==
    [s EXCEPT !.buf = [i \in Visible |->
                          IF i < (CRT_ROWS - 1) * CRT_COLS THEN s.buf[i + CRT_COLS]
                          ELSE Blank],
              !.pos = s.pos - CRT_COLS]

(***************************************************************************)
(* cga_putc(): a newline may scroll and falls through to the carriage      *)
(* return; a character never scrolls, so the one written in the last       *)
(* visible cell takes the cursor off the screen.                           *)
(***************************************************************************)
CgaPutc(s, c) ==
    CASE c = "BS" ->
            IF s.pos = 0 THEN s
            ELSE [s EXCEPT !.pos = s.pos - 1, !.buf = Store(s.buf, s.pos - 1, Blank)]
      [] c = "NL" ->
            LET down == Forward(s, CRT_COLS)
                at   == IF down.pos \div CRT_COLS >= CRT_ROWS THEN Scrup(down)
                        ELSE down
            IN [at EXCEPT !.pos = at.pos - (at.pos % CRT_COLS)]
      [] OTHER ->
            [Forward(s, 1) EXCEPT !.buf = Store(s.buf, s.pos, c),
                                  !.full = s.full \/ s.pos = CRT_ROWS * CRT_COLS - 1]

Puts(s, text) ==
    LET after[i \in 0 .. Len(text)] ==
            IF i = 0 THEN s ELSE CgaPutc(after[i - 1], text[i])
    IN after[Len(text)]

-----------------------------------------------------------------------------
(***************************************************************************)
(* The string in cmd_buffer, and execute_command()'s search: leading       *)
(* spaces are skipped, the first name in the table that the line starts    *)
(* with, up to the end of a word, is run.                                  *)
(***************************************************************************)
Line ==
    LET ends == {i \in 0 .. CMD_BUF_SIZE - 1 : cmd_buffer[i] = "nul"}
        n    == IF ends = {} THEN CMD_BUF_SIZE
                ELSE CHOOSE i \in ends : \A j \in ends : i <= j
    IN [i \in 1 .. n |-> cmd_buffer[i - 1]]

SkipSpaces(line) ==
    LET i == SelectInSeq(line, LAMBDA c : c # Blank)
    IN IF i = 0 THEN <<>> ELSE SubSeq(line, i, Len(line))

(* Mutant: the end of the word is not tested. *)
MatchesPrefix(cmd, name) == IsPrefix(name, cmd)

Matches(cmd, name) ==
    /\ IsPrefix(name, cmd)
    /\ Len(cmd) = Len(name) \/ cmd[Len(name) + 1] = Blank

Dispatch(line) ==
    LET cmd == SkipSpaces(line)
    IN IF cmd = <<>> THEN 0
       ELSE SelectInSeq(commands, LAMBDA name : Matches(cmd, name))

(***************************************************************************)
(* What is printed: nothing for an empty line, CRT_ROWS newlines by clear, *)
(* a line of text by another command, two lines for an unknown one, of     *)
(* which the first repeats it.  "text" is a text of the kernel's.          *)
(***************************************************************************)
Output(line) ==
    LET i == Dispatch(line)
    IN IF SkipSpaces(line) = <<>> THEN <<>>
       ELSE IF i = 0 THEN <<"text">> \o SkipSpaces(line) \o <<"NL", "text", "NL">>
       ELSE IF i = Clear THEN [j \in 1 .. CRT_ROWS |-> "NL"]
       ELSE <<"text", "NL">>

-----------------------------------------------------------------------------
(***************************************************************************)
(* After shell_init() and init's first prompt, on any row of an otherwise  *)
(* blank screen (cga_init() takes the cursor over from the BIOS).          *)
(***************************************************************************)
Init ==
    /\ cmd_buffer = [i \in 0 .. CMD_BUF_SIZE - 1 |-> "nul"]
    /\ cmd_pos = 0
    /\ \E row \in 0 .. CRT_ROWS - 1 :
          crt = Puts([buf |-> [i \in Visible |-> Blank], pos |-> row * CRT_COLS,
                      full |-> FALSE, over |-> FALSE], Prompt)
    /\ handlers = <<>>
    /\ ran = [line |-> <<>>, cmd |-> 0]
    /\ typed = <<>>
    /\ keys = 0

Top == handlers[Len(handlers)]

At(kind, pc) == handlers # <<>> /\ Top.key \in kind /\ Top.pc = pc

Advance(pc) == handlers' = [handlers EXCEPT ![Len(handlers)] = [Top EXCEPT !.pc = pc]]

Return == handlers' = Front(handlers)

(***************************************************************************)
(* What the user means by a key.                                           *)
(***************************************************************************)
Edit(line, k) ==
    IF k \in Chars /\ Len(line) < CMD_BUF_SIZE - 1 THEN Append(line, k)
    ELSE IF k = "BS" /\ line # <<>> THEN Front(line)
    ELSE line

(***************************************************************************)
(* irq_kbd(): a key that kdb_getc() maps to a character enters             *)
(* shell_handle_char(); a release or an unmapped key ends here.            *)
(***************************************************************************)
KeyPress(k) ==
    /\ keys < MaxKeys /\ Len(handlers) < MaxNest
    /\ keys' = keys + 1
    /\ handlers' = Append(handlers, [key |-> k, pc |-> "test"])
    /\ typed' = Edit(typed, k)
    /\ UNCHANGED <<cmd_buffer, cmd_pos, crt, ran>>

(* Mutant: the last place, which the terminator needs, is used too. *)
CharTestLast ==
    /\ At(Chars \cup {"esc"}, "test")
    /\ IF cmd_pos < CMD_BUF_SIZE /\ Top.key # "esc"
       THEN Advance("store") ELSE Return
    /\ UNCHANGED <<cmd_buffer, cmd_pos, crt, ran, typed, keys>>

(***************************************************************************)
(* The default case: test, store and advance, echo.  A store outside the   *)
(* buffer hits whatever lies there.                                        *)
(***************************************************************************)
CharTest ==
    /\ At(Chars \cup {"esc"}, "test")
    /\ IF cmd_pos < CMD_BUF_SIZE - 1 /\ Top.key # "esc"
       THEN Advance("store") ELSE Return
    /\ UNCHANGED <<cmd_buffer, cmd_pos, crt, ran, typed, keys>>

CharStore ==
    /\ At(Chars, "store")
    /\ cmd_buffer' = [i \in DOMAIN cmd_buffer |->
                         IF i = cmd_pos THEN Top.key ELSE cmd_buffer[i]]
    /\ cmd_pos' = cmd_pos + 1
    /\ Advance("echo")
    /\ UNCHANGED <<crt, ran, typed, keys>>

CharEcho ==
    /\ At(Chars, "echo")
    /\ crt' = CgaPutc(crt, Top.key)
    /\ Return
    /\ UNCHANGED <<cmd_buffer, cmd_pos, ran, typed, keys>>

(***************************************************************************)
(* Backspace: test, move back, erase.                                      *)
(***************************************************************************)
BackTest ==
    /\ At({"BS"}, "test")
    /\ IF cmd_pos > 0 THEN Advance("back") ELSE Return
    /\ UNCHANGED <<cmd_buffer, cmd_pos, crt, ran, typed, keys>>

(* Mutant: the buffer moves back, the screen does not. *)
BackEraseSilent ==
    /\ At({"BS"}, "erase")
    /\ Return
    /\ UNCHANGED <<cmd_buffer, cmd_pos, crt, ran, typed, keys>>

BackMove ==
    /\ At({"BS"}, "back")
    /\ cmd_pos' = cmd_pos - 1
    /\ Advance("erase")
    /\ UNCHANGED <<cmd_buffer, crt, ran, typed, keys>>

BackErase ==
    /\ At({"BS"}, "erase")
    /\ crt' = CgaPutc(crt, "BS")
    /\ Return
    /\ UNCHANGED <<cmd_buffer, cmd_pos, ran, typed, keys>>

(***************************************************************************)
(* Enter: newline and terminator; the command; a new line and its prompt.  *)
(***************************************************************************)
EnterLine ==
    /\ At({"NL"}, "test")
    /\ crt' = CgaPutc(crt, "NL")
    /\ cmd_buffer' = [i \in DOMAIN cmd_buffer |->
                         IF i = cmd_pos THEN "nul" ELSE cmd_buffer[i]]
    /\ Advance("run")
    /\ UNCHANGED <<cmd_pos, ran, typed, keys>>

EnterRun ==
    /\ At({"NL"}, "run")
    /\ ran' = [line |-> Line, cmd |-> Dispatch(Line)]
    /\ crt' = Puts(crt, Output(Line))
    /\ Advance("done")
    /\ UNCHANGED <<cmd_buffer, cmd_pos, typed, keys>>

EnterDone ==
    /\ At({"NL"}, "done")
    /\ cmd_pos' = 0
    /\ crt' = Puts(crt, Prompt)
    /\ typed' = <<>>
    /\ Return
    /\ UNCHANGED <<cmd_buffer, ran, keys>>

Next ==
    \/ \E k \in Keys : KeyPress(k)
    \/ CharTest \/ CharStore \/ CharEcho
    \/ BackTest \/ BackMove \/ BackErase
    \/ EnterLine \/ EnterRun \/ EnterDone

Spec == Init /\ [][Next]_vars

-----------------------------------------------------------------------------
(***************************************************************************)
(* The next character, or the terminator, goes into the command buffer.    *)
(***************************************************************************)
BufferInBounds == cmd_pos \in 0 .. CMD_BUF_SIZE - 1

(***************************************************************************)
(* Type correctness of the console.                                        *)
(***************************************************************************)
TypeOK ==
    /\ cmd_buffer \in [0 .. CMD_BUF_SIZE - 1 -> Chars \cup {"nul"}]
    /\ BufferInBounds
    /\ DOMAIN crt.buf = Visible /\ crt.pos \in 0 .. PosSize - 1
    /\ \A i \in 1 .. Len(handlers) : handlers[i].key \in Keys
    /\ ran.line \in Seq(Chars) /\ ran.cmd \in 0 .. Len(commands)
    /\ typed \in Seq(Chars) /\ keys \in 0 .. MaxKeys

(***************************************************************************)
(* What the user sees is what will run: between keys, whatever is visible  *)
(* of the cells before the cursor is the prompt and the characters of the  *)
(* command buffer, however the line was edited, wrapped or scrolled.  And  *)
(* all of them are visible, with the cursor, as long as no character was   *)
(* written in the last visible cell, after which cga_putc() does not       *)
(* scroll and the line may be out of sight.                                *)
(***************************************************************************)
EchoFaithful ==
    handlers = <<>> =>
        LET start == crt.pos - cmd_pos
            p     == Len(Prompt)
        IN /\ \A i \in 0 .. cmd_pos - 1 :
                 start + i \in Visible => crt.buf[start + i] = cmd_buffer[i]
           /\ \A i \in 1 .. p :
                 start - p + i - 1 \in Visible =>
                     crt.buf[start - p + i - 1] = Prompt[i]
           /\ ~crt.full => start >= p /\ crt.pos \in Visible

(***************************************************************************)
(* Enter runs the line the user edited, and of the commands whose name is  *)
(* its first words the one with the longest name ("uname -a" is not        *)
(* "uname").                                                               *)
(***************************************************************************)
RunsWhatWasTyped ==
    At({"NL"}, "done") =>
        LET cmd   == SkipSpaces(typed)
            named == {i \in 1 .. Len(commands) :
                         \/ cmd = commands[i]
                         \/ IsPrefix(Append(commands[i], Blank), cmd)}
        IN /\ ran.line = typed
           /\ IF named = {} THEN ran.cmd = 0
              ELSE /\ ran.cmd \in named
                   /\ \A i \in named : Len(commands[i]) <= Len(commands[ran.cmd])

(***************************************************************************)
(* "Clear the screen": after clear nothing but the prompt is visible,      *)
(* wherever the cursor was, on the screen or off it, until crt_pos has     *)
(* overflowed and the cursor is back among what was written before.        *)
(***************************************************************************)
ClearLeavesPrompt ==
    (handlers = <<>> /\ cmd_pos = 0 /\ ran.cmd = Clear /\ ~crt.over) =>
        \A i \in Visible \ (crt.pos - Len(Prompt) .. crt.pos - 1) :
            crt.buf[i] = Blank
=============================================================================
