--------------------------- MODULE ConsoleProofs ---------------------------
(***************************************************************************)
(* Theorems about Console, for keys that do not interrupt the handler of   *)
(* another key (MaxNest = 1): any screen, buffer, prompt and table of      *)
(* commands.  With nested keys the buffer overflows, as the run of         *)
(* MCConsoleNested shows.                                                  *)
(***************************************************************************)
EXTENDS Console, SequenceTheorems, NaturalsInduction, WellFoundedInduction, TLAPS

-----------------------------------------------------------------------------
(***************************************************************************)
(* The inductive invariant.  Phase is where the handler of a key stands,   *)
(* and Editing holds between the prompt and the next Enter.                *)
(***************************************************************************)
Glyphs == Chars \cup {"text"} \cup {Prompt[i] : i \in 1 .. Len(Prompt)}

Screens == [buf : [Visible -> Glyphs], pos : 0 .. PosSize - 1,
            full : BOOLEAN, over : BOOLEAN]

Phases == {"test", "store", "echo", "back", "erase", "run", "done"}

Phase == IF handlers = <<>> THEN "idle" ELSE handlers[1].pc

Key == handlers[1].key

Editing == Phase \notin {"run", "done"}

TypeInv ==
    /\ cmd_buffer \in [0 .. CMD_BUF_SIZE - 1 -> Chars \cup {"nul"}]
    /\ cmd_pos \in 0 .. CMD_BUF_SIZE - 1
    /\ crt \in Screens
    /\ handlers \in Seq([key : Keys, pc : Phases]) /\ Len(handlers) <= 1
    /\ ran.line \in Seq(Chars) /\ ran.cmd \in 0 .. Len(commands)
    /\ typed \in Seq(Chars) /\ keys \in 0 .. MaxKeys

(***************************************************************************)
(* EditInv: the buffer holds the line the user means, but for the key that *)
(* is being handled.                                                       *)
(***************************************************************************)
Spells(line, n) == Len(line) = n /\ \A i \in 1 .. n : line[i] = cmd_buffer[i - 1]

EditInv ==
    /\ \A i \in 0 .. cmd_pos - 1 : cmd_buffer[i] \in Chars
    /\ Phase \in {"idle", "echo", "erase", "run", "done"} => Spells(typed, cmd_pos)
    /\ Phase = "test" =>
          \E line \in Seq(Chars) : Spells(line, cmd_pos) /\ typed = Edit(line, Key)
    /\ Phase = "store" =>
          /\ Key \in Chars /\ cmd_pos < CMD_BUF_SIZE - 1
          /\ Len(typed) = cmd_pos + 1 /\ typed[cmd_pos + 1] = Key
          /\ \A i \in 1 .. cmd_pos : typed[i] = cmd_buffer[i - 1]
    /\ Phase = "echo" => cmd_pos > 0 /\ cmd_buffer[cmd_pos - 1] = Key /\ Key \in Chars
    /\ Phase = "back" => cmd_pos > 0 /\ Spells(typed, cmd_pos - 1)
    /\ Phase = "erase" => cmd_pos < CMD_BUF_SIZE - 1
    /\ Phase = "run" => cmd_buffer[cmd_pos] = "nul"
    /\ Phase = "done" => ran.line = typed /\ ran.cmd = Dispatch(typed)

(***************************************************************************)
(* EchoInv: of the cells before the cursor those that are visible show the *)
(* end of the prompt and of the characters echoed so far, and all of them  *)
(* are on the screen unless a character was written in its last cell.      *)
(***************************************************************************)
Shown == CASE Phase = "echo"  -> cmd_pos - 1
           [] Phase = "erase" -> cmd_pos + 1
           [] OTHER           -> cmd_pos

Echo(buffer) ==
    [i \in 1 .. Len(Prompt) + CMD_BUF_SIZE |->
        IF i <= Len(Prompt) THEN Prompt[i] ELSE buffer[i - Len(Prompt) - 1]]

Before(s, text, k) ==
    \A i \in 1 .. k : s.pos - k + i - 1 \in Visible => s.buf[s.pos - k + i - 1] = text[i]

EchoInv ==
    Editing => /\ Before(crt, Echo(cmd_buffer), Len(Prompt) + Shown)
               /\ ~crt.full => crt.pos >= Len(Prompt) + Shown

(***************************************************************************)
(* PosInv: the cursor stands at the beginning of a row, visible or not,    *)
(* while a command runs.                                                   *)
(***************************************************************************)
AtRow(s, r) == r \in Nat /\ s.pos = r * CRT_COLS

PosInv == ~Editing => \E r : AtRow(crt, r)

(***************************************************************************)
(* BlankInv: a screen is Good when its cursor left it only over the last   *)
(* cell, and, until crt_pos overflowed, nothing is visible behind the      *)
(* cursor.  Then after clear nothing is visible before the prompt either.  *)
(***************************************************************************)
Behind(s) == \A i \in Visible : i >= s.pos => s.buf[i] = Blank

Good(s) ==
    /\ s.over => s.full
    /\ ~s.full => s.pos \in Visible
    /\ ~s.over => Behind(s)

BlankInv ==
    /\ Good(crt)
    /\ ran.cmd = Clear /\ Phase = "done" /\ ~crt.over =>
          \A i \in Visible : crt.buf[i] = Blank
    /\ ran.cmd = Clear /\ Editing /\ ~crt.over =>
          \A i \in Visible : i < crt.pos - (Len(Prompt) + Shown) => crt.buf[i] = Blank

IInv == TypeInv /\ EditInv /\ EchoInv /\ PosInv /\ BlankInv

-----------------------------------------------------------------------------
(***************************************************************************)
(* A set of naturals that is not empty has a least element.                *)
(***************************************************************************)
LEMMA NatMin ==
    ASSUME NEW T \in SUBSET Nat, T # {}
    PROVE  \E x \in T : \A y \in T : x <= y
<1> DEFINE R == OpToRel(<, Nat)
<1>1. IsWellFoundedOn(R, Nat)
  BY NatLessThanWellFounded
<1>2. \A x, y \in Nat : <<x, y>> \in R <=> x < y
  BY DEF OpToRel
<1> HIDE DEF R
<1>3. PICK x \in T : \A y \in T : ~(<<y, x>> \in R)
  BY <1>1, WFMin
<1>4. \A y \in T : x \in Nat /\ y \in Nat /\ ~(y < x)
  BY <1>2, <1>3
<1> QED
  BY <1>4

(***************************************************************************)
(* Induction up to n, for a set instead of a predicate.                    *)
(***************************************************************************)
LEMMA UpTo ==
    ASSUME NEW n \in Nat, NEW D, 0 \in D, \A k \in 0 .. n - 1 : k \in D => k + 1 \in D
    PROVE  \A k \in 0 .. n : k \in D
<1> DEFINE T == {k \in 0 .. n : k \notin D}
<1>1. ASSUME T # {} PROVE FALSE
  <2>1. T \in SUBSET Nat
    OBVIOUS
  <2> HIDE DEF T
  <2>2. PICK k \in T : \A j \in T : k <= j
    BY <1>1, <2>1, NatMin
  <2>3. k \in 0 .. n /\ k \notin D /\ \A j \in 0 .. n : j \notin D => k <= j
    BY <2>2 DEF T
  <2>4. k - 1 \in 0 .. n - 1 /\ (k - 1) + 1 = k /\ k - 1 \in D
    <3>1. k # 0
      BY <2>3
    <3> QED
      BY <2>3, <3>1
  <2> QED
    BY <2>3, <2>4
<1> QED
  BY <1>1

(***************************************************************************)
(* Quotient and remainder are what they are written as.                    *)
(***************************************************************************)
LEMMA Quotient ==
    ASSUME NEW b \in Nat \ {0}, NEW q \in Int, NEW r \in 0 .. b - 1, NEW a \in Int,
           a = q * b + r
    PROVE  a \div b = q /\ a % b = r
<1>1. PICK d \in Int, e \in 0 .. b - 1 : d = a \div b /\ e = a % b /\ a = b * d + e
  OBVIOUS
<1>2. PICK m \in Int : m = q - d
  OBVIOUS
<1>3. m * b = q * b - d * b
  BY <1>2
<1>4. m * b = e - r
  BY <1>1, <1>3
<1>5. CASE m >= 1
  <2>1. m * b >= b
    BY <1>5
  <2> QED
    BY <1>4, <2>1
<1>6. CASE m <= -1
  <2>1. m * b <= -b
    BY <1>6
  <2> QED
    BY <1>4, <2>1
<1>7. CASE m = 0
  BY <1>1, <1>2, <1>4, <1>7
<1> QED
  BY <1>5, <1>6, <1>7

(***************************************************************************)
(* A remainder has no quotient.                                            *)
(***************************************************************************)
LEMMA Remainder ==
    ASSUME NEW b \in Nat \ {0}, NEW r \in 0 .. b - 1
    PROVE  r \div b = 0 /\ r % b = r
<1>1. 0 \in Int /\ r \in Int /\ r = 0 * b + r
  OBVIOUS
<1> QED
  BY <1>1, Quotient

(***************************************************************************)
(* What the proofs use of the constants.  Blank is kept abstract.          *)
(***************************************************************************)
LEMMA ConstantFacts ==
    /\ CMD_BUF_SIZE \in Nat /\ CMD_BUF_SIZE > 1
    /\ CRT_ROWS \in Nat /\ CRT_ROWS > 1 /\ CRT_COLS \in Nat /\ CRT_COLS > 1
    /\ PosSize \in Nat
    /\ Blank \in Chars /\ Blank \in Glyphs /\ "NL" \notin Glyphs /\ "BS" \notin Glyphs
    /\ "NL" \notin Chars /\ "BS" \notin Chars /\ "esc" \notin Chars /\ "nul" \notin Chars
    /\ Len(Prompt) \in Nat
    /\ \A i \in 1 .. Len(Prompt) :
          Prompt[i] \in Glyphs /\ Prompt[i] # "NL" /\ Prompt[i] # "BS"
    /\ Len(commands) \in Nat /\ Clear \in 1 .. Len(commands)
<1>1. Prompt \in Seq(STRING \ {"NL", "BS"})
  BY ConsoleAssumption
<1>2. \A i \in 1 .. Len(Prompt) : Prompt[i] \in STRING \ {"NL", "BS"}
  BY <1>1
<1>3. Len(commands) \in Nat
  BY TableAssumption
<1> QED
  BY <1>1, <1>2, <1>3, ConsoleAssumption, TableAssumption DEF Glyphs

(***************************************************************************)
(* How many cells are visible.                                             *)
(***************************************************************************)
LEMMA CellFacts ==
    /\ CRT_ROWS * CRT_COLS \in Nat /\ (CRT_ROWS - 1) * CRT_COLS \in Nat
    /\ CRT_ROWS * CRT_COLS = (CRT_ROWS - 1) * CRT_COLS + CRT_COLS
    /\ CRT_ROWS * CRT_COLS + CRT_COLS <= PosSize
    /\ \A i : i \in Visible <=> i \in Nat /\ i < CRT_ROWS * CRT_COLS
<1>1. PICK r \in Nat, c \in Nat : r = CRT_ROWS /\ c = CRT_COLS /\ r > 1 /\ c > 1
  BY ConstantFacts
<1>2. r * c \in Nat /\ (r - 1) * c \in Nat
  BY <1>1
<1>3. r * c = (r - 1) * c + c /\ (r + 1) * c = r * c + c
  OBVIOUS
<1>4. PosSize \in Nat /\ PosSize >= (r + 1) * c
  BY <1>1, ConsoleAssumption
<1>5. r * c + c <= PosSize
  BY <1>2, <1>3, <1>4
<1> QED
  BY <1>1, <1>2, <1>3, <1>5 DEF Visible

(***************************************************************************)
(* Every place is in some row and column.                                  *)
(***************************************************************************)
LEMMA RowAndColumn ==
    ASSUME NEW x \in Nat
    PROVE  \E r \in Nat, c \in 0 .. CRT_COLS - 1 : x = r * CRT_COLS + c
<1>1. PICK w \in Nat \ {0} : w = CRT_COLS
  BY ConstantFacts
<1>2. PICK r \in Int, c \in 0 .. w - 1 : r = x \div w /\ c = x % w /\ x = w * r + c
  OBVIOUS
<1>3. w * r = r * w /\ r * w \in Int
  OBVIOUS
<1>4. r >= 0
  <2>1. ASSUME r <= -1 PROVE FALSE
    <3>1. r * w <= -w
      BY <2>1
    <3> QED
      BY <1>2, <1>3, <3>1
  <2> QED
    BY <2>1
<1>5. r \in Nat /\ c \in 0 .. CRT_COLS - 1 /\ x = r * CRT_COLS + c
  BY <1>1, <1>2, <1>3, <1>4
<1> QED
  BY <1>5, Zenon

-----------------------------------------------------------------------------
(***************************************************************************)
(* A screen is its four fields.                                            *)
(***************************************************************************)
Screen(b, x, f, o) == [buf |-> b, pos |-> x, full |-> f, over |-> o]

(***************************************************************************)
(* What is in a screen.                                                    *)
(***************************************************************************)
LEMMA ScreenFacts ==
    ASSUME NEW s \in Screens
    PROVE  /\ s = Screen(s.buf, s.pos, s.full, s.over)
           /\ s.buf \in [Visible -> Glyphs] /\ s.pos \in Nat /\ s.pos < PosSize
           /\ s.full \in BOOLEAN /\ s.over \in BOOLEAN
  BY ConstantFacts DEF Screens, Screen

(***************************************************************************)
(* crt_pos += n, for a step of at most PosSize.                            *)
(***************************************************************************)
LEMMA Stepped ==
    ASSUME NEW x \in Nat, x < PosSize, NEW n \in Nat, n <= PosSize
    PROVE  /\ x + n < PosSize => (x + n) % PosSize = x + n
           /\ x + n >= PosSize => (x + n) % PosSize = x + n - PosSize
           /\ (x + n) % PosSize \in 0 .. PosSize - 1
<1>1. PICK z \in Nat \ {0}, a \in Int : z = PosSize /\ a = x + n
  BY ConstantFacts
<1>2. CASE a < z
  <2>1. a \in 0 .. z - 1
    BY <1>1, <1>2
  <2>2. a % z = a
    BY <2>1, Remainder
  <2> QED
    BY <1>1, <1>2, <2>1, <2>2
<1>3. CASE a >= z
  <2>1. PICK b \in Int : b = a - z
    OBVIOUS
  <2>2. 1 \in Int /\ b \in 0 .. z - 1 /\ a = 1 * z + b
    BY <1>1, <1>3, <2>1
  <2>3. a % z = b
    BY <2>2, Quotient
  <2> QED
    BY <1>1, <1>3, <2>1, <2>2, <2>3
<1> QED
  BY <1>1, <1>2, <1>3

(***************************************************************************)
(* Forward() changes the cursor and its mark.                              *)
(***************************************************************************)
LEMMA ForwardIs ==
    ASSUME NEW s \in Screens, NEW n, NEW g, g = (s.over \/ s.pos + n >= PosSize)
    PROVE  Forward(s, n) = Screen(s.buf, (s.pos + n) % PosSize, s.full, g)
<1>1. PICK y : y = (s.pos + n) % PosSize
  OBVIOUS
<1>2. PICK u : u = [s EXCEPT !.pos = y, !.over = g]
  OBVIOUS
<1>3. Forward(s, n) = u
  BY <1>1, <1>2, Zenon DEF Forward
<1> DEFINE R == [buf : {s.buf}, pos : {s.pos, y}, full : {s.full}, over : {s.over, g}]
<1>4. s \in R
  BY DEF Screens
<1>5. u \in R /\ u.buf = s.buf /\ u.pos = y /\ u.full = s.full /\ u.over = g
  BY <1>2, <1>4
<1>6. u = Screen(u.buf, u.pos, u.full, u.over)
  BY <1>5 DEF Screen
<1> QED
  BY <1>1, <1>3, <1>5, <1>6

(***************************************************************************)
(* cga_putc() of a character: it appears at the cursor, which moves on.    *)
(***************************************************************************)
LEMMA PutChar ==
    ASSUME NEW s \in Screens, NEW c \in Glyphs, c # "NL", c # "BS",
           NEW t, t = CgaPutc(s, c)
    PROVE  /\ t \in Screens
           /\ s.pos + 1 < PosSize => t.pos = s.pos + 1 /\ t.over = s.over
           /\ s.pos + 1 >= PosSize => t.pos = 0 /\ t.over
           /\ t.full <=> s.full \/ s.pos = CRT_ROWS * CRT_COLS - 1
           /\ \A i \in Visible : t.buf[i] = IF i = s.pos THEN c ELSE s.buf[i]
<1>1. PICK b \in [Visible -> Glyphs], x \in Nat, f \in BOOLEAN, o \in BOOLEAN :
         /\ b = s.buf /\ x = s.pos /\ f = s.full /\ o = s.over
         /\ x < PosSize /\ s = Screen(b, x, f, o)
  BY ScreenFacts
<1>2. PosSize \in Nat /\ 1 <= PosSize /\ 1 \in Nat
  BY <1>1, ConstantFacts
<1>3. CgaPutc(s, c) = [Forward(s, 1) EXCEPT !.buf = Store(s.buf, s.pos, c),
                                            !.full = s.full \/ s.pos = CRT_ROWS * CRT_COLS - 1]
  BY DEF CgaPutc
<1>0. PICK g \in BOOLEAN, h \in BOOLEAN :
         g = (o \/ x + 1 >= PosSize) /\ h = (f \/ x = CRT_ROWS * CRT_COLS - 1)
  OBVIOUS
<1>4. Forward(s, 1) = Screen(b, (x + 1) % PosSize, f, g)
  BY <1>0, <1>1, ForwardIs
<1>5. t = Screen(Store(b, x, c), (x + 1) % PosSize, h, g)
  <2>1. CgaPutc(s, c) = [Forward(s, 1) EXCEPT !.buf = Store(b, x, c), !.full = h]
    BY <1>0, <1>1, <1>3, Zenon
  <2>2. PICK y, d : y = (x + 1) % PosSize /\ d = Store(b, x, c)
    OBVIOUS
  <2>3. PICK w : w = Forward(s, 1)
    OBVIOUS
  <2>4. t = [w EXCEPT !.buf = d, !.full = h]
    BY <2>1, <2>2, <2>3, Zenon
  <2> DEFINE R == [buf : {b, d}, pos : {y}, full : {f, h}, over : {g}]
  <2>5. w \in R /\ w.pos = y /\ w.over = g
    BY <1>4, <2>2, <2>3 DEF Screen
  <2>6. t \in R /\ t.buf = d /\ t.pos = y /\ t.full = h /\ t.over = g
    BY <2>4, <2>5
  <2>7. t = Screen(t.buf, t.pos, t.full, t.over)
    BY <2>6 DEF Screen
  <2> QED
    BY <2>2, <2>6, <2>7
<1>6. /\ x + 1 < PosSize => (x + 1) % PosSize = x + 1
      /\ x + 1 >= PosSize => (x + 1) % PosSize = x + 1 - PosSize
      /\ (x + 1) % PosSize \in 0 .. PosSize - 1
  BY <1>1, <1>2, Stepped
<1>7. x + 1 >= PosSize => x + 1 - PosSize = 0
  BY <1>1, <1>2
<1>8. /\ t.buf = Store(b, x, c) /\ t.pos = (x + 1) % PosSize
      /\ t.full = h /\ t.over = g
  BY <1>5 DEF Screen
<1>9. Store(b, x, c) \in [Visible -> Glyphs]
  BY DEF Store
<1>10. \A i \in Visible : t.buf[i] = IF i = x THEN c ELSE b[i]
  BY <1>8 DEF Store
<1>11. t \in Screens
  BY <1>5, <1>6, <1>9 DEF Screens, Screen
<1>12. x + 1 < PosSize => t.pos = x + 1 /\ t.over = o
  BY <1>0, <1>1, <1>2, <1>6, <1>8
<1>13. x + 1 >= PosSize => t.pos = 0 /\ t.over
  BY <1>0, <1>6, <1>7, <1>8
<1>14. t.full <=> f \/ x = CRT_ROWS * CRT_COLS - 1
  BY <1>0, <1>8
<1> QED
  BY <1>1, <1>10, <1>11, <1>12, <1>13, <1>14

(***************************************************************************)
(* It keeps a good screen good.                                            *)
(***************************************************************************)
LEMMA PutCharGood ==
    ASSUME NEW s \in Screens, NEW c \in Glyphs, c # "NL", c # "BS",
           NEW t, t = CgaPutc(s, c), Good(s)
    PROVE  t \in Screens /\ Good(t) /\ (s.over => t.over)
<1>1. PICK x \in Nat, w \in Nat, z \in Nat, d \in Nat :
         /\ x = s.pos /\ w = CRT_ROWS * CRT_COLS /\ z = PosSize /\ d = CRT_COLS
         /\ x < z /\ w + d <= z /\ d > 1
         /\ \A i : i \in Visible <=> i \in Nat /\ i < w
  BY ScreenFacts, CellFacts, ConstantFacts
<1>2. /\ t \in Screens
      /\ x + 1 < z => t.pos = x + 1 /\ t.over = s.over
      /\ x + 1 >= z => t.pos = 0 /\ t.over
      /\ t.full <=> s.full \/ x = w - 1
      /\ \A i \in Visible : t.buf[i] = IF i = x THEN c ELSE s.buf[i]
  <2>1. /\ t \in Screens
        /\ s.pos + 1 < PosSize => t.pos = s.pos + 1 /\ t.over = s.over
        /\ s.pos + 1 >= PosSize => t.pos = 0 /\ t.over
        /\ t.full <=> s.full \/ s.pos = CRT_ROWS * CRT_COLS - 1
        /\ \A i \in Visible : t.buf[i] = IF i = s.pos THEN c ELSE s.buf[i]
    BY PutChar
  <2> QED
    BY <1>1, <2>1
<1>3. (s.over => s.full) /\ (~s.full => x < w) /\ (~s.over => Behind(s))
  BY <1>1 DEF Good
<1>4. CASE x + 1 < z
  <2>1. ~t.full => x + 1 < w
    BY <1>1, <1>2, <1>3
  <2>2. ~t.over => Behind(t)
    <3>1. \A i \in Visible : i >= x + 1 => i >= x /\ i # x
      BY <1>1
    <3> QED
      BY <1>1, <1>2, <1>3, <1>4, <3>1 DEF Behind
  <2> QED
    BY <1>1, <1>2, <1>3, <1>4, <2>1, <2>2 DEF Good
<1>5. CASE x + 1 >= z
  <2>1. ~(x < w)
    BY <1>1, <1>5
  <2>2. t.over /\ t.full
    BY <1>2, <1>3, <1>5, <2>1
  <2> QED
    BY <1>2, <2>2 DEF Good
<1> QED
  BY <1>1, <1>4, <1>5

(***************************************************************************)
(* cga_putc() of a backspace: nothing in the first cell, else the cell     *)
(* before the cursor is erased.                                            *)
(***************************************************************************)
LEMMA PutBack ==
    ASSUME NEW s \in Screens, NEW t, t = CgaPutc(s, "BS"), Good(s)
    PROVE  /\ t \in Screens /\ Good(t)
           /\ t.full = s.full /\ t.over = s.over
           /\ s.pos = 0 => t = s
           /\ s.pos > 0 =>
                 /\ t.pos = s.pos - 1
                 /\ \A i \in Visible : t.buf[i] = IF i = s.pos - 1 THEN Blank ELSE s.buf[i]
<1>1. PICK b \in [Visible -> Glyphs], x \in Nat, f \in BOOLEAN, o \in BOOLEAN :
         /\ b = s.buf /\ x = s.pos /\ f = s.full /\ o = s.over
         /\ x < PosSize /\ s = Screen(b, x, f, o)
  BY ScreenFacts
<1>2. CASE x = 0
  <2>1. t = s
    BY <1>1, <1>2 DEF CgaPutc
  <2> QED
    BY <1>1, <1>2, <2>1
<1>3. CASE x > 0
  <2>1. CgaPutc(s, "BS") =
           [s EXCEPT !.pos = s.pos - 1, !.buf = Store(s.buf, s.pos - 1, Blank)]
    BY <1>1, <1>3 DEF CgaPutc
  <2>2. t = Screen(Store(b, x - 1, Blank), x - 1, f, o)
    BY <1>1, <2>1 DEF Screen
  <2>3. Store(b, x - 1, Blank) \in [Visible -> Glyphs]
    BY ConstantFacts DEF Store
  <2>4. x - 1 \in 0 .. PosSize - 1
    BY <1>1, <1>3, ConstantFacts
  <2>5. t \in Screens
    BY <2>2, <2>3, <2>4 DEF Screens, Screen
  <2>6. /\ t.buf = Store(b, x - 1, Blank) /\ t.pos = x - 1 /\ t.full = f /\ t.over = o
    BY <2>2 DEF Screen
  <2>7. \A i \in Visible : t.buf[i] = IF i = x - 1 THEN Blank ELSE b[i]
    BY <2>6 DEF Store
  <2>8. Good(t)
    <3>1. (o => f) /\ (~f => x \in Visible) /\ (~o => Behind(s))
      BY <1>1 DEF Good
    <3>2. x \in Visible => x - 1 \in Visible
      BY <1>3, CellFacts
    <3>3. \A i \in Visible : i >= x - 1 => i = x - 1 \/ i >= x
      BY <1>1, CellFacts
    <3>4. ~o => Behind(t)
      BY <1>1, <2>6, <2>7, <3>1, <3>3 DEF Behind
    <3> QED
      BY <2>6, <3>1, <3>2, <3>4 DEF Good
  <2> QED
    BY <1>1, <1>3, <2>5, <2>6, <2>7, <2>8
<1> QED
  BY <1>1, <1>2, <1>3

(***************************************************************************)
(* The cells after the rows have moved up.                                 *)
(***************************************************************************)
Scrolled(b) ==
    [i \in Visible |-> IF i < (CRT_ROWS - 1) * CRT_COLS THEN b[i + CRT_COLS] ELSE Blank]

(***************************************************************************)
(* Scrolling gives the cells of a screen.                                  *)
(***************************************************************************)
LEMMA ScrolledType ==
    ASSUME NEW b \in [Visible -> Glyphs]
    PROVE  Scrolled(b) \in [Visible -> Glyphs]
<1>1. ASSUME NEW i \in Visible, i < (CRT_ROWS - 1) * CRT_COLS PROVE i + CRT_COLS \in Visible
  BY <1>1, CellFacts, ConstantFacts
<1> QED
  BY <1>1, ConstantFacts DEF Scrolled

(***************************************************************************)
(* cga_putc() of a newline in row r, at any column: crt_pos overflows, or  *)
(* the cursor moves down, or what is visible moves up.                     *)
(***************************************************************************)
LEMMA Newline ==
    ASSUME NEW s \in Screens, NEW r \in Nat, NEW c \in 0 .. CRT_COLS - 1,
           s.pos = r * CRT_COLS + c, NEW t, t = CgaPutc(s, "NL")
    PROVE  /\ t \in Screens /\ t.full = s.full
           /\ s.pos + CRT_COLS >= PosSize => t.pos = 0 /\ t.over
           /\ s.pos + CRT_COLS < PosSize /\ r + 1 < CRT_ROWS =>
                 t.pos = (r + 1) * CRT_COLS /\ t.buf = s.buf /\ t.over = s.over
           /\ s.pos + CRT_COLS < PosSize /\ r + 1 >= CRT_ROWS =>
                 t.pos = r * CRT_COLS /\ t.buf = Scrolled(s.buf) /\ t.over = s.over
<1>1. PICK b \in [Visible -> Glyphs], x \in Nat, f \in BOOLEAN, o \in BOOLEAN :
         /\ b = s.buf /\ x = s.pos /\ f = s.full /\ o = s.over
         /\ x < PosSize /\ s = Screen(b, x, f, o)
  BY ScreenFacts
<1>2. PICK n \in Nat \ {0}, z \in Nat, m \in Nat :
         /\ n = CRT_COLS /\ z = PosSize /\ m = CRT_ROWS
         /\ n > 1 /\ m > 1 /\ n <= z
  <2>1. CRT_COLS <= PosSize
    BY CellFacts, ConstantFacts
  <2> QED
    BY <2>1, ConstantFacts
<1>3. PICK y \in Nat, k \in Nat : y = r * n /\ k = (r + 1) * n /\ k = y + n /\ x = y + c
  <2>1. r * n \in Nat /\ (r + 1) * n \in Nat /\ (r + 1) * n = r * n + n
    OBVIOUS
  <2> QED
    BY <1>1, <1>2, <2>1
<1>4. PICK g \in BOOLEAN : g = (o \/ x + n >= z)
  OBVIOUS
<1>5. PICK w \in Nat : w = (x + n) % z
  <2>1. n \in Nat /\ n <= PosSize /\ x < PosSize
    BY <1>1, <1>2
  <2>2. (x + n) % PosSize \in 0 .. PosSize - 1
    BY <2>1, Stepped
  <2>3. (x + n) % PosSize \in Nat
    BY <2>2
  <2>4. PosSize = z
    BY <1>2
  <2> QED
    BY <2>3, <2>4, Zenon
<1> PICK down : down = Screen(b, w, f, g)
  OBVIOUS
<1>6. Forward(s, CRT_COLS) = down
  <2>1. Forward(s, n) = Screen(s.buf, (s.pos + n) % PosSize, s.full, g)
    <3>1. g = (s.over \/ s.pos + n >= PosSize)
      BY <1>1, <1>2, <1>4, Zenon
    <3> QED
      BY <3>1, ForwardIs
  <2> QED
    BY <1>1, <1>2, <1>5, <2>1
<1>7. down.buf = b /\ down.pos = w /\ down.full = f /\ down.over = g
  BY <1>5 DEF Screen
<1>8. PICK at : at = IF w \div n >= m THEN Scrup(down) ELSE down
  OBVIOUS
<1>9. t = [at EXCEPT !.pos = at.pos - (at.pos % n)]
  <2>1. CgaPutc(s, "NL") =
           LET d == Forward(s, CRT_COLS)
               a == IF d.pos \div CRT_COLS >= CRT_ROWS THEN Scrup(d) ELSE d
           IN [a EXCEPT !.pos = a.pos - (a.pos % CRT_COLS)]
    BY DEF CgaPutc
  <2>2. t = LET a == IF down.pos \div n >= m THEN Scrup(down) ELSE down
            IN [a EXCEPT !.pos = a.pos - (a.pos % n)]
    BY <1>2, <1>6, <2>1
  <2> QED
    BY <1>7, <1>8, <2>2
<1>10. ASSUME NEW d, NEW e, NEW v, at = Screen(d, e, f, g), v = e - (e % n)
       PROVE  t = Screen(d, v, f, g)
  <2> DEFINE R == [buf : {d}, pos : {e, v}, full : {f}, over : {g}]
  <2>1. at \in R /\ at.pos = e
    BY <1>10 DEF Screen
  <2>2. t = [at EXCEPT !.pos = v]
    BY <1>9, <1>10, <2>1
  <2>3. t \in R /\ t.buf = d /\ t.pos = v /\ t.full = f /\ t.over = g
    BY <2>1, <2>2
  <2>4. t = Screen(t.buf, t.pos, t.full, t.over)
    BY <2>3 DEF Screen
  <2> QED
    BY <2>3, <2>4
<1>11. ASSUME NEW d \in [Visible -> Glyphs], NEW v \in 0 .. PosSize - 1, t = Screen(d, v, f, g)
       PROVE  t \in Screens /\ t.buf = d /\ t.pos = v /\ t.full = f /\ t.over = g
  BY <1>11 DEF Screens, Screen
<1>12. CASE x + n >= z
  <2>1. w = x + n - z /\ w < n /\ w \in Int
    <3>1. /\ x + n < PosSize => (x + n) % PosSize = x + n
          /\ x + n >= PosSize => (x + n) % PosSize = x + n - PosSize
          /\ (x + n) % PosSize \in 0 .. PosSize - 1
      BY <1>1, <1>2, Stepped
    <3>2. w = x + n - z
      BY <1>2, <1>5, <1>12, <3>1
    <3> QED
      BY <1>1, <1>2, <3>2
  <2>2. w \div n = 0 /\ w % n = w
    <3>1. w \in 0 .. n - 1
      BY <1>2, <2>1
    <3> QED
      BY <3>1, Remainder
  <2>3. at = Screen(b, w, f, g)
    BY <1>2, <1>5, <1>8, <2>2
  <2>4. t = Screen(b, 0, f, g)
    <3>1. 0 = w - (w % n)
      BY <2>1, <2>2
    <3> QED
      BY <1>10, <2>3, <3>1
  <2>5. t \in Screens /\ t.buf = b /\ t.pos = 0 /\ t.full = f /\ t.over = g
    <3>1. 0 \in 0 .. PosSize - 1
      BY <1>1, <1>2
    <3> QED
      BY <1>11, <2>4, <3>1
  <2>6. ~(s.pos + CRT_COLS < PosSize)
    BY <1>1, <1>2, <1>12
  <2>7. g
    BY <1>4, <1>12, Zenon
  <2> QED
    BY <1>1, <2>5, <2>6, <2>7
<1>13. CASE x + n < z
  <2>1. w = x + n /\ w = k + c /\ g = o /\ w \in Int
    <3>1. /\ x + n < PosSize => (x + n) % PosSize = x + n
          /\ x + n >= PosSize => (x + n) % PosSize = x + n - PosSize
          /\ (x + n) % PosSize \in 0 .. PosSize - 1
      BY <1>1, <1>2, Stepped
    <3>2. w = x + n
      BY <1>2, <1>5, <1>13, <3>1
    <3>3. ~(x + n >= z)
      BY <1>1, <1>2, <1>13
    <3> QED
      BY <1>2, <1>3, <1>4, <3>2, <3>3
  <2>2. w \div n = r + 1 /\ w % n = c
    <3>1. r + 1 \in Int /\ c \in 0 .. n - 1 /\ w = (r + 1) * n + c
      BY <1>2, <1>3, <2>1
    <3>2. PICK q \in Int : q = r + 1
      BY <3>1
    <3>3. w = q * n + c
      BY <3>1, <3>2, Zenon
    <3>4. w \in Int /\ c \in 0 .. n - 1 /\ n \in Nat \ {0}
      BY <2>1, <3>1
    <3>5. w \div n = q /\ w % n = c
      BY <3>3, <3>4, Quotient, Zenon
    <3> QED
      BY <3>2, <3>5
  <2>3. x % n = c
    <3>1. r \in Int /\ x \in Int /\ c \in 0 .. n - 1 /\ x = r * n + c
      BY <1>2, <1>3
    <3>2. n \in Nat \ {0}
      OBVIOUS
    <3> QED
      BY <3>1, <3>2, Quotient, Zenon
  <2>4. CASE r + 1 < m
    <3>1. at = Screen(b, w, f, g)
      BY <1>2, <1>5, <1>8, <2>2, <2>4
    <3>2. t = Screen(b, k, f, g)
      <4>1. k = w - (w % n)
        BY <1>2, <1>3, <2>1, <2>2
      <4> QED
        BY <1>10, <3>1, <4>1
    <3>3. k \in 0 .. PosSize - 1
      BY <1>2, <1>3, <1>13
    <3>4. t \in Screens /\ t.buf = b /\ t.pos = k /\ t.full = f /\ t.over = g
      BY <1>11, <3>2, <3>3
    <3>5. ~(r + 1 >= CRT_ROWS) /\ ~(s.pos + CRT_COLS >= PosSize)
      BY <1>1, <1>2, <1>13, <2>4
    <3> QED
      BY <1>1, <1>2, <1>3, <2>1, <3>4, <3>5
  <2>5. CASE r + 1 >= m
    <3>1. at = Scrup(down)
      BY <1>8, <2>2, <2>5
    <3>2. Scrup(down) = Screen(Scrolled(b), x, f, g)
      <4>1. Scrup(down) = [down EXCEPT !.buf = Scrolled(b), !.pos = down.pos - n]
        BY <1>2, <1>7 DEF Scrup, Scrolled
      <4>2. PICK d, u : d = Scrolled(b) /\ u = Scrup(down)
        OBVIOUS
      <4>3. down.pos - n = x
        BY <1>1, <1>2, <1>7, <2>1
      <4>4. u = [down EXCEPT !.buf = d, !.pos = x]
        BY <4>1, <4>2, <4>3
      <4> DEFINE R == [buf : {b, d}, pos : {w, x}, full : {f}, over : {g}]
      <4>5. down \in R
        BY <1>5 DEF Screen
      <4>6. u \in R /\ u.buf = d /\ u.pos = x /\ u.full = f /\ u.over = g
        BY <1>7, <4>4, <4>5
      <4>7. u = Screen(u.buf, u.pos, u.full, u.over)
        BY <4>6 DEF Screen
      <4> QED
        BY <4>2, <4>6, <4>7
    <3>3. t = Screen(Scrolled(b), y, f, g)
      <4>1. y = x - (x % n)
        <5>1. y = x - c
          BY <1>2, <1>3
        <5> QED
          BY <2>3, <5>1
      <4> QED
        BY <1>10, <3>1, <3>2, <4>1
    <3>4. y \in 0 .. PosSize - 1 /\ Scrolled(b) \in [Visible -> Glyphs]
      BY <1>1, <1>2, <1>3, ScrolledType
    <3>5. t \in Screens /\ t.buf = Scrolled(b) /\ t.pos = y /\ t.full = f /\ t.over = g
      BY <1>11, <3>3, <3>4
    <3>6. ~(r + 1 < CRT_ROWS) /\ ~(s.pos + CRT_COLS >= PosSize)
      BY <1>1, <1>2, <1>13, <2>5
    <3> QED
      BY <1>1, <1>2, <1>3, <2>1, <3>5, <3>6
  <2> QED
    BY <1>2, <2>4, <2>5
<1> QED
  BY <1>1, <1>2, <1>12, <1>13

(***************************************************************************)
(* BlankFrom: nothing is visible from row b on.  Scrolling moves what is   *)
(* blank one row up, and empties the last row.                             *)
(***************************************************************************)
BlankFrom(s, b) == \A i \in Visible : i >= b * CRT_COLS => s.buf[i] = Blank

(***************************************************************************)
(* What is blank after scrolling.                                          *)
(***************************************************************************)
LEMMA ScrolledBlank ==
    ASSUME NEW buf \in [Visible -> Glyphs], NEW b \in Int,
           \A i \in Visible : i >= b * CRT_COLS => buf[i] = Blank
    PROVE  /\ \A i \in Visible : i >= (b - 1) * CRT_COLS => Scrolled(buf)[i] = Blank
           /\ \A i \in Visible : i >= (CRT_ROWS - 1) * CRT_COLS => Scrolled(buf)[i] = Blank
<1>1. PICK w \in Nat, c \in Nat : w = (CRT_ROWS - 1) * CRT_COLS /\ c = CRT_COLS
  BY CellFacts, ConstantFacts
<1>2. /\ \A i \in Visible : i \in Nat /\ i < w + c
      /\ \A i \in Nat : i < w + c => i \in Visible
  BY <1>1, CellFacts, ConstantFacts
<1>3. \A i \in Visible : Scrolled(buf)[i] = IF i < w THEN buf[i + c] ELSE Blank
  BY <1>1, <1>2 DEF Scrolled
<1>4. (b - 1) * c = b * c - c /\ b * c \in Int
  BY <1>1
<1>5. ASSUME NEW i \in Visible, i >= (b - 1) * CRT_COLS PROVE Scrolled(buf)[i] = Blank
  <2>1. CASE i < w
    <3>1. i + c \in Visible /\ i + c >= b * CRT_COLS
      BY <1>1, <1>2, <1>4, <1>5, <2>1
    <3> QED
      BY <1>3, <2>1, <3>1
  <2>2. CASE ~(i < w)
    BY <1>3, <2>2
  <2> QED
    BY <2>1, <2>2
<1>6. ASSUME NEW i \in Visible, i >= w PROVE Scrolled(buf)[i] = Blank
  BY <1>1, <1>2, <1>3, <1>6
<1> QED
  BY <1>1, <1>5, <1>6

(***************************************************************************)
(* A newline in row r, at any column, as long as crt_pos has not           *)
(* overflowed.                                                             *)
(***************************************************************************)
LEMMA NewlineRow ==
    ASSUME NEW s \in Screens, NEW r \in Nat, NEW c \in 0 .. CRT_COLS - 1,
           s.pos = r * CRT_COLS + c, NEW b \in Int, BlankFrom(s, b),
           NEW t, t = CgaPutc(s, "NL"), ~t.over
    PROVE  /\ r + 1 < CRT_ROWS => AtRow(t, r + 1) /\ BlankFrom(t, b)
           /\ r + 1 >= CRT_ROWS => /\ AtRow(t, r) /\ BlankFrom(t, b - 1)
                                   /\ BlankFrom(t, CRT_ROWS - 1)
<1>1. /\ t \in Screens /\ t.full = s.full
      /\ s.pos + CRT_COLS >= PosSize => t.pos = 0 /\ t.over
      /\ s.pos + CRT_COLS < PosSize /\ r + 1 < CRT_ROWS =>
            t.pos = (r + 1) * CRT_COLS /\ t.buf = s.buf /\ t.over = s.over
      /\ s.pos + CRT_COLS < PosSize /\ r + 1 >= CRT_ROWS =>
            t.pos = r * CRT_COLS /\ t.buf = Scrolled(s.buf) /\ t.over = s.over
  BY Newline
<1>2. s.pos + CRT_COLS < PosSize
  BY <1>1, ScreenFacts, ConstantFacts
<1>3. PICK buf \in [Visible -> Glyphs] : buf = s.buf
  BY ScreenFacts
<1>4. CASE r + 1 < CRT_ROWS
  <2>1. ~(r + 1 >= CRT_ROWS) /\ r + 1 \in Nat
    BY <1>4, ConstantFacts
  <2> QED
    BY <1>1, <1>2, <1>4, <2>1 DEF AtRow, BlankFrom
<1>5. CASE r + 1 >= CRT_ROWS
  <2>1. ~(r + 1 < CRT_ROWS)
    BY <1>5, ConstantFacts
  <2>2. \A i \in Visible : i >= b * CRT_COLS => buf[i] = Blank
    BY <1>3 DEF BlankFrom
  <2>3. /\ \A i \in Visible : i >= (b - 1) * CRT_COLS => Scrolled(buf)[i] = Blank
        /\ \A i \in Visible : i >= (CRT_ROWS - 1) * CRT_COLS => Scrolled(buf)[i] = Blank
    BY <2>2, ScrolledBlank
  <2> QED
    BY <1>1, <1>2, <1>3, <1>5, <2>1, <2>3 DEF AtRow, BlankFrom
<1> QED
  BY <1>4, <1>5, ConstantFacts

(***************************************************************************)
(* A newline keeps a good screen good, and the cursor at a row.            *)
(***************************************************************************)
LEMMA NewlineGood ==
    ASSUME NEW s \in Screens, Good(s), NEW t, t = CgaPutc(s, "NL")
    PROVE  t \in Screens /\ Good(t) /\ (\E q : AtRow(t, q)) /\ (s.over => t.over)
<1>1. s.pos \in Nat
  BY ScreenFacts
<1>2. PICK r \in Nat, c \in 0 .. CRT_COLS - 1 : s.pos = r * CRT_COLS + c
  BY <1>1, RowAndColumn
<1>3. /\ t \in Screens /\ t.full = s.full
      /\ s.pos + CRT_COLS >= PosSize => t.pos = 0 /\ t.over
      /\ s.pos + CRT_COLS < PosSize /\ r + 1 < CRT_ROWS =>
            t.pos = (r + 1) * CRT_COLS /\ t.buf = s.buf /\ t.over = s.over
      /\ s.pos + CRT_COLS < PosSize /\ r + 1 >= CRT_ROWS =>
            t.pos = r * CRT_COLS /\ t.buf = Scrolled(s.buf) /\ t.over = s.over
  BY <1>2, Newline
<1>4. PICK x \in Nat, n \in Nat, m \in Nat, y \in Nat, k \in Nat, u \in Nat, v \in Nat :
         /\ x = s.pos /\ n = CRT_COLS /\ m = CRT_ROWS /\ y = r * n /\ k = (r + 1) * n
         /\ u = m * n /\ v = (m - 1) * n
         /\ k = y + n /\ u = v + n /\ n > 1 /\ m > 1 /\ x = y + c
         /\ u + n <= PosSize /\ \A i : i \in Visible <=> i \in Nat /\ i < u
  <2>1. PICK n \in Nat, m \in Nat : n = CRT_COLS /\ m = CRT_ROWS /\ n > 1 /\ m > 1
    BY ConstantFacts
  <2>2. r * n \in Nat /\ (r + 1) * n \in Nat /\ (r + 1) * n = r * n + n
    OBVIOUS
  <2> QED
    BY <1>1, <1>2, <2>1, <2>2, CellFacts
<1>5. (s.over => s.full) /\ (~s.full => x < u) /\ (~s.over => Behind(s))
  BY <1>4 DEF Good
<1>6. CASE x + n >= PosSize
  <2>1. ~(x < u)
    BY <1>4, <1>6, ConstantFacts
  <2>2. t.over /\ t.full /\ t.pos = 0
    BY <1>3, <1>4, <1>5, <1>6, <2>1
  <2>3. 0 = 0 * CRT_COLS /\ 0 \in Nat
    BY ConstantFacts
  <2>4. AtRow(t, 0)
    BY <2>2, <2>3 DEF AtRow
  <2> QED
    BY <1>3, <2>2, <2>4 DEF Good
<1>7. CASE x + n < PosSize /\ r + 1 < m
  <2>1. t.pos = k /\ t.buf = s.buf /\ t.over = s.over /\ AtRow(t, r + 1)
    BY <1>3, <1>4, <1>7 DEF AtRow
  <2>2. k < u
    <3>1. PICK d \in Nat : m = (r + 1) + 1 + d
      BY <1>7
    <3>2. ((r + 1) + 1 + d) * n = (r + 1) * n + n + d * n /\ d * n \in Nat
      OBVIOUS
    <3> QED
      BY <1>4, <3>1, <3>2
  <2>3. ~t.over => Behind(t)
    <3>1. \A i \in Visible : i >= k => i >= x
      BY <1>4
    <3> QED
      BY <1>4, <1>5, <2>1, <3>1 DEF Behind
  <2> QED
    BY <1>3, <1>4, <1>5, <2>1, <2>2, <2>3 DEF Good
<1>8. CASE x + n < PosSize /\ r + 1 >= m
  <2>1. t.pos = y /\ t.over = s.over /\ AtRow(t, r)
    BY <1>3, <1>4, <1>8 DEF AtRow
  <2>2. y >= v
    <3>1. PICK d \in Nat : r = (m - 1) + d
      BY <1>4, <1>8
    <3>2. ((m - 1) + d) * n = (m - 1) * n + d * n /\ d * n \in Nat
      OBVIOUS
    <3> QED
      BY <1>4, <3>1, <3>2
  <2>3. ~t.over => Behind(t)
    <3>1. \A i \in Visible : i >= (CRT_ROWS - 1) * CRT_COLS => t.buf[i] = Blank
      <4>1. \A i \in Visible : i >= (CRT_ROWS - 1) * CRT_COLS => ~(i < (CRT_ROWS - 1) * CRT_COLS)
        BY CellFacts
      <4> QED
        BY <1>3, <1>4, <1>8, <4>1 DEF Scrolled
    <3>2. \A i \in Visible : i >= y => i >= v
      BY <1>4, <2>2
    <3> QED
      BY <1>4, <2>1, <3>1, <3>2 DEF Behind
  <2>4. x < u => y < u
    BY <1>4
  <2> QED
    BY <1>3, <1>4, <1>5, <2>1, <2>3, <2>4 DEF Good
<1> QED
  BY <1>4, <1>6, <1>7, <1>8, ConstantFacts

-----------------------------------------------------------------------------
(***************************************************************************)
(* The recursion of Puts has a solution: the screen after each character.  *)
(***************************************************************************)
Steps(f, s, text, n) ==
    /\ f[0] = s
    /\ \A i \in 1 .. n : f[i] = CgaPutc(f[i - 1], text[i])

PutsRec(f, s, text) ==
    [i \in 0 .. Len(text) |-> IF i = 0 THEN s ELSE CgaPutc(f[i - 1], text[i])]

(***************************************************************************)
(* There is such a sequence of screens for every text.                     *)
(***************************************************************************)
LEMMA StepsExist ==
    ASSUME NEW s, NEW text, NEW n \in Nat
    PROVE  \E f : Steps(f, s, text, n)
<1> DEFINE D == {k \in 0 .. n : \E f : Steps(f, s, text, k)}
<1>1. 0 \in D
  <2>1. Steps([i \in {0} |-> s], s, text, 0)
    BY DEF Steps
  <2> QED
    BY <2>1
<1>2. ASSUME NEW k \in 0 .. n - 1, k \in D PROVE k + 1 \in D
  <2>1. PICK f : Steps(f, s, text, k)
    BY <1>2
  <2>2. PICK c : c = CgaPutc(f[k], text[k + 1])
    OBVIOUS
  <2>3. PICK g : g = [i \in 0 .. k + 1 |-> IF i <= k THEN f[i] ELSE c]
    OBVIOUS
  <2>4. /\ k \in Nat /\ 0 \in 0 .. k + 1 /\ 0 <= k
        /\ \A i \in 0 .. k : g[i] = f[i]
        /\ g[k + 1] = c
    BY <2>3
  <2>5. g[0] = s
    BY <2>1, <2>4 DEF Steps
  <2>6. ASSUME NEW i \in 1 .. k + 1 PROVE g[i] = CgaPutc(g[i - 1], text[i])
    <3>1. CASE i = k + 1
      <4>1. i - 1 = k /\ g[k] = f[k]
        BY <2>4, <3>1
      <4> QED
        BY <2>2, <2>4, <3>1, <4>1
    <3>2. CASE i # k + 1
      <4>1. i \in 1 .. k /\ i - 1 \in 0 .. k /\ i \in 0 .. k
        BY <2>4, <2>6, <3>2
      <4>2. f[i] = CgaPutc(f[i - 1], text[i])
        BY <2>1, <4>1 DEF Steps
      <4>3. g[i] = f[i] /\ g[i - 1] = f[i - 1]
        BY <2>4, <4>1
      <4> QED
        BY <4>2, <4>3
    <3> QED
      BY <3>1, <3>2
  <2>7. Steps(g, s, text, k + 1)
    BY <2>5, <2>6 DEF Steps
  <2> QED
    BY <2>7
<1> HIDE DEF D
<1>3. n \in D
  BY <1>1, <1>2, UpTo
<1> QED
  BY <1>3 DEF D

(***************************************************************************)
(* So Puts ends with its last screen.                                      *)
(***************************************************************************)
LEMMA PutsWalk ==
    ASSUME NEW s, NEW text, NEW n \in Nat, n = Len(text)
    PROVE  \E f : Steps(f, s, text, n) /\ Puts(s, text) = f[n]
<1>1. PICK g : Steps(g, s, text, n)
  BY StepsExist
<1>2. PICK h : h = [i \in 0 .. n |-> g[i]]
  OBVIOUS
<1>3. \A i \in 0 .. n : h[i] = IF i = 0 THEN s ELSE CgaPutc(h[i - 1], text[i])
  <2> TAKE i \in 0 .. n
  <2>1. h[i] = g[i]
    BY <1>2
  <2>2. CASE i = 0
    BY <1>1, <2>1, <2>2 DEF Steps
  <2>3. CASE i # 0
    <3>1. i \in 1 .. n /\ i - 1 \in 0 .. n
      BY <2>3
    <3>2. h[i - 1] = g[i - 1]
      BY <1>2, <3>1
    <3>3. g[i] = CgaPutc(g[i - 1], text[i])
      BY <1>1, <3>1 DEF Steps
    <3> QED
      BY <2>1, <2>3, <3>2, <3>3
  <2> QED
    BY <2>2, <2>3
<1>4. h = PutsRec(h, s, text)
  BY <1>2, <1>3 DEF PutsRec
<1>5. Puts(s, text) = (CHOOSE f : f = PutsRec(f, s, text))[n]
  BY DEF Puts, PutsRec
<1>6. PICK f : f = PutsRec(f, s, text) /\ Puts(s, text) = f[n]
  BY <1>4, <1>5
<1>7. \A i \in 0 .. n : f[i] = IF i = 0 THEN s ELSE CgaPutc(f[i - 1], text[i])
  <2> TAKE i \in 0 .. n
  <2>1. PutsRec(f, s, text)[i] = IF i = 0 THEN s ELSE CgaPutc(f[i - 1], text[i])
    BY DEF PutsRec
  <2> QED
    BY <1>6, <2>1
<1>8. Steps(f, s, text, n)
  <2>1. 0 \in 0 .. n /\ \A i \in 1 .. n : i \in 0 .. n /\ i # 0
    OBVIOUS
  <2> QED
    BY <1>7, <2>1 DEF Steps
<1> QED
  BY <1>6, <1>8

(***************************************************************************)
(* A character joins the text before the cursor.                           *)
(***************************************************************************)
LEMMA BeforePut ==
    ASSUME NEW s \in Screens, NEW c \in Glyphs, NEW t, t = CgaPutc(s, c),
           NEW text, NEW k \in Nat, Before(s, text, k), text[k + 1] = c
    PROVE  Before(t, text, k + 1)
<1>1. PICK x \in Nat, z \in Nat : x = s.pos /\ z = PosSize
  BY ScreenFacts, ConstantFacts
<1>2. /\ x + 1 < z => t.pos = x + 1
      /\ x + 1 >= z => t.pos = 0
      /\ \A i \in Visible : t.buf[i] = IF i = x THEN c ELSE s.buf[i]
  <2>1. c # "NL" /\ c # "BS"
    BY ConstantFacts
  <2>2. /\ t \in Screens
        /\ s.pos + 1 < PosSize => t.pos = s.pos + 1 /\ t.over = s.over
        /\ s.pos + 1 >= PosSize => t.pos = 0 /\ t.over
        /\ t.full <=> s.full \/ s.pos = CRT_ROWS * CRT_COLS - 1
        /\ \A i \in Visible : t.buf[i] = IF i = s.pos THEN c ELSE s.buf[i]
    BY <2>1, PutChar
  <2> QED
    BY <1>1, <2>2
<1>3. SUFFICES ASSUME NEW i \in 1 .. k + 1, t.pos - (k + 1) + i - 1 \in Visible
               PROVE  t.buf[t.pos - (k + 1) + i - 1] = text[i]
  BY DEF Before
<1>4. CASE x + 1 < z
  <2>1. PICK j \in Int : j = t.pos - (k + 1) + i - 1 /\ j = x - k + i - 1
    BY <1>2, <1>4
  <2>2. j \in Visible
    BY <1>3, <2>1
  <2>3. CASE i = k + 1
    <3>1. j = x
      BY <2>1, <2>3
    <3> QED
      BY <1>2, <2>1, <2>2, <2>3, <3>1
  <2>4. CASE i # k + 1
    <3>1. i \in 1 .. k /\ j # x
      BY <2>1, <2>4
    <3>2. s.buf[j] = text[i]
      BY <1>1, <2>1, <2>2, <3>1 DEF Before
    <3> QED
      BY <1>2, <2>1, <2>2, <3>1, <3>2
  <2> QED
    BY <2>3, <2>4
<1>5. CASE x + 1 >= z
  <2>1. t.pos - (k + 1) + i - 1 < 0
    BY <1>2, <1>5
  <2> QED
    BY <1>3, <2>1, CellFacts
<1> QED
  BY <1>1, <1>4, <1>5

(***************************************************************************)
(* And leaves it with a backspace.                                         *)
(***************************************************************************)
LEMMA BeforeBack ==
    ASSUME NEW s \in Screens, Good(s), NEW t, t = CgaPutc(s, "BS"),
           NEW text, NEW k \in Nat, Before(s, text, k + 1)
    PROVE  Before(t, text, k)
<1>1. PICK x \in Nat : x = s.pos
  BY ScreenFacts
<1>2. /\ x = 0 => t = s
      /\ x > 0 =>
            /\ t.pos = x - 1
            /\ \A i \in Visible : t.buf[i] = IF i = x - 1 THEN Blank ELSE s.buf[i]
  <2>1. /\ t \in Screens /\ Good(t)
        /\ t.full = s.full /\ t.over = s.over
        /\ s.pos = 0 => t = s
        /\ s.pos > 0 =>
              /\ t.pos = s.pos - 1
              /\ \A i \in Visible : t.buf[i] = IF i = s.pos - 1 THEN Blank ELSE s.buf[i]
    BY PutBack
  <2> QED
    BY <1>1, <2>1
<1>3. SUFFICES ASSUME NEW i \in 1 .. k, t.pos - k + i - 1 \in Visible
               PROVE  t.buf[t.pos - k + i - 1] = text[i]
  BY DEF Before
<1>4. CASE x = 0
  <2>1. t.pos = 0
    BY <1>1, <1>2, <1>4
  <2>2. t.pos - k + i - 1 < 0
    BY <2>1
  <2> QED
    BY <1>3, <2>2, CellFacts
<1>5. CASE x > 0
  <2>1. PICK j \in Int : j = t.pos - k + i - 1 /\ j = x - (k + 1) + i - 1 /\ j # x - 1
    BY <1>2, <1>5
  <2>2. j \in Visible /\ i \in 1 .. k + 1
    BY <1>3, <2>1
  <2>3. s.buf[j] = text[i]
    BY <1>1, <2>1, <2>2 DEF Before
  <2> QED
    BY <1>2, <1>5, <2>1, <2>2, <2>3
<1> QED
  BY <1>1, <1>4, <1>5

-----------------------------------------------------------------------------
(***************************************************************************)
(* Any text keeps a good screen good; after a newline the cursor is at a   *)
(* row.                                                                    *)
(***************************************************************************)
LEMMA PutsGood ==
    ASSUME NEW s \in Screens, Good(s), NEW n \in Nat, NEW text, Len(text) = n,
           \A i \in 1 .. n : text[i] \in Glyphs \cup {"NL"},
           NEW t, t = Puts(s, text)
    PROVE  /\ t \in Screens /\ Good(t)
           /\ n = 0 => t = s
           /\ n > 0 /\ text[n] = "NL" => \E q : AtRow(t, q)
<1>1. PICK f : Steps(f, s, text, n) /\ Puts(s, text) = f[n]
  BY PutsWalk
<1> DEFINE D == {k \in 0 .. n : f[k] \in Screens /\ Good(f[k])}
<1>2. 0 \in D
  BY <1>1 DEF Steps
<1>3. ASSUME NEW k \in 0 .. n - 1, k \in D
      PROVE  /\ k + 1 \in D
             /\ text[k + 1] = "NL" => \E q : AtRow(f[k + 1], q)
  <2>1. k + 1 \in 1 .. n /\ (k + 1) - 1 = k /\ k + 1 \in 0 .. n
    OBVIOUS
  <2>2. f[k + 1] = CgaPutc(f[k], text[k + 1]) /\ text[k + 1] \in Glyphs \cup {"NL"}
    <3>1. f[k + 1] = CgaPutc(f[(k + 1) - 1], text[k + 1])
      BY <1>1, <2>1 DEF Steps
    <3> QED
      BY <2>1, <3>1
  <2> PICK v : v = f[k + 1]
    OBVIOUS
  <2>3. PICK u \in Screens : u = f[k] /\ Good(u)
    BY <1>3
  <2>4. CASE text[k + 1] = "NL"
    <3>1. v = CgaPutc(u, "NL")
      BY <2>2, <2>3, <2>4
    <3>2. v \in Screens /\ Good(v) /\ \E q : AtRow(v, q)
      BY <2>3, <3>1, NewlineGood
    <3> QED
      BY <2>1, <2>3, <3>2
  <2>5. CASE text[k + 1] # "NL"
    <3>1. PICK c \in Glyphs : c = text[k + 1] /\ c # "NL" /\ c # "BS"
      BY <2>2, <2>5, ConstantFacts
    <3>2. v = CgaPutc(u, c)
      BY <2>2, <2>3, <3>1
    <3>3. v \in Screens /\ Good(v)
      BY <2>3, <3>1, <3>2, PutCharGood
    <3> QED
      BY <2>1, <2>3, <2>5, <3>3
  <2> QED
    BY <2>4, <2>5
<1>4. \A k \in 0 .. n : k \in D
  <2> HIDE DEF D
  <2>1. \A k \in 0 .. n - 1 : k \in D => k + 1 \in D
    BY <1>3
  <2> QED
    BY <1>2, <2>1, UpTo
<1>5. n \in D
  BY <1>4
<1>6. n = 0 => t = s
  BY <1>1 DEF Steps
<1>7. ASSUME n > 0, text[n] = "NL" PROVE \E q : AtRow(t, q)
  <2>1. PICK k \in 0 .. n - 1 : k + 1 = n
    BY <1>7
  <2>2. k \in D
    BY <1>4, <2>1
  <2>3. \E q : AtRow(f[k + 1], q)
    <3> HIDE DEF D
    <3> QED
      BY <1>3, <1>7, <2>1, <2>2
  <2> QED
    BY <1>1, <2>1, <2>3
<1> QED
  BY <1>1, <1>5, <1>6, <1>7

Text(text, n) == Len(text) = n /\ \A i \in 1 .. n : text[i] \in Glyphs

(***************************************************************************)
(* A text without control characters stands before the cursor, and what    *)
(* was before it stays, until crt_pos overflows.                           *)
(***************************************************************************)
LEMMA PutsText ==
    ASSUME NEW s \in Screens, Good(s), NEW n \in Nat, NEW text, Text(text, n),
           NEW t, t = Puts(s, text)
    PROVE  /\ t \in Screens /\ Good(t) /\ Before(t, text, n)
           /\ ~t.over => /\ ~s.over /\ t.pos = s.pos + n
                         /\ \A i \in Visible : i < s.pos => t.buf[i] = s.buf[i]
<1>1. PICK q \in Nat : q = s.pos
  BY ScreenFacts
<1>2. PICK f : Steps(f, s, text, n) /\ Puts(s, text) = f[n]
  BY PutsWalk DEF Text
<1> DEFINE Kept(u, k) == ~u.over => /\ ~s.over /\ u.pos = q + k
                                    /\ \A i \in Visible : i < q => u.buf[i] = s.buf[i]
<1> DEFINE D == {k \in 0 .. n : /\ f[k] \in Screens /\ Good(f[k])
                                /\ Before(f[k], text, k) /\ Kept(f[k], k)}
<1>3. 0 \in D
  <2>1. f[0] = s /\ 0 \in 0 .. n /\ q + 0 = q
    BY <1>2 DEF Steps
  <2>2. Before(s, text, 0)
    <3>1. \A i \in 1 .. 0 : FALSE
      OBVIOUS
    <3> QED
      BY <3>1 DEF Before
  <2> QED
    BY <1>1, <2>1, <2>2
<1>4. ASSUME NEW k \in 0 .. n - 1, k \in D PROVE k + 1 \in D
  <2>1. k + 1 \in 1 .. n /\ (k + 1) - 1 = k /\ k + 1 \in 0 .. n /\ k \in Nat
    OBVIOUS
  <2>2. f[k + 1] = CgaPutc(f[k], text[k + 1])
    <3>1. f[k + 1] = CgaPutc(f[(k + 1) - 1], text[k + 1])
      BY <1>2, <2>1 DEF Steps
    <3> QED
      BY <2>1, <3>1
  <2>0. /\ f[k] \in Screens /\ Good(f[k]) /\ Before(f[k], text, k) /\ Kept(f[k], k)
        /\ text[k + 1] \in Glyphs /\ text[k + 1] # "NL" /\ text[k + 1] # "BS"
    <3>1. f[k] \in Screens /\ Good(f[k]) /\ Before(f[k], text, k) /\ Kept(f[k], k)
      <4> HIDE DEF Kept
      <4> QED
        BY <1>4
    <3>2. text[k + 1] \in Glyphs
      BY <2>1 DEF Text
    <3> HIDE DEF Kept
    <3> QED
      BY <3>1, <3>2, ConstantFacts
  <2> PICK u, v, c : u = f[k] /\ v = f[k + 1] /\ c = text[k + 1]
    OBVIOUS
  <2>3. /\ u \in Screens /\ u = f[k] /\ v = f[k + 1]
        /\ c \in Glyphs /\ c = text[k + 1] /\ c # "NL" /\ c # "BS"
        /\ Good(u) /\ Before(u, text, k) /\ Kept(u, k)
    <3> HIDE DEF Kept
    <3> QED
      BY <2>0
  <2>4. v = CgaPutc(u, c)
    BY <2>2, <2>3
  <2>5. v \in Screens /\ Good(v) /\ (u.over => v.over)
    BY <2>3, <2>4, PutCharGood
  <2>6. Before(v, text, k + 1)
    BY <2>1, <2>3, <2>4, BeforePut
  <2>7. Kept(v, k + 1)
    <3>1. SUFFICES ASSUME ~v.over
                   PROVE  /\ ~s.over /\ v.pos = q + (k + 1)
                          /\ \A i \in Visible : i < q => v.buf[i] = s.buf[i]
      OBVIOUS
    <3>2. ~u.over /\ ~s.over /\ u.pos = q + k /\ \A i \in Visible : i < q => u.buf[i] = s.buf[i]
      BY <2>3, <2>5, <3>1
    <3>3. /\ v \in Screens
          /\ u.pos + 1 < PosSize => v.pos = u.pos + 1 /\ v.over = u.over
          /\ u.pos + 1 >= PosSize => v.pos = 0 /\ v.over
          /\ v.full <=> u.full \/ u.pos = CRT_ROWS * CRT_COLS - 1
          /\ \A i \in Visible : v.buf[i] = IF i = u.pos THEN c ELSE u.buf[i]
      BY <2>3, <2>4, PutChar
    <3>4. v.pos = q + (k + 1)
      <4>1. PICK x \in Nat : x = u.pos /\ x = q + k
        BY <2>1, <3>2
      <4>2. x + 1 < PosSize
        BY <3>1, <3>3, <4>1, ConstantFacts
      <4>3. v.pos = x + 1
        BY <3>3, <4>1, <4>2
      <4> QED
        BY <2>1, <4>1, <4>3
    <3>5. \A i \in Visible : i < q => i # u.pos
      BY <2>1, <3>2, CellFacts
    <3> QED
      BY <3>2, <3>3, <3>4, <3>5
  <2> HIDE DEF Kept
  <2> QED
    BY <2>1, <2>3, <2>5, <2>6, <2>7
<1>5. n \in D
  <2> HIDE DEF D
  <2> QED
    BY <1>3, <1>4, UpTo
<1> QED
  BY <1>1, <1>2, <1>5

(***************************************************************************)
(* CRT_ROWS newlines, wherever the cursor is, leave nothing visible: with  *)
(* every newline the cursor or everything that is visible moves on a row.  *)
(***************************************************************************)
LEMMA Newlines ==
    ASSUME NEW s \in Screens, NEW r, AtRow(s, r), Good(s),
           NEW text, Len(text) = CRT_ROWS, \A i \in 1 .. CRT_ROWS : text[i] = "NL",
           NEW t, t = Puts(s, text), ~t.over
    PROVE  \A i \in Visible : t.buf[i] = Blank
<1>1. /\ r \in Nat /\ s.pos = r * CRT_COLS /\ CRT_ROWS \in Nat /\ CRT_ROWS > 1
      /\ CRT_COLS \in Nat /\ 0 \in 0 .. CRT_COLS - 1
  BY ConstantFacts DEF AtRow
<1>2. PICK f : Steps(f, s, text, CRT_ROWS) /\ Puts(s, text) = f[CRT_ROWS]
  BY <1>1, PutsWalk
<1>3. PICK m \in Nat : m = IF r < CRT_ROWS THEN r ELSE CRT_ROWS
  BY <1>1
<1> DEFINE Emptied(u, k) ==
        \E q \in Nat : /\ q >= r /\ AtRow(u, q)
                       /\ r < CRT_ROWS => q < CRT_ROWS
                       /\ r >= CRT_ROWS => q = r
                       /\ BlankFrom(u, m - k + (q - r))
<1> DEFINE D == {k \in 0 .. CRT_ROWS : /\ f[k] \in Screens /\ Good(f[k])
                                       /\ ~f[k].over => Emptied(f[k], k)}
<1>4. 0 \in D
  <2>1. f[0] = s
    BY <1>2 DEF Steps
  <2>2. ~s.over => BlankFrom(s, m)
    BY <1>1, <1>3, CellFacts DEF BlankFrom, Good, Behind
  <2>3. m - 0 + (r - r) = m /\ r >= r /\ 0 \in 0 .. CRT_ROWS
    BY <1>1
  <2>4. ~s.over => Emptied(s, 0)
    BY <1>1, <2>2, <2>3
  <2> HIDE DEF Emptied
  <2> QED
    BY <2>1, <2>3, <2>4
<1>5. ASSUME NEW k \in 0 .. CRT_ROWS - 1, k \in D PROVE k + 1 \in D
  <2>1. k + 1 \in 1 .. CRT_ROWS /\ (k + 1) - 1 = k /\ k + 1 \in 0 .. CRT_ROWS
    BY <1>1
  <2> PICK u, v : u = f[k] /\ v = f[k + 1]
    OBVIOUS
  <2>2. u \in Screens /\ Good(u) /\ (~u.over => Emptied(u, k))
    <3> HIDE DEF Emptied
    <3> QED
      BY <1>5
  <2>3. v = CgaPutc(u, "NL")
    <3>1. f[k + 1] = CgaPutc(f[(k + 1) - 1], text[k + 1]) /\ text[k + 1] = "NL"
      BY <1>2, <2>1 DEF Steps
    <3> QED
      BY <2>1, <3>1
  <2>4. v \in Screens /\ Good(v) /\ (u.over => v.over)
    BY <2>2, <2>3, NewlineGood
  <2>5. ASSUME ~v.over PROVE Emptied(v, k + 1)
    <3>1. PICK q \in Nat : /\ q >= r /\ AtRow(u, q)
                           /\ r < CRT_ROWS => q < CRT_ROWS
                           /\ r >= CRT_ROWS => q = r
                           /\ BlankFrom(u, m - k + (q - r))
      BY <2>2, <2>4, <2>5
    <3>2. PICK b \in Int : b = m - k + (q - r)
      BY <1>1
    <3>3. u.pos = q * CRT_COLS + 0 /\ BlankFrom(u, b)
      <4>1. u.pos = q * CRT_COLS /\ BlankFrom(u, b)
        BY <3>1, <3>2 DEF AtRow
      <4> QED
        BY <1>1, <4>1
    <3>4. /\ q + 1 < CRT_ROWS => AtRow(v, q + 1) /\ BlankFrom(v, b)
          /\ q + 1 >= CRT_ROWS => AtRow(v, q) /\ BlankFrom(v, b - 1)
                                  /\ BlankFrom(v, CRT_ROWS - 1)
      BY <1>1, <2>2, <2>3, <2>5, <3>3, NewlineRow
    <3>5. CASE q + 1 < CRT_ROWS
      <4>1. q + 1 \in Nat /\ q + 1 >= r /\ r < CRT_ROWS /\ ~(r >= CRT_ROWS)
        BY <1>1, <3>1, <3>5
      <4>2. m - (k + 1) + ((q + 1) - r) = b
        BY <1>1, <3>2
      <4> QED
        BY <3>4, <3>5, <4>1, <4>2
    <3>6. CASE q + 1 >= CRT_ROWS
      <4>1. m - (k + 1) + (q - r) = b - 1
        BY <1>1, <3>2
      <4> QED
        BY <3>1, <3>4, <3>6, <4>1
    <3> QED
      BY <1>1, <3>5, <3>6
  <2> HIDE DEF Emptied
  <2> QED
    BY <2>1, <2>4, <2>5
<1>6. CRT_ROWS \in D
  <2> HIDE DEF D
  <2>1. CRT_ROWS \in 0 .. CRT_ROWS
    BY <1>1
  <2> QED
    BY <1>1, <1>4, <1>5, <2>1, UpTo
<1>7. Emptied(t, CRT_ROWS)
  <2> HIDE DEF Emptied
  <2> QED
    BY <1>2, <1>6
<1>8. PICK q \in Nat : /\ q >= r /\ AtRow(t, q)
                       /\ r < CRT_ROWS => q < CRT_ROWS
                       /\ r >= CRT_ROWS => q = r
                       /\ BlankFrom(t, m - CRT_ROWS + (q - r))
  BY <1>7
<1>9. PICK b \in Int : b = m - CRT_ROWS + (q - r) /\ b <= 0
  BY <1>1, <1>3, <1>8
<1>10. \A i \in Visible : i \in Nat /\ i >= b * CRT_COLS
  <2>1. b * CRT_COLS <= 0
    BY <1>1, <1>9
  <2> QED
    BY <1>1, <1>9, <2>1, CellFacts
<1> QED
  BY <1>8, <1>9, <1>10 DEF BlankFrom

-----------------------------------------------------------------------------
(***************************************************************************)
(* PrefixIs, element by element.                                           *)
(***************************************************************************)
LEMMA PrefixIs ==
    ASSUME NEW s \in Seq(Chars), NEW t \in Seq(Chars)
    PROVE  IsPrefix(s, t) <=> /\ Len(s) <= Len(t)
                              /\ \A i \in 1 .. Len(s) : s[i] = t[i]
<1>1. PICK m \in Nat, n \in Nat : m = Len(s) /\ n = Len(t)
  OBVIOUS
<1>2. SubSeq(s, 1, m) = s
  BY <1>1
<1>3. ASSUME m <= n
      PROVE  SubSeq(t, 1, m) = s <=> \A i \in 1 .. m : s[i] = t[i]
  <2>1. PICK u : u = SubSeq(t, 1, m)
    OBVIOUS
  <2>2. u \in Seq(Chars) /\ Len(u) = m /\ \A i \in 1 .. m : u[i] = t[i]
    BY <1>1, <1>3, <2>1
  <2>3. ASSUME \A i \in 1 .. m : s[i] = t[i] PROVE u = s
    BY <1>1, <2>2, <2>3
  <2>4. ASSUME u = s PROVE \A i \in 1 .. m : s[i] = t[i]
    BY <2>2, <2>4
  <2> QED
    BY <2>1, <2>3, <2>4
<1> QED
  BY <1>1, <1>2, <1>3 DEF IsPrefix

(***************************************************************************)
(* A name matches if the command is the name, or the name and a space.     *)
(***************************************************************************)
LEMMA MatchesIs ==
    ASSUME NEW cmd \in Seq(Chars), NEW name \in Seq(Chars)
    PROVE  Matches(cmd, name) <=> cmd = name \/ IsPrefix(Append(name, Blank), cmd)
<1>1. PICK m \in Nat, n \in Nat : m = Len(cmd) /\ n = Len(name)
  OBVIOUS
<1>2. PICK long \in Seq(Chars) :
         /\ long = Append(name, Blank) /\ Len(long) = n + 1 /\ long[n + 1] = Blank
         /\ \A i \in 1 .. n : long[i] = name[i]
  <2>1. Blank \in Chars
    BY ConstantFacts
  <2>2. /\ Append(name, Blank) \in Seq(Chars) /\ Len(Append(name, Blank)) = n + 1
        /\ Append(name, Blank)[n + 1] = Blank
        /\ \A i \in 1 .. n : Append(name, Blank)[i] = name[i]
    BY <1>1, <2>1, AppendProperties
  <2> QED
    BY <2>2
<1>3. IsPrefix(name, cmd) <=> n <= m /\ \A i \in 1 .. n : name[i] = cmd[i]
  BY <1>1, PrefixIs
<1>4. IsPrefix(long, cmd) <=> n + 1 <= m /\ \A i \in 1 .. n + 1 : long[i] = cmd[i]
  BY <1>1, <1>2, PrefixIs
<1>5. (\A i \in 1 .. n + 1 : long[i] = cmd[i]) <=>
         (\A i \in 1 .. n : name[i] = cmd[i]) /\ cmd[n + 1] = Blank
  <2>1. \A i \in 1 .. n : i \in 1 .. n + 1
    OBVIOUS
  <2>2. \A i \in 1 .. n + 1 : i = n + 1 \/ i \in 1 .. n
    OBVIOUS
  <2>3. n + 1 \in 1 .. n + 1
    OBVIOUS
  <2> QED
    BY <1>2, <2>1, <2>2, <2>3
<1>6. cmd = name <=> m = n /\ \A i \in 1 .. n : name[i] = cmd[i]
  BY <1>1
<1>7. Matches(cmd, name) <=> /\ n <= m /\ \A i \in 1 .. n : name[i] = cmd[i]
                             /\ m = n \/ cmd[n + 1] = Blank
  BY <1>1, <1>3 DEF Matches
<1>8. ASSUME n <= m, m # n PROVE n + 1 <= m
  BY <1>8
<1>9. ASSUME n <= m, cmd[n + 1] = Blank, \A i \in 1 .. n : name[i] = cmd[i]
      PROVE  cmd = name \/ IsPrefix(long, cmd)
  BY <1>4, <1>5, <1>6, <1>8, <1>9
<1>10. n + 1 <= m => n <= m
  OBVIOUS
<1> QED
  BY <1>2, <1>4, <1>5, <1>6, <1>7, <1>9, <1>10

(***************************************************************************)
(* Skipping leading spaces leaves a line.                                  *)
(***************************************************************************)
LEMMA SkippedType ==
    ASSUME NEW line \in Seq(Chars) PROVE SkipSpaces(line) \in Seq(Chars)
<1>1. PICK i : i = SelectInSeq(line, LAMBDA c : c # Blank)
  OBVIOUS
<1>2. i = 0 \/ i \in 1 .. Len(line)
  <2> DEFINE I == {j \in 1 .. Len(line) : line[j] # Blank}
  <2>1. i = IF I # {} THEN Min(I) ELSE 0
    BY <1>1 DEF SelectInSeq
  <2>2. ASSUME I # {} PROVE Min(I) \in I
    <3>1. I \in SUBSET Nat
      OBVIOUS
    <3> HIDE DEF I
    <3>2. \E x \in I : \A y \in I : x <= y
      BY <2>2, <3>1, NatMin
    <3> QED
      BY <3>2 DEF Min
  <2> QED
    BY <2>1, <2>2
<1>3. SkipSpaces(line) = IF i = 0 THEN <<>> ELSE SubSeq(line, i, Len(line))
  BY <1>1 DEF SkipSpaces
<1> QED
  BY <1>2, <1>3

(***************************************************************************)
(* The search takes the first name that matches.                           *)
(***************************************************************************)
LEMMA Search ==
    ASSUME NEW line \in Seq(Chars), NEW cmd, cmd = SkipSpaces(line),
           NEW d, d = Dispatch(line)
    PROVE  /\ d \in 0 .. Len(commands)
           /\ cmd = <<>> => d = 0
           /\ cmd # <<>> =>
                 /\ d = 0 => \A i \in 1 .. Len(commands) : ~Matches(cmd, commands[i])
                 /\ d # 0 => /\ Matches(cmd, commands[d])
                             /\ \A i \in 1 .. Len(commands) :
                                   Matches(cmd, commands[i]) => d <= i
<1>1. Len(commands) \in Nat
  BY ConstantFacts
<1>2. CASE cmd = <<>>
  <2>1. d = 0
    BY <1>2 DEF Dispatch
  <2> QED
    BY <1>1, <1>2, <2>1
<1>3. CASE cmd # <<>>
  <2> DEFINE I == {i \in 1 .. Len(commands) : Matches(cmd, commands[i])}
  <2>1. d = IF I # {} THEN Min(I) ELSE 0
    <3>1. d = SelectInSeq(commands, LAMBDA name : Matches(cmd, name))
      BY <1>3 DEF Dispatch
    <3> QED
      BY <3>1 DEF SelectInSeq
  <2>2. ASSUME I # {} PROVE Min(I) \in I /\ \A y \in I : Min(I) <= y
    <3>1. I \in SUBSET Nat
      OBVIOUS
    <3> HIDE DEF I
    <3>2. \E x \in I : \A y \in I : x <= y
      BY <2>2, <3>1, NatMin
    <3> QED
      BY <3>2 DEF Min
  <2>3. CASE I = {}
    <3>1. d = 0
      BY <2>1, <2>3
    <3> QED
      BY <1>1, <1>3, <2>3, <3>1
  <2>4. CASE I # {}
    <3>1. d \in I /\ \A y \in I : d <= y
      BY <2>1, <2>2, <2>4
    <3> QED
      BY <1>1, <1>3, <3>1
  <2> QED
    BY <2>3, <2>4
<1> QED
  BY <1>2, <1>3

(***************************************************************************)
(* Of the names that a command begins with, the first is the longest.      *)
(***************************************************************************)
LEMMA FirstIsLongest ==
    ASSUME NEW cmd \in Seq(Chars), NEW i \in 1 .. Len(commands), NEW d \in 1 .. Len(commands),
           Matches(cmd, commands[i]), Matches(cmd, commands[d]), d <= i
    PROVE  Len(commands[i]) <= Len(commands[d])
<1>1. commands[i] \in Seq(Chars) /\ commands[d] \in Seq(Chars) /\ Blank \in Chars
  BY TableAssumption, ConstantFacts
<1>2. PICK a \in Nat, b \in Nat, m \in Nat :
         a = Len(commands[i]) /\ b = Len(commands[d]) /\ m = Len(cmd)
  BY <1>1
<1>3. SUFFICES ASSUME b < a PROVE FALSE
  BY <1>2
<1>4. d < i
  <2>1. d # i
    BY <1>2, <1>3
  <2> QED
    BY <2>1
<1>5. /\ a <= m /\ \A k \in 1 .. a : commands[i][k] = cmd[k]
      /\ b <= m /\ \A k \in 1 .. b : commands[d][k] = cmd[k]
  BY <1>1, <1>2, PrefixIs DEF Matches
<1>6. m # b
  BY <1>3, <1>5
<1>7. cmd[b + 1] = Blank
  BY <1>2, <1>6 DEF Matches
<1>8. PICK long \in Seq(Chars) :
         /\ long = Append(commands[d], Blank) /\ Len(long) = b + 1 /\ long[b + 1] = Blank
         /\ \A k \in 1 .. b : long[k] = commands[d][k]
  <2>1. /\ Append(commands[d], Blank) \in Seq(Chars)
        /\ Len(Append(commands[d], Blank)) = b + 1
        /\ Append(commands[d], Blank)[b + 1] = Blank
        /\ \A k \in 1 .. b : Append(commands[d], Blank)[k] = commands[d][k]
    BY <1>1, <1>2, AppendProperties
  <2> QED
    BY <2>1
<1>9. \A k \in 1 .. b + 1 : long[k] = commands[i][k]
  <2> TAKE k \in 1 .. b + 1
  <2>1. k \in 1 .. a
    BY <1>3
  <2>2. CASE k = b + 1
    BY <1>5, <1>7, <1>8, <2>1, <2>2
  <2>3. CASE k # b + 1
    <3>1. k \in 1 .. b
      BY <2>3
    <3> QED
      BY <1>5, <1>8, <2>1, <3>1
  <2> QED
    BY <2>2, <2>3
<1>10. IsPrefix(long, commands[i])
  <2>1. b + 1 <= a
    BY <1>3
  <2> QED
    BY <1>1, <1>2, <1>8, <1>9, <2>1, PrefixIs
<1> QED
  BY <1>4, <1>8, <1>10, TableAssumption

(***************************************************************************)
(* What a command prints keeps the screen good and the cursor at the       *)
(* beginning of a row; clear leaves nothing visible, until crt_pos has     *)
(* overflowed.                                                             *)
(***************************************************************************)
LEMMA OutputScreen ==
    ASSUME NEW s \in Screens, NEW r, AtRow(s, r), Good(s), NEW line \in Seq(Chars),
           NEW t, t = Puts(s, Output(line))
    PROVE  /\ t \in Screens /\ Good(t) /\ \E q : AtRow(t, q)
           /\ Dispatch(line) = Clear /\ ~t.over => \A i \in Visible : t.buf[i] = Blank
<1>1. Clear # 0 /\ "text" \in Glyphs /\ \A c \in Chars : c \in Glyphs
  BY ConstantFacts DEF Glyphs
<1>2. SkipSpaces(line) = <<>> => Dispatch(line) = 0
  BY DEF Dispatch
<1>3. PICK text : text = Output(line)
  OBVIOUS
<1>4. ASSUME NEW n \in Nat, n > 0, Len(text) = n, text[n] = "NL",
             \A i \in 1 .. n : text[i] \in Glyphs \cup {"NL"}
      PROVE  t \in Screens /\ Good(t) /\ \E q : AtRow(t, q)
  <2>1. /\ t \in Screens /\ Good(t)
        /\ n = 0 => t = s
        /\ n > 0 /\ text[n] = "NL" => \E q : AtRow(t, q)
    BY <1>3, <1>4, PutsGood
  <2> QED
    BY <1>4, <2>1
<1>5. CASE SkipSpaces(line) = <<>>
  <2>1. text = <<>> /\ Len(text) = 0 /\ \A i \in 1 .. 0 : FALSE
    BY <1>3, <1>5 DEF Output
  <2>2. /\ t \in Screens /\ Good(t)
        /\ 0 = 0 => t = s
        /\ 0 > 0 /\ text[0] = "NL" => \E q : AtRow(t, q)
    BY <1>3, <2>1, PutsGood
  <2> QED
    BY <1>1, <1>2, <1>5, <2>2
<1>6. CASE SkipSpaces(line) # <<>> /\ Dispatch(line) = 0
  <2>1. PICK cmd \in Seq(Chars) : cmd = SkipSpaces(line)
    BY SkippedType
  <2>2. text = <<"text">> \o cmd \o <<"NL", "text", "NL">>
    BY <1>3, <1>6, <2>1 DEF Output
  <2>3. PICK a, b \in Seq(Glyphs \cup {"NL"}) :
           a = <<"text">> \o cmd /\ b = <<"NL", "text", "NL">>
    <3>1. cmd \in Seq(Glyphs \cup {"NL"})
      BY <1>1, <2>1
    <3>2. <<"text">> \in Seq(Glyphs \cup {"NL"})
      BY <1>1
    <3>3. <<"text">> \o cmd \in Seq(Glyphs \cup {"NL"})
      BY <3>1, <3>2
    <3>4. <<"NL", "text", "NL">> \in Seq(Glyphs \cup {"NL"})
      BY <1>1
    <3> QED
      BY <3>3, <3>4
  <2>4. PICK k \in Nat : k = Len(a)
    BY <2>3
  <2>5. /\ Len(b) = 3 /\ b[3] = "NL" /\ text = a \o b
    BY <2>2, <2>3
  <2>6. /\ text \in Seq(Glyphs \cup {"NL"}) /\ Len(text) = k + 3
        /\ text[k + 3] = b[3]
    <3>1. /\ text \in Seq(Glyphs \cup {"NL"}) /\ Len(text) = k + 3
          /\ \A i \in 1 .. k + 3 : text[i] = IF i <= k THEN a[i] ELSE b[i - k]
      BY <2>3, <2>4, <2>5, ConcatProperties
    <3>2. k + 3 \in 1 .. k + 3 /\ ~(k + 3 <= k) /\ (k + 3) - k = 3
      OBVIOUS
    <3>3. text[k + 3] = b[(k + 3) - k]
      BY <3>1, <3>2
    <3> QED
      BY <3>1, <3>2, <3>3
  <2>7. k + 3 \in Nat /\ k + 3 > 0 /\ \A i \in 1 .. k + 3 : text[i] \in Glyphs \cup {"NL"}
    BY <2>6
  <2>8. t \in Screens /\ Good(t) /\ \E q : AtRow(t, q)
    BY <1>4, <2>5, <2>6, <2>7
  <2> QED
    BY <1>1, <1>6, <2>8
<1>7. CASE SkipSpaces(line) # <<>> /\ Dispatch(line) = Clear
  <2>1. text = [j \in 1 .. CRT_ROWS |-> "NL"]
    BY <1>1, <1>3, <1>7 DEF Output
  <2>2. Len(text) = CRT_ROWS /\ \A j \in 1 .. CRT_ROWS : text[j] = "NL"
    BY <2>1, ConstantFacts
  <2>3. ~t.over => \A i \in Visible : t.buf[i] = Blank
    BY <1>3, <2>2, Newlines
  <2>4. CRT_ROWS \in Nat /\ CRT_ROWS > 0 /\ text[CRT_ROWS] = "NL"
    BY <2>2, ConstantFacts
  <2>5. t \in Screens /\ Good(t) /\ \E q : AtRow(t, q)
    BY <1>4, <2>2, <2>4
  <2> QED
    BY <2>3, <2>5
<1>8. CASE SkipSpaces(line) # <<>> /\ Dispatch(line) # 0 /\ Dispatch(line) # Clear
  <2>1. text = <<"text", "NL">>
    BY <1>3, <1>8 DEF Output
  <2>2. Len(text) = 2 /\ text[1] = "text" /\ text[2] = "NL"
    BY <2>1
  <2>3. \A i \in 1 .. 2 : text[i] \in Glyphs \cup {"NL"}
    <3>1. \A i \in 1 .. 2 : i = 1 \/ i = 2
      OBVIOUS
    <3> QED
      BY <1>1, <2>2, <3>1
  <2>4. t \in Screens /\ Good(t) /\ \E q : AtRow(t, q)
    BY <1>4, <2>2, <2>3
  <2> QED
    BY <1>8, <2>4
<1> QED
  BY <1>2, <1>5, <1>6, <1>7, <1>8

(***************************************************************************)
(* The line is read up to the terminator that Enter has just stored.       *)
(***************************************************************************)
LEMMA LineIsTyped ==
    ASSUME TypeInv, EditInv, Phase = "run"
    PROVE  Line = typed
<1>1. /\ cmd_pos \in 0 .. CMD_BUF_SIZE - 1 /\ CMD_BUF_SIZE \in Nat
      /\ typed \in Seq(Chars) /\ Len(typed) = cmd_pos
      /\ \A i \in 1 .. cmd_pos : typed[i] = cmd_buffer[i - 1]
      /\ cmd_buffer[cmd_pos] = "nul"
      /\ \A i \in 0 .. cmd_pos - 1 : cmd_buffer[i] \in Chars
  BY ConstantFacts DEF TypeInv, EditInv, Spells
<1> DEFINE ends == {i \in 0 .. CMD_BUF_SIZE - 1 : cmd_buffer[i] = "nul"}
<1>2. cmd_pos \in ends /\ \A j \in ends : cmd_pos <= j
  <2>1. \A i \in 0 .. cmd_pos - 1 : cmd_buffer[i] # "nul"
    BY <1>1, ConstantFacts
  <2> QED
    BY <1>1, <2>1
<1>3. ends \subseteq Nat
  OBVIOUS
<1>4. PICK n : n = CHOOSE i \in ends : \A j \in ends : i <= j
  OBVIOUS
<1>5. ends # {} /\ n = cmd_pos
  <2> HIDE DEF ends
  <2>1. n \in ends /\ \A j \in ends : n <= j
    BY <1>2, <1>4
  <2>2. n <= cmd_pos /\ cmd_pos <= n /\ n \in Nat
    BY <1>2, <1>3, <2>1
  <2> QED
    BY <1>1, <1>2, <2>2
<1>6. Line = [i \in 1 .. n |-> cmd_buffer[i - 1]]
  BY <1>4, <1>5 DEF Line
<1>7. typed = [i \in 1 .. cmd_pos |-> typed[i]]
  BY <1>1
<1> QED
  BY <1>1, <1>5, <1>6, <1>7

(***************************************************************************)
(* The prompt.                                                             *)
(***************************************************************************)
LEMMA PromptScreen ==
    ASSUME NEW s \in Screens, Good(s), NEW t, t = Puts(s, Prompt),
           NEW p \in Nat, p = Len(Prompt)
    PROVE  /\ t \in Screens /\ Good(t) /\ Before(t, Prompt, p)
           /\ ~t.over => /\ ~s.over /\ t.pos = s.pos + p
                         /\ \A i \in Visible : i < s.pos => t.buf[i] = s.buf[i]
<1>1. Text(Prompt, p)
  BY ConstantFacts DEF Text
<1> QED
  BY <1>1, PutsText

(***************************************************************************)
(* The prompt and the line.                                                *)
(***************************************************************************)
LEMMA EchoIs ==
    ASSUME NEW b, NEW p \in Nat, p = Len(Prompt)
    PROVE  /\ \A i \in 1 .. p : Echo(b)[i] = Prompt[i]
           /\ \A j \in 0 .. CMD_BUF_SIZE - 1 : Echo(b)[p + j + 1] = b[j]
<1>1. CMD_BUF_SIZE \in Nat
  BY ConstantFacts
<1>2. Echo(b) = [i \in 1 .. p + CMD_BUF_SIZE |-> IF i <= p THEN Prompt[i] ELSE b[i - p - 1]]
  BY DEF Echo
<1>3. \A i \in 1 .. p : Echo(b)[i] = Prompt[i]
  BY <1>1, <1>2
<1>4. ASSUME NEW j \in 0 .. CMD_BUF_SIZE - 1 PROVE Echo(b)[p + j + 1] = b[j]
  <2>1. p + j + 1 \in 1 .. p + CMD_BUF_SIZE /\ ~(p + j + 1 <= p) /\ (p + j + 1) - p - 1 = j
    BY <1>1
  <2>2. Echo(b)[p + j + 1] = b[(p + j + 1) - p - 1]
    BY <1>2, <2>1
  <2> QED
    BY <2>1, <2>2
<1> QED
  BY <1>3, <1>4

(***************************************************************************)
(* Buffers with the same line are shown the same.                          *)
(***************************************************************************)
LEMMA EchoSame ==
    ASSUME NEW b, NEW c, NEW p \in Nat, p = Len(Prompt), NEW n \in 0 .. CMD_BUF_SIZE,
           \A j \in 0 .. n - 1 : b[j] = c[j], NEW s, Before(s, Echo(b), p + n)
    PROVE  Before(s, Echo(c), p + n)
<1>1. CMD_BUF_SIZE \in Nat
  BY ConstantFacts
<1>2. ASSUME NEW i \in 1 .. p + n PROVE Echo(b)[i] = Echo(c)[i]
  <2>1. CASE i <= p
    <3>1. i \in 1 .. p
      BY <2>1
    <3>2. Echo(b)[i] = Prompt[i] /\ Echo(c)[i] = Prompt[i]
      BY <3>1, EchoIs
    <3> QED
      BY <3>2
  <2>2. CASE i > p
    <3>1. PICK j \in 0 .. n - 1 : i = p + j + 1
      <4>1. i - p - 1 \in 0 .. n - 1 /\ i = p + (i - p - 1) + 1
        BY <1>1, <2>2
      <4> QED
        BY <4>1
    <3>2. j \in 0 .. CMD_BUF_SIZE - 1
      BY <1>1, <3>1
    <3>3. Echo(b)[p + j + 1] = b[j] /\ Echo(c)[p + j + 1] = c[j]
      BY <3>2, EchoIs
    <3> QED
      BY <3>1, <3>3
  <2> QED
    BY <2>1, <2>2
<1> QED
  BY <1>2 DEF Before

(***************************************************************************)
(* Before the first character is typed only the prompt is shown.           *)
(***************************************************************************)
LEMMA PromptEcho ==
    ASSUME NEW b, NEW p \in Nat, p = Len(Prompt), NEW s, Before(s, Prompt, p)
    PROVE  Before(s, Echo(b), p)
<1>1. \A i \in 1 .. p : Echo(b)[i] = Prompt[i]
  BY EchoIs
<1> QED
  BY <1>1 DEF Before

-----------------------------------------------------------------------------
(***************************************************************************)
(* The one handler: where it stands, and how it moves on.                  *)
(***************************************************************************)
Calls == [key : Keys, pc : Phases]

Handlers == Seq(Calls)

(***************************************************************************)
(* A step of the handler finds it there.                                   *)
(***************************************************************************)
LEMMA AtFacts ==
    ASSUME TypeInv, NEW kind, NEW p, At(kind, p)
    PROVE  /\ handlers # <<>> /\ Phase = p /\ Key \in kind /\ Top.key = Key
           /\ Key \in Keys /\ Len(handlers) = 1 /\ handlers \in Handlers
<1>1. handlers \in Handlers /\ Len(handlers) <= 1 /\ handlers # <<>>
  BY DEF TypeInv, At, Handlers, Calls
<1>2. Len(handlers) = 1
  <2>1. Len(handlers) \in Nat \ {0}
    BY <1>1, EmptySeq, Zenon DEF Handlers
  <2>2. PICK n : n = Len(handlers)
    OBVIOUS
  <2>3. n \in Nat \ {0} /\ n <= 1
    BY <1>1, <2>1, <2>2
  <2>4. n = 1
    BY <2>3
  <2> QED
    BY <2>2, <2>4
<1>3. handlers[1] \in Calls /\ Top = handlers[1]
  BY <1>1, <1>2 DEF Handlers, Top
<1>4. Key \in Keys
  BY <1>3 DEF Calls, Key
<1> QED
  BY <1>1, <1>2, <1>3, <1>4 DEF At, Phase, Key

(***************************************************************************)
(* A sequence of one element, replaced.                                    *)
(***************************************************************************)
LEMMA ExceptOne ==
    ASSUME NEW S, NEW s \in Seq(S), Len(s) = 1, NEW c \in S
    PROVE  LET t == [s EXCEPT ![1] = c] IN t \in Seq(S) /\ Len(t) = 1 /\ t[1] = c
<1>1. 1 \in 1 .. Len(s)
  OBVIOUS
<1> QED
  BY <1>1, ExceptSeq

(***************************************************************************)
(* The handler moves on.                                                   *)
(***************************************************************************)
LEMMA AdvanceFacts ==
    ASSUME handlers \in Handlers, Len(handlers) = 1, NEW p \in Phases, Advance(p)
    PROVE  /\ Phase' = p /\ Key' = Key
           /\ handlers' \in Handlers /\ Len(handlers') <= 1
<1>1. handlers[1] \in Calls
  BY DEF Handlers
<1>2. PICK h : h = [handlers[1] EXCEPT !.pc = p]
  OBVIOUS
<1>3. h \in Calls /\ h.pc = p /\ h.key = handlers[1].key
  BY <1>1, <1>2 DEF Calls
<1>4. handlers' = [handlers EXCEPT ![1] = h]
  BY <1>2 DEF Advance, Top
<1>5. handlers' \in Handlers /\ Len(handlers') = 1 /\ handlers'[1] = h
  BY <1>3, <1>4, ExceptOne DEF Handlers
<1>6. handlers' # <<>>
  <2>1. Len(<<>>) = 0 /\ 0 # 1
    OBVIOUS
  <2> QED
    BY <1>5, <2>1, Zenon
<1> QED
  BY <1>3, <1>5, <1>6 DEF Phase, Key

(***************************************************************************)
(* It ends.                                                                *)
(***************************************************************************)
LEMMA ReturnFacts ==
    ASSUME handlers \in Handlers, Len(handlers) = 1, Return
    PROVE  Phase' = "idle" /\ handlers' \in Handlers /\ Len(handlers') <= 1
<1>1. handlers' = SubSeq(handlers, 1, 0)
  BY DEF Return, Front
<1>2. handlers' = <<>>
  BY <1>1 DEF Handlers
<1> QED
  BY <1>2 DEF Phase, Handlers

(***************************************************************************)
(* What a key means for the line.                                          *)
(***************************************************************************)
LEMMA EditFacts ==
    ASSUME NEW line \in Seq(Chars), NEW k, NEW e, e = Edit(line, k),
           NEW n \in Nat, n = Len(line)
    PROVE  /\ e \in Seq(Chars)
           /\ k \in Chars /\ n < CMD_BUF_SIZE - 1 =>
                 Len(e) = n + 1 /\ e[n + 1] = k /\ \A i \in 1 .. n : e[i] = line[i]
           /\ k \in Chars /\ n >= CMD_BUF_SIZE - 1 => e = line
           /\ k = "BS" /\ n > 0 => Len(e) = n - 1 /\ \A i \in 1 .. n - 1 : e[i] = line[i]
           /\ k = "BS" /\ n = 0 => e = line
           /\ k \in {"NL", "esc"} => e = line
<1>1. "NL" \notin Chars /\ "BS" \notin Chars /\ "esc" \notin Chars /\ CMD_BUF_SIZE \in Nat
  BY ConstantFacts
<1>2. line # <<>> <=> n > 0
  OBVIOUS
<1>3. CASE k \in Chars /\ n < CMD_BUF_SIZE - 1
  <2>1. e = Append(line, k)
    BY <1>3 DEF Edit
  <2>2. /\ Append(line, k) \in Seq(Chars) /\ Len(Append(line, k)) = n + 1
        /\ Append(line, k)[n + 1] = k
        /\ \A i \in 1 .. n : Append(line, k)[i] = line[i]
    BY <1>3, AppendProperties
  <2> QED
    BY <1>1, <1>3, <2>1, <2>2
<1>4. CASE k = "BS" /\ n > 0
  <2>1. e = SubSeq(line, 1, n - 1)
    BY <1>1, <1>2, <1>4 DEF Edit, Front
  <2>2. e \in Seq(Chars) /\ Len(e) = n - 1 /\ \A i \in 1 .. n - 1 : e[i] = line[i]
    BY <1>4, <2>1
  <2> QED
    BY <1>1, <1>4, <2>2
<1>5. CASE ~(k \in Chars /\ n < CMD_BUF_SIZE - 1) /\ ~(k = "BS" /\ n > 0)
  <2>1. e = line
    BY <1>2, <1>5 DEF Edit
  <2> QED
    BY <1>1, <1>5, <2>1
<1> QED
  BY <1>3, <1>4, <1>5

-----------------------------------------------------------------------------
(***************************************************************************)
(* A key is pressed: no handler runs yet.                                  *)
(***************************************************************************)
LEMMA KeyPressInv ==
    ASSUME MaxNest = 1, IInv, NEW k \in Keys, KeyPress(k)
    PROVE  IInv'
<1>1. /\ keys < MaxKeys /\ Len(handlers) < 1
      /\ keys' = keys + 1 /\ handlers' = Append(handlers, [key |-> k, pc |-> "test"])
      /\ typed' = Edit(typed, k)
      /\ UNCHANGED <<cmd_buffer, cmd_pos, crt, ran>>
  BY DEF KeyPress
<1>2. handlers = <<>>
  <2>1. handlers \in Handlers
    BY DEF IInv, TypeInv, Handlers, Calls
  <2>2. handlers # <<>> => Len(handlers) \in Nat \ {0}
    BY <2>1, EmptySeq, Zenon DEF Handlers
  <2>3. Len(handlers) \in Nat \ {0} => ~(Len(handlers) < 1)
    OBVIOUS
  <2> QED
    BY <1>1, <2>2, <2>3
<1>3. PICK h : h = [key |-> k, pc |-> "test"]
  OBVIOUS
<1>4. handlers' = <<h>> /\ h \in Calls /\ h.pc = "test" /\ h.key = k
  BY <1>1, <1>2, <1>3 DEF Calls, Phases
<1>5. /\ Phase = "idle" /\ Phase' = "test" /\ Key' = k
      /\ handlers' \in Handlers /\ Len(handlers') <= 1
  <2>1. handlers' # <<>> /\ handlers'[1] = h /\ Len(handlers') = 1
    BY <1>4
  <2>2. <<h>> \in Seq(Calls)
    BY <1>4
  <2> QED
    BY <1>2, <1>4, <2>1, <2>2 DEF Phase, Key, Handlers
<1>6. typed \in Seq(Chars) /\ Spells(typed, cmd_pos) /\ typed' \in Seq(Chars)
  <2>1. typed \in Seq(Chars) /\ Spells(typed, cmd_pos)
    BY <1>5 DEF IInv, TypeInv, EditInv
  <2>2. Len(typed) \in Nat
    BY <2>1
  <2> QED
    BY <1>1, <2>1, <2>2, EditFacts
<1>7. TypeInv'
  <2>1. keys' \in 0 .. MaxKeys
    BY <1>1, ConsoleAssumption DEF IInv, TypeInv
  <2> QED
    BY <1>1, <1>5, <1>6, <2>1 DEF IInv, TypeInv, Handlers, Calls
<1>8. EditInv'
  <2>1. PICK line \in Seq(Chars) : line = typed
    BY <1>6
  <2>2. /\ Len(line) = cmd_pos' /\ \A i \in 1 .. cmd_pos' : line[i] = cmd_buffer'[i - 1]
        /\ typed' = Edit(line, Key')
    BY <1>1, <1>5, <1>6, <2>1 DEF Spells
  <2> QED
    BY <1>1, <1>5, <2>2 DEF IInv, EditInv, Spells
<1>9. Shown' = Shown /\ Editing /\ Editing'
  BY <1>1, <1>5 DEF Shown, Editing
<1>10. EchoInv'
  BY <1>1, <1>9 DEF IInv, EchoInv
<1>11. PosInv'
  BY <1>9 DEF PosInv
<1>12. BlankInv'
  BY <1>1, <1>5, <1>9 DEF IInv, BlankInv
<1> QED
  BY <1>7, <1>8, <1>10, <1>11, <1>12 DEF IInv

(***************************************************************************)
(* What no handler step of a character or backspace changes: the screen    *)
(* invariants hold on as long as the characters shown stay the same.       *)
(***************************************************************************)
LEMMA SameScreen ==
    ASSUME IInv, UNCHANGED <<crt, ran>>, Editing, Editing',
           NEW n \in 0 .. CMD_BUF_SIZE, Shown = n, Shown' = n,
           \A i \in 0 .. n - 1 : cmd_buffer[i] = cmd_buffer'[i]
    PROVE  EchoInv' /\ PosInv' /\ BlankInv'
<1>1. PICK p \in Nat : p = Len(Prompt)
  BY ConstantFacts
<1>2. EchoInv'
  <2>1. Before(crt, Echo(cmd_buffer), p + n) /\ (~crt.full => crt.pos >= p + n)
    BY <1>1 DEF IInv, EchoInv
  <2>2. PICK b, c : b = cmd_buffer /\ c = cmd_buffer'
    OBVIOUS
  <2>3. Before(crt, Echo(c), p + n)
    BY <1>1, <2>1, <2>2, EchoSame
  <2>4. Before(crt', Echo(cmd_buffer'), p + n) /\ (~crt'.full => crt'.pos >= p + n)
    BY <2>1, <2>2, <2>3
  <2> QED
    BY <1>1, <2>4 DEF EchoInv
<1>3. PosInv'
  BY DEF PosInv
<1>4. BlankInv'
  BY DEF IInv, BlankInv, Editing
<1> QED
  BY <1>2, <1>3, <1>4

(***************************************************************************)
(* A character is tested: there must be room for it.                       *)
(***************************************************************************)
LEMMA CharTestInv ==
    ASSUME IInv, CharTest
    PROVE  IInv'
<1>1. /\ Phase = "test" /\ Key \in Chars \cup {"esc"} /\ Top.key = Key
      /\ handlers \in Handlers /\ Len(handlers) = 1
      /\ UNCHANGED <<cmd_buffer, cmd_pos, crt, ran, typed, keys>>
  BY AtFacts DEF IInv, CharTest
<1>2. PICK line \in Seq(Chars) : Spells(line, cmd_pos) /\ typed = Edit(line, Key)
  BY <1>1 DEF IInv, EditInv
<1>3. cmd_pos \in Nat /\ Len(line) = cmd_pos /\ CMD_BUF_SIZE \in Nat
  BY <1>2, ConstantFacts DEF IInv, TypeInv, Spells
<1>6. cmd_pos \in 0 .. CMD_BUF_SIZE
  BY ConstantFacts DEF IInv, TypeInv
<1>4. CASE cmd_pos < CMD_BUF_SIZE - 1 /\ Key # "esc"
  <2>1. Advance("store") /\ "store" \in Phases
    BY <1>1, <1>4 DEF CharTest, Phases
  <2>2. Phase' = "store" /\ Key' = Key /\ handlers' \in Handlers /\ Len(handlers') <= 1
    BY <1>1, <2>1, AdvanceFacts
  <2>3. /\ Len(typed) = cmd_pos + 1 /\ typed[cmd_pos + 1] = Key
        /\ \A i \in 1 .. cmd_pos : typed[i] = line[i]
    BY <1>1, <1>2, <1>3, <1>4, EditFacts
  <2>4. TypeInv'
    BY <1>1, <2>2 DEF IInv, TypeInv, Handlers, Calls
  <2>5. EditInv'
    BY <1>1, <1>2, <1>4, <2>2, <2>3 DEF IInv, EditInv, Spells
  <2>6. EchoInv' /\ PosInv' /\ BlankInv'
    <3>1. Shown = cmd_pos /\ Shown' = cmd_pos /\ Editing /\ Editing'
      BY <1>1, <2>2 DEF Shown, Editing
    <3> QED
      BY <1>1, <1>6, <3>1, SameScreen
  <2> QED
    BY <2>4, <2>5, <2>6 DEF IInv
<1>5. CASE ~(cmd_pos < CMD_BUF_SIZE - 1 /\ Key # "esc")
  <2>1. Return
    BY <1>1, <1>5 DEF CharTest
  <2>2. Phase' = "idle" /\ handlers' \in Handlers /\ Len(handlers') <= 1
    BY <1>1, <2>1, ReturnFacts
  <2>3. typed = line
    <3>1. Key = "esc" \/ (Key \in Chars /\ cmd_pos >= CMD_BUF_SIZE - 1)
      BY <1>1, <1>3, <1>5
    <3> QED
      BY <1>2, <1>3, <3>1, EditFacts
  <2>4. TypeInv'
    BY <1>1, <2>2 DEF IInv, TypeInv, Handlers, Calls
  <2>5. EditInv'
    BY <1>1, <1>2, <2>2, <2>3 DEF IInv, EditInv, Spells
  <2>6. EchoInv' /\ PosInv' /\ BlankInv'
    <3>1. Shown = cmd_pos /\ Shown' = cmd_pos /\ Editing /\ Editing'
      BY <1>1, <2>2 DEF Shown, Editing
    <3> QED
      BY <1>1, <1>6, <3>1, SameScreen
  <2> QED
    BY <2>4, <2>5, <2>6 DEF IInv
<1> QED
  BY <1>4, <1>5

(***************************************************************************)
(* The character is stored, and the buffer again holds the typed line.     *)
(***************************************************************************)
LEMMA CharStoreInv ==
    ASSUME IInv, CharStore
    PROVE  IInv'
<1>1. /\ Phase = "store" /\ Key \in Chars /\ Top.key = Key
      /\ handlers \in Handlers /\ Len(handlers) = 1
      /\ cmd_pos' = cmd_pos + 1 /\ Advance("echo")
      /\ UNCHANGED <<crt, ran, typed, keys>>
  BY AtFacts DEF IInv, CharStore
<1>2. /\ cmd_pos \in 0 .. CMD_BUF_SIZE - 1 /\ cmd_pos \in Nat /\ cmd_pos < CMD_BUF_SIZE - 1
      /\ cmd_buffer \in [0 .. CMD_BUF_SIZE - 1 -> Chars \cup {"nul"}] /\ CMD_BUF_SIZE \in Nat
  BY <1>1, ConstantFacts DEF IInv, TypeInv, EditInv
<1>3. Phase' = "echo" /\ Key' = Key /\ handlers' \in Handlers /\ Len(handlers') <= 1
  BY <1>1, AdvanceFacts DEF Phases
<1>4. cmd_buffer' = [i \in 0 .. CMD_BUF_SIZE - 1 |-> IF i = cmd_pos THEN Key ELSE cmd_buffer[i]]
  BY <1>1, <1>2 DEF CharStore
<1>5. /\ cmd_buffer' \in [0 .. CMD_BUF_SIZE - 1 -> Chars \cup {"nul"}]
      /\ cmd_buffer'[cmd_pos] = Key
      /\ \A i \in 0 .. cmd_pos - 1 : cmd_buffer'[i] = cmd_buffer[i]
  BY <1>1, <1>2, <1>4
<1>6. /\ \A i \in 0 .. cmd_pos - 1 : cmd_buffer[i] \in Chars
      /\ Len(typed) = cmd_pos + 1 /\ typed[cmd_pos + 1] = Key
      /\ \A i \in 1 .. cmd_pos : typed[i] = cmd_buffer[i - 1]
  BY <1>1 DEF IInv, EditInv
<1>7. TypeInv'
  BY <1>1, <1>2, <1>3, <1>5 DEF IInv, TypeInv, Handlers, Calls
<1>8. EditInv'
  <2>1. \A i \in 0 .. cmd_pos' - 1 : i = cmd_pos \/ i \in 0 .. cmd_pos - 1
    BY <1>1, <1>2
  <2>2. \A i \in 0 .. cmd_pos' - 1 : cmd_buffer'[i] \in Chars
    BY <1>1, <1>5, <1>6, <2>1
  <2>3. \A i \in 1 .. cmd_pos' : i = cmd_pos + 1 \/ (i \in 1 .. cmd_pos /\ i - 1 \in 0 .. cmd_pos - 1)
    BY <1>1, <1>2
  <2>4. (cmd_pos + 1) - 1 = cmd_pos
    BY <1>2
  <2>5. \A i \in 1 .. cmd_pos' : typed[i] = cmd_buffer'[i - 1]
    BY <1>5, <1>6, <2>3, <2>4
  <2> QED
    BY <1>1, <1>2, <1>3, <1>5, <1>6, <2>2, <2>4, <2>5 DEF EditInv, Spells
<1>9. EchoInv' /\ PosInv' /\ BlankInv'
  <2>1. Shown = cmd_pos /\ Shown' = cmd_pos /\ Editing /\ Editing'
    BY <1>1, <1>2, <1>3 DEF Shown, Editing
  <2>2. cmd_pos \in 0 .. CMD_BUF_SIZE
    BY <1>2
  <2> QED
    BY <1>1, <1>5, <2>1, <2>2, SameScreen
<1> QED
  BY <1>7, <1>8, <1>9 DEF IInv

(***************************************************************************)
(* It is echoed: now the screen shows what the buffer holds.               *)
(***************************************************************************)
LEMMA CharEchoInv ==
    ASSUME IInv, CharEcho
    PROVE  IInv'
<1>1. /\ Phase = "echo" /\ Key \in Chars /\ Top.key = Key
      /\ handlers \in Handlers /\ Len(handlers) = 1
      /\ crt' = CgaPutc(crt, Key) /\ Return
      /\ UNCHANGED <<cmd_buffer, cmd_pos, ran, typed, keys>>
  BY AtFacts DEF IInv, CharEcho
<1>2. Phase' = "idle" /\ handlers' \in Handlers /\ Len(handlers') <= 1
  BY <1>1, ReturnFacts
<1>3. PICK s \in Screens, x \in Nat, n \in Nat, p \in Nat, z \in Nat :
         s = crt /\ x = s.pos /\ n = cmd_pos /\ p = Len(Prompt) /\ z = PosSize
  <2>1. crt \in Screens /\ cmd_pos \in Nat
    BY ConstantFacts DEF IInv, TypeInv
  <2> QED
    BY <2>1, ScreenFacts, ConstantFacts
<1> PICK t : t = crt'
  OBVIOUS
<1>4. /\ n > 0 /\ n - 1 \in 0 .. CMD_BUF_SIZE - 1 /\ cmd_buffer[n - 1] = Key
      /\ \A i \in 0 .. n - 1 : cmd_buffer[i] \in Chars
      /\ Spells(typed, n) /\ Good(s)
  <2>1. /\ n > 0 /\ cmd_buffer[n - 1] = Key
        /\ \A i \in 0 .. n - 1 : cmd_buffer[i] \in Chars
        /\ Spells(typed, n) /\ Good(s)
    BY <1>1, <1>3 DEF IInv, EditInv, BlankInv
  <2>2. n \in 0 .. CMD_BUF_SIZE - 1
    BY <1>3 DEF IInv, TypeInv
  <2>3. n - 1 \in 0 .. CMD_BUF_SIZE - 1
    BY <2>1, <2>2, ConstantFacts
  <2> QED
    BY <2>1, <2>3
<1>5. /\ t \in Screens /\ Good(t) /\ (s.over => t.over)
      /\ x + 1 < z => t.pos = x + 1
      /\ x + 1 >= z => t.over
      /\ t.full <=> s.full \/ x = CRT_ROWS * CRT_COLS - 1
      /\ \A i \in Visible : t.buf[i] = IF i = x THEN Key ELSE s.buf[i]
  <2>1. Key \in Glyphs /\ Key # "NL" /\ Key # "BS" /\ t = CgaPutc(s, Key)
    BY <1>1, <1>3, ConstantFacts DEF Glyphs
  <2>2. PICK c : c = Key
    OBVIOUS
  <2>3. t \in Screens /\ Good(t) /\ (s.over => t.over)
    BY <1>4, <2>1, <2>2, PutCharGood
  <2>4. /\ t \in Screens
        /\ s.pos + 1 < PosSize => t.pos = s.pos + 1 /\ t.over = s.over
        /\ s.pos + 1 >= PosSize => t.pos = 0 /\ t.over
        /\ t.full <=> s.full \/ s.pos = CRT_ROWS * CRT_COLS - 1
        /\ \A i \in Visible : t.buf[i] = IF i = s.pos THEN c ELSE s.buf[i]
    BY <2>1, <2>2, PutChar
  <2> QED
    BY <1>3, <2>2, <2>3, <2>4
<1>6. Shown = n - 1 /\ Shown' = n /\ Editing /\ Editing'
  BY <1>1, <1>2, <1>3 DEF Shown, Editing
<1>7. TypeInv'
  BY <1>1, <1>2, <1>5 DEF IInv, TypeInv, Handlers, Calls
<1>8. EditInv'
  BY <1>1, <1>2, <1>3, <1>4 DEF IInv, EditInv, Spells
<1>9. EchoInv'
  <2>1. Before(s, Echo(cmd_buffer), p + (n - 1)) /\ (~s.full => x >= p + (n - 1))
    BY <1>3, <1>6 DEF IInv, EchoInv
  <2> PICK b : b = cmd_buffer
    OBVIOUS
  <2>2. PICK k \in Nat : k = p + (n - 1) /\ k + 1 = p + n
    BY <1>4
  <2>3. Echo(b)[k + 1] = Key
    <3>1. Echo(b)[p + (n - 1) + 1] = b[n - 1]
      BY <1>3, <1>4, EchoIs
    <3> QED
      BY <1>4, <2>2, <3>1
  <2>4. Before(t, Echo(b), k + 1)
    <3>1. PICK c \in Glyphs : c = Key
      BY <1>1 DEF Glyphs
    <3>2. Before(s, Echo(b), k) /\ t = CgaPutc(s, c) /\ Echo(b)[k + 1] = c
      BY <1>1, <1>3, <2>1, <2>2, <2>3, <3>1
    <3> QED
      BY <3>2, BeforePut
  <2>5. ~t.full => t.pos >= p + n
    <3>1. ~s.full => x \in Visible
      BY <1>3, <1>4 DEF Good
    <3>2. x \in Visible => x + 1 < z
      BY <1>3, CellFacts, ConstantFacts
    <3>3. ~t.full => t.pos = x + 1 /\ x >= p + (n - 1)
      BY <1>5, <2>1, <3>1, <3>2
    <3> QED
      BY <3>3
  <2>6. Before(t, Echo(cmd_buffer), p + n)
    BY <2>2, <2>4
  <2> QED
    BY <1>1, <1>3, <1>6, <2>5, <2>6 DEF EchoInv
<1>10. PosInv'
  BY <1>6 DEF PosInv
<1>11. BlankInv'
  <2>1. ASSUME ran.cmd = Clear, ~t.over, NEW i \in Visible, i < t.pos - (p + n)
        PROVE  t.buf[i] = Blank
    <3>1. ~s.over /\ t.pos = x + 1
      BY <1>5, <2>1
    <3>2. i \in Nat /\ i < x - (p + (n - 1)) /\ i # x
      BY <1>4, <2>1, <3>1, CellFacts
    <3>3. s.buf[i] = Blank
      BY <1>3, <1>6, <2>1, <3>1, <3>2 DEF IInv, BlankInv
    <3> QED
      BY <1>5, <3>2, <3>3
  <2> QED
    BY <1>1, <1>2, <1>3, <1>5, <1>6, <2>1 DEF BlankInv
<1> QED
  BY <1>7, <1>8, <1>9, <1>10, <1>11 DEF IInv

(***************************************************************************)
(* Backspace is tested: there must be a character to erase.                *)
(***************************************************************************)
LEMMA BackTestInv ==
    ASSUME IInv, BackTest
    PROVE  IInv'
<1>1. /\ Phase = "test" /\ Key = "BS"
      /\ handlers \in Handlers /\ Len(handlers) = 1
      /\ IF cmd_pos > 0 THEN Advance("back") ELSE Return
      /\ UNCHANGED <<cmd_buffer, cmd_pos, crt, ran, typed, keys>>
  BY AtFacts DEF IInv, BackTest
<1>2. PICK line \in Seq(Chars) : Spells(line, cmd_pos) /\ typed = Edit(line, Key)
  BY <1>1 DEF IInv, EditInv
<1>3. cmd_pos \in Nat /\ Len(line) = cmd_pos
  BY <1>2, ConstantFacts DEF IInv, TypeInv, Spells
<1>6. cmd_pos \in 0 .. CMD_BUF_SIZE
  BY ConstantFacts DEF IInv, TypeInv
<1>4. CASE cmd_pos > 0
  <2>1. Phase' = "back" /\ Key' = Key /\ handlers' \in Handlers /\ Len(handlers') <= 1
    BY <1>1, <1>4, AdvanceFacts DEF Phases
  <2>2. Len(typed) = cmd_pos - 1 /\ \A i \in 1 .. cmd_pos - 1 : typed[i] = line[i]
    BY <1>1, <1>2, <1>3, <1>4, EditFacts
  <2>3. Spells(typed, cmd_pos - 1)
    BY <1>2, <1>3, <2>2 DEF Spells
  <2>4. TypeInv'
    BY <1>1, <2>1 DEF IInv, TypeInv, Handlers, Calls
  <2>5. EditInv'
    BY <1>1, <1>4, <2>1, <2>3 DEF IInv, EditInv, Spells
  <2>6. EchoInv' /\ PosInv' /\ BlankInv'
    <3>1. Shown = cmd_pos /\ Shown' = cmd_pos /\ Editing /\ Editing'
      BY <1>1, <2>1 DEF Shown, Editing
    <3> QED
      BY <1>1, <1>6, <3>1, SameScreen
  <2> QED
    BY <2>4, <2>5, <2>6 DEF IInv
<1>5. CASE ~(cmd_pos > 0)
  <2>1. Phase' = "idle" /\ handlers' \in Handlers /\ Len(handlers') <= 1
    BY <1>1, <1>5, ReturnFacts
  <2>2. typed = line
    <3>1. cmd_pos = 0 /\ Key = "BS"
      BY <1>1, <1>3, <1>5
    <3>2. 0 \in Nat /\ 0 = Len(line)
      BY <1>3, <3>1
    <3>3. PICK e : e = Edit(line, "BS")
      OBVIOUS
    <3>4. e = line
      BY <3>2, <3>3, EditFacts
    <3> QED
      BY <1>2, <3>1, <3>3, <3>4
  <2>3. TypeInv'
    BY <1>1, <2>1 DEF IInv, TypeInv, Handlers, Calls
  <2>4. EditInv'
    BY <1>1, <1>2, <2>1, <2>2 DEF IInv, EditInv, Spells
  <2>5. EchoInv' /\ PosInv' /\ BlankInv'
    <3>1. Shown = cmd_pos /\ Shown' = cmd_pos /\ Editing /\ Editing'
      BY <1>1, <2>1 DEF Shown, Editing
    <3> QED
      BY <1>1, <1>6, <3>1, SameScreen
  <2> QED
    BY <2>3, <2>4, <2>5 DEF IInv
<1> QED
  BY <1>4, <1>5

(***************************************************************************)
(* The last character leaves the buffer.                                   *)
(***************************************************************************)
LEMMA BackMoveInv ==
    ASSUME IInv, BackMove
    PROVE  IInv'
<1>1. /\ Phase = "back" /\ Key = "BS"
      /\ handlers \in Handlers /\ Len(handlers) = 1
      /\ cmd_pos' = cmd_pos - 1 /\ Advance("erase")
      /\ UNCHANGED <<cmd_buffer, crt, ran, typed, keys>>
  BY AtFacts DEF IInv, BackMove
<1>2. /\ cmd_pos \in 0 .. CMD_BUF_SIZE - 1 /\ CMD_BUF_SIZE \in Nat /\ cmd_pos > 0
      /\ Spells(typed, cmd_pos - 1)
  BY <1>1, ConstantFacts DEF IInv, TypeInv, EditInv
<1>3. Phase' = "erase" /\ Key' = Key /\ handlers' \in Handlers /\ Len(handlers') <= 1
  BY <1>1, AdvanceFacts DEF Phases
<1>4. TypeInv'
  BY <1>1, <1>2, <1>3 DEF IInv, TypeInv, Handlers, Calls
<1>5. EditInv'
  <2>1. \A i \in 0 .. cmd_pos' - 1 : i \in 0 .. cmd_pos - 1
    BY <1>1, <1>2
  <2> QED
    BY <1>1, <1>2, <1>3, <2>1 DEF IInv, EditInv, Spells
<1>6. EchoInv' /\ PosInv' /\ BlankInv'
  <2>1. Shown = cmd_pos /\ Shown' = cmd_pos /\ Editing /\ Editing'
    BY <1>1, <1>2, <1>3 DEF Shown, Editing
  <2>2. cmd_pos \in 0 .. CMD_BUF_SIZE
    BY <1>2
  <2> QED
    BY <1>1, <2>1, <2>2, SameScreen
<1> QED
  BY <1>4, <1>5, <1>6 DEF IInv

(***************************************************************************)
(* It leaves the screen, where it stood before the cursor.                 *)
(***************************************************************************)
LEMMA BackEraseInv ==
    ASSUME IInv, BackErase
    PROVE  IInv'
<1>1. /\ Phase = "erase" /\ Key = "BS"
      /\ handlers \in Handlers /\ Len(handlers) = 1
      /\ crt' = CgaPutc(crt, "BS") /\ Return
      /\ UNCHANGED <<cmd_buffer, cmd_pos, ran, typed, keys>>
  BY AtFacts DEF IInv, BackErase
<1>2. Phase' = "idle" /\ handlers' \in Handlers /\ Len(handlers') <= 1
  BY <1>1, ReturnFacts
<1>3. PICK s \in Screens, x \in Nat, n \in Nat, p \in Nat :
         s = crt /\ x = s.pos /\ n = cmd_pos /\ p = Len(Prompt)
  <2>1. crt \in Screens /\ cmd_pos \in Nat
    BY ConstantFacts DEF IInv, TypeInv
  <2> QED
    BY <2>1, ScreenFacts, ConstantFacts
<1> PICK t : t = crt'
  OBVIOUS
<1>4. Shown = n + 1 /\ Shown' = n /\ Editing /\ Editing' /\ Good(s)
  BY <1>1, <1>2, <1>3 DEF Shown, Editing, IInv, BlankInv
<1>5. /\ t \in Screens /\ Good(t) /\ t.full = s.full /\ t.over = s.over
      /\ x = 0 => t = s
      /\ x > 0 =>
            /\ t.pos = x - 1
            /\ \A i \in Visible : t.buf[i] = IF i = x - 1 THEN Blank ELSE s.buf[i]
  <2>1. /\ t \in Screens /\ Good(t)
        /\ t.full = s.full /\ t.over = s.over
        /\ s.pos = 0 => t = s
        /\ s.pos > 0 =>
              /\ t.pos = s.pos - 1
              /\ \A i \in Visible : t.buf[i] = IF i = s.pos - 1 THEN Blank ELSE s.buf[i]
    BY <1>1, <1>3, <1>4, PutBack
  <2> QED
    BY <1>3, <2>1
<1>6. TypeInv'
  BY <1>1, <1>2, <1>5 DEF IInv, TypeInv, Handlers, Calls
<1>7. EditInv'
  BY <1>1, <1>2, <1>3 DEF IInv, EditInv, Spells
<1>8. EchoInv'
  <2>1. Before(s, Echo(cmd_buffer), p + (n + 1)) /\ (~s.full => x >= p + (n + 1))
    BY <1>3, <1>4 DEF IInv, EchoInv
  <2> PICK b : b = Echo(cmd_buffer)
    OBVIOUS
  <2>2. PICK k \in Nat : k = p + n /\ k + 1 = p + (n + 1)
    OBVIOUS
  <2>3. Before(s, b, k + 1) /\ t = CgaPutc(s, "BS")
    BY <1>1, <1>3, <2>1, <2>2
  <2>4. Before(t, b, k)
    BY <1>4, <2>3, BeforeBack
  <2>5. ~t.full => t.pos >= p + n
    BY <1>5, <2>1
  <2> QED
    BY <1>1, <1>3, <1>4, <2>2, <2>4, <2>5 DEF EchoInv
<1>9. PosInv'
  BY <1>4 DEF PosInv
<1>10. BlankInv'
  <2>1. ASSUME ran.cmd = Clear, ~t.over, NEW i \in Visible, i < t.pos - (p + n)
        PROVE  t.buf[i] = Blank
    <3>1. i \in Nat
      BY CellFacts
    <3>2. CASE x = 0
      <4>1. t.pos = 0
        BY <1>3, <1>5, <3>2
      <4> QED
        BY <2>1, <3>1, <4>1
    <3>3. CASE x > 0
      <4>1. ~s.over /\ t.pos = x - 1
        BY <1>5, <2>1, <3>3
      <4>2. i < x - (p + (n + 1))
        BY <2>1, <3>1, <4>1
      <4>3. s.buf[i] = Blank
        BY <1>3, <1>4, <2>1, <4>1, <4>2 DEF IInv, BlankInv
      <4> QED
        BY <1>5, <3>3, <4>3
    <3> QED
      BY <3>2, <3>3
  <2> QED
    BY <1>1, <1>2, <1>3, <1>4, <1>5, <2>1 DEF BlankInv
<1> QED
  BY <1>6, <1>7, <1>8, <1>9, <1>10 DEF IInv

-----------------------------------------------------------------------------
(***************************************************************************)
(* Enter ends the line, on the screen and in the buffer.                   *)
(***************************************************************************)
LEMMA EnterLineInv ==
    ASSUME IInv, EnterLine
    PROVE  IInv'
<1>1. /\ Phase = "test" /\ Key = "NL"
      /\ handlers \in Handlers /\ Len(handlers) = 1
      /\ crt' = CgaPutc(crt, "NL") /\ Advance("run")
      /\ UNCHANGED <<cmd_pos, ran, typed, keys>>
  BY AtFacts DEF IInv, EnterLine
<1>2. /\ cmd_pos \in 0 .. CMD_BUF_SIZE - 1 /\ cmd_pos \in Nat /\ CMD_BUF_SIZE \in Nat
      /\ cmd_buffer \in [0 .. CMD_BUF_SIZE - 1 -> Chars \cup {"nul"}]
      /\ crt \in Screens /\ Good(crt)
      /\ \A i \in 0 .. cmd_pos - 1 : cmd_buffer[i] \in Chars
  BY <1>1, ConstantFacts DEF IInv, TypeInv, EditInv, BlankInv
<1>3. Phase' = "run" /\ Key' = Key /\ handlers' \in Handlers /\ Len(handlers') <= 1
  BY <1>1, AdvanceFacts DEF Phases
<1>4. Spells(typed, cmd_pos)
  <2>1. PICK line \in Seq(Chars) : Spells(line, cmd_pos) /\ typed = Edit(line, Key)
    BY <1>1 DEF IInv, EditInv
  <2>2. PICK e : e = Edit(line, "NL")
    OBVIOUS
  <2>3. cmd_pos = Len(line)
    BY <2>1 DEF Spells
  <2>4. e = line
    BY <1>2, <2>2, <2>3, EditFacts
  <2> QED
    BY <1>1, <2>1, <2>2, <2>4
<1>5. cmd_buffer' = [i \in 0 .. CMD_BUF_SIZE - 1 |-> IF i = cmd_pos THEN "nul" ELSE cmd_buffer[i]]
  BY <1>2 DEF EnterLine
<1>6. /\ cmd_buffer' \in [0 .. CMD_BUF_SIZE - 1 -> Chars \cup {"nul"}]
      /\ cmd_buffer'[cmd_pos] = "nul"
      /\ \A i \in 0 .. cmd_pos - 1 : cmd_buffer'[i] = cmd_buffer[i]
  BY <1>2, <1>5
<1>7. crt' \in Screens /\ Good(crt') /\ \E q : AtRow(crt', q)
  <2>1. PICK s, t : s = crt /\ t = crt'
    OBVIOUS
  <2>2. t \in Screens /\ Good(t) /\ \E q : AtRow(t, q)
    BY <1>1, <1>2, <2>1, NewlineGood
  <2> QED
    BY <2>1, <2>2
<1>8. TypeInv'
  BY <1>1, <1>2, <1>3, <1>6, <1>7 DEF IInv, TypeInv, Handlers, Calls
<1>9. EditInv'
  <2>1. \A i \in 1 .. cmd_pos : i - 1 \in 0 .. cmd_pos - 1
    BY <1>2
  <2> QED
    BY <1>1, <1>2, <1>3, <1>4, <1>6, <2>1 DEF EditInv, Spells
<1>10. ~Editing'
  BY <1>3 DEF Editing
<1>11. EchoInv'
  BY <1>10 DEF EchoInv
<1>12. PosInv'
  BY <1>7 DEF PosInv
<1>13. BlankInv'
  BY <1>3, <1>7, <1>10 DEF BlankInv
<1> QED
  BY <1>8, <1>9, <1>11, <1>12, <1>13 DEF IInv

(***************************************************************************)
(* The line is run, and its output printed.                                *)
(***************************************************************************)
LEMMA EnterRunInv ==
    ASSUME IInv, EnterRun
    PROVE  IInv'
<1>1. /\ Phase = "run" /\ Key = "NL"
      /\ handlers \in Handlers /\ Len(handlers) = 1
      /\ ran' = [line |-> Line, cmd |-> Dispatch(Line)]
      /\ crt' = Puts(crt, Output(Line)) /\ Advance("done")
      /\ UNCHANGED <<cmd_buffer, cmd_pos, typed, keys>>
  BY AtFacts DEF IInv, EnterRun
<1>2. Phase' = "done" /\ Key' = Key /\ handlers' \in Handlers /\ Len(handlers') <= 1
  BY <1>1, AdvanceFacts DEF Phases
<1>3. Line = typed /\ typed \in Seq(Chars)
  BY <1>1, LineIsTyped DEF IInv, TypeInv
<1>4. ran'.line = typed /\ ran'.cmd = Dispatch(typed) /\ ran'.cmd \in 0 .. Len(commands)
  <2>1. ran'.line = typed /\ ran'.cmd = Dispatch(typed)
    BY <1>1, <1>3
  <2>2. PICK cmd, d : cmd = SkipSpaces(typed) /\ d = Dispatch(typed)
    OBVIOUS
  <2>3. d \in 0 .. Len(commands)
    BY <1>3, <2>2, Search
  <2> QED
    BY <2>1, <2>2, <2>3
<1>5. PICK r : AtRow(crt, r)
  BY <1>1 DEF IInv, PosInv, Editing
<1>6. /\ crt' \in Screens /\ Good(crt') /\ \E q : AtRow(crt', q)
      /\ ran'.cmd = Clear /\ ~crt'.over => \A i \in Visible : crt'.buf[i] = Blank
  <2>1. PICK s, t, line : s = crt /\ t = crt' /\ line = typed
    OBVIOUS
  <2>2. /\ s \in Screens /\ Good(s) /\ AtRow(s, r) /\ line \in Seq(Chars)
        /\ t = Puts(s, Output(line))
    BY <1>1, <1>3, <1>5, <2>1 DEF IInv, TypeInv, BlankInv
  <2>3. /\ t \in Screens /\ Good(t) /\ \E q : AtRow(t, q)
        /\ Dispatch(line) = Clear /\ ~t.over => \A i \in Visible : t.buf[i] = Blank
    BY <2>2, OutputScreen
  <2> QED
    BY <1>4, <2>1, <2>3
<1>8. TypeInv'
  BY <1>1, <1>2, <1>3, <1>4, <1>6 DEF IInv, TypeInv, Handlers, Calls
<1>9. EditInv'
  BY <1>1, <1>2, <1>4 DEF IInv, EditInv, Spells
<1>10. ~Editing'
  BY <1>2 DEF Editing
<1>11. EchoInv'
  BY <1>10 DEF EchoInv
<1>12. PosInv'
  BY <1>6 DEF PosInv
<1>13. BlankInv'
  BY <1>6, <1>10 DEF BlankInv
<1> QED
  BY <1>8, <1>9, <1>11, <1>12, <1>13 DEF IInv

(***************************************************************************)
(* The line is emptied, and the prompt printed.                            *)
(***************************************************************************)
LEMMA EnterDoneInv ==
    ASSUME IInv, EnterDone
    PROVE  IInv'
<1>1. /\ Phase = "done" /\ Key = "NL"
      /\ handlers \in Handlers /\ Len(handlers) = 1
      /\ cmd_pos' = 0 /\ crt' = Puts(crt, Prompt) /\ typed' = <<>> /\ Return
      /\ UNCHANGED <<cmd_buffer, ran, keys>>
  BY AtFacts DEF IInv, EnterDone
<1>2. Phase' = "idle" /\ handlers' \in Handlers /\ Len(handlers') <= 1
  BY <1>1, ReturnFacts
<1>3. PICK s \in Screens, x \in Nat, p \in Nat :
         s = crt /\ x = s.pos /\ p = Len(Prompt) /\ Good(s)
  <2>1. crt \in Screens /\ Good(crt)
    BY DEF IInv, TypeInv, BlankInv
  <2> QED
    BY <2>1, ScreenFacts, ConstantFacts
<1> PICK t : t = crt'
  OBVIOUS
<1>4. /\ t \in Screens /\ Good(t) /\ Before(t, Prompt, p)
      /\ ~t.over => /\ ~s.over /\ t.pos = x + p
                    /\ \A i \in Visible : i < x => t.buf[i] = s.buf[i]
  <2>1. t = Puts(s, Prompt)
    BY <1>1, <1>3
  <2>2. /\ t \in Screens /\ Good(t) /\ Before(t, Prompt, p)
        /\ ~t.over => /\ ~s.over /\ t.pos = s.pos + p
                      /\ \A i \in Visible : i < s.pos => t.buf[i] = s.buf[i]
    BY <1>3, <2>1, PromptScreen
  <2> QED
    BY <1>3, <2>2
<1>5. Shown' = 0 /\ Editing' /\ Len(Prompt) + 0 = p
  BY <1>1, <1>2, <1>3 DEF Shown, Editing
<1>6. TypeInv'
  <2>1. 0 \in 0 .. CMD_BUF_SIZE - 1 /\ <<>> \in Seq(Chars)
    BY ConstantFacts
  <2> QED
    BY <1>1, <1>2, <1>4, <2>1 DEF IInv, TypeInv, Handlers, Calls
<1>7. EditInv'
  <2>1. Len(<<>>) = 0 /\ \A i \in 1 .. 0 : FALSE
    OBVIOUS
  <2>2. \A i \in 0 .. 0 - 1 : FALSE
    OBVIOUS
  <2> QED
    BY <1>1, <1>2, <2>1, <2>2 DEF EditInv, Spells
<1>8. EchoInv'
  <2>1. Before(t, Echo(cmd_buffer), p)
    BY <1>3, <1>4, PromptEcho
  <2>2. ~t.full => t.pos >= p
    BY <1>4 DEF Good
  <2> QED
    BY <1>1, <1>5, <2>1, <2>2 DEF EchoInv
<1>9. PosInv'
  BY <1>5 DEF PosInv
<1>10. BlankInv'
  <2>1. ASSUME ran.cmd = Clear, ~t.over, NEW i \in Visible, i < t.pos - p
        PROVE  t.buf[i] = Blank
    <3>1. ~s.over /\ i < x
      BY <1>4, <2>1, CellFacts
    <3>2. s.buf[i] = Blank
      BY <1>1, <1>3, <2>1, <3>1 DEF IInv, BlankInv
    <3> QED
      BY <1>4, <2>1, <3>1, <3>2
  <2> QED
    BY <1>1, <1>2, <1>4, <1>5, <2>1 DEF BlankInv
<1> QED
  BY <1>6, <1>7, <1>8, <1>9, <1>10 DEF IInv

-----------------------------------------------------------------------------
(***************************************************************************)
(* The first prompt.                                                       *)
(***************************************************************************)
LEMMA InitInv == Init => IInv
<1> SUFFICES ASSUME Init PROVE IInv
  OBVIOUS
<1>1. PICK row \in 0 .. CRT_ROWS - 1 :
         crt = Puts([buf |-> [i \in Visible |-> Blank], pos |-> row * CRT_COLS,
                     full |-> FALSE, over |-> FALSE], Prompt)
  BY DEF Init
<1>2. PICK s, x : /\ x = row * CRT_COLS
                  /\ s = [buf |-> [i \in Visible |-> Blank], pos |-> x,
                          full |-> FALSE, over |-> FALSE]
  OBVIOUS
<1>3. PICK p \in Nat : p = Len(Prompt)
  BY ConstantFacts
<1>4. x \in Visible /\ x \in Nat /\ x \in 0 .. PosSize - 1
  <2>1. PICK m \in Nat, n \in Nat : m = CRT_ROWS /\ n = CRT_COLS /\ n > 1 /\ row \in 0 .. m - 1
    BY ConstantFacts
  <2>2. PICK d \in Nat : m = row + 1 + d
    BY <2>1
  <2>3. (row + 1 + d) * n = row * n + n + d * n /\ d * n \in Nat /\ row * n \in Nat
    BY <2>1
  <2>4. x \in Nat /\ x < m * n
    BY <1>2, <2>1, <2>2, <2>3
  <2> QED
    BY <2>1, <2>4, CellFacts, ConstantFacts
<1>5. s \in Screens /\ s.pos = x /\ ~s.full /\ ~s.over /\ \A i \in Visible : s.buf[i] = Blank
  <2>1. [i \in Visible |-> Blank] \in [Visible -> Glyphs]
    BY ConstantFacts
  <2> QED
    BY <1>2, <1>4, <2>1 DEF Screens
<1>6. Good(s)
  BY <1>4, <1>5 DEF Good, Behind
<1>7. /\ crt \in Screens /\ Good(crt) /\ Before(crt, Prompt, p)
      /\ ~crt.over => crt.pos = x + p
  <2>1. crt = Puts(s, Prompt)
    BY <1>1, <1>2
  <2>2. PICK t : t = crt
    OBVIOUS
  <2>3. /\ t \in Screens /\ Good(t) /\ Before(t, Prompt, p)
        /\ ~t.over => /\ ~s.over /\ t.pos = s.pos + p
                      /\ \A i \in Visible : i < s.pos => t.buf[i] = s.buf[i]
    BY <1>3, <1>5, <1>6, <2>1, <2>2, PromptScreen
  <2> QED
    BY <1>5, <2>2, <2>3
<1>8. /\ cmd_buffer = [i \in 0 .. CMD_BUF_SIZE - 1 |-> "nul"] /\ cmd_pos = 0
      /\ handlers = <<>> /\ ran = [line |-> <<>>, cmd |-> 0] /\ typed = <<>> /\ keys = 0
  BY DEF Init
<1>9. Phase = "idle" /\ Editing /\ Shown = 0 /\ Len(Prompt) + 0 = p
  BY <1>3, <1>8 DEF Phase, Editing, Shown
<1>10. TypeInv
  <2>1. /\ 0 \in 0 .. CMD_BUF_SIZE - 1 /\ <<>> \in Seq(Chars)
        /\ 0 \in 0 .. MaxKeys /\ 0 \in 0 .. Len(commands)
    BY ConstantFacts, ConsoleAssumption
  <2>2. <<>> \in Seq([key : Keys, pc : Phases]) /\ Len(<<>>) <= 1
    OBVIOUS
  <2>3. ran.line = <<>> /\ ran.cmd = 0
    BY <1>8
  <2>4. cmd_buffer \in [0 .. CMD_BUF_SIZE - 1 -> Chars \cup {"nul"}]
    BY <1>8
  <2> QED
    BY <1>7, <1>8, <2>1, <2>2, <2>3, <2>4 DEF TypeInv
<1>11. EditInv
  <2>1. Len(<<>>) = 0 /\ (\A i \in 1 .. 0 : FALSE) /\ \A i \in 0 .. 0 - 1 : FALSE
    OBVIOUS
  <2> QED
    BY <1>8, <1>9, <2>1 DEF EditInv, Spells
<1>12. EchoInv
  <2>1. Before(crt, Echo(cmd_buffer), p)
    BY <1>3, <1>7, PromptEcho
  <2>2. ~crt.full => crt.pos >= p
    BY <1>4, <1>7 DEF Good
  <2> QED
    BY <1>9, <2>1, <2>2 DEF EchoInv
<1>13. PosInv
  BY <1>9 DEF PosInv
<1>14. BlankInv
  <2>1. ran.cmd # Clear
    BY <1>8, ConstantFacts
  <2> QED
    BY <1>7, <2>1 DEF BlankInv
<1> QED
  BY <1>10, <1>11, <1>12, <1>13, <1>14 DEF IInv

-----------------------------------------------------------------------------
(***************************************************************************)
(* Every step of a handler keeps the invariant.                            *)
(***************************************************************************)
THEOREM Invariance == ASSUME MaxNest = 1 PROVE Spec => []IInv
<1>1. IInv /\ [Next]_vars => IInv'
  <2> SUFFICES ASSUME IInv, [Next]_vars PROVE IInv'
    OBVIOUS
  <2>1. ASSUME NEW k \in Keys, KeyPress(k) PROVE IInv'
    BY <2>1, KeyPressInv
  <2>2. CASE CharTest
    BY <2>2, CharTestInv
  <2>3. CASE CharStore
    BY <2>3, CharStoreInv
  <2>4. CASE CharEcho
    BY <2>4, CharEchoInv
  <2>5. CASE BackTest
    BY <2>5, BackTestInv
  <2>6. CASE BackMove
    BY <2>6, BackMoveInv
  <2>7. CASE BackErase
    BY <2>7, BackEraseInv
  <2>8. CASE EnterLine
    BY <2>8, EnterLineInv
  <2>9. CASE EnterRun
    BY <2>9, EnterRunInv
  <2>10. CASE EnterDone
    BY <2>10, EnterDoneInv
  <2>11. CASE UNCHANGED vars
    BY <2>11 DEF vars, IInv, TypeInv, EditInv, EchoInv, PosInv, BlankInv, Phase, Key,
                 Editing, Shown, Spells
  <2> QED
    BY <2>1, <2>2, <2>3, <2>4, <2>5, <2>6, <2>7, <2>8, <2>9, <2>10, <2>11 DEF Next
<1> QED
  BY <1>1, InitInv, PTL DEF Spec

(***************************************************************************)
(* Type correctness.  As long as keys do not nest, shell_handle_char()     *)
(* stores every character and the terminator inside cmd_buffer, whatever   *)
(* is typed.  Nothing is said of video memory: crt_pos takes any value of  *)
(* its 16 bits and cga_putc() stores wherever it stands.                   *)
(***************************************************************************)
THEOREM TypeCorrect == ASSUME MaxNest = 1 PROVE Spec => []TypeOK
<1>1. IInv => TypeOK
  <2> SUFFICES ASSUME IInv PROVE TypeOK
    OBVIOUS
  <2>1. DOMAIN crt.buf = Visible /\ crt.pos \in 0 .. PosSize - 1
    BY DEF IInv, TypeInv, Screens
  <2>2. \A i \in 1 .. Len(handlers) : handlers[i].key \in Keys
    <3>1. handlers \in Handlers
      BY DEF IInv, TypeInv, Handlers, Calls
    <3>2. \A i \in 1 .. Len(handlers) : handlers[i] \in Calls
      BY <3>1 DEF Handlers
    <3> QED
      BY <3>2 DEF Calls
  <2> QED
    BY <2>1, <2>2 DEF IInv, TypeInv, TypeOK, BufferInBounds
<1> QED
  BY <1>1, Invariance, PTL

(***************************************************************************)
(* Between keys whatever is visible of the cells before the cursor is the  *)
(* prompt and the line that Enter would run, on and off the screen and     *)
(* through overflows of crt_pos; and until a character is written in the   *)
(* last visible cell all of it is visible.                                 *)
(***************************************************************************)
THEOREM EchoAlwaysFaithful == ASSUME MaxNest = 1 PROVE Spec => []EchoFaithful
<1>1. IInv => EchoFaithful
  <2> SUFFICES ASSUME IInv, handlers = <<>>
               PROVE  LET start == crt.pos - cmd_pos
                          p     == Len(Prompt)
                      IN /\ \A i \in 0 .. cmd_pos - 1 :
                               start + i \in Visible => crt.buf[start + i] = cmd_buffer[i]
                         /\ \A i \in 1 .. p :
                               start - p + i - 1 \in Visible =>
                                   crt.buf[start - p + i - 1] = Prompt[i]
                         /\ ~crt.full => start >= p /\ crt.pos \in Visible
    BY DEF EchoFaithful
  <2>1. Phase = "idle" /\ Editing /\ Shown = cmd_pos
    BY DEF Phase, Editing, Shown
  <2> PICK b : b = cmd_buffer
    OBVIOUS
  <2>2. PICK s \in Screens, x \in Nat, n \in 0 .. CMD_BUF_SIZE - 1, p \in Nat :
           s = crt /\ x = s.pos /\ n = cmd_pos /\ p = Len(Prompt)
    <3>1. crt \in Screens /\ cmd_pos \in 0 .. CMD_BUF_SIZE - 1
      BY DEF IInv, TypeInv
    <3> QED
      BY <3>1, ScreenFacts, ConstantFacts
  <2>3. CMD_BUF_SIZE \in Nat /\ n \in Nat
    BY ConstantFacts
  <2>4. Before(s, Echo(b), p + n) /\ (~s.full => x >= p + n /\ x \in Visible)
    BY <2>1, <2>2 DEF IInv, EchoInv, BlankInv, Good
  <2>5. ASSUME NEW i \in 0 .. n - 1, x - n + i \in Visible
        PROVE  s.buf[x - n + i] = b[i]
    <3>1. PICK k \in 1 .. p + n : k = p + i + 1 /\ x - (p + n) + k - 1 = x - n + i
      <4>1. p + i + 1 \in 1 .. p + n /\ x - (p + n) + (p + i + 1) - 1 = x - n + i
        BY <2>3
      <4> QED
        BY <4>1
    <3>2. s.buf[x - (p + n) + k - 1] = Echo(b)[k]
      BY <2>2, <2>4, <2>5, <3>1 DEF Before
    <3>3. i \in 0 .. CMD_BUF_SIZE - 1
      BY <2>3
    <3>4. Echo(b)[p + i + 1] = b[i]
      BY <2>2, <3>3, EchoIs
    <3> QED
      BY <3>1, <3>2, <3>4
  <2>6. ASSUME NEW i \in 1 .. p, x - n - p + i - 1 \in Visible
        PROVE  s.buf[x - n - p + i - 1] = Prompt[i]
    <3>1. i \in 1 .. p + n /\ x - (p + n) + i - 1 = x - n - p + i - 1
      BY <2>3
    <3>2. s.buf[x - (p + n) + i - 1] = Echo(b)[i]
      BY <2>2, <2>4, <2>6, <3>1 DEF Before
    <3>3. Echo(b)[i] = Prompt[i]
      BY <2>2, EchoIs
    <3> QED
      BY <3>1, <3>2, <3>3
  <2>7. ~s.full => x - n >= p /\ x \in Visible
    BY <2>3, <2>4
  <2> QED
    BY <2>2, <2>5, <2>6, <2>7
<1> QED
  BY <1>1, Invariance, PTL

(***************************************************************************)
(* Enter runs what the user typed and edited, and of the commands it may   *)
(* mean the one with the longest name, for every table in which a name     *)
(* that begins another comes after it.                                     *)
(***************************************************************************)
THEOREM AlwaysRunsWhatWasTyped == ASSUME MaxNest = 1 PROVE Spec => []RunsWhatWasTyped
<1>1. IInv => RunsWhatWasTyped
  <2> SUFFICES ASSUME IInv, At({"NL"}, "done") PROVE RunsWhatWasTyped
    BY DEF RunsWhatWasTyped
  <2>1. Phase = "done" /\ typed \in Seq(Chars)
    BY AtFacts DEF IInv, TypeInv
  <2>2. ran.line = typed /\ ran.cmd = Dispatch(typed)
    BY <2>1 DEF IInv, EditInv
  <2> PICK d : d = Dispatch(typed)
    OBVIOUS
  <2>3. PICK cmd \in Seq(Chars) : cmd = SkipSpaces(typed) /\ d = Dispatch(typed)
    BY <2>1, SkippedType
  <2>4. /\ d \in 0 .. Len(commands)
        /\ cmd = <<>> => d = 0
        /\ cmd # <<>> =>
              /\ d = 0 => \A i \in 1 .. Len(commands) : ~Matches(cmd, commands[i])
              /\ d # 0 => /\ Matches(cmd, commands[d])
                          /\ \A i \in 1 .. Len(commands) :
                                Matches(cmd, commands[i]) => d <= i
    BY <2>1, <2>3, Search
  <2>5. \A i \in 1 .. Len(commands) :
           /\ commands[i] \in Seq(Chars) /\ commands[i] # <<>>
           /\ Matches(cmd, commands[i]) <=>
                 cmd = commands[i] \/ IsPrefix(Append(commands[i], Blank), cmd)
    <3>1. \A i \in 1 .. Len(commands) : commands[i] \in Seq(Chars) /\ commands[i] # <<>>
      BY TableAssumption
    <3> QED
      BY <3>1, MatchesIs
  <2> DEFINE named == {i \in 1 .. Len(commands) :
                          \/ cmd = commands[i]
                          \/ IsPrefix(Append(commands[i], Blank), cmd)}
  <2>6. \A i : i \in named <=> i \in 1 .. Len(commands) /\ Matches(cmd, commands[i])
    BY <2>5
  <2>7. IF named = {} THEN d = 0
        ELSE d \in named /\ \A i \in named : Len(commands[i]) <= Len(commands[d])
    <3> HIDE DEF named
    <3>1. CASE cmd = <<>>
      <4>1. ASSUME NEW i \in named PROVE FALSE
        <5>1. /\ i \in 1 .. Len(commands) /\ commands[i] \in Seq(Chars)
              /\ commands[i] # <<>> /\ Matches(cmd, commands[i])
          BY <2>5, <2>6, <4>1
        <5>2. PICK n : n = Len(commands[i])
          OBVIOUS
        <5>3. n \in Nat \ {0}
          BY <5>1, <5>2, EmptySeq, Zenon
        <5>4. n <= Len(cmd) /\ Len(cmd) = 0
          <6>1. IsPrefix(commands[i], cmd)
            BY <5>1 DEF Matches
          <6>2. Len(commands[i]) <= Len(cmd)
            BY <5>1, <6>1, PrefixIs
          <6> QED
            BY <3>1, <5>2, <6>2
        <5> QED
          BY <5>3, <5>4
      <4> QED
        BY <2>4, <3>1, <4>1
    <3>2. CASE cmd # <<>> /\ d = 0
      <4>1. named = {}
        BY <2>4, <2>6, <3>2
      <4> QED
        BY <3>2, <4>1
    <3>3. CASE cmd # <<>> /\ d # 0
      <4>1. d \in 1 .. Len(commands)
        BY <2>4, <3>3, ConstantFacts
      <4>2. d \in named
        BY <2>4, <2>6, <3>3, <4>1
      <4>3. \A i \in named : Len(commands[i]) <= Len(commands[d])
        BY <2>4, <2>6, <3>3, <4>1, FirstIsLongest
      <4> QED
        BY <4>2, <4>3
    <3> QED
      BY <3>1, <3>2, <3>3
  <2> QED
    BY <2>2, <2>3, <2>7 DEF RunsWhatWasTyped
<1> QED
  BY <1>1, Invariance, PTL

(***************************************************************************)
(* After clear nothing but the new prompt is visible, in whichever row the *)
(* command was typed, on the screen or off it, as long as crt_pos has not  *)
(* overflowed: CRT_ROWS newlines are always enough.                        *)
(***************************************************************************)
THEOREM ClearAlwaysLeavesPrompt == ASSUME MaxNest = 1 PROVE Spec => []ClearLeavesPrompt
<1>1. IInv => ClearLeavesPrompt
  <2> SUFFICES ASSUME IInv, handlers = <<>>, cmd_pos = 0, ran.cmd = Clear, ~crt.over,
                      NEW i \in Visible \ (crt.pos - Len(Prompt) .. crt.pos - 1)
               PROVE  crt.buf[i] = Blank
    BY DEF ClearLeavesPrompt
  <2>1. Phase = "idle" /\ Editing /\ Shown = 0
    BY DEF Phase, Editing, Shown
  <2>2. PICK x \in Nat, p \in Nat : x = crt.pos /\ p = Len(Prompt)
    BY ScreenFacts, ConstantFacts DEF IInv, TypeInv
  <2>3. i \in Visible /\ i \in Nat /\ ~(i \in x - p .. x - 1)
    BY <2>2, CellFacts
  <2>4. i >= x \/ i < x - (p + 0)
    BY <2>3
  <2>5. Behind(crt)
    BY DEF IInv, BlankInv, Good
  <2>6. CASE i >= x
    BY <2>2, <2>3, <2>5, <2>6 DEF Behind
  <2>7. CASE i < x - (p + 0)
    BY <2>1, <2>2, <2>3, <2>7 DEF IInv, BlankInv
  <2> QED
    BY <2>4, <2>6, <2>7
<1> QED
  BY <1>1, Invariance, PTL
=============================================================================
