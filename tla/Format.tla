------------------------------- MODULE Format -------------------------------
(***************************************************************************)
(* Formatted output: cprintf() and its helpers, kern/cons/stdio.c.         *)
(*                                                                         *)
(* cprintf() reads its format one character at a time and is a state       *)
(* machine; a step of the model is one iteration of its loop.  The format  *)
(* is chosen as it is read, from the directives the kernel uses:           *)
(*     % flags width l conversion.                                         *)
(* The arguments are the words on the caller's stack.  A word has WordBits *)
(* bits, and `l` takes two words, the low one first, as a 64-bit argument  *)
(* on this machine.                                                        *)
(***************************************************************************)
EXTENDS Integers, Sequences, FiniteSets, SequencesExt

CONSTANTS WordBits,     \* 32 in the code
          Words,        \* the values of the number arguments
          Strings,      \* the string arguments
          NArgs,        \* how many words the caller passes
          Digits,       \* the digits, besides 0, a width is written with
          MaxDigits     \* bound: digits in a width, 0 counted

(***************************************************************************)
(* The character of a digit: '0' + mod below ten, 'A' + mod - 10 from ten. *)
(***************************************************************************)
Glyphs == <<"0", "1", "2", "3", "4", "5", "6", "7", "8", "9",
            "A", "B", "C", "D", "E", "F">>

Glyph(mod) == Glyphs[mod + 1]

Space == " "

DigitValue(c) == SelectInSeq(Glyphs, LAMBDA g : g = c) - 1

(***************************************************************************)
(* The powers of a base, as a function of the exponent.                    *)
(***************************************************************************)
Power(base) ==
    LET power[k \in Nat] == IF k = 0 THEN 1 ELSE base * power[k - 1]
    IN power

WordSize == Power(2)[WordBits]

ASSUME FormatAssumption ==
    /\ WordBits \in Nat \ {0} /\ Words \subseteq 0 .. WordSize - 1
    /\ \A s \in Strings : s \in Seq(STRING)
    /\ NArgs \in Nat /\ Digits \subseteq {Glyph(m) : m \in 1 .. 9} /\ MaxDigits \in Nat

(***************************************************************************)
(* An argument word is a number or points to a string.                     *)
(***************************************************************************)
Args == [num : Words, str : {<<>>}, ptr : {FALSE}]
        \cup [num : {0}, str : Strings, ptr : {TRUE}]

VARIABLES status, lflag, width, padc, left_align,       \* cprintf()'s variables
          args,         \* the words that va_arg has not taken yet
          out,          \* what cons_putc() has received
          format,       \* the directive as read so far
          before        \* args and out where the directive began (not in the code)

vars == <<status, lflag, width, padc, left_align, args, out, format, before>>

-----------------------------------------------------------------------------
(***************************************************************************)
(* va_arg of 32 or 64 bits, and its reading as a signed number.            *)
(***************************************************************************)
Size(long) == IF long THEN 2 ELSE 1

Modulus(long) == IF long THEN WordSize * WordSize ELSE WordSize

VaArg(a, long) ==
    IF long THEN a[1].num + a[2].num * WordSize ELSE a[1].num

Signed(num, long) ==
    IF num >= Modulus(long) \div 2 THEN num - Modulus(long) ELSE num

Times(c, k) == [i \in 1 .. k |-> c]

(***************************************************************************)
(* get_num_digits(): how often num can be divided.                         *)
(***************************************************************************)
NumDigits(num, base) ==
    LET digits[m \in Nat] == IF m > 0 THEN 1 + digits[m \div base] ELSE 0
    IN IF num = 0 THEN 1 ELSE digits[num]

(***************************************************************************)
(* print_digit(): the padding is printed at the bottom of the recursion,   *)
(* where what is left of width is known; print_digit_no_pad().             *)
(***************************************************************************)
PrintDigit(num, base, w, pad) ==
    LET print[m \in Nat] ==
            [left \in Int |->
                IF m >= base
                THEN Append(print[m \div base][left - 1], Glyph(m % base))
                ELSE Append(Times(pad, left - 1), Glyph(m))]
    IN print[num][w]

PrintDigitNoPad(num, base) ==
    LET print[m \in Nat] ==
            IF m >= base THEN Append(print[m \div base], Glyph(m % base))
            ELSE <<Glyph(m)>>
    IN print[num]

PrintNum(num, base, w, pad, left) ==
    IF left
    THEN PrintDigitNoPad(num, base) \o Times(Space, w - NumDigits(num, base))
    ELSE PrintDigit(num, base, w, pad)

(* Mutant: the sign follows the zeros. *)
PrintSignedNumLate(value, base, w, pad, left) ==
    LET num   == IF value < 0 THEN -value ELSE value
        sign  == IF value < 0 THEN <<"-">> ELSE <<>>
        blank == w - (NumDigits(num, base) + Len(sign))
    IN IF left THEN sign \o PrintDigitNoPad(num, base) \o Times(Space, blank)
       ELSE Times(pad, blank) \o sign \o PrintDigitNoPad(num, base)

PrintSignedNum(value, base, w, pad, left) ==
    LET num   == IF value < 0 THEN -value ELSE value
        sign  == IF value < 0 THEN <<"-">> ELSE <<>>
        blank == w - (NumDigits(num, base) + Len(sign))
    IN IF left THEN sign \o PrintDigitNoPad(num, base) \o Times(Space, blank)
       ELSE IF pad = "0" THEN sign \o Times("0", blank) \o PrintDigitNoPad(num, base)
       ELSE Times(pad, blank) \o sign \o PrintDigitNoPad(num, base)

PrintStr(s, w, left) ==
    IF left THEN s \o Times(Space, w - Len(s)) ELSE Times(Space, w - Len(s)) \o s

-----------------------------------------------------------------------------
Init ==
    /\ status = "NONE"
    /\ lflag = FALSE /\ width = 0 /\ padc = Space /\ left_align = FALSE
    /\ args \in [1 .. NArgs -> Args]
    /\ out = <<>>
    /\ format = <<>>
    /\ before = [args |-> args, out |-> out]

(***************************************************************************)
(* '%' outside a directive starts one; whatever is read there resets the   *)
(* flags.                                                                  *)
(***************************************************************************)
Percent ==
    /\ status = "NONE" /\ args # <<>>
    /\ status' = "TRANSFER"
    /\ padc' = Space /\ lflag' = FALSE /\ width' = 0 /\ left_align' = FALSE
    /\ format' = <<>>
    /\ before' = [args |-> args, out |-> out]
    /\ UNCHANGED <<args, out>>

(***************************************************************************)
(* An ordinary character is printed (one at a time here, which bounds the  *)
(* model) and resets the flags too.                                        *)
(***************************************************************************)
Plain ==
    /\ status = "NONE"
    /\ ~IsSuffix(<<".">>, out)
    /\ out' = Append(out, ".")
    /\ padc' = Space /\ lflag' = FALSE /\ width' = 0 /\ left_align' = FALSE
    /\ format' = <<>>
    /\ UNCHANGED <<status, args, before>>

Read(c) == status = "TRANSFER" /\ format' = Append(format, c)

(***************************************************************************)
(* Flags and width.  The conjuncts on format are the directives' grammar:  *)
(* flags come first, each once, then the width, which starts with a digit  *)
(* other than 0, then l.  The code takes a 0 for the flag wherever it      *)
(* stands: of "%-10s" in shell_help() it reads flags - and 0 and width 1.  *)
(***************************************************************************)
InWidth(directive) == \E i \in 1 .. Len(directive) : directive[i] \in Digits

WidthDigits(directive) ==
    Cardinality({j \in 1 .. Len(directive) : InWidth(SubSeq(directive, 1, j))})

Minus ==
    /\ Read("-") /\ format \in {<<>>, <<"0">>}
    /\ left_align' = TRUE
    /\ UNCHANGED <<status, lflag, width, padc, args, out, before>>

Zero ==
    /\ Read("0") /\ ~lflag
    /\ IF InWidth(format) THEN WidthDigits(format) < MaxDigits
       ELSE format \in {<<>>, <<"-">>}
    /\ padc' = "0"
    /\ UNCHANGED <<status, lflag, width, left_align, args, out, before>>

Digit(n) ==
    /\ Read(n) /\ ~lflag /\ WidthDigits(format) < MaxDigits
    /\ width' = width * 10 + DigitValue(n)
    /\ UNCHANGED <<status, lflag, padc, left_align, args, out, before>>

Long ==
    /\ Read("l") /\ ~lflag
    /\ lflag' = TRUE
    /\ UNCHANGED <<status, width, padc, left_align, args, out, before>>

(***************************************************************************)
(* A conversion, with arguments of its type (no width for %c in the kernel,*)
(* and cprintf() ignores one); the character whose code is n is Glyph(n).  *)
(***************************************************************************)
Convert(c, k, text) ==
    /\ format' = Append(format, c)
    /\ out' = out \o text
    /\ args' = SubSeq(args, k + 1, Len(args))
    /\ status' = "NONE"
    /\ UNCHANGED <<lflag, width, padc, left_align, before>>

NumbersNext(k) == Len(args) >= k /\ \A i \in 1 .. k : ~args[i].ptr

ConvertNumber(c) ==
    /\ status = "TRANSFER" /\ NumbersNext(Size(lflag))
    /\ c = "p" => ~lflag
    /\ Convert(c, Size(lflag),
          LET num == VaArg(args, lflag)
          IN CASE c \in {"x", "p"} -> PrintNum(num, 16, width, padc, left_align)
               [] c = "u" -> PrintNum(num, 10, width, padc, left_align)
               [] c = "d" -> PrintSignedNum(Signed(num, lflag), 10, width, padc,
                                            left_align))

ConvertString ==
    /\ status = "TRANSFER" /\ ~lflag /\ args[1].ptr
    /\ Convert("s", 1, PrintStr(args[1].str, width, left_align))

ConvertChar ==
    /\ status = "TRANSFER" /\ format = <<>> /\ NumbersNext(1)
    /\ Convert("c", 1, <<Glyph(args[1].num)>>)

Next ==
    \/ Percent \/ Plain \/ Minus \/ Zero \/ Long
    \/ \E n \in Digits : Digit(n)
    \/ \E c \in {"d", "u", "x", "p"} : ConvertNumber(c)
    \/ ConvertString \/ ConvertChar

Spec == Init /\ [][Next]_vars

-----------------------------------------------------------------------------
(***************************************************************************)
(* The reference: what the C library prints.  A number's digits, for which *)
(* C has small letters from ten, are defined by position.                  *)
(***************************************************************************)
CDigits == <<"0", "1", "2", "3", "4", "5", "6", "7", "8", "9",
             "a", "b", "c", "d", "e", "f">>

Numeral(num, base) ==
    LET k == CHOOSE k \in 1 .. num + 1 :
                /\ num < Power(base)[k]
                /\ k = 1 \/ num >= Power(base)[k - 1]
    IN [i \in 1 .. k |-> CDigits[((num \div Power(base)[k - i]) % base) + 1]]

Capital(c) ==
    CASE c = "a" -> "A" [] c = "b" -> "B" [] c = "c" -> "C"
      [] c = "d" -> "D" [] c = "e" -> "E" [] c = "f" -> "F" [] OTHER -> c

Capitals(text) == [i \in 1 .. Len(text) |-> Capital(text[i])]

(***************************************************************************)
(* The number that the characters of a directive in `digits` spell, read   *)
(* from the left.  C's width is spelled with the 0 among the digits (a 0   *)
(* among the flags comes first and adds nothing).                          *)
(***************************************************************************)
FieldWidth(directive, digits) ==
    LET upto[n \in 0 .. Len(directive)] ==
            IF n = 0 THEN 0
            ELSE IF directive[n] \in digits
                 THEN 10 * upto[n - 1] + DigitValue(directive[n])
                 ELSE upto[n - 1]
    IN upto[Len(directive)]

CWidth(directive) == FieldWidth(directive, Digits \cup {"0"})

ZeroInWidth(directive) ==
    \E i, j \in 1 .. Len(directive) :
        i < j /\ directive[i] \in Digits /\ directive[j] = "0"

(***************************************************************************)
(* What C prints for a directive's flags, l and conversion with width w:   *)
(* the field is as wide as the text or w, whichever is more; it is filled  *)
(* on the right, with zeros between sign and digits, or on the left.  The  *)
(* kernel's %x, and %p, are C's %X: C's %x has small letters.              *)
(***************************************************************************)
Reference(directive, words, w) ==
    LET conv  == Last(directive)
        long  == Contains(directive, "l")
        raw   == VaArg(words, long)
        value == IF conv = "d" THEN Signed(raw, long) ELSE raw
        sign  == IF conv = "d" /\ value < 0 THEN <<"-">> ELSE <<>>
        body  == CASE conv = "s" -> words[1].str
                   [] conv = "c" -> <<Glyph(words[1].num)>>
                   [] conv \in {"x", "p"} -> Capitals(Numeral(value, 16))
                   [] OTHER -> Numeral(IF value < 0 THEN -value ELSE value, 10)
        text  == (IF conv \in {"s", "c"} THEN <<>> ELSE sign) \o body
        fill  == w - Len(text)
    IN IF Contains(directive, "-") THEN text \o Times(Space, fill)
       ELSE IF Contains(directive, "0") /\ conv # "s" THEN sign \o Times("0", fill) \o body
       ELSE Times(Space, fill) \o text

(***************************************************************************)
(* A directive prints what the C library would print for it, hexadecimal   *)
(* digits as capitals, and takes its own arguments, no more: "proper       *)
(* negative number handling with padding", no flag left over from an       *)
(* earlier directive, recursive padding that agrees with the number of     *)
(* digits.  The exception is a width with a 0 in it ("%-10s" of            *)
(* shell_help()), where cprintf() is not C: it prints what C prints for    *)
(* the directive whose zeros are all taken for the flag.                   *)
(***************************************************************************)
PrintsAsC ==
    (status = "NONE" /\ format # <<>>) =>
        /\ out = before.out \o Reference(format, before.args,
                                         IF ZeroInWidth(format)
                                         THEN FieldWidth(format, Digits)
                                         ELSE CWidth(format))
        /\ args = SubSeq(before.args, Size(Contains(format, "l")) + 1, Len(before.args))
=============================================================================
