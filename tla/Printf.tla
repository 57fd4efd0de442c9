------------------------------- MODULE Printf -------------------------------
(* The formatted output of the C library (libc/stdio/vprintf.c, putchar.c,     *)
(* puts.c) as functions from a format and its arguments to what is handed to   *)
(* putchar.  Characters are their ASCII codes.  A format is a sequence of      *)
(* items, Lit(c) for a character and Conv(k) for %k.  An argument is the bit   *)
(* pattern of an int or of a long long, or a string: NULL, or its characters.  *)
EXTENDS Integers, SequencesExt

CONSTANTS
  IntBits, LongBits,   \* 32 and 64: the width of an int and of a long long
  TmpInt, TmpLong      \* 10 and 20: the digit buffers char tmp[]

\* The digits that the largest unsigned number of a width has in base 10.
DecimalDigits(bits) == CHOOSE n \in 1..10 : 10^(n - 1) <= 2^bits - 1 /\ 2^bits - 1 < 10 * 10^(n - 1)

\* The buffers are just as long as the decimal digits of their width, as in the code.
ASSUME PrintfConstantsOK ==
  /\ IntBits \in 1..28 /\ LongBits \in IntBits..28
  /\ TmpInt = DecimalDigits(IntBits) /\ TmpLong = DecimalDigits(LongBits)

Lit(c) == <<"lit", c>>
Conv(k) == <<"%", k>>
Str(s) == [null |-> FALSE, text |-> s]
NULL == [null |-> TRUE, text |-> <<>>]
Minus == 45
Newline == 10
Return == 13

-----------------------------------------------------------------------------
(* Numbers                                                                    *)

Signed(x, bits) == IF x >= 2^(bits - 1) THEN x - 2^bits ELSE x

\* x *= -1, which has no effect on the smallest number.
Negate(x, bits) == IF x = -(2^(bits - 1)) THEN x ELSE -x

\* / and % of C round towards zero.
Quot(x, base) == IF x < 0 THEN -((-x) \div base) ELSE x \div base
Rem(x, base) == x - base * Quot(x, base)

\* The digits left in tmp[] by while (x) { tmp[i] = x % base; x /= base; ++i; }
tmp[x \in Int, base \in {10, 16}] ==
  IF x = 0 THEN <<>> ELSE <<Rem(x, base)>> \o tmp[Quot(x, base), base]

\* tmp[] is printed from its last digit down; tmp[0], which is 0, if there is none.
\* A char is unsigned on ARM.  n.letter is 'a' or 'A'.
Shown(digits, n) ==
  LET Char(d) == IF n.base = 16 /\ d % 256 > 9 THEN (d % 256) + n.letter - 10 ELSE (d % 256) + 48
      down == IF digits = <<>> THEN <<0>> ELSE Reverse(digits)
  IN  [i \in DOMAIN down |-> Char(down[i])]

\* conversion |-> signed, bits, base, letter
Numeric ==
  LET N(s, b, base, letter) == [signed |-> s, bits |-> b, base |-> base, letter |-> letter]
  IN [i |-> N(TRUE, IntBits, 10, 97),   l |-> N(FALSE, LongBits, 10, 97),
      L |-> N(TRUE, LongBits, 10, 97),  x |-> N(FALSE, IntBits, 16, 97),
      X |-> N(TRUE, IntBits, 16, 65),   y |-> N(FALSE, LongBits, 16, 97),
      Y |-> N(TRUE, LongBits, 16, 65)]

\* The value whose digits are taken, and whether a sign precedes them.
Value(k, arg) == IF Numeric[k].signed THEN Signed(arg, Numeric[k].bits) ELSE arg
Bad_Digits(k, arg) ==
  LET v == Value(k, arg)
  IN  tmp[IF v < 0 THEN -v ELSE v, Numeric[k].base] \o IF v < 0 THEN <<253>> ELSE <<>>
Digits(k, arg) ==
  LET n == Numeric[k]
      v == Value(k, arg)
  IN  tmp[IF v < 0 THEN Negate(v, n.bits) ELSE v, n.base]
Number(k, arg) ==
  (IF Value(k, arg) < 0 THEN <<Minus>> ELSE <<>>) \o Shown(Digits(k, arg), Numeric[k])

\* What a number adds to chars_written: the sign before it is put, each digit after.
NumberCount(k, arg) ==
  (IF Value(k, arg) < 0 THEN 1 ELSE 0) + Len(Shown(Digits(k, arg), Numeric[k]))

-----------------------------------------------------------------------------
(* vprintf                                                                    *)

NullText == <<40, 110, 117, 108, 108, 41>>
Unimplemented == <<Newline, 117, Newline>>   \* the message, its words one character

\* One item of the format: what is put, how much is added to chars_written, the
\* arguments it takes, and whether vprintf returns at once.
Piece(put, count, args, stop) == [put |-> put, count |-> count, args |-> args, stop |-> stop]

Item(item, arg) ==
  CASE item[1] = "lit" -> Piece(<<item[2]>>, 1, 0, FALSE)
    [] item[2] = "%" -> Piece(<<37>>, 1, 0, FALSE)
    \* putchar returns its argument: -1 is taken for EOF
    [] item[2] = "c" -> IF arg = 2^IntBits - 1 THEN Piece(<<arg>>, 0, 1, TRUE)
                        ELSE Piece(<<arg>>, 1, 1, FALSE)
    [] item[2] = "s" ->
         IF arg.null THEN Piece(NullText, 6, 1, FALSE)
         ELSE Piece(arg.text, Len(arg.text), 1, FALSE)
    [] item[2] \in DOMAIN Numeric ->
         Piece(Number(item[2], arg), NumberCount(item[2], arg), 1, FALSE)
    [] OTHER -> Piece(Unimplemented, 0, 0, TRUE)

vprintf(format, args) ==
  LET Do(st, item) ==
        IF st.stop THEN st
        ELSE LET p == Item(item, IF st.args < Len(args) THEN args[st.args + 1] ELSE 0)
             IN  Piece(st.put \o p.put, st.count + p.count, st.args + p.args, p.stop)
  IN  FoldLeft(Do, Piece(<<>>, 0, 0, FALSE), format)

printf(format, args) == vprintf(format, args)

puts(s) == s \o <<Newline>>

\* What is written to the serial port, a byte at a time: a new line is two bytes.
Bad_putchar(c) == <<c % 256>>
putchar(c) == IF c = Newline THEN <<Return, Newline>> ELSE <<c % 256>>

-----------------------------------------------------------------------------
(* Reference: positional notation, independent of the loops of vprintf.        *)

NumDigits(n, base) == CHOOSE k \in 1..30 : (k = 1 \/ base^(k - 1) <= n) /\ n \div base^(k - 1) < base

Numeral(n, base, letter) ==
  LET k == NumDigits(n, base)
  IN  [i \in 1..k |-> LET d == (n \div base^(k - i)) % base
                      IN  IF d < 10 THEN 48 + d ELSE letter + d - 10]

Smallest(k, arg) == Numeric[k].signed /\ arg = 2^(Numeric[k].bits - 1)

\* What a user of printf expects of one conversion of a number.
Expected(k, arg) ==
  LET v == Value(k, arg)
  IN  IF v < 0 THEN <<Minus>> \o Numeral(-v, Numeric[k].base, Numeric[k].letter)
      ELSE Numeral(v, Numeric[k].base, Numeric[k].letter)
=============================================================================
