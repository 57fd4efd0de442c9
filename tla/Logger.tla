------------------------------- MODULE Logger -------------------------------
(* The text output of the kernel: printf, puts and the lines of general_log,   *)
(* put character by character to the serial port.  What general_log puts       *)
(* before the message (colour, severity, time, file) is one character.         *)
EXTENDS Printf

CONSTANTS
  Calls        \* what is written: [by |-> "log", "printf" or "puts", format, args]

VARIABLES
  put,         \* the characters the running call has still to put
  sent,        \* the bytes that the running or last call sent
  call,        \* the running or last call
  result       \* the count that its printf or vprintf returns

vars == <<put, sent, call, result>>

NoCall == [by |-> "none", format |-> <<>>, args |-> <<>>]
Prefix == 91

-----------------------------------------------------------------------------
(* The calls.                                                                  *)

general_log(c) == <<Prefix>> \o vprintf(c.format, c.args).put \o <<Newline>>

Output(c) ==
  CASE c.by = "log" -> general_log(c)
    [] c.by = "printf" -> printf(c.format, c.args).put
    [] c.by = "puts" -> puts(c.format)

Begin(c) ==
  /\ put = <<>>
  /\ call' = c /\ put' = Output(c) /\ sent' = <<>>
  /\ result' = IF c.by = "puts" THEN 0 ELSE vprintf(c.format, c.args).count

PutNext ==
  /\ put # <<>>
  /\ sent' = sent \o putchar(Head(put))
  /\ put' = Tail(put)
  /\ UNCHANGED <<call, result>>

Init == put = <<>> /\ sent = <<>> /\ call = NoCall /\ result = 0

Next == PutNext \/ \E c \in Calls : Begin(c)

Spec == Init /\ [][Next]_vars

-----------------------------------------------------------------------------
(* Reference: a call as its writer means it, item by item.                     *)

Done == call # NoCall /\ put = <<>>

\* The argument of the i-th item of a format: the number of conversions that take one.
ArgAt(c, i) ==
  c.args[Len(SelectSeq(SubSeq(c.format, 1, i), LAMBDA x : x[1] = "%" /\ x[2] # "%"))]
Takes(c, i) == c.by # "puts" /\ c.format[i][1] = "%"
NumberItems(c) == {i \in DOMAIN c.format : Takes(c, i) /\ c.format[i][2] \in DOMAIN Numeric}

Meant(c, i) ==
  LET k == c.format[i][2]
  IN  CASE c.by = "puts" -> <<c.format[i]>>
        [] c.by # "puts" /\ c.format[i][1] = "lit" -> <<k>>
        [] Takes(c, i) /\ k = "%" -> <<37>>
        [] Takes(c, i) /\ k = "c" -> <<ArgAt(c, i)>>
        [] Takes(c, i) /\ k = "s" -> IF ArgAt(c, i).null THEN NullText ELSE ArgAt(c, i).text
        [] OTHER -> Expected(k, ArgAt(c, i))
Message(c, n) == FlattenSeq([i \in 1..n |-> Meant(c, i)])

\* The items at which vprintf gives up: an unknown conversion, and a %c of -1.
Ends(c) ==
  {i \in DOMAIN c.format : Takes(c, i) /\
    \/ c.format[i][2] \notin DOMAIN Numeric \cup {"c", "s", "%"}
    \/ c.format[i][2] = "c" /\ ArgAt(c, i) = 2^IntBits - 1}
Printed(c) == IF Ends(c) = {} THEN Len(c.format) ELSE Min(Ends(c)) - 1

\* What the code leaves open: the digits of the smallest number of a width, whose
\* sign cannot be changed, and a %c above 255 whose low byte is a line feed.
LeftOpen(c) ==
  \/ \E i \in NumberItems(c) : Smallest(c.format[i][2], ArgAt(c, i))
  \/ \E i \in DOMAIN c.format :
       Takes(c, i) /\ c.format[i][2] = "c" /\ ArgAt(c, i) > 255 /\ ArgAt(c, i) % 256 = Newline

\* The serial port takes bytes, and a terminal a carriage return before each line feed.
OnTheLine(s) ==
  FlattenSeq([i \in DOMAIN s |-> IF s[i] % 256 = 10 THEN <<13, 10>> ELSE <<s[i] % 256>>])

-----------------------------------------------------------------------------
(* Properties                                                                 *)

\* No number, the smallest one of its width included, needs more digits than the
\* buffer char tmp[10] or tmp[20] of vprintf has.
BufferBounded ==
  \A i \in NumberItems(call) :
    Len(Digits(call.format[i][2], ArgAt(call, i)))
      <= IF Numeric[call.format[i][2]].bits = IntBits THEN TmpInt ELSE TmpLong

\* What a complete call sends is what its format and arguments say, up to the item
\* at which vprintf gives up.
TextRight ==
  Done /\ ~LeftOpen(call) =>
    LET text == (IF call.by = "log" THEN <<Prefix>> ELSE <<>>)
                  \o Message(call, Printed(call))
                  \o (IF call.by = "printf" \/ Ends(call) # {} THEN <<>> ELSE <<Newline>>)
    IN  IF Ends(call) = {} THEN sent = OnTheLine(text) ELSE IsPrefix(OnTheLine(text), sent)

\* vprintf returns the number of characters of the message, carriage returns not
\* counted: all of them, or those before the item at which it gives up.
CountRight == Done /\ call.by # "puts" => result = Len(Message(call, Printed(call)))

\* The text on the line and the count agree with the format, conversion by
\* conversion, and with each other.
OutputRight == TextRight /\ CountRight
=============================================================================
