----------------------------- MODULE MC_Logger ------------------------------
(* Each conversion at the edges of its width, alone and beside other items.    *)
EXTENDS Logger

Log(f, a) == [by |-> "log", format |-> f, args |-> a]
Direct(f, a) == [by |-> "printf", format |-> f, args |-> a]
Puts(s) == [by |-> "puts", format |-> s, args |-> <<>>]

Edges(bits) == {0, 1, 9, 10, 15, 16, 2^(bits - 1) - 1, 2^(bits - 1), 2^(bits - 1) + 1, 2^bits - 1}
Abc == Str(<<97, Newline, 98>>)
InWords == <<Lit(97), Conv("i"), Conv("%"), Conv("x"), Lit(Newline)>>

MCCalls ==
  UNION {{Direct(<<Conv(k)>>, <<a>>) : a \in Edges(Numeric[k].bits)} : k \in DOMAIN Numeric}
  \cup {Log(InWords, <<a, 2^IntBits - a>>) : a \in {7, 2^IntBits - 10}}
  \cup {Log(<<Conv("s"), Lit(44), Conv("L")>>, <<s, 2^LongBits - 12>>) : s \in {Abc, Str(<<>>), NULL}}
  \cup {Direct(<<Conv("i"), Conv("c"), Conv("X")>>, <<a, ch, 4095>>) :
          a \in {0, 2^IntBits - 10}, ch \in {65, Newline, 266, 2^IntBits - 1}}
  \cup {Log(<<Lit(97), Conv("q"), Lit(98)>>, <<>>), Puts(<<72, 105>>), Puts(<<>>)}
=============================================================================
