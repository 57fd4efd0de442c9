------------------------------- MODULE MC_Pci -------------------------------
(* Instance of Pci for model checking.                                         *)
EXTENDS Pci

\* The e1000 has its registers in the memory space (bar 0) and in the I/O space (bar 1).
CardBars == [b \in Bars |-> b = 1]
\* 52:54:00:12:34:56, and the upper half of the second register
Mac == [i \in 0..7 |-> <<82, 84, 0, 18, 52, 86, 0, 128>>[i + 1]]
=============================================================================
