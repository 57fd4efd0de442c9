------------------------------ MODULE PciMmio -------------------------------
(* Writes to the PCI address space (pci/pci_mmio.c).  The bus takes aligned    *)
(* 32-bit words only, so a shorter or unaligned write reads the words it       *)
(* overlaps, changes its bytes and writes them back.  A task may be            *)
(* interrupted between the read and the write; the interrupt handler writes    *)
(* registers of the card as well.                                              *)
(*                                                                             *)
(* A byte is the set of its bits, a word a function from byte number, least    *)
(* significant first, to bytes: shifts by multiples of 8 move bytes, &, | and  *)
(* ~ are set operations.  No operation mixes bits of different position.       *)
EXTENDS Integers, Sequences

CONSTANTS
  Bits,        \* the bits of a byte
  MemWords,    \* words of the address range
  MaxWrites,   \* bound: calls of the write functions
  MaxIrqs      \* bound: interrupts whose handler writes a register

ASSUME MmioConstantsOK == MemWords \in Nat

VARIABLES
  mem,         \* the bytes of the address range
  todo,        \* the words the running call has still to write
  loaded,      \* the word it read for the next of them, <<>> before
  target,      \* the byte addresses the running or last call is asked to write
  plain,       \* the running or last call writes whole aligned words
  writes, irqs,
  wanted,      \* history: the bytes if every write changed its bytes at once
  disturbed    \* history: an interrupt came during the running or last call

mmioVars == <<mem, todo, loaded, target, plain, writes, irqs, wanted, disturbed>>

Addresses == 0 .. 4 * MemWords - 1
Widen(v, n) == [i \in 0 .. n - 1 |-> IF i \in DOMAIN v THEN v[i] ELSE {}]
Shl(w, k) == [i \in DOMAIN w |-> IF i - k \in DOMAIN w THEN w[i - k] ELSE {}]
Shr(w, k) == [i \in DOMAIN w |-> IF i + k \in DOMAIN w THEN w[i + k] ELSE {}]
And(v, w) == [i \in 0..3 |-> v[i] \cap w[i]]
Or(v, w) == [i \in 0..3 |-> v[i] \cup w[i]]
Not(w) == [i \in 0..3 |-> Bits \ w[i]]
Ones(n) == [i \in 0 .. n - 1 |-> Bits]

-----------------------------------------------------------------------------
(* The write functions, as the words they write.  Merge: the word read, masked *)
(* by keep, or-ed with bits.  Whole: a word written without being read.        *)

Merge(at, keep, bits) == [at |-> at, read |-> TRUE, keep |-> keep, bits |-> bits]
Whole(at, bits) == [at |-> at, read |-> FALSE, keep |-> Not(Ones(4)), bits |-> bits]

\* (w << k * 8) >> k * 8 and (w >> k * 8) << k * 8, as masks
LowerPart(k) == Shr(Shl(Ones(4), k), k)
Bad_UpperPart(k) == Shl(Shr(Ones(4), 4 - k), 4 - k)
UpperPart(k) == Shl(Shr(Ones(4), k), k)

pci_write8(address, value) ==
  LET offset == address % 4
  IN  <<Merge(address - offset, Not(Shl(Widen(Ones(1), 4), offset)),
              Shl(Widen(value, 4), offset))>>

pci_write16(address, value) ==
  LET offset == address % 4
      v == Widen(value, 4)
  IN  IF offset # 3
      THEN <<Merge(address - offset, Not(Shl(Widen(Ones(2), 4), offset)), Shl(v, offset))>>
      ELSE <<Merge(address - 3, LowerPart(1), Shl(v, 3)),
             Merge(address + 1, UpperPart(1), Shr(v, 1))>>

pci_write32(address, value) ==
  LET lower == address % 4
      upper == 4 - lower
  IN  IF lower # 0
      THEN <<Merge(address - lower, LowerPart(upper), Shl(value, lower)),
             Merge(address + upper, UpperPart(lower), Shr(value, upper))>>
      ELSE <<Whole(address, value)>>

pci_write64(address, value) ==
  LET lower == address % 4
      upper == 4 - lower
  IN  IF lower # 0
      THEN <<Merge(address - lower, LowerPart(upper), Widen(Shl(value, lower), 4)),
             Whole(address + upper, Widen(Shr(value, upper), 4)),
             Merge(address + 4 + upper, UpperPart(lower), Widen(Shr(value, upper + 4), 4))>>
      ELSE <<Whole(address, Widen(value, 4)), Whole(address + 4, Widen(Shr(value, 4), 4))>>

-----------------------------------------------------------------------------
(* Actions                                                                    *)

\* As every bit is moved on its own, values with a single byte set, and their
\* complements, exercise what any value does.
Values(n) == UNION {{[i \in 0 .. n - 1 |-> IF i = k THEN Bits ELSE {}],
                     [i \in 0 .. n - 1 |-> IF i = k THEN {} ELSE Bits]} : k \in 0 .. n - 1}

Overwrite(m, address, value) ==
  [a \in Addresses |-> IF a - address \in DOMAIN value THEN value[a - address] ELSE m[a]]

Begin(n, address, value) ==
  /\ todo = <<>> /\ writes < MaxWrites
  /\ todo' = CASE n = 1 -> pci_write8(address, value)
               [] n = 2 -> pci_write16(address, value)
               [] n = 4 -> pci_write32(address, value)
               [] n = 8 -> pci_write64(address, value)
  /\ target' = address .. address + n - 1
  /\ plain' = (n \in {4, 8} /\ address % 4 = 0)
  /\ wanted' = Overwrite(mem, address, value)
  /\ disturbed' = FALSE
  /\ writes' = writes + 1
  /\ UNCHANGED <<mem, loaded, irqs>>

Write == \E n \in {1, 2, 4, 8} : \E address \in Addresses, value \in Values(n) :
           address + n - 1 \in Addresses /\ Begin(n, address, value)

pci_read32(address) == [i \in 0..3 |-> mem[address + i]]

ReadWord ==
  /\ todo # <<>> /\ Head(todo).read /\ loaded = <<>>
  /\ loaded' = pci_read32(Head(todo).at)
  /\ UNCHANGED <<mem, todo, target, plain, writes, irqs, wanted, disturbed>>

write_word ==
  /\ todo # <<>> /\ (Head(todo).read => loaded # <<>>)
  /\ LET w == Head(todo)
         old == IF w.read THEN loaded ELSE Ones(4)
     IN  mem' = Overwrite(mem, w.at, Or(And(old, w.keep), w.bits))
  /\ todo' = Tail(todo) /\ loaded' = <<>>
  /\ UNCHANGED <<target, plain, writes, irqs, wanted, disturbed>>

\* The interrupt handler writes a register other than the one being written.
Interrupt ==
  /\ todo # <<>> /\ irqs < MaxIrqs
  /\ \E address \in Addresses, b \in {{}, Bits} :
       LET value == [i \in 0..3 |-> b] IN
       /\ address % 4 = 0 /\ address .. address + 3 \cap target = {}
       /\ mem' = Overwrite(mem, address, value)
       /\ wanted' = Overwrite(wanted, address, value)
  /\ irqs' = irqs + 1 /\ disturbed' = TRUE
  /\ UNCHANGED <<todo, loaded, target, plain, writes>>

MmioInit ==
  /\ \E b \in {{}, Bits} : mem = [a \in Addresses |-> b]
  /\ wanted = mem
  /\ todo = <<>> /\ loaded = <<>> /\ target = {} /\ plain = TRUE
  /\ writes = 0 /\ irqs = 0 /\ disturbed = FALSE

MmioNext == Write \/ ReadWord \/ write_word \/ Interrupt

-----------------------------------------------------------------------------
(* Properties                                                                 *)

\* A finished write has changed exactly the bytes it was asked to write, at every
\* alignment and size.  If an interrupt handler wrote other registers meanwhile this
\* still holds of whole aligned words, the only writes the driver makes
\* (write_command): both writes are in effect, neither is overwritten by a stale
\* copy.
WriteExact == (todo = <<>> /\ (disturbed => plain)) => mem = wanted
=============================================================================
