------------------------------ MODULE PinInfo -------------------------------
(* The pin multiplexing table of the EV3 (drivers/pininfo.c).  A PINMUX        *)
(* register is 8 nibbles of 4 bits, each selecting the function of one pin.    *)
(* Every row with information has the same form: its mask keeps all nibbles    *)
(* but one, its mode sets one bit of that nibble; neighbouring pins have       *)
(* neighbouring nibbles.  A row without information is all zero: its mask      *)
(* keeps nothing of register 0.                                                *)
EXTENDS Integers

GPIO_PIN(B, O) == B * 16 + O

\* SPI0_MOSI, SPI0_MISO, SPI0_SCL and SPI0_CS follow the GPIO and UART rows.
SPI0_OFFSET == GPIO_PIN(9, 0) + 5
SpiPins == SPI0_OFFSET .. SPI0_OFFSET + 3

Nibbles == 0..7
MuxRegs == 0..19
pininfo_size == 154

\* Neighbouring rows: pins first..last, register, nibble of the first pin (the
\* next pins follow downwards), the bit that the mode sets in the nibble.
PinRows ==
  LET Gpio(b, first, last, muxreg, nibble, bit) ==
        <<GPIO_PIN(b, first), GPIO_PIN(b, last), muxreg, nibble, bit>>
  IN { Gpio(0,  1,  7,  1, 6, 3), Gpio(0, 11, 15,  0, 4, 3),
       Gpio(1,  0,  0,  4, 7, 3), Gpio(1,  8,  8,  3, 0, 2),
       Gpio(1,  9, 14,  2, 6, 2), Gpio(1, 15, 15,  2, 0, 3),
       Gpio(2,  0,  7,  6, 7, 3), Gpio(2,  8, 13,  5, 7, 3),
       Gpio(3,  0,  7,  8, 7, 3), Gpio(3,  8, 15,  7, 7, 3),
       Gpio(4,  1,  1, 10, 6, 3), Gpio(4,  8, 10,  9, 7, 3),
       Gpio(4, 12, 12,  9, 3, 3), Gpio(4, 14, 14,  9, 1, 3),
       Gpio(5,  0,  7, 12, 7, 3), Gpio(5,  8, 15, 11, 7, 3),
       Gpio(6,  0,  4, 19, 6, 3), Gpio(6,  5,  5, 16, 1, 3),
       Gpio(6,  6,  7, 14, 1, 3), Gpio(6,  8, 15, 13, 7, 3),
       Gpio(7,  4,  4, 17, 5, 3), Gpio(7,  8,  9, 17, 1, 3),
       Gpio(7, 10, 15, 16, 7, 3),
       Gpio(8,  2,  3,  3, 6, 2), Gpio(8,  5,  6,  3, 3, 2),
       Gpio(8,  8,  9, 19, 1, 3), Gpio(8, 10, 15, 18, 7, 3),
       Gpio(9,  1,  2,  3, 5, 1), Gpio(9,  3,  3,  4, 7, 1),  \* UART
       Gpio(9,  5,  6,  3, 3, 0), Gpio(9,  7,  7,  3, 0, 0),  \* SPI0
       Gpio(9,  8,  8,  3, 6, 0) }

\* muxreg_mask as the set of nibbles it keeps, muxreg_mode as a nibble and the
\* set of its bits.
pininfo ==
  [pin \in 0 .. pininfo_size - 1 |->
     IF \E r \in PinRows : pin \in r[1] .. r[2]
     THEN LET r == CHOOSE r \in PinRows : pin \in r[1] .. r[2]
              n == r[4] - (pin - r[1])
          IN  [muxreg |-> r[3], muxreg_mask |-> Nibbles \ {n},
               nibble |-> n, muxreg_mode |-> {r[5]}]
     ELSE [muxreg |-> 0, muxreg_mask |-> {}, nibble |-> 0, muxreg_mode |-> {}]]
=============================================================================
