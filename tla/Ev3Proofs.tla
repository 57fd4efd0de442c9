------------------------------ MODULE Ev3Proofs ------------------------------
(***************************************************************************)
(* Proofs about Ev3, for any tasks and any calls they make.                *)
(***************************************************************************)
EXTENDS Ev3, SequenceTheorems, TLAPS

----------------------------------------------------------------------------
(* Programs. *)

Ops    == {"unlock", "lock", "load_mux", "and_mux", "or_mux", "load_dir", "dir_in", "dir_out",
           "set", "clr", "get", "tx", "rx", "pull"}
Args   == Int \cup {"up_group_25", "down_all"}
Access == [op : Ops, arg : Args]

\* A program that unlocks no register without locking it later, changes
\* a direction by a read and the write that follows it, and drives no pins
\* but those in O and makes no pins inputs but those in I.
Sound(c, O, I) ==
  /\ c \in Seq(Access)
  /\ \A i \in 1..Len(c) :
       /\ c[i].op \in {"unlock", "lock"} => c[i].arg \in 0..1
       /\ c[i].op = "unlock" => \E j \in (i + 1)..Len(c) : c[j] = Acc("lock", c[i].arg)
       /\ c[i].op \in {"dir_in", "dir_out"} => i > 1 /\ c[i - 1] = Acc("load_dir", c[i].arg)
       /\ c[i].op \in {"dir_out", "set", "clr"} => c[i].arg \in O
       /\ c[i].op = "dir_in" => c[i].arg \in I

\* Two programs one after the other are as long as both.
LEMMA LenConcat ==
  ASSUME NEW c \in Seq(Access), NEW d \in Seq(Access)
  PROVE  c \o d \in Seq(Access) /\ Len(c \o d) = Len(c) + Len(d)
BY ConcatProperties

\* Programs one after the other.
LEMMA SoundConcat ==
  ASSUME NEW O, NEW I, NEW c, NEW d, Sound(c, O, I), Sound(d, O, I)
  PROVE  Sound(c \o d, O, I)
<1>1. c \in Seq(Access) /\ d \in Seq(Access)
  BY DEF Sound
<1>2. c \o d \in Seq(Access) /\ Len(c \o d) = Len(c) + Len(d)
  BY <1>1
<1> SUFFICES ASSUME NEW i \in 1..Len(c \o d)
             PROVE  LET e == c \o d
                    IN  /\ e[i].op \in {"unlock", "lock"} => e[i].arg \in 0..1
                        /\ e[i].op = "unlock" => \E j \in (i + 1)..Len(e) : e[j] = Acc("lock", e[i].arg)
                        /\ e[i].op \in {"dir_in", "dir_out"} => i > 1 /\ e[i - 1] = Acc("load_dir", e[i].arg)
                        /\ e[i].op \in {"dir_out", "set", "clr"} => e[i].arg \in O
                        /\ e[i].op = "dir_in" => e[i].arg \in I
  BY <1>2 DEF Sound
<1>3. \A j \in 1..Len(c) : (c \o d)[j] = c[j]
  BY <1>1
<1>4. \A j \in 1..Len(d) : (c \o d)[Len(c) + j] = d[j]
  BY <1>1
<1>5. CASE i <= Len(c)
  <2>1. i \in 1..Len(c)
    BY <1>5, <1>1, <1>2
  <2>2. \A j \in (i + 1)..Len(c) : j \in (i + 1)..Len(c \o d) /\ (c \o d)[j] = c[j]
    BY <1>1, <1>2, <1>3
  <2>3. i > 1 => (c \o d)[i - 1] = c[i - 1]
    BY <2>1, <1>1, <1>3
  <2> QED  BY <2>1, <2>2, <2>3, <1>3 DEF Sound
<1>6. CASE i > Len(c)
  <2> DEFINE k == i - Len(c)
  <2>1. k \in 1..Len(d) /\ i = Len(c) + k
    BY <1>6, <1>1, <1>2
  <2>2. \A j \in (k + 1)..Len(d) : Len(c) + j \in (i + 1)..Len(c \o d) /\ (c \o d)[Len(c) + j] = d[j]
    <3> TAKE j \in (k + 1)..Len(d)
    <3>1. j \in 1..Len(d) /\ Len(c) \in Nat /\ Len(d) \in Nat
      BY <1>1, <2>1
    <3> QED  BY <3>1, <2>1, <1>2, <1>4
  <2>3. k > 1 => i > 1 /\ (c \o d)[i - 1] = d[k - 1]
    BY <2>1, <1>1, <1>4
  <2>4. (c \o d)[i] = d[k]
    BY <2>1, <1>4
  <2> HIDE DEF k
  <2> QED  BY <2>1, <2>2, <2>3, <2>4 DEF Sound
<1> QED  BY <1>5, <1>6, <1>1, <1>2

\* A program between unlocking and locking.
LEMMA Bracket ==
  ASSUME NEW O, NEW I, NEW c, Sound(c, O, I)
  PROVE  /\ Sound(SYSCFG_UNLOCK \o c \o SYSCFG_LOCK, O, I)
         /\ Len(SYSCFG_UNLOCK \o c \o SYSCFG_LOCK) = Len(c) + 4
<1> DEFINE U == SYSCFG_UNLOCK
           K == SYSCFG_LOCK
           e == (U \o c) \o K
<1>1. /\ U \in Seq(Access) /\ Len(U) = 2 /\ U[1] = Acc("unlock", 0) /\ U[2] = Acc("unlock", 1)
      /\ K \in Seq(Access) /\ Len(K) = 2 /\ K[1] = Acc("lock", 0) /\ K[2] = Acc("lock", 1)
  BY DEF SYSCFG_UNLOCK, SYSCFG_LOCK, Access, Ops, Args, Acc
<1>2. c \in Seq(Access) /\ Len(c) \in Nat
  BY DEF Sound
<1> HIDE DEF U, K
<1>3. /\ U \o c \in Seq(Access) /\ Len(U \o c) = Len(c) + 2
      /\ (U \o c)[1] = U[1] /\ (U \o c)[2] = U[2]
      /\ \A i \in 1..Len(c) : (U \o c)[i + 2] = c[i]
  <2>1. /\ U \o c \in Seq(Access) /\ Len(U \o c) = Len(U) + Len(c)
        /\ \A i \in 1 .. Len(U) + Len(c) : (U \o c)[i] = IF i <= Len(U) THEN U[i] ELSE c[i - Len(U)]
    BY <1>1, <1>2, ConcatProperties
  <2> QED  BY <2>1, <1>1, <1>2
<1>4. /\ e \in Seq(Access) /\ Len(e) = Len(c) + 4
      /\ e[1] = U[1] /\ e[2] = U[2]
      /\ \A i \in 1..Len(c) : e[i + 2] = c[i]
      /\ e[Len(c) + 3] = K[1] /\ e[Len(c) + 4] = K[2]
  BY <1>1, <1>2, <1>3
<1> HIDE DEF e
<1> SUFFICES ASSUME NEW i \in 1..Len(e)
             PROVE  /\ e[i].op \in {"unlock", "lock"} => e[i].arg \in 0..1
                    /\ e[i].op = "unlock" => \E j \in (i + 1)..Len(e) : e[j] = Acc("lock", e[i].arg)
                    /\ e[i].op \in {"dir_in", "dir_out"} => i > 1 /\ e[i - 1] = Acc("load_dir", e[i].arg)
                    /\ e[i].op \in {"dir_out", "set", "clr"} => e[i].arg \in O
                    /\ e[i].op = "dir_in" => e[i].arg \in I
  BY <1>4 DEF Sound, U, K, e
<1>5. CASE i \in 1..2
  <2>1. e[i] = Acc("unlock", i - 1) /\ i - 1 \in 0..1
    BY <1>5, <1>1, <1>4
  <2>2. e[Len(c) + 2 + i] = Acc("lock", i - 1) /\ Len(c) + 2 + i \in (i + 1)..Len(e)
    BY <1>5, <1>1, <1>2, <1>4
  <2> QED  BY <2>1, <2>2 DEF Acc
<1>6. CASE i \in 3..(Len(c) + 2)
  <2> DEFINE k == i - 2
  <2>1. k \in 1..Len(c) /\ e[i] = c[k]
    BY <1>6, <1>2, <1>4
  <2>2. \A j \in (k + 1)..Len(c) : j + 2 \in (i + 1)..Len(e) /\ e[j + 2] = c[j]
    BY <1>2, <1>4, <2>1
  <2>3. k > 1 => i > 1 /\ e[i - 1] = c[k - 1]
    <3> SUFFICES ASSUME k > 1 PROVE e[i - 1] = c[k - 1]
      BY <1>6
    <3>1. k - 1 \in 1..Len(c) /\ i - 1 = (k - 1) + 2
      BY <2>1, <1>2, <1>6
    <3> HIDE DEF k
    <3> QED  BY <3>1, <1>4
  <2> HIDE DEF k
  <2> QED  BY <2>1, <2>2, <2>3 DEF Sound
<1>7. CASE i \in (Len(c) + 3)..(Len(c) + 4)
  <2>1. e[i] = Acc("lock", i - Len(c) - 3) /\ i - Len(c) - 3 \in 0..1
    BY <1>7, <1>1, <1>2, <1>4
  <2> QED  BY <2>1 DEF Acc
<1> QED  BY <1>5, <1>6, <1>7, <1>2, <1>4

\* Switching a pin to its function.
LEMMA InitPinSound ==
  ASSUME NEW pin \in Int, NEW O, NEW I
  PROVE  Sound(gpio_init_pin(pin), O, I) /\ Len(gpio_init_pin(pin)) = 8
<1> DEFINE c == <<Acc("load_mux", pin), Acc("and_mux", pin), Acc("load_mux", pin), Acc("or_mux", pin)>>
<1>1. c \in Seq(Access) /\ Len(c) = 4
  BY DEF Access, Ops, Args, Acc
<1>2. Sound(c, O, I)
  BY <1>1 DEF Sound, Acc
<1> HIDE DEF c
<1>3. /\ Sound(SYSCFG_UNLOCK \o c \o SYSCFG_LOCK, O, I)
      /\ Len(SYSCFG_UNLOCK \o c \o SYSCFG_LOCK) = Len(c) + 4
  BY <1>2, Bracket
<1>4. Len(SYSCFG_UNLOCK \o c \o SYSCFG_LOCK) = 8
  BY <1>1, <1>3
<1> QED  BY <1>3, <1>4 DEF gpio_init_pin, c

\* A bracket around switching a pin and a few accesses.
InitWith(pin, c) == SYSCFG_UNLOCK \o gpio_init_pin(pin) \o c \o SYSCFG_LOCK

\* It is sound, and the accesses come after ten others.
LEMMA InitSound ==
  ASSUME NEW pin \in Int, NEW O, NEW I, NEW c, Sound(c, O, I)
  PROVE  /\ Sound(InitWith(pin, c), O, I) /\ Len(InitWith(pin, c)) = Len(c) + 12
         /\ c # <<>> => InitWith(pin, c)[Len(c) + 10] = c[Len(c)]
<1> DEFINE P == gpio_init_pin(pin)
           U == SYSCFG_UNLOCK
           K == SYSCFG_LOCK
<1>1. Sound(P, O, I) /\ Len(P) = 8
  BY InitPinSound
<1>2. P \in Seq(Access) /\ c \in Seq(Access)
  BY <1>1 DEF Sound
<1>3. U \in Seq(Access) /\ K \in Seq(Access) /\ Len(U) = 2 /\ Len(K) = 2
  BY DEF SYSCFG_UNLOCK, SYSCFG_LOCK, Access, Ops, Args, Acc
<1> HIDE DEF P, U, K
<1>4. (U \o P) \o c = U \o (P \o c)
  BY <1>2, <1>3, ConcatAssociative
<1>5. Sound(P \o c, O, I)
  BY <1>1, SoundConcat
<1>6. P \o c \in Seq(Access) /\ Len(P \o c) = Len(c) + 8 /\ \A i \in 1..Len(c) : (P \o c)[i + 8] = c[i]
  <2>1. /\ P \o c \in Seq(Access) /\ Len(P \o c) = Len(P) + Len(c)
        /\ \A i \in 1 .. Len(P) + Len(c) : (P \o c)[i] = IF i <= Len(P) THEN P[i] ELSE c[i - Len(P)]
    BY <1>2, ConcatProperties
  <2> QED  BY <2>1, <1>1, <1>2
<1>7. Sound(U \o (P \o c) \o K, O, I)
  BY <1>5, Bracket DEF U, K
<1>8. /\ Len(U \o (P \o c) \o K) = Len(c) + 12
      /\ \A i \in 1..Len(c) : (U \o (P \o c) \o K)[i + 10] = c[i]
  <2> DEFINE d == P \o c
  <2>1. d \in Seq(Access) /\ Len(d) = Len(c) + 8 /\ \A i \in 1..Len(c) : d[i + 8] = c[i]
    BY <1>6
  <2> HIDE DEF d
  <2>2. /\ U \o d \in Seq(Access) /\ Len(U \o d) = Len(U) + Len(d)
        /\ \A i \in 1 .. Len(U) + Len(d) : (U \o d)[i] = IF i <= Len(U) THEN U[i] ELSE d[i - Len(U)]
    BY <2>1, <1>3, ConcatProperties
  <2>3. /\ Len(U \o d) = Len(c) + 10 /\ \A i \in 1..Len(c) : (U \o d)[i + 10] = c[i]
    BY <2>1, <2>2, <1>2, <1>3
  <2>4. /\ Len(U \o d \o K) = Len(U \o d) + Len(K)
        /\ \A i \in 1 .. Len(U \o d) + Len(K) :
             (U \o d \o K)[i] = IF i <= Len(U \o d) THEN (U \o d)[i] ELSE K[i - Len(U \o d)]
    BY <2>2, <1>3, ConcatProperties
  <2> QED  BY <2>3, <2>4, <1>2, <1>3 DEF d
<1>9. c # <<>> => Len(c) \in 1..Len(c)
  BY <1>2
<1> QED  BY <1>4, <1>7, <1>8, <1>9 DEF InitWith, P, U, K

\* Making a pin an output, which also clears its latch.
LEMMA OutPinSound ==
  ASSUME NEW pin \in Int, NEW O, NEW I, pin \in O
  PROVE  /\ Sound(gpio_init_outpin(pin), O, I) /\ Len(gpio_init_outpin(pin)) = 15
         /\ gpio_init_outpin(pin)[13] = Acc("dir_out", pin)
<1> DEFINE c == <<Acc("clr", pin), Acc("load_dir", pin), Acc("dir_out", pin)>>
<1>1. c \in Seq(Access) /\ Len(c) = 3 /\ c[3] = Acc("dir_out", pin)
  BY DEF Access, Ops, Args, Acc
<1>2. Sound(c, O, I)
  BY <1>1 DEF Sound, Acc
<1> HIDE DEF c
<1>3. Sound(InitWith(pin, c), O, I)
  BY <1>2, InitSound
<1>5. Len(InitWith(pin, c)) = Len(c) + 12
  BY <1>2, InitSound
<1>6. c # <<>> => InitWith(pin, c)[Len(c) + 10] = c[Len(c)]
  BY <1>2, InitSound
<1>4. gpio_init_outpin(pin) = InitWith(pin, c)
  BY DEF gpio_init_outpin, InitWith, c
<1>7. c # <<>> /\ Len(c) + 10 = 13 /\ Len(c) + 12 = 15
  BY <1>1
<1>8. InitWith(pin, c)[13] = Acc("dir_out", pin)
  BY <1>1, <1>6, <1>7
<1> QED  BY <1>3, <1>4, <1>5, <1>7, <1>8

\* Making a pin an input.
LEMMA InPinSound ==
  ASSUME NEW pin \in Int, NEW O, NEW I, pin \in I
  PROVE  Sound(gpio_init_inpin(pin), O, I) /\ Len(gpio_init_inpin(pin)) = 14
<1> DEFINE c == <<Acc("load_dir", pin), Acc("dir_in", pin)>>
<1>1. c \in Seq(Access) /\ Len(c) = 2
  BY DEF Access, Ops, Args, Acc
<1>2. Sound(c, O, I)
  BY <1>1 DEF Sound, Acc
<1> HIDE DEF c
<1>3. Sound(InitWith(pin, c), O, I)
  BY <1>2, InitSound
<1>5. Len(InitWith(pin, c)) = Len(c) + 12
  BY <1>2, InitSound
<1>6. c # <<>> => InitWith(pin, c)[Len(c) + 10] = c[Len(c)]
  BY <1>2, InitSound
<1>4. gpio_init_inpin(pin) = InitWith(pin, c)
  BY DEF gpio_init_inpin, InitWith, c
<1> QED  BY <1>1, <1>3, <1>4, <1>5, <1>6

\* After an access that gives pin p the level h, none gives it another.
Level(c, p, h) ==
  \E i \in 1..Len(c) : /\ c[i] = Acc(h, p)
                       /\ \A j \in (i + 1)..Len(c) : c[j].op \in {"set", "clr"} /\ c[j].arg = p => c[j].op = h

\* A second program that does not drive the pin keeps its level.
LEMMA LevelKept ==
  ASSUME NEW c \in Seq(Access), NEW p, NEW h, Level(c, p, h),
         NEW d, NEW O, NEW I, Sound(d, O, I), p \notin O
  PROVE  Level(c \o d, p, h)
<1>1. d \in Seq(Access) /\ Len(c) \in Nat /\ Len(d) \in Nat
  BY DEF Sound
<1>2. PICK i \in 1..Len(c) : /\ c[i] = Acc(h, p)
                             /\ \A j \in (i + 1)..Len(c) : c[j].op \in {"set", "clr"} /\ c[j].arg = p => c[j].op = h
  BY DEF Level
<1>3. /\ Len(c \o d) = Len(c) + Len(d)
      /\ \A j \in 1 .. Len(c) + Len(d) : (c \o d)[j] = IF j <= Len(c) THEN c[j] ELSE d[j - Len(c)]
  BY <1>1, ConcatProperties
<1>4. \A j \in 1..Len(d) : d[j].op \in {"set", "clr"} => d[j].arg # p
  BY DEF Sound
<1>5. i \in 1..Len(c \o d) /\ (c \o d)[i] = c[i]
  BY <1>1, <1>3
<1>6. ASSUME NEW j \in (i + 1)..Len(c \o d), (c \o d)[j].op \in {"set", "clr"}, (c \o d)[j].arg = p
      PROVE  (c \o d)[j].op = h
  <2>1. CASE j <= Len(c)
    BY <2>1, <1>1, <1>2, <1>3, <1>6
  <2>2. CASE j > Len(c)
    <3>1. j - Len(c) \in 1..Len(d) /\ (c \o d)[j] = d[j - Len(c)]
      BY <2>2, <1>1, <1>3
    <3> QED  BY <3>1, <1>4, <1>6
  <2> QED  BY <2>1, <2>2, <1>1, <1>3
<1> QED  BY <1>2, <1>5, <1>6 DEF Level

\* What the last program does to a pin counts.
LEMMA LevelLast ==
  ASSUME NEW c \in Seq(Access), NEW p, NEW h, NEW d \in Seq(Access), Level(d, p, h)
  PROVE  Level(c \o d, p, h)
<1>1. Len(c) \in Nat /\ Len(d) \in Nat
  OBVIOUS
<1>2. PICK i \in 1..Len(d) : /\ d[i] = Acc(h, p)
                             /\ \A j \in (i + 1)..Len(d) : d[j].op \in {"set", "clr"} /\ d[j].arg = p => d[j].op = h
  BY DEF Level
<1>3. /\ Len(c \o d) = Len(c) + Len(d)
      /\ \A j \in 1 .. Len(c) + Len(d) : (c \o d)[j] = IF j <= Len(c) THEN c[j] ELSE d[j - Len(c)]
  BY <1>1, ConcatProperties
<1> DEFINE k == Len(c) + i
<1>4. k \in 1..Len(c \o d) /\ (c \o d)[k] = d[i]
  BY <1>1, <1>3
<1>5. \A j \in (k + 1)..Len(c \o d) : j - Len(c) \in (i + 1)..Len(d) /\ (c \o d)[j] = d[j - Len(c)]
  BY <1>1, <1>3
<1> HIDE DEF k
<1> QED  BY <1>2, <1>4, <1>5 DEF Level

\* The access by which gpio_set sets the level.
Drive(value) == IF value = 0 THEN "clr" ELSE "set"

\* gpio_set makes its pin an output and leaves it at the level asked for.
LEMMA SetSound ==
  ASSUME NEW pin \in Int, NEW value, NEW O, NEW I, pin \in O
  PROVE  /\ Sound(gpio_set(pin, value), O, I) /\ Len(gpio_set(pin, value)) = 16
         /\ Level(gpio_set(pin, value), pin, Drive(value))
<1> DEFINE c == <<Acc(IF value = 0 THEN "clr" ELSE "set", pin)>>
           e == gpio_init_outpin(pin)
<1>1. c \in Seq(Access) /\ Len(c) = 1 /\ c[1] = Acc(IF value = 0 THEN "clr" ELSE "set", pin)
  BY DEF Access, Ops, Args, Acc
<1>2. Sound(c, O, I)
  BY <1>1 DEF Sound, Acc
<1>3. Level(c, pin, Drive(value))
  BY <1>1 DEF Level, Drive
<1>4. Sound(e, O, I) /\ Len(e) = 15
  BY OutPinSound
<1>5. e \in Seq(Access)
  BY <1>4 DEF Sound
<1> HIDE DEF c, e
<1>6. Sound(e \o c, O, I) /\ Level(e \o c, pin, Drive(value))
  BY <1>1, <1>2, <1>3, <1>4, <1>5, SoundConcat, LevelLast
<1>7. Len(e \o c) = Len(e) + Len(c)
  BY <1>1, <1>5, ConcatProperties
<1>8. Len(e \o c) = 16
  BY <1>1, <1>4, <1>7
<1> QED  BY <1>6, <1>8 DEF gpio_set, c, e

\* gpio_get makes its pin an input.
LEMMA GetSound ==
  ASSUME NEW pin \in Int, NEW O, NEW I, pin \in I
  PROVE  Sound(gpio_get(pin), O, I)
<1> DEFINE c == <<Acc("get", pin)>>
<1>1. c \in Seq(Access) /\ Len(c) = 1
  BY DEF Access, Ops, Args, Acc
<1>2. Sound(c, O, I)
  BY <1>1 DEF Sound, Acc
<1> HIDE DEF c
<1> QED  BY <1>2, InPinSound, SoundConcat DEF gpio_get, c

----------------------------------------------------------------------------
(* Loops: rounds of the same length. *)

\* Quotient and remainder.
LEMMA DivModIs ==
  ASSUME NEW L \in Nat \ {0}, NEW k \in Nat
  PROVE  k = L * (k \div L) + (k % L) /\ k % L \in 0..(L - 1) /\ k \div L \in Nat
OBVIOUS

\* They are what they are multiplied and added from.
LEMMA DivModUnique ==
  ASSUME NEW L \in Nat \ {0}, NEW q \in Nat, NEW r \in 0..(L - 1)
  PROVE  (L * q + r) \div L = q /\ (L * q + r) % L = r
OBVIOUS

\* A round before the n-th ends before the end.
LEMMA RoundEnds ==
  ASSUME NEW L \in Nat \ {0}, NEW n \in Nat, NEW q \in Nat
  PROVE  q < n <=> L * q + L <= L * n
<1>1. q < n => L * q + L <= L * n
  OBVIOUS
<1>2. L * q + L <= L * n => q < n
  OBVIOUS
<1> QED  BY <1>1, <1>2

\* n rounds of L accesses.
Rounds(rounds, n, L) ==
  /\ rounds \in [1..n -> Seq(Access)] /\ n \in Nat \ {0} /\ L \in Nat \ {0}
  /\ \A q \in 1..n : Len(rounds[q]) = L

\* Access r of round q.
LEMMA JoinedIs ==
  ASSUME NEW rounds, NEW n, NEW L, Rounds(rounds, n, L)
  PROVE  /\ Joined(rounds) \in Seq(Access) /\ Len(Joined(rounds)) = L * n
         /\ \A q \in 1..n : \A r \in 1..L :
              /\ L * (q - 1) + r \in 1 .. L * n
              /\ Joined(rounds)[L * (q - 1) + r] = rounds[q][r]
         /\ \A i \in 1 .. L * n : \E q \in 1..n : \E r \in 1..L : i = L * (q - 1) + r
<1>1. /\ rounds \in [1..n -> Seq(Access)] /\ n \in Nat \ {0} /\ L \in Nat \ {0}
      /\ \A q \in 1..n : Len(rounds[q]) = L
  BY DEF Rounds
<1>2. Len(rounds) = n /\ Len(rounds[1]) = L
  BY <1>1
<1>3. Joined(rounds) = [i \in 1 .. L * n |-> rounds[1 + ((i - 1) \div L)][1 + ((i - 1) % L)]]
  BY <1>2 DEF Joined
<1>4. L * n \in Nat
  BY <1>1
<1>5. ASSUME NEW q \in 1..n, NEW r \in 1..L
      PROVE  /\ L * (q - 1) + r \in 1 .. L * n
             /\ Joined(rounds)[L * (q - 1) + r] = rounds[q][r]
  <2> DEFINE i == L * (q - 1) + r
  <2>1. q - 1 \in Nat /\ r - 1 \in 0..(L - 1) /\ q - 1 < n /\ L * (q - 1) \in Nat
    BY <1>1, <1>5
  <2>2. L * (q - 1) + L <= L * n
    BY <1>1, <2>1, RoundEnds
  <2>3. i \in 1 .. L * n
    BY <1>1, <1>4, <2>1, <2>2
  <2>4. i - 1 = L * (q - 1) + (r - 1)
    BY <1>1, <2>1
  <2>5. (i - 1) \div L = q - 1 /\ (i - 1) % L = r - 1
    <3> DEFINE a == q - 1
               m == r - 1
    <3>1. a \in Nat /\ m \in 0..(L - 1)
      BY <2>1
    <3> HIDE DEF a, m
    <3>2. (L * a + m) \div L = a /\ (L * a + m) % L = m
      BY <1>1, <3>1, DivModUnique
    <3> QED  BY <3>2, <2>4 DEF a, m
  <2> HIDE DEF i
  <2>6. Joined(rounds)[i] = rounds[1 + (q - 1)][1 + (r - 1)]
    BY <1>3, <2>3, <2>5
  <2>7. 1 + (q - 1) = q /\ 1 + (r - 1) = r
    BY <1>1
  <2> QED  BY <2>3, <2>6, <2>7 DEF i
<1>6. ASSUME NEW i \in 1 .. L * n
      PROVE  \E q \in 1..n : \E r \in 1..L : i = L * (q - 1) + r
  <2> DEFINE k == (i - 1) \div L
             m == (i - 1) % L
  <2>1. i - 1 \in Nat /\ i - 1 < L * n
    BY <1>4
  <2>2. i - 1 = L * k + m /\ m \in 0..(L - 1) /\ k \in Nat
    BY <1>1, <2>1, DivModIs
  <2> HIDE DEF k, m
  <2>3. k < n
    <3>1. L * k < L * n
      BY <1>1, <1>4, <2>1, <2>2
    <3> QED  BY <1>1, <2>2, <3>1
  <2>4. k + 1 \in 1..n /\ m + 1 \in 1..L /\ i = L * ((k + 1) - 1) + (m + 1)
    BY <1>1, <2>2, <2>3
  <2> QED  BY <2>4
<1>7. Joined(rounds) \in Seq(Access) /\ Len(Joined(rounds)) = L * n
  <2>1. ASSUME NEW i \in 1 .. L * n PROVE Joined(rounds)[i] \in Access
    <3>1. PICK q \in 1..n : \E r \in 1..L : i = L * (q - 1) + r
      BY <1>6
    <3>2. PICK r \in 1..L : i = L * (q - 1) + r
      BY <3>1
    <3>3. Joined(rounds)[i] = rounds[q][r]
      BY <3>2, <1>5
    <3> QED  BY <3>3, <1>1, ElementOfSeq
  <2>2. DOMAIN Joined(rounds) = 1 .. L * n
    BY <1>3
  <2>3. Joined(rounds) \in [1 .. L * n -> Access]
    BY <2>1, <1>3
  <2> QED  BY <2>3, <1>4
<1> QED  BY <1>5, <1>6, <1>7

\* A loop is sound if its rounds are.
LEMMA JoinedSound ==
  ASSUME NEW rounds, NEW n, NEW L, Rounds(rounds, n, L), NEW O, NEW I,
         \A q \in 1..n : Sound(rounds[q], O, I)
  PROVE  Sound(Joined(rounds), O, I) /\ Len(Joined(rounds)) = L * n
<1> DEFINE e == Joined(rounds)
<1>1. /\ e \in Seq(Access) /\ Len(e) = L * n
      /\ \A q \in 1..n : \A r \in 1..L :
              /\ L * (q - 1) + r \in 1 .. L * n
              /\ e[L * (q - 1) + r] = rounds[q][r]
      /\ \A i \in 1 .. L * n : \E q \in 1..n : \E r \in 1..L : i = L * (q - 1) + r
  BY JoinedIs
<1> HIDE DEF e
<1> SUFFICES ASSUME NEW i \in 1..Len(e)
             PROVE  /\ e[i].op \in {"unlock", "lock"} => e[i].arg \in 0..1
                    /\ e[i].op = "unlock" => \E j \in (i + 1)..Len(e) : e[j] = Acc("lock", e[i].arg)
                    /\ e[i].op \in {"dir_in", "dir_out"} => i > 1 /\ e[i - 1] = Acc("load_dir", e[i].arg)
                    /\ e[i].op \in {"dir_out", "set", "clr"} => e[i].arg \in O
                    /\ e[i].op = "dir_in" => e[i].arg \in I
  BY <1>1 DEF Sound, e
<1>2. PICK q \in 1..n : \E r \in 1..L : i = L * (q - 1) + r
  BY <1>1
<1>3. PICK r \in 1..L : i = L * (q - 1) + r
  BY <1>2
<1> DEFINE c == rounds[q]
           b == L * (q - 1)
<1>4. /\ n \in Nat /\ L \in Nat /\ Len(c) = L /\ Sound(c, O, I) /\ b \in Nat
  BY DEF Rounds
<1>5. \A s \in 1..Len(c) : b + s \in 1..Len(e) /\ e[b + s] = c[s]
  BY <1>1, <1>4
<1>6. i = b + r /\ r \in 1..Len(c) /\ e[i] = c[r]
  BY <1>3, <1>4, <1>5
<1> HIDE DEF c, b
<1>7. \A j \in (r + 1)..Len(c) : b + j \in (i + 1)..Len(e) /\ e[b + j] = c[j]
  <2> TAKE j \in (r + 1)..Len(c)
  <2>1. j \in 1..Len(c) /\ j > r
    BY <1>4, <1>6
  <2>2. b + j \in 1..Len(e) /\ e[b + j] = c[j]
    BY <2>1, <1>5
  <2>3. Len(e) \in Nat
    BY <1>1
  <2> QED  BY <2>1, <2>2, <2>3, <1>4, <1>6
<1>8. r > 1 => i > 1 /\ e[i - 1] = c[r - 1]
  <2> SUFFICES ASSUME r > 1 PROVE i > 1 /\ e[i - 1] = c[r - 1]
    OBVIOUS
  <2>1. r - 1 \in 1..Len(c) /\ b + (r - 1) = i - 1 /\ i > 1
    BY <1>4, <1>6
  <2> QED  BY <2>1, <1>5
<1> QED  BY <1>4, <1>6, <1>7, <1>8 DEF Sound

----------------------------------------------------------------------------
(* The calls of tasks. *)

\* Two pins are set.
LEMMA TwoSets ==
  ASSUME NEW p \in Int, NEW q \in Int, p # q, NEW v, NEW w
  PROVE  /\ Sound(gpio_set(p, v) \o gpio_set(q, w), {p, q}, {})
         /\ Level(gpio_set(p, v) \o gpio_set(q, w), p, Drive(v))
         /\ Level(gpio_set(p, v) \o gpio_set(q, w), q, Drive(w))
<1> DEFINE c == gpio_set(p, v)
           d == gpio_set(q, w)
<1> DEFINE O == {p, q}
<1>0. p \in O /\ q \in O
  OBVIOUS
<1> HIDE DEF O
<1>1. Sound(c, O, {}) /\ Sound(d, O, {}) /\ Sound(d, {q}, {})
  BY <1>0, SetSound
<1>2. Level(c, p, Drive(v)) /\ Level(d, q, Drive(w))
  BY <1>0, SetSound
<1>3. c \in Seq(Access) /\ d \in Seq(Access)
  BY <1>1 DEF Sound
<1> HIDE DEF c, d
<1>4. Sound(c \o d, O, {})
  BY <1>1, SoundConcat
<1>5. p \notin {q}
  OBVIOUS
<1>6. Level(c \o d, p, Drive(v))
  BY <1>1, <1>2, <1>3, <1>5, LevelKept
<1>7. Level(c \o d, q, Drive(w))
  BY <1>2, <1>3, LevelLast
<1> QED  BY <1>4, <1>6, <1>7 DEF c, d, O

\* A program that touches fewer pins touches no more.
LEMMA SoundMore ==
  ASSUME NEW c, NEW O, NEW I, Sound(c, O, I), NEW P, NEW J, O \subseteq P, I \subseteq J
  PROVE  Sound(c, P, J)
BY DEF Sound

\* spi_update touches no pin.
LEMMA SpiSound ==
  ASSUME NEW x \in Int, NEW O, NEW I
  PROVE  Sound(spi_update(x), O, I) /\ Len(spi_update(x)) = 2
<1>1. spi_update(x) \in Seq(Access) /\ Len(spi_update(x)) = 2
  BY DEF spi_update, Access, Ops, Args, Acc
<1> QED  BY <1>1 DEF spi_update, Sound, Acc

\* The level that a call is to give to its pin.
Wanted(k, p) == IF p \in High(k) THEN "set" ELSE "clr"

\* A call drives the pins and reads the pins it is for, and leaves each at the
\* level asked for.
Right(c, k) ==
  /\ Sound(c, Outputs(k), Inputs(k))
  /\ \A p \in Outputs(k) : Level(c, p, Wanted(k, p))

\* The pins of the two LEDs.
LEMMA LedPinsAre ==
  /\ leds[1].pin1 = 109 /\ leds[1].pin2 = 103 /\ leds[2].pin1 = 108 /\ leds[2].pin2 = 110
BY DEF leds, GPIO_PIN

\* One LED.
LEMMA OneLedIs ==
  ASSUME NEW n \in {1, 2}, NEW color
  PROVE  /\ Sound(OneLed(n, color), {leds[n].pin1, leds[n].pin2}, {})
         /\ Level(OneLed(n, color), leds[n].pin1, Drive(color % 2))
         /\ Level(OneLed(n, color), leds[n].pin2, Drive(color \div 2))
<1>1. leds[n].pin1 \in Int /\ leds[n].pin2 \in Int /\ leds[n].pin1 # leds[n].pin2
  BY LedPinsAre
<1> DEFINE p == leds[n].pin1
           q == leds[n].pin2
           v == color % 2
           w == color \div 2
<1>3. p \in Int /\ q \in Int /\ p # q
  BY <1>1
<1> HIDE DEF p, q, v, w
<1>2. /\ Sound(gpio_set(p, v) \o gpio_set(q, w), {p, q}, {})
      /\ Level(gpio_set(p, v) \o gpio_set(q, w), p, Drive(v))
      /\ Level(gpio_set(p, v) \o gpio_set(q, w), q, Drive(w))
  BY <1>3, TwoSets
<1> QED  BY <1>2 DEF OneLed, p, q, v, w

\* led_set.
LEMMA LedSetRight ==
  ASSUME NEW k \in DriverCalls, k.fn = "led_set"
  PROVE  Right(led_set(k.a, k.b), k)
<1> DEFINE o1 == OneLed(1, k.b)
           o2 == OneLed(2, k.b)
           P1 == {109, 103}
           P2 == {108, 110}
<1>1. k.a \in 1..3 /\ k.b \in 0..3
  BY DEF DriverCalls
<1>2. /\ Sound(o1, P1, {}) /\ Level(o1, 109, Drive(k.b % 2)) /\ Level(o1, 103, Drive(k.b \div 2))
      /\ Sound(o2, P2, {}) /\ Level(o2, 108, Drive(k.b % 2)) /\ Level(o2, 110, Drive(k.b \div 2))
  <2>1. /\ Sound(o1, {leds[1].pin1, leds[1].pin2}, {})
        /\ Level(o1, leds[1].pin1, Drive(k.b % 2)) /\ Level(o1, leds[1].pin2, Drive(k.b \div 2))
    BY OneLedIs
  <2>2. /\ Sound(o2, {leds[2].pin1, leds[2].pin2}, {})
        /\ Level(o2, leds[2].pin1, Drive(k.b % 2)) /\ Level(o2, leds[2].pin2, Drive(k.b \div 2))
    BY OneLedIs
  <2> QED  BY <2>1, <2>2, LedPinsAre
<1>3. o1 \in Seq(Access) /\ o2 \in Seq(Access)
  BY <1>2 DEF Sound
<1>4. /\ k.b % 2 # 0 <=> k.b \in {1, 3}
      /\ k.b \div 2 # 0 <=> k.b \in {2, 3}
  BY <1>1
<1>5. /\ Inputs(k) = {}
      /\ Outputs(k) = UNION {{leds[n].pin1, leds[n].pin2} : n \in {1, 2} \ {3 - k.a}}
      /\ High(k) = Outputs(k) \cap Lit(k)
  BY DEF Inputs, Outputs, High
<1>6. Outputs(k) = IF k.a = 1 THEN P1 ELSE IF k.a = 2 THEN P2 ELSE P1 \cup P2
  BY <1>1, <1>5, LedPinsAre
<1>7. /\ Lit(k) = (IF k.b \in {1, 3} THEN {109, 108} ELSE {}) \cup (IF k.b \in {2, 3} THEN {103, 110} ELSE {})
  BY LedPinsAre DEF Lit
<1>8. \A p \in Outputs(k) : Wanted(k, p)
                               = IF p \in {109, 108} THEN Drive(k.b % 2) ELSE Drive(k.b \div 2)
  <2> TAKE p \in Outputs(k)
  <2>1. p \in {109, 108} \/ p \in {103, 110}
    BY <1>6
  <2>2. CASE p \in {109, 108}
    <3>1. p \in High(k) <=> k.b \in {1, 3}
      BY <2>2, <1>5, <1>7
    <3> QED  BY <3>1, <2>2, <1>4 DEF Drive, Wanted
  <2>3. CASE p \in {103, 110}
    <3>1. p \in High(k) <=> k.b \in {2, 3}
      BY <2>3, <1>5, <1>7
    <3> QED  BY <3>1, <2>3, <1>4 DEF Drive, Wanted
  <2> QED  BY <2>1, <2>2, <2>3
<1>9. led_set(k.a, k.b) = (IF k.a \in {1, 3} THEN o1 ELSE <<>>) \o (IF k.a \in {2, 3} THEN o2 ELSE <<>>)
  <2>1. (k.a % 2 = 1 <=> k.a \in {1, 3}) /\ (k.a \div 2 = 1 <=> k.a \in {2, 3})
    BY <1>1
  <2> QED  BY <2>1, Zenon DEF led_set
<1>10. o1 \o <<>> = o1 /\ <<>> \o o2 = o2
  BY <1>3, ConcatEmptySeq
<1>11. Sound(o1, P1 \cup P2, {}) /\ Sound(o2, P1 \cup P2, {})
  BY <1>2, SoundMore
<1>12. Sound(o1 \o o2, P1 \cup P2, {})
  BY <1>11, SoundConcat
<1>13. Level(o1 \o o2, 109, Drive(k.b % 2)) /\ Level(o1 \o o2, 103, Drive(k.b \div 2))
  <2>1. 109 \notin P2 /\ 103 \notin P2
    OBVIOUS
  <2> HIDE DEF P2, o1, o2
  <2> QED  BY <1>2, <1>3, <2>1, LevelKept
<1>14. Level(o1 \o o2, 108, Drive(k.b % 2)) /\ Level(o1 \o o2, 110, Drive(k.b \div 2))
  BY <1>2, <1>3, LevelLast
<1> HIDE DEF o1, o2
<1>15. CASE k.a = 1
  <2>1. led_set(k.a, k.b) = o1 /\ Outputs(k) = P1
    <3>1. k.a \in {1, 3} /\ k.a \notin {2, 3} /\ Outputs(k) = P1
      BY <1>15, <1>6
    <3>2. led_set(k.a, k.b) = o1 \o <<>>
      BY <3>1, <1>9, Zenon
    <3> QED  BY <3>1, <3>2, <1>10
  <2>2. \A p \in P1 : Level(o1, p, Wanted(k, p))
    BY <2>1, <1>2, <1>8
  <2> QED  BY <2>1, <2>2, <1>2, <1>5 DEF Right
<1>16. CASE k.a = 2
  <2>1. led_set(k.a, k.b) = o2 /\ Outputs(k) = P2
    <3>1. k.a \in {2, 3} /\ k.a \notin {1, 3} /\ Outputs(k) = P2
      BY <1>16, <1>6
    <3>2. led_set(k.a, k.b) = <<>> \o o2
      BY <3>1, <1>9, Zenon
    <3> QED  BY <3>1, <3>2, <1>10
  <2>2. \A p \in P2 : Level(o2, p, Wanted(k, p))
    BY <2>1, <1>2, <1>8
  <2> QED  BY <2>1, <2>2, <1>2, <1>5 DEF Right
<1>17. CASE k.a = 3
  <2>1. led_set(k.a, k.b) = o1 \o o2 /\ Outputs(k) = P1 \cup P2
    BY <1>17, <1>6, <1>9
  <2>2. \A p \in P1 \cup P2 : Level(o1 \o o2, p, Wanted(k, p))
    BY <2>1, <1>13, <1>14, <1>8
  <2> QED  BY <2>1, <2>2, <1>12, <1>5 DEF Right
<1> QED  BY <1>1, <1>15, <1>16, <1>17

\* motor_set_state.
LEMMA MotorSetRight ==
  ASSUME NEW k \in DriverCalls, k.fn = "motor_set_state"
  PROVE  Right(motor_set_state(k.a, k.b), k)
<1> DEFINE p == MotorPorts[k.a + 1][1]
           q == MotorPorts[k.a + 1][2]
           v == IF k.b = 2 THEN 1 ELSE 0
           w == IF k.b = 0 THEN 1 ELSE 0
<1>1. k.a \in 0..3 /\ k.b \in 0..2
  BY DEF DriverCalls
<1>2. p \in Int /\ q \in Int /\ p # q
  BY <1>1 DEF MotorPorts, GPIO_PIN
<1>3. /\ Inputs(k) = {} /\ Outputs(k) = {p, q}
      /\ High(k) = {MotorPorts[k.a + 1][i] : i \in {s \in {1, 2} : k.b = 4 - 2 * s}}
  BY DEF Inputs, Outputs, High
<1>4. Drive(v) = Wanted(k, p)
  BY <1>1, <1>2, <1>3 DEF Drive, Wanted
<1>5. Drive(w) = Wanted(k, q)
  BY <1>1, <1>2, <1>3 DEF Drive, Wanted
<1>6. motor_set_state(k.a, k.b) = gpio_set(p, v) \o gpio_set(q, w)
  BY DEF motor_set_state
<1> HIDE DEF p, q, v, w
<1>7. /\ Sound(gpio_set(p, v) \o gpio_set(q, w), {p, q}, {})
      /\ Level(gpio_set(p, v) \o gpio_set(q, w), p, Drive(v))
      /\ Level(gpio_set(p, v) \o gpio_set(q, w), q, Drive(w))
  BY <1>2, TwoSets
<1> QED  BY <1>3, <1>4, <1>5, <1>6, <1>7 DEF Right

\* button_get_state.
LEMMA ButtonRight ==
  ASSUME NEW k \in DriverCalls, k.fn = "button_get_state"
  PROVE  Right(button_get_state(k.a), k)
<1>1. k.a \in 0..5
  BY DEF DriverCalls
<1>2. buttons[k.a + 1] \in Int
  BY <1>1 DEF buttons, GPIO_PIN
<1>3. Inputs(k) = {buttons[k.a + 1]} /\ Outputs(k) = {}
  BY DEF Inputs, Outputs
<1>4. buttons[k.a + 1] \in Inputs(k)
  BY <1>3
<1>5. Sound(gpio_get(buttons[k.a + 1]), Outputs(k), Inputs(k))
  BY <1>2, <1>4, GetSound
<1> QED  BY <1>3, <1>5 DEF Right, button_get_state

\* sensor_touch_get_state.
LEMMA TouchRight ==
  ASSUME NEW k \in DriverCalls, k.fn = "sensor_touch_get_state"
  PROVE  Right(sensor_touch_get_state(k.a), k)
<1>1. k.a \in 0..3
  BY DEF DriverCalls
<1>2. SensorPorts[k.a + 1][6] \in Int /\ SensorPorts[k.a + 1][7] \in Int
  BY <1>1 DEF SensorPorts, GPIO_PIN
<1>3. Outputs(k) = {}
  BY DEF Outputs
<1>4. Sound(sensor_touch_get_state(k.a), Outputs(k), Inputs(k))
  BY <1>2, SpiSound, SoundConcat DEF sensor_touch_get_state, adc_get
<1> QED  BY <1>3, <1>4 DEF Right

\* sensor_light_get.
LEMMA LightRight ==
  ASSUME NEW k \in DriverCalls, k.fn = "sensor_light_get"
  PROVE  Right(sensor_light_get(k.a), k)
<1> DEFINE p == SensorPorts[k.a + 1][3]
           x == SensorPorts[k.a + 1][6]
           c == gpio_set(p, 1)
           d == spi_update(x)
<1>1. k.a \in 0..3
  BY DEF DriverCalls
<1>2. p \in Int /\ x \in Int
  BY <1>1 DEF SensorPorts, GPIO_PIN
<1>3. Outputs(k) = {p} /\ High(k) = {p} /\ p \in Outputs(k)
  BY DEF Outputs, High
<1>4. sensor_light_get(k.a) = c \o d
  BY DEF sensor_light_get, adc_get
<1> HIDE DEF p, x
<1>5. Sound(c, Outputs(k), Inputs(k)) /\ Level(c, p, Drive(1))
  BY <1>2, <1>3, SetSound
<1>6. Sound(d, Outputs(k), Inputs(k)) /\ Sound(d, {}, {})
  BY <1>2, SpiSound
<1> HIDE DEF c, d
<1>7. Sound(c \o d, Outputs(k), Inputs(k))
  BY <1>5, <1>6, SoundConcat
<1>8. c \in Seq(Access)
  BY <1>5 DEF Sound
<1>9. Level(c \o d, p, Drive(1))
  BY <1>5, <1>6, <1>8, LevelKept
<1>10. Drive(1) = "set"
  BY DEF Drive
<1> QED  BY <1>3, <1>4, <1>7, <1>9, <1>10 DEF Right, Wanted

\* Every call a task may make.
LEMMA CallRight ==
  ASSUME NEW k \in DriverCalls
  PROVE  Right(CodeOf(k), k)
<1>1. k.fn \in {"led_set", "button_get_state", "motor_set_state", "sensor_touch_get_state", "sensor_light_get"}
  BY DEF DriverCalls
<1>2. CASE k.fn = "led_set"
  BY <1>2, LedSetRight DEF CodeOf
<1>3. CASE k.fn = "button_get_state"
  BY <1>3, ButtonRight DEF CodeOf
<1>4. CASE k.fn = "motor_set_state"
  BY <1>4, MotorSetRight DEF CodeOf
<1>5. CASE k.fn = "sensor_touch_get_state"
  BY <1>5, TouchRight DEF CodeOf
<1>6. CASE k.fn = "sensor_light_get"
  BY <1>6, LightRight DEF CodeOf
<1> QED  BY <1>1, <1>2, <1>3, <1>4, <1>5, <1>6

----------------------------------------------------------------------------
(* The constructors. *)

\* The program makes p an output.
MakesOut(c, p) == \E i \in 1..Len(c) : c[i] = Acc("dir_out", p)

\* It does when a part of it does.
LEMMA MakesOutConcat ==
  ASSUME NEW c \in Seq(Access), NEW d \in Seq(Access), NEW p, MakesOut(c, p) \/ MakesOut(d, p)
  PROVE  MakesOut(c \o d, p)
<1>1. Len(c) \in Nat /\ Len(d) \in Nat
  OBVIOUS
<1>2. /\ Len(c \o d) = Len(c) + Len(d)
      /\ \A j \in 1 .. Len(c) + Len(d) : (c \o d)[j] = IF j <= Len(c) THEN c[j] ELSE d[j - Len(c)]
  BY <1>1, ConcatProperties
<1>3. ASSUME NEW i \in 1..Len(c), c[i] = Acc("dir_out", p) PROVE MakesOut(c \o d, p)
  <2>1. i \in 1..Len(c \o d) /\ (c \o d)[i] = c[i]
    BY <1>1, <1>2
  <2> QED  BY <2>1, <1>3 DEF MakesOut
<1>4. ASSUME NEW i \in 1..Len(d), d[i] = Acc("dir_out", p) PROVE MakesOut(c \o d, p)
  <2> DEFINE j == i + Len(c)
  <2>1. j \in 1..Len(c \o d) /\ (c \o d)[j] = d[i]
    BY <1>1, <1>2
  <2> HIDE DEF j
  <2> QED  BY <2>1, <1>4 DEF MakesOut
<1> QED  BY <1>3, <1>4 DEF MakesOut

\* It does when a round of it does.
LEMMA MakesOutJoined ==
  ASSUME NEW rounds, NEW n, NEW L, Rounds(rounds, n, L), NEW q \in 1..n, NEW p, MakesOut(rounds[q], p)
  PROVE  MakesOut(Joined(rounds), p)
<1>1. Len(rounds[q]) = L
  BY DEF Rounds
<1>2. PICK r \in 1..L : rounds[q][r] = Acc("dir_out", p)
  BY <1>1 DEF MakesOut
<1>3. L * (q - 1) + r \in 1 .. L * n /\ Joined(rounds)[L * (q - 1) + r] = rounds[q][r]
  BY JoinedIs
<1>4. Len(Joined(rounds)) = L * n
  BY JoinedIs
<1> QED  BY <1>2, <1>3, <1>4 DEF MakesOut

\* A loop of gpio_init_outpin.
LEMMA OutPinsSound ==
  ASSUME NEW n \in Nat \ {0}, NEW pins \in [1..n -> Int], NEW O, NEW I, \A q \in 1..n : pins[q] \in O
  PROVE  /\ Sound(ForEach(gpio_init_outpin, pins), O, I)
         /\ Len(ForEach(gpio_init_outpin, pins)) = 15 * n
         /\ \A q \in 1..n : MakesOut(ForEach(gpio_init_outpin, pins), pins[q])
<1> DEFINE rounds == [q \in 1..n |-> gpio_init_outpin(pins[q])]
<1>1. ForEach(gpio_init_outpin, pins) = Joined(rounds)
  <2>1. Len(pins) = n
    OBVIOUS
  <2> QED  BY <2>1 DEF ForEach
<1>2. ASSUME NEW q \in 1..n
      PROVE  /\ Sound(rounds[q], O, I) /\ Len(rounds[q]) = 15
             /\ rounds[q] \in Seq(Access) /\ MakesOut(rounds[q], pins[q])
  <2>1. pins[q] \in Int /\ pins[q] \in O
    OBVIOUS
  <2>2. /\ Sound(gpio_init_outpin(pins[q]), O, I) /\ Len(gpio_init_outpin(pins[q])) = 15
        /\ gpio_init_outpin(pins[q])[13] = Acc("dir_out", pins[q])
    BY <2>1, OutPinSound
  <2>3. 13 \in 1..15
    OBVIOUS
  <2> QED  BY <2>2, <2>3 DEF Sound, MakesOut
<1>3. Rounds(rounds, n, 15)
  BY <1>2 DEF Rounds
<1> HIDE DEF rounds
<1>4. Sound(Joined(rounds), O, I) /\ Len(Joined(rounds)) = 15 * n
  BY <1>2, <1>3, JoinedSound
<1>5. \A q \in 1..n : MakesOut(Joined(rounds), pins[q])
  BY <1>2, <1>3, MakesOutJoined
<1> QED  BY <1>1, <1>4, <1>5

\* The pins the constructors make outputs and inputs.
OutPins ==
  Range(LedPins) \cup (UNION {Range(p) : p \in Range(MotorPorts)})
    \cup Column(SensorPorts, 3)
InPins == Range(buttons) \cup Column(SensorPorts, 1) \cup Column(SensorPorts, 2)

\* The pins of the LEDs and buttons, ...
LEMMA LedsAndButtons ==
  /\ LedPins \in [1..4 -> Int] /\ \A i \in 1..4 : LedPins[i] \in OutPins
  /\ buttons \in [1..6 -> Int] /\ \A i \in 1..6 : buttons[i] \in InPins
<1>1. LedPins \in [1..4 -> Int] /\ DOMAIN LedPins = 1..4
  BY LedPinsAre DEF LedPins
<1>2. buttons \in [1..6 -> Int] /\ DOMAIN buttons = 1..6
  BY DEF buttons, GPIO_PIN
<1> QED  BY <1>1, <1>2 DEF OutPins, InPins, Range

\* ... of the motors and ...
LEMMA Motors ==
  /\ MotorPorts \in [1..4 -> [1..5 -> Int]]
  /\ \A i \in 1..4 : \A j \in 1..5 : MotorPorts[i][j] \in OutPins
<1>1. MotorPorts \in [1..4 -> [1..5 -> Int]]
  BY DEF MotorPorts, GPIO_PIN
<1>2. ASSUME NEW i \in 1..4, NEW j \in 1..5 PROVE MotorPorts[i][j] \in OutPins
  <2>1. MotorPorts[i] \in Range(MotorPorts)
    BY <1>1 DEF Range
  <2>2. MotorPorts[i][j] \in Range(MotorPorts[i])
    BY <1>1 DEF Range
  <2> QED  BY <2>1, <2>2 DEF OutPins
<1> QED  BY <1>1, <1>2

\* ... of the sensors.
LEMMA Sensors ==
  /\ SensorPorts \in [1..4 -> [1..7 -> Int]]
  /\ \A i \in 1..4 : /\ SensorPorts[i][1] \in InPins /\ SensorPorts[i][2] \in InPins
                     /\ SensorPorts[i][3] \in OutPins
<1>1. SensorPorts \in [1..4 -> [1..7 -> Int]]
  BY DEF SensorPorts, GPIO_PIN
<1>2. ASSUME NEW i \in 1..4
      PROVE  /\ SensorPorts[i][1] \in InPins /\ SensorPorts[i][2] \in InPins
             /\ SensorPorts[i][3] \in OutPins
  <2>1. SensorPorts[i] \in Range(SensorPorts)
    BY <1>1 DEF Range
  <2> QED  BY <2>1 DEF OutPins, InPins, Column
<1> QED  BY <1>1, <1>2

\* One access that concerns neither lock nor pin.
LEMMA OneSound ==
  ASSUME NEW a \in Access, a.op = "pull", NEW O, NEW I
  PROVE  Sound(<<a>>, O, I)
<1>1. <<a>> \in Seq(Access) /\ Len(<<a>>) = 1 /\ <<a>>[1] = a
  OBVIOUS
<1> QED  BY <1>1 DEF Sound

\* led_init.
LEMMA LedInitSound ==
  /\ Sound(led_init, OutPins, InPins)
  /\ \A q \in 1..4 : MakesOut(led_init, LedPins[q])
<1>1. 4 \in Nat \ {0}
  OBVIOUS
<1> QED  BY <1>1, LedsAndButtons, OutPinsSound DEF led_init

\* button_init.
LEMMA ButtonInitSound == Sound(button_init, OutPins, InPins)
<1> DEFINE rounds == [q \in 1..6 |-> gpio_init_inpin(buttons[q])]
           a == Acc("pull", "up_group_25")
<1>1. ForEach(gpio_init_inpin, buttons) = Joined(rounds)
  <2>1. Len(buttons) = 6
    BY LedsAndButtons
  <2> QED  BY <2>1 DEF ForEach
<1>2. ASSUME NEW q \in 1..6
      PROVE  Sound(rounds[q], OutPins, InPins) /\ Len(rounds[q]) = 14 /\ rounds[q] \in Seq(Access)
  <2>1. buttons[q] \in Int /\ buttons[q] \in InPins
    BY LedsAndButtons
  <2>2. Sound(gpio_init_inpin(buttons[q]), OutPins, InPins) /\ Len(gpio_init_inpin(buttons[q])) = 14
    BY <2>1, InPinSound
  <2> QED  BY <2>2 DEF Sound
<1>3. Rounds(rounds, 6, 14)
  BY <1>2 DEF Rounds
<1> HIDE DEF rounds
<1>4. Sound(Joined(rounds), OutPins, InPins)
  BY <1>2, <1>3, JoinedSound
<1>5. Sound(<<a>>, OutPins, InPins)
  <2>1. a \in Access /\ a.op = "pull"
    BY DEF Access, Ops, Args, Acc
  <2> HIDE DEF a
  <2> QED  BY <2>1, OneSound
<1> QED  BY <1>1, <1>4, <1>5, SoundConcat DEF button_init

\* motor_init.
LEMMA MotorInitSound ==
  /\ Sound(motor_init, OutPins, InPins)
  /\ \A i \in 1..4 : \A j \in 1..5 : MakesOut(motor_init, MotorPorts[i][j])
<1> DEFINE rounds == [q \in 1..4 |-> ForEach(gpio_init_outpin, MotorPorts[q])]
           a == Acc("pull", "down_all")
<1>1. motor_init = Joined(rounds) \o <<a>>
  <2>1. Len(MotorPorts) = 4
    BY Motors
  <2> QED  BY <2>1 DEF motor_init, ForEach
<1>2. ASSUME NEW q \in 1..4
      PROVE  /\ Sound(rounds[q], OutPins, InPins) /\ Len(rounds[q]) = 75 /\ rounds[q] \in Seq(Access)
             /\ \A j \in 1..5 : MakesOut(rounds[q], MotorPorts[q][j])
  <2>1. 5 \in Nat \ {0} /\ MotorPorts[q] \in [1..5 -> Int] /\ \A j \in 1..5 : MotorPorts[q][j] \in OutPins
    BY Motors
  <2> DEFINE pins == MotorPorts[q]
  <2> HIDE DEF pins
  <2>2. /\ Sound(ForEach(gpio_init_outpin, pins), OutPins, InPins)
        /\ Len(ForEach(gpio_init_outpin, pins)) = 15 * 5
        /\ \A j \in 1..5 : MakesOut(ForEach(gpio_init_outpin, pins), pins[j])
    BY <2>1, OutPinsSound DEF pins
  <2>3. ForEach(gpio_init_outpin, pins) \in Seq(Access)
    BY <2>2 DEF Sound
  <2> QED  BY <2>2, <2>3 DEF pins
<1>3. Rounds(rounds, 4, 75)
  BY <1>2 DEF Rounds
<1> HIDE DEF rounds
<1>4. Sound(Joined(rounds), OutPins, InPins)
  BY <1>2, <1>3, JoinedSound
<1>5. \A i \in 1..4 : \A j \in 1..5 : MakesOut(Joined(rounds), MotorPorts[i][j])
  BY <1>2, <1>3, MakesOutJoined
<1>6. Sound(<<a>>, OutPins, InPins)
  <2>1. a \in Access /\ a.op = "pull"
    BY DEF Access, Ops, Args, Acc
  <2> HIDE DEF a
  <2> QED  BY <2>1, OneSound
<1>7. Joined(rounds) \in Seq(Access) /\ <<a>> \in Seq(Access)
  BY <1>4, <1>6 DEF Sound
<1> HIDE DEF a
<1>8. Sound(Joined(rounds) \o <<a>>, OutPins, InPins)
  BY <1>4, <1>6, SoundConcat
<1>9. \A i \in 1..4 : \A j \in 1..5 : MakesOut(Joined(rounds) \o <<a>>, MotorPorts[i][j])
  BY <1>5, <1>7, MakesOutConcat
<1> QED  BY <1>1, <1>8, <1>9

\* sensor_init on one port.
SensorRound(p) ==
  gpio_init_inpin(p[1]) \o gpio_init_inpin(p[2]) \o gpio_init_outpin(p[3])
    \o gpio_init_pin(p[4]) \o gpio_init_pin(p[5])

\* It is sound, of a fixed length, and makes the third pin an output.
LEMMA SensorRoundSound ==
  ASSUME NEW p \in [1..7 -> Int], p[1] \in InPins, p[2] \in InPins, p[3] \in OutPins
  PROVE  /\ Sound(SensorRound(p), OutPins, InPins) /\ Len(SensorRound(p)) = 59
         /\ SensorRound(p) \in Seq(Access) /\ MakesOut(SensorRound(p), p[3])
<1> DEFINE a == gpio_init_inpin(p[1])
           b == gpio_init_inpin(p[2])
           c == gpio_init_outpin(p[3])
           d == gpio_init_pin(p[4])
           e == gpio_init_pin(p[5])
<1>1. p[1] \in Int /\ p[2] \in Int /\ p[3] \in Int /\ p[4] \in Int /\ p[5] \in Int
  OBVIOUS
<1>2. /\ Sound(a, OutPins, InPins) /\ Len(a) = 14
      /\ Sound(b, OutPins, InPins) /\ Len(b) = 14
  BY <1>1, InPinSound
<1>3. Sound(c, OutPins, InPins) /\ Len(c) = 15 /\ c[13] = Acc("dir_out", p[3])
  BY <1>1, OutPinSound
<1>4. /\ Sound(d, OutPins, InPins) /\ Len(d) = 8
      /\ Sound(e, OutPins, InPins) /\ Len(e) = 8
  BY <1>1, InitPinSound
<1>5. MakesOut(c, p[3])
  BY <1>3 DEF MakesOut
<1>6. a \in Seq(Access) /\ b \in Seq(Access) /\ c \in Seq(Access) /\ d \in Seq(Access) /\ e \in Seq(Access)
  BY <1>2, <1>3, <1>4 DEF Sound
<1>7. SensorRound(p) = a \o b \o c \o d \o e
  BY DEF SensorRound
<1> HIDE DEF a, b, c, d, e
<1>8. a \o b \in Seq(Access) /\ Len(a \o b) = Len(a) + Len(b)
  BY <1>6, LenConcat
<1> DEFINE s == a \o b
<1>9. Sound(s, OutPins, InPins) /\ s \in Seq(Access) /\ Len(s) = 28
  BY <1>2, <1>8, SoundConcat
<1> HIDE DEF s
<1>10. s \o c \in Seq(Access) /\ Len(s \o c) = Len(s) + Len(c)
  BY <1>6, <1>9, LenConcat
<1> DEFINE u == s \o c
<1>11. Sound(u, OutPins, InPins) /\ MakesOut(u, p[3])
  BY <1>3, <1>5, <1>6, <1>9, SoundConcat, MakesOutConcat
<1>12. u \in Seq(Access) /\ Len(u) = 43
  BY <1>3, <1>9, <1>10
<1> HIDE DEF u
<1>13. u \o d \in Seq(Access) /\ Len(u \o d) = Len(u) + Len(d)
  BY <1>6, <1>12, LenConcat
<1> DEFINE v == u \o d
<1>14. Sound(v, OutPins, InPins) /\ MakesOut(v, p[3])
  BY <1>4, <1>6, <1>11, <1>12, SoundConcat, MakesOutConcat
<1>15. v \in Seq(Access) /\ Len(v) = 51
  BY <1>4, <1>12, <1>13
<1> HIDE DEF v
<1>16. v \o e \in Seq(Access) /\ Len(v \o e) = Len(v) + Len(e)
  BY <1>6, <1>15, LenConcat
<1>17. Sound(v \o e, OutPins, InPins) /\ MakesOut(v \o e, p[3])
  BY <1>4, <1>6, <1>14, <1>15, SoundConcat, MakesOutConcat
<1>18. Len(v \o e) = 59
  BY <1>4, <1>15, <1>16
<1> QED  BY <1>7, <1>16, <1>17, <1>18 DEF v, u, s

\* sensor_init.
LEMMA SensorInitSound ==
  /\ Sound(sensor_init, OutPins, InPins)
  /\ \A i \in 1..4 : MakesOut(sensor_init, SensorPorts[i][3])
<1> DEFINE rounds == [q \in 1..4 |-> SensorRound(SensorPorts[q])]
           a == Acc("pull", "down_all")
<1>1. sensor_init = Joined(rounds) \o <<a>>
  <2>1. Len(SensorPorts) = 4
    BY Sensors
  <2> QED  BY <2>1 DEF sensor_init, ForEach, SensorRound
<1>2. ASSUME NEW q \in 1..4
      PROVE  /\ Sound(rounds[q], OutPins, InPins) /\ Len(rounds[q]) = 59 /\ rounds[q] \in Seq(Access)
             /\ MakesOut(rounds[q], SensorPorts[q][3])
  <2> DEFINE p == SensorPorts[q]
  <2>1. p \in [1..7 -> Int] /\ p[1] \in InPins /\ p[2] \in InPins /\ p[3] \in OutPins
    BY Sensors
  <2>2. rounds[q] = SensorRound(p)
    OBVIOUS
  <2> HIDE DEF p, rounds
  <2>3. /\ Sound(SensorRound(p), OutPins, InPins) /\ Len(SensorRound(p)) = 59
        /\ SensorRound(p) \in Seq(Access) /\ MakesOut(SensorRound(p), p[3])
    BY <2>1, SensorRoundSound
  <2> QED  BY <2>2, <2>3 DEF p
<1>3. Rounds(rounds, 4, 59)
  BY <1>2 DEF Rounds
<1> HIDE DEF rounds
<1>4. Sound(Joined(rounds), OutPins, InPins)
  BY <1>2, <1>3, JoinedSound
<1>5. ASSUME NEW i \in 1..4 PROVE MakesOut(Joined(rounds), SensorPorts[i][3])
  <2> DEFINE p == SensorPorts[i][3]
  <2>1. MakesOut(rounds[i], p)
    BY <1>2
  <2> HIDE DEF p
  <2>2. MakesOut(Joined(rounds), p)
    BY <1>3, <2>1, MakesOutJoined
  <2> QED  BY <2>2 DEF p
<1>6. Sound(<<a>>, OutPins, InPins)
  <2>1. a \in Access /\ a.op = "pull"
    BY DEF Access, Ops, Args, Acc
  <2> HIDE DEF a
  <2> QED  BY <2>1, OneSound
<1>7. Joined(rounds) \in Seq(Access) /\ <<a>> \in Seq(Access)
  BY <1>4, <1>6 DEF Sound
<1> HIDE DEF a
<1>8. Sound(Joined(rounds) \o <<a>>, OutPins, InPins)
  BY <1>4, <1>6, SoundConcat
<1>9. \A i \in 1..4 : MakesOut(Joined(rounds) \o <<a>>, SensorPorts[i][3])
  BY <1>5, <1>7, MakesOutConcat
<1> QED  BY <1>1, <1>8, <1>9

\* Every constructor is sound, and every output is made one by a constructor.
LEMMA ConstructorsSound ==
  /\ \A f \in Constructors : Sound(CodeOf(Call(f, 0, 0)), OutPins, InPins)
  /\ \A p \in OutPins : \E f \in Constructors : MakesOut(CodeOf(Call(f, 0, 0)), p)
<1>1. /\ CodeOf(Call("led_init", 0, 0)) = led_init /\ CodeOf(Call("button_init", 0, 0)) = button_init
      /\ CodeOf(Call("motor_init", 0, 0)) = motor_init /\ CodeOf(Call("sensor_init", 0, 0)) = sensor_init
  BY DEF CodeOf, Call
<1>2. \A f \in Constructors : Sound(CodeOf(Call(f, 0, 0)), OutPins, InPins)
  BY <1>1, LedInitSound, ButtonInitSound, MotorInitSound, SensorInitSound
     DEF Constructors
<1>3. ASSUME NEW p \in OutPins
      PROVE  \E f \in Constructors : MakesOut(CodeOf(Call(f, 0, 0)), p)
  <2>1. CASE p \in Range(LedPins)
    <3>1. PICK q \in 1..4 : p = LedPins[q]
      BY <2>1, LedsAndButtons DEF Range
    <3> QED  BY <3>1, <1>1, LedInitSound DEF Constructors
  <2>2. CASE p \in UNION {Range(m) : m \in Range(MotorPorts)}
    <3>1. PICK i \in 1..4 : p \in Range(MotorPorts[i])
      BY <2>2, Motors DEF Range
    <3>2. PICK j \in 1..5 : p = MotorPorts[i][j]
      BY <3>1, Motors DEF Range
    <3> QED  BY <3>2, <1>1, MotorInitSound DEF Constructors
  <2>3. CASE p \in Column(SensorPorts, 3)
    <3>1. PICK i \in 1..4 : p = SensorPorts[i][3]
      BY <2>3, Sensors DEF Column, Range
    <3> QED  BY <3>1, <1>1, SensorInitSound DEF Constructors
  <2> QED  BY <2>1, <2>2, <2>3 DEF OutPins
<1> QED  BY <1>2, <1>3

\* Their numbers.
LEMMA PinsAre ==
  /\ \A p \in OutPins : p \in {109, 103, 108, 110, 63, 54, 84, 91, 4, 3, 33, 37, 88, 41, 104, 89, 56, 93,
                              62, 90, 83, 95, 105, 40, 2, 14, 12, 1}
  /\ \A p \in InPins : p \in {102, 124, 127, 126, 29, 106, 138, 140, 137, 100, 34, 143, 123, 120}
<1>1. /\ Range(LedPins) = {109, 103, 108, 110}
      /\ Range(buttons) = {102, 124, 127, 126, 29, 106}
  <2>1. /\ DOMAIN LedPins = 1..4 /\ LedPins[1] = 109 /\ LedPins[2] = 103 /\ LedPins[3] = 108
        /\ LedPins[4] = 110
    BY LedPinsAre DEF LedPins
  <2>2. /\ DOMAIN buttons = 1..6 /\ buttons[1] = 102 /\ buttons[2] = 124 /\ buttons[3] = 127
        /\ buttons[4] = 126 /\ buttons[5] = 29 /\ buttons[6] = 106
    BY DEF buttons, GPIO_PIN
  <2> QED  BY <2>1, <2>2 DEF Range
<1>2. \A i \in 1..4 : \A j \in 1..5 :
        MotorPorts[i][j] \in {63, 54, 84, 91, 4, 3, 33, 37, 88, 41, 104, 89, 56, 93, 62, 90, 83, 95, 105, 40}
  BY DEF MotorPorts, GPIO_PIN
<1>3. \A i \in 1..4 : /\ SensorPorts[i][1] \in {138, 140, 137, 100}
                      /\ SensorPorts[i][2] \in {34, 143, 123, 120}
                      /\ SensorPorts[i][3] \in {2, 14, 12, 1}
  BY DEF SensorPorts, GPIO_PIN
<1>5. \A p \in UNION {Range(m) : m \in Range(MotorPorts)} :
        p \in {63, 54, 84, 91, 4, 3, 33, 37, 88, 41, 104, 89, 56, 93, 62, 90, 83, 95, 105, 40}
  BY <1>2, Motors DEF Range
<1>6. /\ \A p \in Column(SensorPorts, 1) : p \in {138, 140, 137, 100}
      /\ \A p \in Column(SensorPorts, 2) : p \in {34, 143, 123, 120}
      /\ \A p \in Column(SensorPorts, 3) : p \in {2, 14, 12, 1}
  BY <1>3, Sensors DEF Column, Range
<1>7. \A p \in OutPins : p \in {109, 103, 108, 110, 63, 54, 84, 91, 4, 3, 33, 37, 88, 41, 104, 89, 56, 93,
                                62, 90, 83, 95, 105, 40, 2, 14, 12, 1}
  BY <1>1, <1>5, <1>6 DEF OutPins
<1>8. \A p \in InPins : p \in {102, 124, 127, 126, 29, 106, 138, 140, 137, 100, 34, 143, 123, 120}
  BY <1>1, <1>6 DEF InPins
<1> QED  BY <1>7, <1>8

\* No pin is both, and all are pins of the GPIO.
LEMMA PinsDisjoint ==
  /\ OutPins \subseteq Pins /\ InPins \subseteq Pins
  /\ OutPins \cap InPins = {}
<1>1. Pins = 0..143
  BY DEF GPIO_PIN, Pins
<1> QED  BY <1>1, PinsAre

\* Tasks drive and read no other pins.
LEMMA CallPins ==
  ASSUME NEW k \in DriverCalls
  PROVE  Outputs(k) \subseteq OutPins /\ Inputs(k) \subseteq InPins
<1>1. CASE k.fn = "led_set"
  <2>1. k.a \in 1..3 /\ Inputs(k) = {} /\ Outputs(k) \subseteq {109, 103, 108, 110}
    BY <1>1, LedPinsAre DEF DriverCalls, Inputs, Outputs
  <2>2. LedPins[1] = 109 /\ LedPins[2] = 103 /\ LedPins[3] = 108 /\ LedPins[4] = 110
    BY LedPinsAre DEF LedPins
  <2>3. 109 \in OutPins /\ 103 \in OutPins /\ 108 \in OutPins /\ 110 \in OutPins
    BY <2>2, LedsAndButtons
  <2> QED  BY <2>1, <2>3
<1>2. CASE k.fn = "button_get_state"
  <2>1. k.a \in 0..5 /\ Inputs(k) = {buttons[k.a + 1]} /\ Outputs(k) = {}
    BY <1>2 DEF DriverCalls, Inputs, Outputs
  <2> QED  BY <2>1, LedsAndButtons
<1>3. CASE k.fn = "motor_set_state"
  <2>1. k.a \in 0..3 /\ Inputs(k) = {} /\ Outputs(k) = {MotorPorts[k.a + 1][1], MotorPorts[k.a + 1][2]}
    BY <1>3 DEF DriverCalls, Inputs, Outputs
  <2> QED  BY <2>1, Motors
<1>4. CASE k.fn = "sensor_touch_get_state"
  BY <1>4 DEF Inputs, Outputs
<1>5. CASE k.fn = "sensor_light_get"
  <2>1. k.a \in 0..3 /\ Inputs(k) = {} /\ Outputs(k) = {SensorPorts[k.a + 1][3]}
    BY <1>5 DEF DriverCalls, Inputs, Outputs
  <2> QED  BY <2>1, Sensors
<1> QED  BY <1>1, <1>2, <1>3, <1>4, <1>5 DEF DriverCalls

----------------------------------------------------------------------------
(* What remains of a program. *)

Rest(c, O, I) ==
  /\ c \in Seq(Access)
  /\ \A i \in 1..Len(c) :
       /\ c[i].op \in {"unlock", "lock"} => c[i].arg \in 0..1
       /\ c[i].op = "unlock" => \E j \in (i + 1)..Len(c) : c[j] = Acc("lock", c[i].arg)
       /\ c[i].op \in {"dir_in", "dir_out"} /\ i > 1 => c[i - 1] = Acc("load_dir", c[i].arg)
       /\ c[i].op \in {"dir_out", "set", "clr"} => c[i].arg \in O
       /\ c[i].op = "dir_in" => c[i].arg \in I

Locks(c, n)     == \E i \in 1..Len(c) : c[i] = Acc("lock", n)
Steady(c, p, h) == \A i \in 1..Len(c) : c[i].op \in {"set", "clr"} /\ c[i].arg = p => c[i].op = h

\* All of it remains at first.
LEMMA SoundRest ==
  ASSUME NEW c, NEW O, NEW I, Sound(c, O, I)
  PROVE  /\ Rest(c, O, I)
         /\ c # <<>> => c[1].op \notin {"dir_in", "dir_out"}
<1>1. c # <<>> => 1 \in 1..Len(c) /\ ~(1 > 1)
  BY DEF Sound
<1> QED  BY <1>1 DEF Sound, Rest

\* After one access.
LEMMA RestTail ==
  ASSUME NEW c, NEW O, NEW I, Rest(c, O, I), c # <<>>
  PROVE  /\ Head(c) = c[1] /\ c[1] \in Access /\ Rest(Tail(c), O, I)
         /\ c[1].op \in {"unlock", "lock"} => c[1].arg \in 0..1
         /\ c[1].op = "unlock" => Locks(Tail(c), c[1].arg)
         /\ c[1].op \in {"dir_out", "set", "clr"} => c[1].arg \in O
         /\ c[1].op = "dir_in" => c[1].arg \in I
         /\ Tail(c) # <<>> /\ Tail(c)[1].op \in {"dir_in", "dir_out"} => c[1] = Acc("load_dir", Tail(c)[1].arg)
         /\ \A n : Locks(c, n) => c[1] = Acc("lock", n) \/ Locks(Tail(c), n)
         /\ \A p : MakesOut(c, p) => c[1] = Acc("dir_out", p) \/ MakesOut(Tail(c), p)
         /\ \A p, h : Steady(c, p, h) => /\ Steady(Tail(c), p, h)
                                         /\ c[1].op \in {"set", "clr"} /\ c[1].arg = p => c[1].op = h
         /\ \A p, h : Level(c, p, h) => \/ Level(Tail(c), p, h)
                                        \/ c[1] = Acc(h, p) /\ Steady(Tail(c), p, h)
<1> DEFINE d == Tail(c)
<1>1. c \in Seq(Access) /\ Len(c) \in Nat /\ Len(c) > 0
  BY DEF Rest
<1>2. /\ Head(c) = c[1] /\ c[1] \in Access /\ d \in Seq(Access) /\ Len(d) = Len(c) - 1
      /\ \A i \in 1..Len(d) : d[i] = c[i + 1]
  BY <1>1
<1> HIDE DEF d
<1>3. \A i \in 2..Len(c) : i - 1 \in 1..Len(d) /\ d[i - 1] = c[i]
  BY <1>1, <1>2
<1>4. 1 \in 1..Len(c) /\ \A i \in 1..Len(d) : i + 1 \in 1..Len(c) /\ i + 1 > 1
  BY <1>1, <1>2
<1>5. Rest(d, O, I)
  <2> SUFFICES ASSUME NEW i \in 1..Len(d)
               PROVE  /\ d[i].op \in {"unlock", "lock"} => d[i].arg \in 0..1
                      /\ d[i].op = "unlock" => \E j \in (i + 1)..Len(d) : d[j] = Acc("lock", d[i].arg)
                      /\ d[i].op \in {"dir_in", "dir_out"} /\ i > 1 => d[i - 1] = Acc("load_dir", d[i].arg)
                      /\ d[i].op \in {"dir_out", "set", "clr"} => d[i].arg \in O
                      /\ d[i].op = "dir_in" => d[i].arg \in I
    BY <1>2 DEF Rest
  <2>1. d[i] = c[i + 1] /\ i + 1 \in 1..Len(c) /\ i + 1 > 1
    BY <1>2, <1>4
  <2>2. \A j \in ((i + 1) + 1)..Len(c) : j - 1 \in (i + 1)..Len(d) /\ d[j - 1] = c[j]
    BY <1>1, <1>2, <1>3
  <2>3. i > 1 => d[i - 1] = c[(i + 1) - 1]
    BY <1>1, <1>2
  <2> QED  BY <2>1, <2>2, <2>3 DEF Rest
<1>6. c[1].op = "unlock" => Locks(d, c[1].arg)
  <2>1. c[1].op = "unlock" => \E j \in (1 + 1)..Len(c) : c[j] = Acc("lock", c[1].arg)
    BY <1>4 DEF Rest
  <2>2. 1 + 1 = 2
    OBVIOUS
  <2> QED  BY <2>1, <2>2, <1>3 DEF Locks
<1>7. d # <<>> /\ d[1].op \in {"dir_in", "dir_out"} => c[1] = Acc("load_dir", d[1].arg)
  <2>1. d # <<>> => 1 \in 1..Len(d) /\ d[1] = c[2] /\ 2 \in 1..Len(c) /\ 2 > 1 /\ 2 - 1 = 1
    BY <1>1, <1>2
  <2> QED  BY <2>1 DEF Rest
<1>8. \A n : Locks(c, n) => c[1] = Acc("lock", n) \/ Locks(d, n)
  BY <1>1, <1>3 DEF Locks
<1>9. \A p : MakesOut(c, p) => c[1] = Acc("dir_out", p) \/ MakesOut(d, p)
  BY <1>1, <1>3 DEF MakesOut
<1>10. \A p, h : Steady(c, p, h) => Steady(d, p, h) /\ (c[1].op \in {"set", "clr"} /\ c[1].arg = p => c[1].op = h)
  BY <1>2, <1>4 DEF Steady
<1>11. ASSUME NEW p, NEW h, Level(c, p, h)
       PROVE  Level(d, p, h) \/ (c[1] = Acc(h, p) /\ Steady(d, p, h))
  <2>1. PICK i \in 1..Len(c) : /\ c[i] = Acc(h, p)
                               /\ \A j \in (i + 1)..Len(c) : c[j].op \in {"set", "clr"} /\ c[j].arg = p => c[j].op = h
    BY <1>11 DEF Level
  <2>2. CASE i = 1
    <3>1. \A j \in 1..Len(d) : j + 1 \in (i + 1)..Len(c) /\ d[j] = c[j + 1]
      BY <2>2, <1>1, <1>2
    <3> QED  BY <2>1, <2>2, <3>1 DEF Steady
  <2>3. CASE i > 1
    <3> DEFINE k == i - 1
    <3>1. k \in 1..Len(d) /\ d[k] = c[i]
      BY <2>3, <1>1, <1>3
    <3>2. \A j \in (k + 1)..Len(d) : j + 1 \in (i + 1)..Len(c) /\ d[j] = c[j + 1]
      BY <1>1, <1>2, <3>1
    <3> HIDE DEF k
    <3> QED  BY <2>1, <3>1, <3>2 DEF Level
  <2> QED  BY <2>2, <2>3, <1>1
<1>12. /\ c[1].op \in {"unlock", "lock"} => c[1].arg \in 0..1
       /\ c[1].op \in {"dir_out", "set", "clr"} => c[1].arg \in O
       /\ c[1].op = "dir_in" => c[1].arg \in I
  BY <1>4 DEF Rest
<1> QED  BY <1>2, <1>5, <1>6, <1>7, <1>8, <1>9, <1>10, <1>11, <1>12 DEF d

----------------------------------------------------------------------------
(* The inductive invariant. *)

Booting == waiting # {} \/ ~Idle("boot")

\* Tasks call drivers after start-up.
CallInv ==
  /\ waiting \subseteq Constructors
  /\ DOMAIN call = Threads /\ DOMAIN code = Threads
  /\ \A t \in Tasks : call[t] \in Makes(t) \cup {NoCall}
  /\ Booting => \A t \in Tasks : Idle(t) /\ call[t] = NoCall

\* What remains of the calls.
CodeInv ==
  /\ Rest(code["boot"], OutPins, InPins)
  /\ \A t \in Tasks : Rest(code[t], Outputs(call[t]), Inputs(call[t]))

\* An open register will be locked.
LockInv ==
  /\ kick \in [0..1 -> BOOLEAN]
  /\ \A n \in 0..1 : kick[n] => \E t \in Threads : Locks(code[t], n)

\* A pin of a task's call has its level or will be given it last.
LevelInv ==
  \A t \in Tasks : \A p \in Outputs(call[t]) :
    \/ Level(code[t], p, Wanted(call[t], p))
    \/ Steady(code[t], p, Wanted(call[t], p)) /\ (p \in out <=> p \in High(call[t]))

\* Inputs stay inputs, outputs become outputs during start-up, and a write
\* of directions puts back what is there.
DirInv ==
  /\ InPins \subseteq dir /\ dir \subseteq Pins
  /\ \A p \in OutPins : p \in dir => \/ MakesOut(code["boot"], p)
                                     \/ \E f \in waiting : MakesOut(CodeOf(Call(f, 0, 0)), p)
  /\ DOMAIN latch = Threads
  /\ \A t \in Threads : ~Idle(t) /\ code[t][1].op \in {"dir_in", "dir_out"} =>
                          latch[t] = dir \cap GPIO_BANK(code[t][1].arg)

IInv == CallInv /\ CodeInv /\ LockInv /\ DirInv

\* The calls a task may make are ones the drivers know.
LEMMA MakesAre ==
  ASSUME NEW t \in Tasks
  PROVE  Makes(t) \subseteq DriverCalls
<1>1. Call("motor_set_state", 0, 1) \in DriverCalls /\ Call("motor_set_state", 0, 2) \in DriverCalls
  BY DEF Call, DriverCalls
<1> QED  BY <1>1, Ev3ConstantsOK DEF Makes

\* No call drives no pin.
LEMMA NoCallIs == Outputs(NoCall) = {} /\ Inputs(NoCall) = {}
BY DEF Outputs, Inputs, NoCall, Call

\* Only pins that a call drives are to be high.
LEMMA HighOfOutputs ==
  ASSUME NEW t \in Tasks, NEW k \in Makes(t) \cup {NoCall}
  PROVE  High(k) \subseteq Outputs(k)
<1>1. CASE k = NoCall
  BY <1>1 DEF High, NoCall, Call
<1>2. CASE k \in DriverCalls
  <2>1. CASE k.fn = "led_set"
    BY <2>1 DEF High
  <2>2. CASE k.fn = "motor_set_state"
    BY <2>2 DEF High, Outputs
  <2>3. CASE k.fn = "sensor_light_get"
    BY <2>3 DEF High
  <2>4. CASE k.fn \notin {"led_set", "motor_set_state", "sensor_light_get"}
    BY <2>4 DEF High
  <2> QED  BY <2>1, <2>2, <2>3, <2>4
<1> QED  BY <1>1, <1>2, MakesAre

\* What a thread's program may touch.
LEMMA ThreadRest ==
  ASSUME IInv, NEW t \in Threads
  PROVE  Rest(code[t], OutPins, InPins)
<1>1. CASE t = "boot"
  BY <1>1 DEF IInv, CodeInv
<1>2. CASE t \in Tasks
  <2>1. Rest(code[t], Outputs(call[t]), Inputs(call[t]))
    BY <1>2 DEF IInv, CodeInv
  <2>2. Outputs(call[t]) \subseteq OutPins /\ Inputs(call[t]) \subseteq InPins
    BY <1>2, MakesAre, CallPins, NoCallIs DEF IInv, CallInv
  <2> QED  BY <2>1, <2>2 DEF Rest
<1> QED  BY <1>1, <1>2 DEF Threads

\* The invariant holds when the constructors are to run.
LEMMA InitInv == Init => IInv /\ LevelInv
<1> SUFFICES ASSUME Init PROVE IInv /\ LevelInv
  OBVIOUS
<1>1. /\ \A t \in Threads : code[t] = <<>> /\ call[t] = NoCall
      /\ DOMAIN code = Threads /\ DOMAIN latch = Threads /\ DOMAIN call = Threads
  BY DEF Init
<1>2. CallInv
  BY <1>1 DEF Init, CallInv, Idle, Threads
<1>3. \A O, I : Rest(<<>>, O, I)
  BY DEF Rest
<1>4. CodeInv
  BY <1>1, <1>3 DEF CodeInv, Threads
<1>5. LockInv
  BY DEF Init, LockInv
<1>6. DirInv
  <2>1. InPins \subseteq dir /\ dir \subseteq Pins
    BY PinsDisjoint DEF Init
  <2>2. \A p \in OutPins : \E f \in waiting : MakesOut(CodeOf(Call(f, 0, 0)), p)
    BY ConstructorsSound DEF Init
  <2> QED  BY <1>1, <2>1, <2>2 DEF DirInv, Idle
<1>7. LevelInv
  BY <1>1, NoCallIs DEF LevelInv, Threads
<1> QED  BY <1>2, <1>4, <1>5, <1>6, <1>7 DEF IInv

----------------------------------------------------------------------------
(* Register accesses. *)

\* What one access of t does to the programs.
LEMMA CodeStep ==
  ASSUME IInv, NEW t \in Threads, NEW ops, Step(t, ops)
  PROVE  /\ code[t] # <<>> /\ code'[t] = Tail(code[t]) /\ Head(code[t]) = code[t][1]
         /\ \A u \in Threads : u # t => code'[u] = code[u]
         /\ CallInv' /\ CodeInv'
         /\ Booting => t = "boot"
<1>1. code[t] # <<>> /\ code' = [code EXCEPT ![t] = Tail(@)] /\ call' = call /\ waiting' = waiting
  BY DEF Step, Idle
<1>2. /\ code'[t] = Tail(code[t]) /\ DOMAIN code' = Threads
      /\ \A u \in Threads : u # t => code'[u] = code[u]
  BY <1>1 DEF IInv, CallInv
<1>3. Rest(code[t], OutPins, InPins)
  BY ThreadRest
<1>4. Head(code[t]) = code[t][1]
  BY <1>1, <1>3, RestTail
<1>5. Booting => t = "boot"
  BY <1>1 DEF IInv, CallInv, Idle, Threads
<1>6. Booting' => Booting
  BY <1>1, <1>2 DEF Booting, Idle, Threads
<1>7. CallInv'
  BY <1>1, <1>2, <1>5, <1>6, Ev3ConstantsOK DEF IInv, CallInv, Idle, Threads
<1>8. \A O, I : Rest(code[t], O, I) => Rest(Tail(code[t]), O, I)
  BY <1>1, RestTail
<1>9. CodeInv'
  BY <1>1, <1>2, <1>8 DEF IInv, CodeInv, Threads
<1> QED  BY <1>1, <1>2, <1>4, <1>5, <1>7, <1>9

\* The kick registers.
LEMMA LockStep ==
  ASSUME IInv, NEW t \in Threads, NEW ops, Step(t, ops),
         Kick(t) \/ (kick' = kick /\ Op(t) \notin {"unlock", "lock"})
  PROVE  LockInv'
<1> DEFINE c == code[t]
<1>1. /\ c # <<>> /\ code'[t] = Tail(c) /\ Head(c) = c[1]
      /\ \A u \in Threads : u # t => code'[u] = code[u]
  BY CodeStep
<1>2. Rest(c, OutPins, InPins)
  BY ThreadRest
<1>3. /\ c[1] \in Access
      /\ c[1].op \in {"unlock", "lock"} => c[1].arg \in 0..1
      /\ c[1].op = "unlock" => Locks(Tail(c), c[1].arg)
      /\ \A n : Locks(c, n) => c[1] = Acc("lock", n) \/ Locks(Tail(c), n)
  BY <1>1, <1>2, RestTail
<1>4. Op(t) = c[1].op /\ Arg(t) = c[1].arg
  BY <1>1 DEF Op, Arg
<1> HIDE DEF c
<1>5. kick \in [0..1 -> BOOLEAN] /\ \A n \in 0..1 : kick[n] => \E u \in Threads : Locks(code[u], n)
  BY DEF IInv, LockInv
<1>6. CASE kick' = kick /\ Op(t) \notin {"unlock", "lock"}
  <2>1. ASSUME NEW n \in 0..1, kick[n] PROVE \E u \in Threads : Locks(code'[u], n)
    <3>1. PICK u \in Threads : Locks(code[u], n)
      BY <2>1, <1>5
    <3>2. CASE u = t
      <4>1. c[1] # Acc("lock", n)
        BY <1>4, <1>6 DEF Acc
      <4> QED  BY <3>1, <3>2, <4>1, <1>1, <1>3 DEF c
    <3>3. CASE u # t
      BY <3>1, <3>3, <1>1
    <3> QED  BY <3>2, <3>3
  <2> QED  BY <2>1, <1>5, <1>6 DEF LockInv
<1>7. CASE Kick(t)
  <2>1. c[1].op \in {"unlock", "lock"} /\ c[1].arg \in 0..1
    BY <1>7, <1>1, <1>3 DEF Kick, Step, c
  <2>2. kick' = [kick EXCEPT ![c[1].arg] = (c[1].op = "unlock")]
    BY <1>7, <1>4 DEF Kick
  <2>3. kick' \in [0..1 -> BOOLEAN]
    BY <2>1, <2>2, <1>5
  <2>4. ASSUME NEW n \in 0..1, kick'[n] PROVE \E u \in Threads : Locks(code'[u], n)
    <3>1. CASE n = c[1].arg
      <4>1. c[1].op = "unlock"
        BY <2>4, <3>1, <2>1, <2>2, <1>5
      <4> QED  BY <4>1, <3>1, <1>1, <1>3
    <3>2. CASE n # c[1].arg
      <4>1. kick[n] /\ c[1] # Acc("lock", n)
        BY <2>4, <3>2, <2>1, <2>2, <1>5 DEF Acc
      <4>2. PICK u \in Threads : Locks(code[u], n)
        BY <4>1, <1>5
      <4>3. CASE u = t
        BY <4>1, <4>2, <4>3, <1>1, <1>3 DEF c
      <4>4. CASE u # t
        BY <4>2, <4>4, <1>1
      <4> QED  BY <4>3, <4>4
    <3> QED  BY <3>1, <3>2
  <2> QED  BY <2>3, <2>4 DEF LockInv
<1> QED  BY <1>6, <1>7

\* The directions: an access that leaves them alone.
LEMMA DirKept ==
  ASSUME IInv, NEW t \in Threads, NEW ops, Step(t, ops),
         dir' = dir, Op(t) \notin {"dir_in", "dir_out"},
         DOMAIN latch' = Threads, \A u \in Threads : u # t => latch'[u] = latch[u],
         Op(t) = "load_dir" => latch'[t] = dir \cap GPIO_BANK(Arg(t))
  PROVE  DirInv'
<1> DEFINE c == code[t]
<1>1. /\ c # <<>> /\ code'[t] = Tail(c) /\ Head(c) = c[1]
      /\ \A u \in Threads : u # t => code'[u] = code[u]
  BY CodeStep
<1>2. Rest(c, OutPins, InPins)
  BY ThreadRest
<1>3. /\ Tail(c) # <<>> /\ Tail(c)[1].op \in {"dir_in", "dir_out"} => c[1] = Acc("load_dir", Tail(c)[1].arg)
      /\ \A p : MakesOut(c, p) => c[1] = Acc("dir_out", p) \/ MakesOut(Tail(c), p)
  BY <1>1, <1>2, RestTail
<1>4. Op(t) = c[1].op /\ Arg(t) = c[1].arg /\ waiting' = waiting
  BY <1>1 DEF Op, Arg, Step
<1> HIDE DEF c
<1>5. ASSUME NEW p \in OutPins, p \in dir'
      PROVE  MakesOut(code'["boot"], p) \/ \E f \in waiting' : MakesOut(CodeOf(Call(f, 0, 0)), p)
  <2>1. MakesOut(code["boot"], p) \/ \E f \in waiting : MakesOut(CodeOf(Call(f, 0, 0)), p)
    BY <1>5 DEF IInv, DirInv
  <2>2. c[1] # Acc("dir_out", p)
    BY <1>4 DEF Acc
  <2>3. MakesOut(code["boot"], p) => MakesOut(code'["boot"], p)
    BY <1>1, <1>3, <2>2 DEF c, Threads
  <2> QED  BY <2>1, <2>3, <1>4
<1>6. ASSUME NEW u \in Threads, code'[u] # <<>>, code'[u][1].op \in {"dir_in", "dir_out"}
      PROVE  latch'[u] = dir' \cap GPIO_BANK(code'[u][1].arg)
  <2>1. CASE u = t
    <3>1. c[1] = Acc("load_dir", Tail(c)[1].arg)
      BY <1>1, <1>3, <1>6, <2>1
    <3> DEFINE x == Tail(c)[1].arg
    <3>2. x = code'[t][1].arg /\ c[1] = Acc("load_dir", x)
      BY <1>1, <3>1
    <3> HIDE DEF x
    <3>3. c[1].op = "load_dir" /\ c[1].arg = x
      BY <3>2 DEF Acc
    <3> QED  BY <3>2, <3>3, <2>1, <1>4
  <2>2. CASE u # t
    BY <2>2, <1>1, <1>6 DEF IInv, DirInv, Idle
  <2> QED  BY <2>1, <2>2
<1> QED  BY <1>5, <1>6 DEF IInv, DirInv, Idle, GPIO_BANK

\* Directions are written back: as they are after start-up, with those of one
\* more pin set right during it.
LEMMA StoreDirInv ==
  ASSUME IInv, NEW t \in Threads, StoreDir(t)
  PROVE  /\ DirInv' /\ (~Booting => dir' = dir)
         /\ dir' = IF Op(t) = "dir_out" THEN dir \ {Arg(t)} ELSE dir
<1> DEFINE c == code[t]
           x == c[1].arg
<1>0. Step(t, {"dir_in", "dir_out"})
  BY DEF StoreDir
<1>1. /\ c # <<>> /\ code'[t] = Tail(c) /\ Head(c) = c[1]
      /\ \A u \in Threads : u # t => code'[u] = code[u]
      /\ Booting => t = "boot"
  BY <1>0, CodeStep
<1>2. Rest(c, OutPins, InPins)
  BY ThreadRest
<1>3. /\ c[1].op = "dir_out" => x \in OutPins
      /\ c[1].op = "dir_in" => x \in InPins
      /\ Tail(c) # <<>> /\ Tail(c)[1].op \in {"dir_in", "dir_out"} => c[1] = Acc("load_dir", Tail(c)[1].arg)
      /\ \A p : MakesOut(c, p) => c[1] = Acc("dir_out", p) \/ MakesOut(Tail(c), p)
  BY <1>1, <1>2, RestTail
<1>4. /\ Op(t) = c[1].op /\ Arg(t) = x /\ waiting' = waiting
      /\ c[1].op \in {"dir_in", "dir_out"}
  BY <1>0, <1>1 DEF Op, Arg, Step
<1> HIDE DEF c
<1>5. latch[t] = dir \cap GPIO_BANK(x)
  BY <1>1, <1>4 DEF IInv, DirInv, Idle, c
<1>6. x \in Pins /\ x \in GPIO_BANK(x)
  BY <1>3, <1>4, PinsDisjoint DEF GPIO_BANK
<1>7. dir' = IF c[1].op = "dir_in" THEN dir \cup {x} ELSE dir \ {x}
  <2>1. dir' = (dir \ GPIO_BANK(x)) \cup (IF c[1].op = "dir_in" THEN latch[t] \cup {x} ELSE latch[t] \ {x})
    BY <1>4 DEF StoreDir
  <2> QED  BY <2>1, <1>5, <1>6
<1>8. dir' = IF c[1].op = "dir_in" THEN dir ELSE dir \ {x}
  BY <1>3, <1>4, <1>7 DEF IInv, DirInv
<1>9. InPins \subseteq dir' /\ dir' \subseteq Pins
  BY <1>3, <1>4, <1>8, PinsDisjoint DEF IInv, DirInv
<1>10. ASSUME NEW p \in OutPins, p \in dir'
       PROVE  MakesOut(code'["boot"], p) \/ \E f \in waiting' : MakesOut(CodeOf(Call(f, 0, 0)), p)
  <2>1. MakesOut(code["boot"], p) \/ \E f \in waiting : MakesOut(CodeOf(Call(f, 0, 0)), p)
    BY <1>8, <1>10 DEF IInv, DirInv
  <2>2. c[1] # Acc("dir_out", p)
    BY <1>4, <1>8, <1>10 DEF Acc
  <2>3. MakesOut(code["boot"], p) => MakesOut(code'["boot"], p)
    BY <1>1, <1>3, <2>2 DEF c, Threads
  <2> QED  BY <2>1, <2>3, <1>4
<1>11. ~Booting => dir' = dir
  <2> SUFFICES ASSUME ~Booting PROVE dir' = dir
    OBVIOUS
  <2>1. code["boot"] = <<>> /\ waiting = {}
    BY DEF Booting, Idle
  <2>2. \A p : ~MakesOut(<<>>, p)
    BY DEF MakesOut
  <2>3. \A p \in OutPins : p \notin dir
    BY <2>1, <2>2 DEF IInv, DirInv
  <2> QED  BY <2>3, <1>3, <1>4, <1>8
<1>12. DOMAIN latch' = Threads /\ \A u \in Threads : u # t => latch'[u] = latch[u]
  BY DEF StoreDir, IInv, DirInv
<1>13. ASSUME NEW u \in Threads, code'[u] # <<>>, code'[u][1].op \in {"dir_in", "dir_out"}
       PROVE  latch'[u] = dir' \cap GPIO_BANK(code'[u][1].arg)
  <2>1. CASE u = t
    <3>1. c[1] = Acc("load_dir", Tail(c)[1].arg)
      BY <1>1, <1>3, <1>13, <2>1
    <3> QED  BY <3>1, <1>4 DEF Acc
  <2>2. CASE u # t
    <3>1. code[u] # <<>> /\ latch'[u] = latch[u] /\ latch[u] = dir \cap GPIO_BANK(code'[u][1].arg)
      BY <2>2, <1>1, <1>12, <1>13 DEF IInv, DirInv, Idle
    <3>2. u \in Tasks \/ t \in Tasks
      BY <2>2 DEF Threads
    <3>3. ~Booting
      BY <1>1, <3>1, <3>2, Ev3ConstantsOK DEF IInv, CallInv, Idle
    <3> QED  BY <3>1, <3>3, <1>11
  <2> QED  BY <2>1, <2>2
<1>14. DirInv'
  BY <1>9, <1>10, <1>12, <1>13 DEF DirInv, Idle, GPIO_BANK
<1> QED  BY <1>4, <1>8, <1>11, <1>14

\* Every access keeps the invariant.
LEMMA RunsInv ==
  ASSUME IInv, NEW t \in Threads, Runs(t)
  PROVE  /\ IInv' /\ (~Booting => dir' = dir)
         /\ dir' = IF Op(t) = "dir_out" THEN dir \ {Arg(t)} ELSE dir
<1> DEFINE Keeps == DOMAIN latch' = Threads /\ \A u \in Threads : u # t => latch'[u] = latch[u]
<1>0. DOMAIN latch = Threads
  BY DEF IInv, DirInv
<1>1. PICK ops : Step(t, ops)
  BY DEF Runs, Kick, Load, StoreMux, StoreDir, SetClr, Get, Pull, Tx, Rx
<1>2. CallInv' /\ CodeInv'
  BY <1>1, CodeStep
<1>3. Kick(t) \/ (kick' = kick /\ Op(t) \notin {"unlock", "lock"})
  BY DEF Runs, Kick, Load, StoreMux, StoreDir, SetClr, Get, Pull, Tx, Rx, Step, Op, regs
<1>4. LockInv'
  BY <1>1, <1>3, LockStep
<1>5. \/ StoreDir(t)
      \/ /\ dir' = dir /\ Op(t) \notin {"dir_in", "dir_out"} /\ Keeps
         /\ Op(t) = "load_dir" => latch'[t] = dir \cap GPIO_BANK(Arg(t))
  <2>1. CASE Load(t)
    BY <2>1, <1>0 DEF Load, Step, Op, regs
  <2>2. CASE StoreMux(t)
    BY <2>2, <1>0 DEF StoreMux, Step, Op
  <2>3. CASE Kick(t) \/ SetClr(t) \/ Get(t) \/ Pull(t) \/ Tx(t) \/ Rx(t)
    BY <2>3, <1>0 DEF Kick, SetClr, Get, Pull, Tx, Rx, Step, Op, regs
  <2> QED  BY <2>1, <2>2, <2>3 DEF Runs
<1>6. DirInv' /\ (~Booting => dir' = dir)
  BY <1>1, <1>5, StoreDirInv, DirKept
<1>7. dir' = IF Op(t) = "dir_out" THEN dir \ {Arg(t)} ELSE dir
  BY <1>5, StoreDirInv
<1> QED  BY <1>2, <1>4, <1>6, <1>7 DEF IInv

\* The levels of a call: an access of its own thread leaves each at the level wanted or
\* still to be given.
LEMMA LevelOwn ==
  ASSUME IInv, NEW t \in Threads, NEW ops, Step(t, ops),
         SetClr(t) \/ (out' = out /\ Op(t) \notin {"set", "clr"}), NEW k, NEW p,
         Level(code[t], p, Wanted(k, p)) \/ (Steady(code[t], p, Wanted(k, p)) /\ (p \in out <=> p \in High(k)))
  PROVE  \/ Level(code'[t], p, Wanted(k, p))
         \/ Steady(code'[t], p, Wanted(k, p)) /\ (p \in out' <=> p \in High(k))
<1> DEFINE c == code[t]
           h == Wanted(k, p)
<1>1. c # <<>> /\ code'[t] = Tail(c) /\ Op(t) = c[1].op /\ Arg(t) = c[1].arg
  BY CodeStep DEF Op, Arg
<1>2. (h = "set" <=> p \in High(k)) /\ h \in {"set", "clr"}
  BY DEF Wanted
<1>3. Rest(c, OutPins, InPins)
  BY ThreadRest
<1> HIDE DEF c, h
<1>4. Level(c, p, h) \/ (Steady(c, p, h) /\ (p \in out <=> p \in High(k)))
  BY DEF c, h
<1>5. \A q, g : Steady(c, q, g) => /\ Steady(Tail(c), q, g)
                                   /\ c[1].op \in {"set", "clr"} /\ c[1].arg = q => c[1].op = g
  BY <1>1, <1>3, RestTail
<1>6. Level(c, p, h) => Level(Tail(c), p, h) \/ (c[1] = Acc(h, p) /\ Steady(Tail(c), p, h))
  BY <1>1, <1>3, RestTail
<1>7. CASE c[1] = Acc(h, p) /\ Steady(Tail(c), p, h)
  <2>1. c[1].op = h /\ c[1].arg = p
    BY <1>7 DEF Acc
  <2>2. SetClr(t)
    BY <1>1, <1>2, <2>1
  <2>3. p \in out' <=> h = "set"
    BY <1>1, <1>2, <2>1, <2>2 DEF SetClr
  <2> QED  BY <1>1, <1>2, <1>7, <2>3 DEF h
<1>8. CASE Steady(c, p, h) /\ (p \in out <=> p \in High(k))
  <2>1. Steady(Tail(c), p, h) /\ (c[1].op \in {"set", "clr"} /\ c[1].arg = p => c[1].op = h)
    BY <1>5, <1>8
  <2>2. p \in out' <=> p \in High(k)
    BY <1>1, <1>2, <1>8, <2>1 DEF SetClr, Step, Op
  <2> QED  BY <1>1, <2>1, <2>2 DEF h
<1> QED  BY <1>1, <1>4, <1>6, <1>7, <1>8 DEF h

\* The levels: an access of t changes those of t's own pins only.
LEMMA LevelStep ==
  ASSUME IInv, LevelInv, NEW t \in Threads, NEW ops, Step(t, ops), OwnPins,
         SetClr(t) \/ (out' = out /\ Op(t) \notin {"set", "clr"})
  PROVE  LevelInv'
<1> DEFINE c == code[t]
<1>1. /\ c # <<>> /\ code'[t] = Tail(c) /\ Head(c) = c[1]
      /\ \A u \in Threads : u # t => code'[u] = code[u]
      /\ Booting => t = "boot"
  BY CodeStep
<1>2. call' = call /\ Op(t) = c[1].op /\ Arg(t) = c[1].arg
  BY <1>1 DEF Step, Op, Arg
<1> SUFFICES ASSUME NEW u \in Tasks, NEW p \in Outputs(call[u])
             PROVE  \/ Level(code'[u], p, Wanted(call[u], p))
                    \/ Steady(code'[u], p, Wanted(call[u], p)) /\ (p \in out' <=> p \in High(call[u]))
  BY <1>2 DEF LevelInv
<1> DEFINE h == Wanted(call[u], p)
<1>3. Level(code[u], p, h) \/ (Steady(code[u], p, h) /\ (p \in out <=> p \in High(call[u])))
  BY DEF LevelInv
<1>4. u \in Threads /\ (h = "set" <=> p \in High(call[u])) /\ h \in {"set", "clr"}
  BY DEF Threads, Wanted
<1> HIDE DEF h
<1>5. CASE u = t
  <2>1. Level(code[t], p, Wanted(call[u], p)) \/ (Steady(code[t], p, Wanted(call[u], p)) /\ (p \in out <=> p \in High(call[u])))
    BY <1>3, <1>5 DEF h
  <2> QED  BY <2>1, <1>5, LevelOwn
<1>6. CASE u # t
  <2>1. code'[u] = code[u]
    BY <1>1, <1>4, <1>6
  <2>2. p \in out' <=> p \in out
    <3>1. CASE out' = out
      BY <3>1
    <3>2. CASE SetClr(t)
      <4>1. c[1].op \in {"set", "clr"}
        BY <3>2, <1>2 DEF SetClr, Step, Op
      <4>2. call[u] # NoCall
        BY NoCallIs
      <4>3. call[u] \in Makes(u)
        BY <4>2 DEF IInv, CallInv
      <4>4. c[1].arg # p
        <5>1. CASE t = "boot"
          <6>1. Booting
            BY <5>1, <1>1 DEF Booting, Idle
          <6> QED  BY <6>1, <4>2 DEF IInv, CallInv
        <5>2. CASE t \in Tasks
          <6>1. Rest(c, Outputs(call[t]), Inputs(call[t]))
            BY <5>2 DEF IInv, CodeInv
          <6>2. c[1].arg \in Outputs(call[t])
            BY <6>1, <4>1, <1>1, RestTail
          <6>3. call[t] \in Makes(t)
            BY <6>2, <5>2, NoCallIs DEF IInv, CallInv
          <6> QED  BY <6>2, <6>3, <4>3, <5>2, <1>6 DEF OwnPins
        <5> QED  BY <5>1, <5>2 DEF Threads
      <4> QED  BY <4>4, <3>2, <1>2 DEF SetClr
    <3> QED  BY <3>1, <3>2
  <2> QED  BY <2>1, <2>2, <1>3 DEF h
<1> QED  BY <1>5, <1>6

----------------------------------------------------------------------------
(* Calls. *)

\* A call begins.
LEMMA BeginCode ==
  ASSUME IInv, NEW t \in Threads, NEW k, Begin(t, k), NEW O, NEW I, Sound(CodeOf(k), O, I)
  PROVE  /\ code[t] = <<>> /\ code'[t] = CodeOf(k) /\ call'[t] = k
         /\ \A u \in Threads : u # t => code'[u] = code[u] /\ call'[u] = call[u]
         /\ DOMAIN code' = Threads /\ DOMAIN call' = Threads
         /\ LockInv'
         /\ dir' = dir /\ latch' = latch /\ out' = out
         /\ \A u \in Threads : ~Idle(u)' /\ code'[u][1].op \in {"dir_in", "dir_out"} =>
                                 latch'[u] = dir' \cap GPIO_BANK(code'[u][1].arg)
<1>1. /\ code[t] = <<>> /\ code'[t] = CodeOf(k) /\ call'[t] = k
      /\ \A u \in Threads : u # t => code'[u] = code[u] /\ call'[u] = call[u]
      /\ DOMAIN code' = Threads /\ DOMAIN call' = Threads
      /\ kick' = kick /\ dir' = dir /\ latch' = latch /\ out' = out
  BY DEF Begin, Idle, regs, IInv, CallInv
<1>2. \A n : ~Locks(<<>>, n)
  BY DEF Locks
<1>3. \A n \in 0..1 : kick[n] => \E u \in Threads : Locks(code'[u], n)
  <2> SUFFICES ASSUME NEW n \in 0..1, kick[n] PROVE \E u \in Threads : Locks(code'[u], n)
    OBVIOUS
  <2>1. PICK u \in Threads : Locks(code[u], n)
    BY DEF IInv, LockInv
  <2>2. u # t
    BY <1>1, <1>2, <2>1
  <2> QED  BY <1>1, <2>1, <2>2
<1>4. LockInv'
  BY <1>1, <1>3 DEF IInv, LockInv
<1>5. ASSUME NEW u \in Threads, code'[u] # <<>>, code'[u][1].op \in {"dir_in", "dir_out"}
      PROVE  latch[u] = dir \cap GPIO_BANK(code'[u][1].arg)
  <2>1. u # t
    BY <1>1, <1>5, SoundRest
  <2> QED  BY <1>1, <1>5, <2>1 DEF IInv, DirInv, Idle
<1> QED  BY <1>1, <1>4, <1>5 DEF Idle, GPIO_BANK

\* A constructor begins.
LEMMA ConstructorBegins ==
  ASSUME IInv, NEW f \in Constructors, init_array(f)
  PROVE  IInv' /\ (LevelInv => LevelInv') /\ dir' = dir
<1> DEFINE k == Call(f, 0, 0)
<1>1. "boot" \in Threads /\ Begin("boot", k) /\ waiting' = waiting \ {f} /\ f \in waiting
  BY DEF init_array, Threads
<1>2. Sound(CodeOf(k), OutPins, InPins)
  BY ConstructorsSound
<1>3. /\ code["boot"] = <<>> /\ code'["boot"] = CodeOf(k) /\ call'["boot"] = k
      /\ \A u \in Threads : u # "boot" => code'[u] = code[u] /\ call'[u] = call[u]
      /\ DOMAIN code' = Threads /\ DOMAIN call' = Threads
      /\ LockInv'
      /\ dir' = dir /\ latch' = latch /\ out' = out
      /\ \A u \in Threads : ~Idle(u)' /\ code'[u][1].op \in {"dir_in", "dir_out"} =>
                              latch'[u] = dir' \cap GPIO_BANK(code'[u][1].arg)
  BY <1>1, <1>2, BeginCode
<1>4. \A u \in Tasks : u \in Threads /\ u # "boot"
  BY Ev3ConstantsOK DEF Threads
<1>5. Booting
  BY <1>1 DEF Booting
<1>6. CallInv'
  BY <1>1, <1>3, <1>4, <1>5 DEF IInv, CallInv, Idle
<1>7. CodeInv'
  <2>1. Rest(CodeOf(k), OutPins, InPins)
    BY <1>2, SoundRest
  <2> QED  BY <2>1, <1>3, <1>4 DEF IInv, CodeInv
<1>8. DirInv'
  <2>1. \A p : ~MakesOut(<<>>, p)
    BY DEF MakesOut
  <2>2. ASSUME NEW p \in OutPins, p \in dir
        PROVE  MakesOut(code'["boot"], p) \/ \E g \in waiting' : MakesOut(CodeOf(Call(g, 0, 0)), p)
    <3>1. PICK g \in waiting : MakesOut(CodeOf(Call(g, 0, 0)), p)
      BY <2>1, <2>2, <1>3 DEF IInv, DirInv
    <3>2. CASE g = f
      BY <3>1, <3>2, <1>3
    <3>3. CASE g # f
      BY <3>1, <3>3, <1>1
    <3> QED  BY <3>2, <3>3
  <2> QED  BY <2>2, <1>3 DEF IInv, DirInv
<1>9. LevelInv => LevelInv'
  BY <1>3, <1>4 DEF LevelInv
<1> QED  BY <1>3, <1>6, <1>7, <1>8, <1>9 DEF IInv

\* A task calls a driver.
LEMMA TaskBeginsInv ==
  ASSUME IInv, NEW t \in Tasks, NEW k \in Makes(t), TaskBegins(t, k)
  PROVE  IInv' /\ (LevelInv => LevelInv') /\ dir' = dir
<1>1. t \in Threads /\ Begin(t, k) /\ waiting' = waiting /\ ~Booting /\ t # "boot"
  BY Ev3ConstantsOK DEF TaskBegins, Threads, Booting
<1>2. k \in DriverCalls
  BY MakesAre
<1>3. Sound(CodeOf(k), Outputs(k), Inputs(k))
      /\ \A p \in Outputs(k) : Level(CodeOf(k), p, Wanted(k, p))
  BY <1>2, CallRight DEF Right
<1>4. /\ code'[t] = CodeOf(k) /\ call'[t] = k
      /\ \A u \in Threads : u # t => code'[u] = code[u] /\ call'[u] = call[u]
      /\ DOMAIN code' = Threads /\ DOMAIN call' = Threads
      /\ LockInv'
      /\ dir' = dir /\ latch' = latch /\ out' = out
      /\ \A u \in Threads : ~Idle(u)' /\ code'[u][1].op \in {"dir_in", "dir_out"} =>
                              latch'[u] = dir' \cap GPIO_BANK(code'[u][1].arg)
  BY <1>1, <1>3, BeginCode
<1>5. \A u \in Tasks : u \in Threads
  BY DEF Threads
<1>6. "boot" \in Threads /\ code'["boot"] = code["boot"]
  BY <1>1, <1>4 DEF Threads
<1>7. ~Booting'
  BY <1>1, <1>6 DEF Booting, Idle
<1>8. CallInv'
  BY <1>1, <1>4, <1>5, <1>7 DEF IInv, CallInv
<1>9. CodeInv'
  <2>1. Rest(CodeOf(k), Outputs(k), Inputs(k))
    BY <1>3, SoundRest
  <2> QED  BY <2>1, <1>4, <1>5, <1>6 DEF IInv, CodeInv
<1>10. DirInv'
  BY <1>1, <1>4, <1>6 DEF IInv, DirInv
<1>11. LevelInv => LevelInv'
  BY <1>3, <1>4, <1>5 DEF LevelInv
<1> QED  BY <1>4, <1>8, <1>9, <1>10, <1>11 DEF IInv

----------------------------------------------------------------------------
(* The theorems. *)

\* Every step keeps the invariant, and the directions after start-up.
LEMMA NextInv ==
  ASSUME IInv, [Next]_vars
  PROVE  IInv' /\ (OwnPins /\ LevelInv => LevelInv') /\ (~Booting => dir' = dir)
<1>1. ASSUME NEW f \in Constructors, init_array(f) PROVE IInv' /\ (LevelInv => LevelInv') /\ dir' = dir
  BY <1>1, ConstructorBegins
<1>2. ASSUME NEW t \in Tasks, TaskCalls(t) PROVE IInv' /\ (LevelInv => LevelInv') /\ dir' = dir
  <2>1. PICK k \in CallsOf[t] : TaskBegins(t, k)
    BY <1>2 DEF TaskCalls
  <2>2. k \in Makes(t)
    BY DEF Makes
  <2> QED  BY <2>1, <2>2, TaskBeginsInv
<1>3. ASSUME NEW t \in Tasks, demo_motor(t) PROVE IInv' /\ (LevelInv => LevelInv') /\ dir' = dir
  <2>1. PICK s \in {1, 2} : TaskBegins(t, Call("motor_set_state", 0, s))
    BY <1>3 DEF demo_motor
  <2>2. Call("sensor_touch_get_state", 1, 0) \in CallsOf[t]
    <3>1. Call("sensor_touch_get_state", 1, 0) \in Makes(t) \cup {NoCall}
      BY <1>3 DEF demo_motor, IInv, CallInv
    <3> QED  BY <3>1 DEF Makes, NoCall, Call
  <2>3. Call("motor_set_state", 0, s) \in Makes(t)
    BY <2>2 DEF Makes
  <2> QED  BY <2>1, <2>3, TaskBeginsInv
<1>4. ASSUME NEW t \in Threads, Runs(t) PROVE IInv' /\ (OwnPins /\ LevelInv => LevelInv') /\ (~Booting => dir' = dir)
  <2>1. IInv' /\ (~Booting => dir' = dir)
    BY <1>4, RunsInv
  <2>2. PICK ops : Step(t, ops)
    BY <1>4 DEF Runs, Kick, Load, StoreMux, StoreDir, SetClr, Get, Pull, Tx, Rx
  <2>3. SetClr(t) \/ (out' = out /\ Op(t) \notin {"set", "clr"})
    BY <1>4 DEF Runs, Kick, Load, StoreMux, StoreDir, SetClr, Get, Pull, Tx, Rx, Step, Op, regs
  <2> QED  BY <2>1, <2>2, <2>3, LevelStep
<1>5. ASSUME UNCHANGED <<kick, dir, out, waiting, call, code, latch>>
      PROVE  IInv' /\ (LevelInv => LevelInv') /\ dir' = dir
  <2>1. CallInv'
    BY <1>5 DEF IInv, CallInv, Booting, Idle
  <2>2. CodeInv'
    BY <1>5 DEF IInv, CodeInv
  <2>3. LockInv'
    BY <1>5 DEF IInv, LockInv
  <2>4. DirInv'
    BY <1>5 DEF IInv, DirInv, Idle, GPIO_BANK
  <2>5. LevelInv => LevelInv'
    BY <1>5 DEF LevelInv
  <2> QED  BY <2>1, <2>2, <2>3, <2>4, <2>5, <1>5 DEF IInv
<1>6. Transfer \/ UNCHANGED vars => UNCHANGED <<kick, dir, out, waiting, call, code, latch>>
  BY DEF Transfer, vars
<1> QED  BY <1>1, <1>2, <1>3, <1>4, <1>5, <1>6 DEF Next

\* The invariant of the drivers, whatever the tasks call.
THEOREM Invariant == Spec => []IInv
<1>1. IInv /\ [Next]_vars => IInv'
  BY NextInv
<1> QED  BY <1>1, InitInv, PTL DEF Spec

\* The levels, if no two tasks drive the same pin.
THEOREM Levels ==
  ASSUME OwnPins
  PROVE  Spec => []LevelInv
<1>1. IInv /\ LevelInv /\ [Next]_vars => LevelInv'
  BY NextInv
<1> QED  BY <1>1, InitInv, Invariant, PTL DEF Spec

\* Whatever the calls that preempt each other between two accesses, a task that
\* is not inside a call finds its pins at the level it asked for last, and when
\* no task is inside one, the system configuration is locked.
THEOREM SharedRegistersAreSafe ==
  ASSUME OwnPins
  PROVE  Spec => []SharedRegistersSafe
<1>1. IInv /\ LevelInv => SharedRegistersSafe
  <2> SUFFICES ASSUME IInv, LevelInv PROVE LevelsKept /\ LockedAtRest
    BY DEF SharedRegistersSafe
  <2>1. LevelsKept
    <3> SUFFICES ASSUME NEW t \in Tasks, code[t] = <<>>
                 PROVE  out \cap Outputs(call[t]) = High(call[t])
      BY DEF LevelsKept, Idle
    <3>1. \A p, h : ~Level(<<>>, p, h)
      BY DEF Level
    <3>2. \A p \in Outputs(call[t]) : p \in out <=> p \in High(call[t])
      BY <3>1 DEF LevelInv
    <3>3. High(call[t]) \subseteq Outputs(call[t])
      BY HighOfOutputs DEF IInv, CallInv
    <3> QED  BY <3>2, <3>3
  <2>2. LockedAtRest
    <3> SUFFICES ASSUME \A t \in Threads : code[t] = <<>> PROVE ~(kick[0] /\ kick[1])
      BY DEF LockedAtRest, Idle
    <3>1. \A n : ~Locks(<<>>, n)
      BY DEF Locks
    <3>2. ~kick[0]
      BY <3>1 DEF IInv, LockInv
    <3> QED  BY <3>2
  <2> QED  BY <2>1, <2>2
<1> QED  BY <1>1, Invariant, Levels, PTL

\* After start-up no direction changes, although GPIO_DIR is read and written
\* back without a lock: whoever is preempted between the two puts back
\* what is there.
THEOREM DirectionsAreKept == Spec => DirectionsKept
<1>1. IInv /\ [Next]_vars => [waiting = {} /\ Idle("boot") => dir' = dir]_vars
  BY NextInv DEF Booting
<1> QED  BY <1>1, Invariant, PTL DEF Spec, DirectionsKept

----------------------------------------------------------------------------
(* Undisturbed calls.  What a call does to the multiplexing registers, the    *)
(* directions and the converter.                                              *)

\* The calls of tasks and those of start-up.
AllCalls == DriverCalls \cup {Call(f, 0, 0) : f \in Constructors}

\* The accesses of a pin's registers.
PinOps == {"load_mux", "and_mux", "or_mux", "dir_in", "dir_out", "set", "clr"}

\* A multiplexing register is changed as in gpio_init_pin: both kick registers are
\* opened, the pin's function is cleared, then set, each right after a load.
Switching(c) ==
  \A i \in 1..Len(c) :
    /\ c[i].op = "and_mux" =>
         /\ i > 3 /\ c[i - 3] = Acc("unlock", 0) /\ c[i - 2] = Acc("unlock", 1)
         /\ c[i - 1] = Acc("load_mux", c[i].arg)
         /\ i + 2 <= Len(c) /\ c[i + 2] = Acc("or_mux", c[i].arg)
    /\ c[i].op = "or_mux" =>
         i > 2 /\ c[i - 2] = Acc("and_mux", c[i].arg) /\ c[i - 1] = Acc("load_mux", c[i].arg)

\* What remains of such a program.
SwitchingRest(c) ==
  \A i \in 1..Len(c) :
    /\ c[i].op = "and_mux" =>
         /\ i > 3 => c[i - 3] = Acc("unlock", 0)
         /\ i > 2 => c[i - 2] = Acc("unlock", 1)
         /\ i > 1 => c[i - 1] = Acc("load_mux", c[i].arg)
         /\ i + 2 <= Len(c) /\ c[i + 2] = Acc("or_mux", c[i].arg)
    /\ c[i].op = "or_mux" =>
         /\ i > 2 => c[i - 2] = Acc("and_mux", c[i].arg)
         /\ i > 1 => c[i - 1] = Acc("load_mux", c[i].arg)

\* A program that talks to nobody, switches and drives no pins but those in S, and
\* gives them no levels but those in H.
Wired(c, S, H) ==
  /\ c \in Seq(Access) /\ Switching(c)
  /\ \A i \in 1..Len(c) : /\ c[i].op \notin {"tx", "rx", "get"}
                          /\ c[i].op \in PinOps => c[i].arg \in S
                          /\ c[i].op \in {"set", "clr"} => c[i].op \in H

\* The program makes the access.
Has(c, a) == \E i \in 1..Len(c) : c[i] = a

\* Two programs one after the other switch as each does.
LEMMA SwitchingConcat ==
  ASSUME NEW c \in Seq(Access), NEW d \in Seq(Access), Switching(c), Switching(d)
  PROVE  Switching(c \o d)
<1> DEFINE e == c \o d
<1>1. Len(c) \in Nat /\ Len(d) \in Nat
  OBVIOUS
<1>2. /\ Len(e) = Len(c) + Len(d)
      /\ \A j \in 1 .. Len(c) + Len(d) : e[j] = IF j <= Len(c) THEN c[j] ELSE d[j - Len(c)]
  BY ConcatProperties
<1>3. \A j \in 1..Len(c) : e[j] = c[j]
  BY <1>1, <1>2
<1> HIDE DEF e
<1> SUFFICES ASSUME NEW i \in 1..Len(e)
             PROVE  /\ e[i].op = "and_mux" =>
                         /\ i > 3 /\ e[i - 3] = Acc("unlock", 0) /\ e[i - 2] = Acc("unlock", 1)
                         /\ e[i - 1] = Acc("load_mux", e[i].arg)
                         /\ i + 2 <= Len(e) /\ e[i + 2] = Acc("or_mux", e[i].arg)
                    /\ e[i].op = "or_mux" =>
                         i > 2 /\ e[i - 2] = Acc("and_mux", e[i].arg) /\ e[i - 1] = Acc("load_mux", e[i].arg)
  BY DEF Switching, e
<1>4. CASE i <= Len(c)
  <2>1. i \in 1..Len(c) /\ e[i] = c[i]
    BY <1>1, <1>2, <1>3, <1>4
  <2>2. /\ i > 1 => e[i - 1] = c[i - 1]
        /\ i > 2 => e[i - 2] = c[i - 2]
        /\ i > 3 => e[i - 3] = c[i - 3]
        /\ i + 2 <= Len(c) => e[i + 2] = c[i + 2]
    BY <1>1, <1>3, <2>1
  <2> QED  BY <1>1, <1>2, <2>1, <2>2 DEF Switching
<1>5. CASE i > Len(c)
  <2> DEFINE k == i - Len(c)
  <2>1. k \in 1..Len(d) /\ e[i] = d[k] /\ i >= k
    BY <1>1, <1>2, <1>5
  <2>2. /\ k > 1 => e[i - 1] = d[k - 1]
        /\ k > 2 => e[i - 2] = d[k - 2]
        /\ k > 3 => e[i - 3] = d[k - 3]
        /\ k + 2 <= Len(d) => e[i + 2] = d[k + 2] /\ i + 2 <= Len(e)
    <3>1. /\ k > 1 => i - 1 \in 1 .. Len(c) + Len(d) /\ ~(i - 1 <= Len(c)) /\ (i - 1) - Len(c) = k - 1
          /\ k > 2 => i - 2 \in 1 .. Len(c) + Len(d) /\ ~(i - 2 <= Len(c)) /\ (i - 2) - Len(c) = k - 2
          /\ k > 3 => i - 3 \in 1 .. Len(c) + Len(d) /\ ~(i - 3 <= Len(c)) /\ (i - 3) - Len(c) = k - 3
          /\ k + 2 <= Len(d) => /\ i + 2 \in 1 .. Len(c) + Len(d) /\ ~(i + 2 <= Len(c))
                                /\ (i + 2) - Len(c) = k + 2 /\ i + 2 <= Len(e)
      BY <1>1, <1>2, <2>1
    <3> HIDE DEF k
    <3>2. ASSUME k > 1 PROVE e[i - 1] = d[k - 1]
      BY <3>1, <3>2, <1>2
    <3>3. ASSUME k > 2 PROVE e[i - 2] = d[k - 2]
      BY <3>1, <3>3, <1>2
    <3>4. ASSUME k > 3 PROVE e[i - 3] = d[k - 3]
      BY <3>1, <3>4, <1>2
    <3>5. ASSUME k + 2 <= Len(d) PROVE e[i + 2] = d[k + 2] /\ i + 2 <= Len(e)
      BY <3>1, <3>5, <1>2
    <3> QED  BY <3>2, <3>3, <3>4, <3>5
  <2> HIDE DEF k
  <2> QED  BY <1>1, <1>2, <2>1, <2>2 DEF Switching
<1> QED  BY <1>1, <1>4, <1>5

\* ... and make the accesses of both.
LEMMA HasConcat ==
  ASSUME NEW c \in Seq(Access), NEW d \in Seq(Access), NEW a, Has(c, a) \/ Has(d, a)
  PROVE  Has(c \o d, a)
<1>1. Len(c) \in Nat /\ Len(d) \in Nat
  OBVIOUS
<1>2. /\ Len(c \o d) = Len(c) + Len(d)
      /\ \A j \in 1 .. Len(c) + Len(d) : (c \o d)[j] = IF j <= Len(c) THEN c[j] ELSE d[j - Len(c)]
  BY ConcatProperties
<1>3. \A i \in 1..Len(c) : i \in 1..Len(c \o d) /\ (c \o d)[i] = c[i]
  BY <1>1, <1>2
<1>4. \A i \in 1..Len(d) : i + Len(c) \in 1..Len(c \o d) /\ (c \o d)[i + Len(c)] = d[i]
  BY <1>1, <1>2
<1> QED  BY <1>3, <1>4 DEF Has

\* Programs one after the other.
LEMMA WiredConcat ==
  ASSUME NEW S, NEW H, NEW c, NEW d, Wired(c, S, H), Wired(d, S, H)
  PROVE  Wired(c \o d, S, H)
<1>1. c \in Seq(Access) /\ d \in Seq(Access) /\ Len(c) \in Nat /\ Len(d) \in Nat
  BY DEF Wired
<1>2. /\ c \o d \in Seq(Access) /\ Len(c \o d) = Len(c) + Len(d)
      /\ \A j \in 1 .. Len(c) + Len(d) : (c \o d)[j] = IF j <= Len(c) THEN c[j] ELSE d[j - Len(c)]
  BY <1>1, ConcatProperties
<1>3. Switching(c \o d)
  BY <1>1, SwitchingConcat DEF Wired
<1>4. ASSUME NEW i \in 1..Len(c \o d)
      PROVE  (\E j \in 1..Len(c) : (c \o d)[i] = c[j]) \/ (\E j \in 1..Len(d) : (c \o d)[i] = d[j])
  <2>1. CASE i <= Len(c)
    BY <1>1, <1>2, <2>1
  <2>2. CASE i > Len(c)
    <3>1. i - Len(c) \in 1..Len(d) /\ (c \o d)[i] = d[i - Len(c)]
      BY <1>1, <1>2, <2>2
    <3> QED  BY <3>1
  <2> QED  BY <1>1, <1>2, <2>1, <2>2
<1> QED  BY <1>2, <1>3, <1>4 DEF Wired

\* Loops.
LEMMA JoinedWired ==
  ASSUME NEW rounds, NEW n, NEW L, Rounds(rounds, n, L), NEW S, NEW H,
         \A q \in 1..n : Wired(rounds[q], S, H)
  PROVE  /\ Wired(Joined(rounds), S, H)
         /\ \A q \in 1..n : \A a : Has(rounds[q], a) => Has(Joined(rounds), a)
<1> DEFINE e == Joined(rounds)
<1>1. /\ e \in Seq(Access) /\ Len(e) = L * n
      /\ \A q \in 1..n : \A r \in 1..L :
              /\ L * (q - 1) + r \in 1 .. L * n
              /\ e[L * (q - 1) + r] = rounds[q][r]
      /\ \A i \in 1 .. L * n : \E q \in 1..n : \E r \in 1..L : i = L * (q - 1) + r
  <2>1. Joined(rounds) \in Seq(Access) /\ Len(Joined(rounds)) = L * n
    BY JoinedIs
  <2>2. \A q \in 1..n : \A r \in 1..L :
              /\ L * (q - 1) + r \in 1 .. L * n
              /\ Joined(rounds)[L * (q - 1) + r] = rounds[q][r]
    BY JoinedIs
  <2>3. \A i \in 1 .. L * n : \E q \in 1..n : \E r \in 1..L : i = L * (q - 1) + r
    BY JoinedIs
  <2> QED  BY <2>1, <2>2, <2>3
<1>2. n \in Nat /\ L \in Nat /\ \A q \in 1..n : Len(rounds[q]) = L
  BY DEF Rounds
<1> HIDE DEF e
<1>3. \A q \in 1..n : \A a : Has(rounds[q], a) => Has(e, a)
  <2> SUFFICES ASSUME NEW q \in 1..n, NEW a, Has(rounds[q], a) PROVE Has(e, a)
    OBVIOUS
  <2>1. PICK r \in 1..L : rounds[q][r] = a
    BY <1>2 DEF Has
  <2> DEFINE i == L * (q - 1) + r
  <2>2. i \in 1 .. L * n /\ e[i] = rounds[q][r]
    BY <1>1
  <2> HIDE DEF i
  <2>3. i \in 1..Len(e) /\ e[i] = a
    BY <1>1, <2>1, <2>2
  <2> QED  BY <2>3 DEF Has
<1>4. ASSUME NEW i \in 1..Len(e)
      PROVE  /\ e[i].op \notin {"tx", "rx", "get"}
             /\ e[i].op \in PinOps => e[i].arg \in S
             /\ e[i].op \in {"set", "clr"} => e[i].op \in H
             /\ e[i].op = "and_mux" =>
                  /\ i > 3 /\ e[i - 3] = Acc("unlock", 0) /\ e[i - 2] = Acc("unlock", 1)
                  /\ e[i - 1] = Acc("load_mux", e[i].arg)
                  /\ i + 2 <= Len(e) /\ e[i + 2] = Acc("or_mux", e[i].arg)
             /\ e[i].op = "or_mux" =>
                  i > 2 /\ e[i - 2] = Acc("and_mux", e[i].arg) /\ e[i - 1] = Acc("load_mux", e[i].arg)
  <2>1. PICK q \in 1..n : \E r \in 1..L : i = L * (q - 1) + r
    BY <1>1
  <2>2. PICK r \in 1..L : i = L * (q - 1) + r
    BY <2>1
  <2> DEFINE c == rounds[q]
             b == L * (q - 1)
  <2>3. Len(c) = L /\ Wired(c, S, H) /\ b \in Nat
    BY <1>2
  <2>4. \A s \in 1..Len(c) : b + s \in 1..Len(e) /\ e[b + s] = c[s]
    BY <1>1, <2>3
  <2>5. i = b + r /\ r \in 1..Len(c) /\ e[i] = c[r]
    BY <2>2, <2>3, <2>4
  <2> HIDE DEF c, b
  <2>6. /\ r > 1 => r - 1 \in 1..Len(c) /\ b + (r - 1) = i - 1
        /\ r > 2 => r - 2 \in 1..Len(c) /\ b + (r - 2) = i - 2 /\ i > 2
        /\ r > 3 => r - 3 \in 1..Len(c) /\ b + (r - 3) = i - 3 /\ i > 3
        /\ r + 2 <= Len(c) => r + 2 \in 1..Len(c) /\ b + (r + 2) = i + 2
    BY <1>2, <2>3, <2>5
  <2>7. /\ r > 1 => e[i - 1] = c[r - 1]
        /\ r > 2 => e[i - 2] = c[r - 2] /\ i > 2
        /\ r > 3 => e[i - 3] = c[r - 3] /\ i > 3
        /\ r + 2 <= Len(c) => e[i + 2] = c[r + 2] /\ i + 2 \in 1..Len(e)
    <3>1. ASSUME r > 1 PROVE e[i - 1] = c[r - 1]
      BY <3>1, <2>4, <2>6
    <3>2. ASSUME r > 2 PROVE e[i - 2] = c[r - 2]
      BY <3>2, <2>4, <2>6
    <3>3. ASSUME r > 3 PROVE e[i - 3] = c[r - 3]
      BY <3>3, <2>4, <2>6
    <3>4. ASSUME r + 2 <= Len(c) PROVE e[i + 2] = c[r + 2] /\ i + 2 \in 1..Len(e)
      BY <3>4, <2>4, <2>6
    <3> QED  BY <3>1, <3>2, <3>3, <3>4, <2>6
  <2>8. Len(e) \in Nat /\ r \in Nat /\ (r > 2 => r > 1) /\ (r > 3 => r > 2)
    BY <1>1, <1>2
  <2> QED  BY <2>3, <2>5, <2>7, <2>8 DEF Wired, Switching
<1> QED  BY <1>1, <1>3, <1>4 DEF Wired, Switching, e

\* Switching a pin to its function.
LEMMA InitPinWired ==
  ASSUME NEW pin \in Int, NEW S, pin \in S, NEW H
  PROVE  Wired(gpio_init_pin(pin), S, H) /\ Has(gpio_init_pin(pin), Acc("or_mux", pin))
<1> DEFINE c == <<Acc("load_mux", pin), Acc("and_mux", pin), Acc("load_mux", pin), Acc("or_mux", pin)>>
           U == SYSCFG_UNLOCK
           K == SYSCFG_LOCK
           P == (U \o c) \o K
<1>1. /\ c \in Seq(Access) /\ Len(c) = 4 /\ c[1] = Acc("load_mux", pin) /\ c[2] = Acc("and_mux", pin)
      /\ c[3] = Acc("load_mux", pin) /\ c[4] = Acc("or_mux", pin)
      /\ U \in Seq(Access) /\ Len(U) = 2 /\ U[1] = Acc("unlock", 0) /\ U[2] = Acc("unlock", 1)
      /\ K \in Seq(Access) /\ Len(K) = 2 /\ K[1] = Acc("lock", 0) /\ K[2] = Acc("lock", 1)
  BY DEF SYSCFG_UNLOCK, SYSCFG_LOCK, Access, Ops, Args, Acc
<1>2. gpio_init_pin(pin) = P
  BY DEF gpio_init_pin
<1> HIDE DEF c, U, K
<1>3. /\ U \o c \in Seq(Access) /\ Len(U \o c) = Len(U) + Len(c)
      /\ \A i \in 1 .. Len(U) + Len(c) : (U \o c)[i] = IF i <= Len(U) THEN U[i] ELSE c[i - Len(U)]
  BY <1>1, ConcatProperties
<1> DEFINE d == U \o c
<1>4. /\ d \in Seq(Access) /\ Len(d) = 6 /\ d[1] = U[1] /\ d[2] = U[2] /\ d[3] = c[1] /\ d[4] = c[2]
      /\ d[5] = c[3] /\ d[6] = c[4]
  BY <1>1, <1>3
<1> HIDE DEF d
<1>5. /\ d \o K \in Seq(Access) /\ Len(d \o K) = Len(d) + Len(K)
      /\ \A i \in 1 .. Len(d) + Len(K) : (d \o K)[i] = IF i <= Len(d) THEN d[i] ELSE K[i - Len(d)]
  BY <1>1, <1>4, ConcatProperties
<1> DEFINE e == d \o K
<1>6. /\ e \in Seq(Access) /\ Len(e) = 8 /\ e[1] = Acc("unlock", 0) /\ e[2] = Acc("unlock", 1)
      /\ e[3] = Acc("load_mux", pin) /\ e[4] = Acc("and_mux", pin) /\ e[5] = Acc("load_mux", pin)
      /\ e[6] = Acc("or_mux", pin) /\ e[7] = Acc("lock", 0) /\ e[8] = Acc("lock", 1)
  <2>1. /\ e \in Seq(Access) /\ Len(e) = Len(d) + Len(K)
        /\ \A i \in 1 .. Len(d) + Len(K) : e[i] = IF i <= Len(d) THEN d[i] ELSE K[i - Len(d)]
    BY <1>5
  <2> HIDE DEF e
  <2>2. Len(d) = 6 /\ Len(K) = 2 /\ Len(e) = 8
    BY <1>1, <1>4, <2>1
  <2>3. ASSUME NEW i \in 1..6 PROVE e[i] = d[i]
    BY <2>1, <2>2
  <2>4. e[7] = K[1] /\ e[8] = K[2]
    BY <2>1, <2>2
  <2>5. e[1] = d[1] /\ e[2] = d[2] /\ e[3] = d[3] /\ e[4] = d[4] /\ e[5] = d[5] /\ e[6] = d[6]
    BY <2>3
  <2> QED  BY <1>1, <1>4, <2>1, <2>2, <2>4, <2>5
<1>7. gpio_init_pin(pin) = e
  BY <1>2 DEF d
<1> HIDE DEF e
<1>8. ASSUME NEW i \in 1..Len(e)
      PROVE  /\ e[i].op \notin {"tx", "rx", "get", "set", "clr"}
             /\ e[i].op \in PinOps => e[i].arg = pin
             /\ e[i].op = "and_mux" => i = 4
             /\ e[i].op = "or_mux" => i = 6
  BY <1>6 DEF Acc, PinOps
<1>9. e[4].arg = pin /\ e[6].arg = pin
  BY <1>6 DEF Acc
<1>10. Switching(e)
  BY <1>6, <1>8, <1>9 DEF Switching
<1>11. Wired(e, S, H)
  BY <1>6, <1>8, <1>10 DEF Wired
<1>12. Has(e, Acc("or_mux", pin))
  BY <1>6 DEF Has
<1> QED  BY <1>7, <1>11, <1>12

\* A few accesses that switch nothing.
LEMMA FewWired ==
  ASSUME NEW c \in Seq(Access), NEW S, NEW H,
         \A i \in 1..Len(c) : /\ c[i].op \notin {"tx", "rx", "get", "and_mux", "or_mux"}
                              /\ c[i].op \in PinOps => c[i].arg \in S
                              /\ c[i].op \in {"set", "clr"} => c[i].op \in H
  PROVE  Wired(c, S, H)
BY DEF Wired, Switching

\* Three programs one after the other.
LEMMA WiredThree ==
  ASSUME NEW S, NEW H, NEW c, NEW d, NEW e, Wired(c, S, H), Wired(d, S, H), Wired(e, S, H)
  PROVE  /\ Wired(c \o d \o e, S, H)
         /\ \A a : Has(c, a) \/ Has(d, a) \/ Has(e, a) => Has(c \o d \o e, a)
<1>1. c \in Seq(Access) /\ d \in Seq(Access) /\ e \in Seq(Access)
  BY DEF Wired
<1>2. Wired(c \o d, S, H)
  BY WiredConcat
<1>3. c \o d \in Seq(Access)
  BY <1>2 DEF Wired
<1>4. Wired(c \o d \o e, S, H)
  BY <1>2, WiredConcat
<1>5. \A a : Has(c, a) \/ Has(d, a) => Has(c \o d, a)
  BY <1>1, HasConcat
<1>6. \A a : Has(c \o d, a) \/ Has(e, a) => Has(c \o d \o e, a)
  BY <1>1, <1>3, HasConcat
<1> QED  BY <1>4, <1>5, <1>6

\* Opening and locking the system configuration.
LEMMA KicksWired ==
  ASSUME NEW S, NEW H
  PROVE  Wired(SYSCFG_UNLOCK, S, H) /\ Wired(SYSCFG_LOCK, S, H)
<1>1. /\ SYSCFG_UNLOCK \in Seq(Access) /\ Len(SYSCFG_UNLOCK) = 2 /\ SYSCFG_UNLOCK[1].op = "unlock"
      /\ SYSCFG_UNLOCK[2].op = "unlock"
      /\ SYSCFG_LOCK \in Seq(Access) /\ Len(SYSCFG_LOCK) = 2 /\ SYSCFG_LOCK[1].op = "lock"
      /\ SYSCFG_LOCK[2].op = "lock"
  BY DEF SYSCFG_UNLOCK, SYSCFG_LOCK, Access, Ops, Args, Acc
<1> QED  BY <1>1, FewWired DEF PinOps

\* A bracket around switching a pin and a few accesses.
LEMMA InitWired ==
  ASSUME NEW pin \in Int, NEW S, pin \in S, NEW H, NEW c, Wired(c, S, H)
  PROVE  /\ Wired(InitWith(pin, c), S, H)
         /\ \A a : Has(c, a) \/ a = Acc("or_mux", pin) => Has(InitWith(pin, c), a)
<1> DEFINE P == gpio_init_pin(pin)
           U == SYSCFG_UNLOCK
           K == SYSCFG_LOCK
<1>1. Wired(P, S, H) /\ Has(P, Acc("or_mux", pin))
  BY InitPinWired
<1>2. Wired(U, S, H) /\ Wired(K, S, H)
  BY KicksWired
<1> HIDE DEF P, U, K
<1> DEFINE d == U \o P \o c
<1>3. Wired(d, S, H) /\ \A a : Has(P, a) \/ Has(c, a) => Has(d, a)
  BY <1>1, <1>2, WiredThree
<1>4. d \in Seq(Access) /\ K \in Seq(Access)
  BY <1>2, <1>3 DEF Wired
<1> HIDE DEF d
<1>5. Wired(d \o K, S, H) /\ \A a : Has(d, a) => Has(d \o K, a)
  BY <1>2, <1>3, <1>4, WiredConcat, HasConcat
<1> QED  BY <1>1, <1>3, <1>5 DEF InitWith, P, U, K, d

\* Making a pin an output.
LEMMA OutPinWired ==
  ASSUME NEW pin \in Int, NEW S, pin \in S, NEW H, "clr" \in H
  PROVE  /\ Wired(gpio_init_outpin(pin), S, H)
         /\ Has(gpio_init_outpin(pin), Acc("or_mux", pin)) /\ Has(gpio_init_outpin(pin), Acc("clr", pin))
<1> DEFINE c == <<Acc("clr", pin), Acc("load_dir", pin), Acc("dir_out", pin)>>
<1>1. /\ c \in Seq(Access) /\ Len(c) = 3 /\ c[1] = Acc("clr", pin) /\ c[2] = Acc("load_dir", pin)
      /\ c[3] = Acc("dir_out", pin)
  BY DEF Access, Ops, Args, Acc
<1>2. gpio_init_outpin(pin) = InitWith(pin, c)
  BY DEF gpio_init_outpin, InitWith
<1> HIDE DEF c
<1>3. \A i \in 1..Len(c) : /\ c[i].op \notin {"tx", "rx", "get", "and_mux", "or_mux"}
                           /\ c[i].op \in PinOps => c[i].arg \in S
                           /\ c[i].op \in {"set", "clr"} => c[i].op \in H
  BY <1>1 DEF Acc, PinOps
<1>4. Wired(c, S, H) /\ Has(c, Acc("clr", pin))
  BY <1>1, <1>3, FewWired DEF Has
<1> QED  BY <1>2, <1>4, InitWired

\* Making a pin an input.
LEMMA InPinWired ==
  ASSUME NEW pin \in Int, NEW S, pin \in S, NEW H
  PROVE  Wired(gpio_init_inpin(pin), S, H) /\ Has(gpio_init_inpin(pin), Acc("or_mux", pin))
<1> DEFINE c == <<Acc("load_dir", pin), Acc("dir_in", pin)>>
<1>1. c \in Seq(Access) /\ Len(c) = 2 /\ c[1] = Acc("load_dir", pin) /\ c[2] = Acc("dir_in", pin)
  BY DEF Access, Ops, Args, Acc
<1>2. gpio_init_inpin(pin) = InitWith(pin, c)
  BY DEF gpio_init_inpin, InitWith
<1> HIDE DEF c
<1>3. \A i \in 1..Len(c) : /\ c[i].op \notin {"tx", "rx", "get", "and_mux", "or_mux"}
                           /\ c[i].op \in PinOps => c[i].arg \in S
                           /\ c[i].op \in {"set", "clr"} => c[i].op \in H
  BY <1>1 DEF Acc, PinOps
<1>4. Wired(c, S, H)
  BY <1>1, <1>3, FewWired
<1> QED  BY <1>2, <1>4, InitWired

\* Setting a pin.
LEMMA SetWired ==
  ASSUME NEW pin \in Int, NEW S, pin \in S, NEW value
  PROVE  Wired(gpio_set(pin, value), S, {"set", "clr"}) /\ Has(gpio_set(pin, value), Acc("or_mux", pin))
<1> DEFINE H == {"set", "clr"}
           c == <<Acc(IF value = 0 THEN "clr" ELSE "set", pin)>>
           e == gpio_init_outpin(pin)
<1>1. c \in Seq(Access) /\ Len(c) = 1 /\ c[1].op \in {"set", "clr"} /\ c[1].arg = pin
  BY DEF Access, Ops, Args, Acc
<1>2. "clr" \in H /\ "set" \in H
  OBVIOUS
<1> HIDE DEF c, H
<1>3. \A i \in 1..Len(c) : /\ c[i].op \notin {"tx", "rx", "get", "and_mux", "or_mux"}
                           /\ c[i].op \in PinOps => c[i].arg \in S
                           /\ c[i].op \in {"set", "clr"} => c[i].op \in H
  BY <1>1, <1>2
<1>4. Wired(c, S, H)
  BY <1>1, <1>3, FewWired
<1>5. Wired(e, S, H) /\ Has(e, Acc("or_mux", pin))
  BY <1>2, OutPinWired
<1>6. e \in Seq(Access)
  BY <1>5 DEF Wired
<1> HIDE DEF e
<1>7. Wired(e \o c, S, H)
  BY <1>4, <1>5, WiredConcat
<1>8. Has(e \o c, Acc("or_mux", pin))
  BY <1>1, <1>5, <1>6, HasConcat
<1> QED  BY <1>7, <1>8 DEF gpio_set, c, e, H

\* One more access that concerns no pin.
LEMMA OneWired ==
  ASSUME NEW a \in Access, a.op = "pull", NEW S, NEW H
  PROVE  Wired(<<a>>, S, H)
<1> DEFINE c == <<a>>
<1>1. c \in Seq(Access) /\ Len(c) = 1 /\ c[1] = a
  OBVIOUS
<1> HIDE DEF c
<1>2. \A i \in 1..Len(c) : /\ c[i].op \notin {"tx", "rx", "get", "and_mux", "or_mux"}
                           /\ c[i].op \in PinOps => c[i].arg \in S
                           /\ c[i].op \in {"set", "clr"} => c[i].op \in H
  BY <1>1 DEF PinOps
<1> QED  BY <1>1, <1>2, FewWired DEF c

\* The channels a call asks, one after the other.
Asked(k) == IF k.fn = "button_get_state" THEN <<>> ELSE Answers(k)

\* The program ends with the exchanges of spi_update for the channels A: if it has
\* at most 2 * Len(A) accesses left, what remains of them.
Talks(c, A) ==
  /\ \A i \in 1..Len(c) : c[i].op \in {"tx", "rx"} => Len(c) - i < 2 * Len(A)
  /\ \A j \in 0 .. Len(A) - 1 :
       /\ Len(c) > 2 * j => c[Len(c) - 2 * j] = Acc("rx", 0)
       /\ Len(c) > 2 * j + 1 => c[Len(c) - 2 * j - 1] = Acc("tx", A[Len(A) - j])

\* A button is read by the last access, and by no other call.
Gets(c, k) ==
  /\ \A i \in 1..Len(c) : c[i].op = "get" => k.fn = "button_get_state" /\ i = Len(c)
  /\ k.fn = "button_get_state" /\ c # <<>> => c[Len(c)] = Acc("get", buttons[k.a + 1])

\* What remains of call k.
Part(c, k) ==
  /\ c \in Seq(Access)
  /\ \A i \in 1..Len(c) : c[i].op \in PinOps => c[i].arg \in Switched(k)
  /\ SwitchingRest(c) /\ Talks(c, Asked(k)) /\ Gets(c, k)

\* All of it.
Whole(c, k) == Part(c, k) /\ Switching(c) /\ Len(c) >= 2 * Len(Asked(k))

\* The exchanges of spi_update for the channels A.
Exchanges(e, A) ==
  /\ e \in Seq(Access) /\ A \in Seq(Int) /\ Len(e) = 2 * Len(A)
  /\ \A j \in 1..Len(A) : e[2 * j - 1] = Acc("tx", A[j]) /\ e[2 * j] = Acc("rx", 0)

\* Exchanges only send and receive.
LEMMA ExchangesAre ==
  ASSUME NEW A, NEW e, Exchanges(e, A), NEW i \in 1..Len(e)
  PROVE  e[i].op \in {"tx", "rx"}
<1>1. A \in Seq(Int) /\ Len(A) \in Nat /\ Len(e) = 2 * Len(A)
  BY DEF Exchanges
<1>2. PICK j \in 1..Len(A) : i = 2 * j - 1 \/ i = 2 * j
  <2>1. (i + 1) \div 2 \in 1..Len(A) /\ (i = 2 * ((i + 1) \div 2) - 1 \/ i = 2 * ((i + 1) \div 2))
    BY <1>1
  <2> QED  BY <2>1
<1>3. e[2 * j - 1] = Acc("tx", A[j]) /\ e[2 * j] = Acc("rx", 0)
  BY DEF Exchanges
<1> QED  BY <1>2, <1>3 DEF Acc

\* A program that ends with exchanges.
LEMMA EndsInExchanges ==
  ASSUME NEW k, k.fn # "button_get_state", NEW c, NEW H, Wired(c, Switched(k), H),
         NEW e, Exchanges(e, Asked(k))
  PROVE  Whole(c \o e, k)
<1> DEFINE d == c \o e
           A == Asked(k)
<1>1. c \in Seq(Access) /\ e \in Seq(Access) /\ A \in Seq(Int) /\ Len(e) = 2 * Len(A)
  BY DEF Exchanges, Wired
<1>2. Len(c) \in Nat /\ Len(e) \in Nat /\ Len(A) \in Nat
  BY <1>1
<1>3. /\ d \in Seq(Access) /\ Len(d) = Len(c) + Len(e)
      /\ \A j \in 1 .. Len(c) + Len(e) : d[j] = IF j <= Len(c) THEN c[j] ELSE e[j - Len(c)]
  BY <1>1, ConcatProperties
<1>4. Switching(c) /\ Switching(e)
  <2>1. Switching(e)
    BY ExchangesAre DEF Switching
  <2> QED  BY <2>1 DEF Wired
<1>5. Switching(d)
  BY <1>1, <1>4, SwitchingConcat
<1> HIDE DEF d, A
<1>6. ASSUME NEW i \in 1..Len(d)
      PROVE  \/ i \in 1..Len(c) /\ d[i] = c[i]
             \/ Len(d) - i < 2 * Len(A) /\ d[i].op \in {"tx", "rx"}
  <2>1. CASE i <= Len(c)
    BY <1>2, <1>3, <2>1
  <2>2. CASE i > Len(c)
    <3>1. i - Len(c) \in 1..Len(e) /\ d[i] = e[i - Len(c)] /\ Len(d) - i < 2 * Len(A)
      BY <1>1, <1>2, <1>3, <2>2
    <3> QED  BY <3>1, ExchangesAre DEF A
  <2> QED  BY <1>2, <1>3, <2>1, <2>2
<1>7. ASSUME NEW i \in 1..Len(d)
      PROVE  /\ d[i].op \in {"tx", "rx"} => Len(d) - i < 2 * Len(A)
             /\ d[i].op # "get"
             /\ d[i].op \in PinOps => d[i].arg \in Switched(k)
  BY <1>6 DEF Wired, PinOps
<1>8. ASSUME NEW j \in 0 .. Len(A) - 1
      PROVE  d[Len(d) - 2 * j] = Acc("rx", 0) /\ d[Len(d) - 2 * j - 1] = Acc("tx", A[Len(A) - j])
  <2> DEFINE m == Len(A) - j
  <2>1. m \in 1..Len(A)
    BY <1>2
  <2>2. e[2 * m - 1] = Acc("tx", A[m]) /\ e[2 * m] = Acc("rx", 0)
    BY <2>1 DEF Exchanges, A
  <2>3. /\ Len(d) - 2 * j \in 1 .. Len(c) + Len(e) /\ ~(Len(d) - 2 * j <= Len(c))
        /\ (Len(d) - 2 * j) - Len(c) = 2 * m
        /\ Len(d) - 2 * j - 1 \in 1 .. Len(c) + Len(e) /\ ~(Len(d) - 2 * j - 1 <= Len(c))
        /\ (Len(d) - 2 * j - 1) - Len(c) = 2 * m - 1
    BY <1>1, <1>2, <1>3, <2>1
  <2>4. d[Len(d) - 2 * j] = e[2 * m]
    BY <1>3, <2>3
  <2>5. d[Len(d) - 2 * j - 1] = e[2 * m - 1]
    BY <1>3, <2>3
  <2> QED  BY <2>2, <2>4, <2>5
<1>9. SwitchingRest(d)
  BY <1>5 DEF Switching, SwitchingRest
<1>10. Talks(d, A) /\ Gets(d, k)
  BY <1>7, <1>8 DEF Talks, Gets
<1>11. Len(d) >= 2 * Len(A)
  BY <1>1, <1>2, <1>3
<1> QED  BY <1>3, <1>5, <1>7, <1>9, <1>10, <1>11 DEF Part, Whole, d, A

\* A program that asks no channel.
LEMMA EndsQuietly ==
  ASSUME NEW k, k.fn # "button_get_state", Asked(k) = <<>>, NEW c, NEW H, Wired(c, Switched(k), H)
  PROVE  Whole(c, k)
<1>1. c \in Seq(Access)
  BY DEF Wired
<1>2. SwitchingRest(c)
  BY DEF Wired, Switching, SwitchingRest
<1>3. Len(Asked(k)) = 0
  OBVIOUS
<1>4. Talks(c, Asked(k))
  BY <1>3 DEF Talks, Wired
<1>5. Gets(c, k)
  BY DEF Gets, Wired
<1>6. Len(c) >= 2 * Len(Asked(k))
  BY <1>1, <1>3
<1> QED  BY <1>1, <1>2, <1>4, <1>5, <1>6 DEF Wired, Part, Whole

\* A program that ends by reading a button.
LEMMA EndsInGet ==
  ASSUME NEW k, k.fn = "button_get_state", NEW c, NEW H, Wired(c, Switched(k), H),
         buttons[k.a + 1] \in Int
  PROVE  Whole(c \o <<Acc("get", buttons[k.a + 1])>>, k)
<1> DEFINE e == <<Acc("get", buttons[k.a + 1])>>
           d == c \o e
<1>1. c \in Seq(Access) /\ e \in Seq(Access) /\ Len(e) = 1 /\ e[1] = Acc("get", buttons[k.a + 1])
  BY DEF Wired, Access, Ops, Args, Acc
<1>2. e[1].op = "get" /\ Len(c) \in Nat
  BY <1>1 DEF Acc
<1> HIDE DEF e
<1>3. /\ d \in Seq(Access) /\ Len(d) = Len(c) + Len(e)
      /\ \A j \in 1 .. Len(c) + Len(e) : d[j] = IF j <= Len(c) THEN c[j] ELSE e[j - Len(c)]
  BY <1>1, ConcatProperties
<1>4. Switching(e)
  BY <1>1, <1>2 DEF Switching
<1>5. Switching(d)
  BY <1>1, <1>4, SwitchingConcat DEF Wired
<1> HIDE DEF d
<1>6. Len(d) = Len(c) + 1 /\ d[Len(d)] = e[1] /\ \A i \in 1..Len(d) : i = Len(d) \/ (i \in 1..Len(c) /\ d[i] = c[i])
  BY <1>1, <1>2, <1>3
<1>7. ASSUME NEW i \in 1..Len(d)
      PROVE  /\ d[i].op \notin {"tx", "rx"}
             /\ d[i].op = "get" => i = Len(d)
             /\ d[i].op \in PinOps => d[i].arg \in Switched(k)
  BY <1>2, <1>6 DEF Wired, PinOps
<1>8. Len(Asked(k)) = 0
  BY DEF Asked
<1>9. SwitchingRest(d)
  BY <1>5 DEF Switching, SwitchingRest
<1>10. Talks(d, Asked(k)) /\ Gets(d, k)
  BY <1>1, <1>6, <1>7, <1>8 DEF Talks, Gets
<1>11. Len(d) >= 2 * Len(Asked(k))
  BY <1>2, <1>6, <1>8
<1> QED  BY <1>3, <1>5, <1>7, <1>9, <1>10, <1>11 DEF Part, Whole, d, e

\* What the program of call k is to be.
Program(c, k) ==
  /\ Whole(c, k)
  /\ \A p \in Switched(k) : Has(c, Acc("or_mux", p))
  /\ \A p \in Outputs(k) : Level(c, p, Wanted(k, p))

\* Two pins are set.
LEMMA TwoSetsWired ==
  ASSUME NEW S, NEW p \in Int, NEW q \in Int, p \in S, q \in S, NEW v, NEW w
  PROVE  /\ Wired(gpio_set(p, v) \o gpio_set(q, w), S, {"set", "clr"})
         /\ Has(gpio_set(p, v) \o gpio_set(q, w), Acc("or_mux", p))
         /\ Has(gpio_set(p, v) \o gpio_set(q, w), Acc("or_mux", q))
<1> DEFINE c == gpio_set(p, v)
           d == gpio_set(q, w)
<1>1. /\ Wired(c, S, {"set", "clr"}) /\ Has(c, Acc("or_mux", p))
      /\ Wired(d, S, {"set", "clr"}) /\ Has(d, Acc("or_mux", q))
  BY SetWired
<1>2. c \in Seq(Access) /\ d \in Seq(Access)
  BY <1>1 DEF Wired
<1> HIDE DEF c, d
<1>3. Wired(c \o d, S, {"set", "clr"})
  BY <1>1, WiredConcat
<1>4. Has(c \o d, Acc("or_mux", p)) /\ Has(c \o d, Acc("or_mux", q))
  BY <1>1, <1>2, HasConcat
<1> QED  BY <1>3, <1>4 DEF c, d

\* led_set.
LEMMA LedSetProgram ==
  ASSUME NEW k \in DriverCalls, k.fn = "led_set"
  PROVE  Program(led_set(k.a, k.b), k)
<1> DEFINE o1 == OneLed(1, k.b)
           o2 == OneLed(2, k.b)
           P1 == {109, 103}
           P2 == {108, 110}
           H == {"set", "clr"}
           S == Switched(k)
<1>1. k.a \in 1..3
  BY DEF DriverCalls
<1>2. /\ S = Outputs(k) /\ Asked(k) = <<>>
      /\ Outputs(k) = UNION {{leds[n].pin1, leds[n].pin2} : n \in {1, 2} \ {3 - k.a}}
  BY DEF Switched, Inputs, Outputs, Asked, Answers
<1>3. S = IF k.a = 1 THEN P1 ELSE IF k.a = 2 THEN P2 ELSE P1 \cup P2
  BY <1>1, <1>2, LedPinsAre
<1> HIDE DEF H, S
<1>4. ASSUME P1 \subseteq S
      PROVE  Wired(o1, S, H) /\ \A p \in P1 : Has(o1, Acc("or_mux", p))
  <2> DEFINE v == k.b % 2
             w == k.b \div 2
  <2>1. o1 = gpio_set(109, v) \o gpio_set(103, w)
    BY LedPinsAre DEF OneLed
  <2>2. 109 \in S /\ 103 \in S /\ 109 \in Int /\ 103 \in Int
    BY <1>4
  <2> HIDE DEF v, w, o1
  <2>3. /\ Wired(o1, S, H)
        /\ Has(o1, Acc("or_mux", 109)) /\ Has(o1, Acc("or_mux", 103))
    BY <2>1, <2>2, TwoSetsWired DEF H
  <2> QED  BY <2>3
<1>5. ASSUME P2 \subseteq S
      PROVE  Wired(o2, S, H) /\ \A p \in P2 : Has(o2, Acc("or_mux", p))
  <2> DEFINE v == k.b % 2
             w == k.b \div 2
  <2>1. o2 = gpio_set(108, v) \o gpio_set(110, w)
    BY LedPinsAre DEF OneLed
  <2>2. 108 \in S /\ 110 \in S /\ 108 \in Int /\ 110 \in Int
    BY <1>5
  <2> HIDE DEF v, w, o2
  <2>3. /\ Wired(o2, S, H)
        /\ Has(o2, Acc("or_mux", 108)) /\ Has(o2, Acc("or_mux", 110))
    BY <2>1, <2>2, TwoSetsWired DEF H
  <2> QED  BY <2>3
<1>6. led_set(k.a, k.b) = (IF k.a \in {1, 3} THEN o1 ELSE <<>>) \o (IF k.a \in {2, 3} THEN o2 ELSE <<>>)
  <2>1. (k.a % 2 = 1 <=> k.a \in {1, 3}) /\ (k.a \div 2 = 1 <=> k.a \in {2, 3})
    BY <1>1
  <2> QED  BY <2>1, Zenon DEF led_set
<1> HIDE DEF o1, o2
<1>7. Wired(led_set(k.a, k.b), S, H) /\ \A p \in S : Has(led_set(k.a, k.b), Acc("or_mux", p))
  <2>1. CASE k.a = 1
    <3>1. S = P1 /\ k.a \in {1, 3} /\ k.a \notin {2, 3}
      BY <2>1, <1>3
    <3>2. Wired(o1, S, H) /\ \A p \in P1 : Has(o1, Acc("or_mux", p))
      BY <3>1, <1>4
    <3>3. led_set(k.a, k.b) = o1 \o <<>>
      BY <3>1, <1>6, Zenon
    <3>4. o1 \o <<>> = o1
      BY <3>2, ConcatEmptySeq DEF Wired
    <3> QED  BY <3>1, <3>2, <3>3, <3>4
  <2>2. CASE k.a = 2
    <3>1. S = P2 /\ k.a \notin {1, 3} /\ k.a \in {2, 3}
      BY <2>2, <1>3
    <3>2. Wired(o2, S, H) /\ \A p \in P2 : Has(o2, Acc("or_mux", p))
      BY <3>1, <1>5
    <3>3. led_set(k.a, k.b) = <<>> \o o2
      BY <3>1, <1>6, Zenon
    <3>4. <<>> \o o2 = o2
      BY <3>2, ConcatEmptySeq DEF Wired
    <3> QED  BY <3>1, <3>2, <3>3, <3>4
  <2>3. CASE k.a = 3
    <3>1. S = P1 \cup P2 /\ led_set(k.a, k.b) = o1 \o o2
      BY <2>3, <1>3, <1>6
    <3>2. /\ Wired(o1, S, H) /\ \A p \in P1 : Has(o1, Acc("or_mux", p))
          /\ Wired(o2, S, H) /\ \A p \in P2 : Has(o2, Acc("or_mux", p))
      BY <3>1, <1>4, <1>5
    <3>3. o1 \in Seq(Access) /\ o2 \in Seq(Access)
      BY <3>2 DEF Wired
    <3>4. Wired(o1 \o o2, S, H)
      BY <3>2, WiredConcat
    <3>5. \A p \in P1 \cup P2 : Has(o1 \o o2, Acc("or_mux", p))
      BY <3>2, <3>3, HasConcat
    <3> QED  BY <3>1, <3>4, <3>5
  <2> QED  BY <1>1, <2>1, <2>2, <2>3
<1>8. Whole(led_set(k.a, k.b), k)
  BY <1>2, <1>7, EndsQuietly DEF S
<1>9. Right(led_set(k.a, k.b), k)
  BY LedSetRight
<1> QED  BY <1>7, <1>8, <1>9 DEF Program, Right, S

\* motor_set_state.
LEMMA MotorSetProgram ==
  ASSUME NEW k \in DriverCalls, k.fn = "motor_set_state"
  PROVE  Program(motor_set_state(k.a, k.b), k)
<1> DEFINE p == MotorPorts[k.a + 1][1]
           q == MotorPorts[k.a + 1][2]
           v == IF k.b = 2 THEN 1 ELSE 0
           w == IF k.b = 0 THEN 1 ELSE 0
           c == gpio_set(p, v) \o gpio_set(q, w)
<1>1. k.a \in 0..3
  BY DEF DriverCalls
<1>2. p \in Int /\ q \in Int
  BY <1>1 DEF MotorPorts, GPIO_PIN
<1>3. Switched(k) = {p, q} /\ Asked(k) = <<>>
  BY DEF Switched, Inputs, Outputs, Asked, Answers
<1>4. motor_set_state(k.a, k.b) = c
  BY DEF motor_set_state
<1>5. Right(motor_set_state(k.a, k.b), k)
  BY MotorSetRight
<1> HIDE DEF p, q, v, w
<1>6. p \in Switched(k) /\ q \in Switched(k)
  BY <1>3
<1>7. /\ Wired(c, Switched(k), {"set", "clr"})
      /\ Has(c, Acc("or_mux", p)) /\ Has(c, Acc("or_mux", q))
  BY <1>2, <1>6, TwoSetsWired
<1> HIDE DEF c
<1>8. Whole(c, k)
  BY <1>3, <1>7, EndsQuietly
<1> QED  BY <1>3, <1>4, <1>5, <1>7, <1>8 DEF Program, Right

\* button_get_state.
LEMMA ButtonProgram ==
  ASSUME NEW k \in DriverCalls, k.fn = "button_get_state"
  PROVE  Program(button_get_state(k.a), k)
<1> DEFINE p == buttons[k.a + 1]
           c == gpio_init_inpin(p)
           e == <<Acc("get", p)>>
<1>1. k.a \in 0..5
  BY DEF DriverCalls
<1>2. p \in Int
  BY <1>1 DEF buttons, GPIO_PIN
<1>3. Switched(k) = {p} /\ p \in Switched(k) /\ Outputs(k) = {}
  BY DEF Switched, Inputs, Outputs
<1>4. button_get_state(k.a) = c \o e
  BY DEF button_get_state, gpio_get
<1>5. Wired(c, Switched(k), {}) /\ Has(c, Acc("or_mux", p))
  <2> HIDE DEF p
  <2> QED  BY <1>2, <1>3, InPinWired
<1>6. Whole(c \o e, k)
  <2> HIDE DEF c
  <2> QED  BY <1>2, <1>5, EndsInGet
<1>7. c \in Seq(Access) /\ e \in Seq(Access)
  BY <1>2, <1>5 DEF Wired, Access, Ops, Args, Acc
<1> HIDE DEF p, c, e
<1>8. Has(c \o e, Acc("or_mux", p))
  BY <1>5, <1>7, HasConcat
<1> QED  BY <1>3, <1>4, <1>6, <1>8 DEF Program

\* sensor_touch_get_state.
LEMMA TouchProgram ==
  ASSUME NEW k \in DriverCalls, k.fn = "sensor_touch_get_state"
  PROVE  Program(sensor_touch_get_state(k.a), k)
<1> DEFINE x == SensorPorts[k.a + 1][6]
           y == SensorPorts[k.a + 1][7]
           e == sensor_touch_get_state(k.a)
<1>1. k.a \in 0..3
  BY DEF DriverCalls
<1>2. x \in Int /\ y \in Int
  BY <1>1 DEF SensorPorts, GPIO_PIN
<1>3. Asked(k) = <<x, y>> /\ Switched(k) = {} /\ Outputs(k) = {}
  BY DEF Switched, Inputs, Outputs, Asked, Answers
<1>4. e = spi_update(x) \o spi_update(y)
  BY DEF sensor_touch_get_state, adc_get
<1> HIDE DEF x, y, e
<1>5. /\ spi_update(x) \in Seq(Access) /\ Len(spi_update(x)) = 2
      /\ spi_update(x)[1] = Acc("tx", x) /\ spi_update(x)[2] = Acc("rx", 0)
      /\ spi_update(y) \in Seq(Access) /\ Len(spi_update(y)) = 2
      /\ spi_update(y)[1] = Acc("tx", y) /\ spi_update(y)[2] = Acc("rx", 0)
  BY <1>2 DEF spi_update, Access, Ops, Args, Acc
<1>6. /\ e \in Seq(Access) /\ Len(e) = 4 /\ e[1] = Acc("tx", x) /\ e[2] = Acc("rx", 0)
      /\ e[3] = Acc("tx", y) /\ e[4] = Acc("rx", 0)
  <2> DEFINE c == spi_update(x)
             d == spi_update(y)
  <2> HIDE DEF c, d
  <2>1. /\ c \o d \in Seq(Access) /\ Len(c \o d) = Len(c) + Len(d)
        /\ \A i \in 1 .. Len(c) + Len(d) : (c \o d)[i] = IF i <= Len(c) THEN c[i] ELSE d[i - Len(c)]
    BY <1>5, ConcatProperties DEF c, d
  <2> QED  BY <1>4, <1>5, <2>1 DEF c, d
<1> DEFINE A == <<x, y>>
<1>7. A \in Seq(Int) /\ Len(A) = 2 /\ A[1] = x /\ A[2] = y
  BY <1>2
<1> HIDE DEF A
<1>8. Exchanges(e, A)
  BY <1>6, <1>7 DEF Exchanges
<1>9. Wired(<<>>, Switched(k), {})
  <2>1. <<>> \in Seq(Access) /\ Len(<<>>) = 0
    OBVIOUS
  <2> QED  BY <2>1 DEF Wired, Switching
<1>10. Whole(<<>> \o e, k)
  BY <1>3, <1>8, <1>9, EndsInExchanges DEF A
<1>11. <<>> \o e = e
  BY <1>6, ConcatEmptySeq
<1> QED  BY <1>3, <1>10, <1>11 DEF Program, e

\* sensor_light_get.
LEMMA LightProgram ==
  ASSUME NEW k \in DriverCalls, k.fn = "sensor_light_get"
  PROVE  Program(sensor_light_get(k.a), k)
<1> DEFINE p == SensorPorts[k.a + 1][3]
           x == SensorPorts[k.a + 1][6]
           c == gpio_set(p, 1)
           e == spi_update(x)
<1>1. k.a \in 0..3
  BY DEF DriverCalls
<1>2. p \in Int /\ x \in Int
  BY <1>1 DEF SensorPorts, GPIO_PIN
<1>3. Switched(k) = {p} /\ p \in Switched(k) /\ Asked(k) = <<x>>
  BY DEF Switched, Inputs, Outputs, Asked, Answers
<1>4. sensor_light_get(k.a) = c \o e
  BY DEF sensor_light_get, adc_get
<1>5. Right(sensor_light_get(k.a), k)
  BY LightRight
<1> HIDE DEF p, x
<1>6. Wired(c, Switched(k), {"set", "clr"}) /\ Has(c, Acc("or_mux", p))
  BY <1>2, <1>3, SetWired
<1>7. e \in Seq(Access) /\ Len(e) = 2 /\ e[1] = Acc("tx", x) /\ e[2] = Acc("rx", 0)
  BY <1>2 DEF spi_update, Access, Ops, Args, Acc
<1> DEFINE A == <<x>>
<1>8. A \in Seq(Int) /\ Len(A) = 1 /\ A[1] = x
  BY <1>2
<1> HIDE DEF A, c, e
<1>9. Exchanges(e, A)
  BY <1>7, <1>8 DEF Exchanges
<1>10. Whole(c \o e, k)
  BY <1>3, <1>6, <1>9, EndsInExchanges DEF A
<1>11. c \in Seq(Access)
  BY <1>6 DEF Wired
<1>12. Has(c \o e, Acc("or_mux", p))
  BY <1>6, <1>7, <1>11, HasConcat
<1> QED  BY <1>3, <1>4, <1>5, <1>10, <1>12 DEF Program, Right

\* A program that gives no other level leaves a pin at the level it gives it.
LEMMA OnlyLevel ==
  ASSUME NEW c, NEW S, NEW h, Wired(c, S, {h}), NEW p, Has(c, Acc(h, p))
  PROVE  Level(c, p, h)
<1>1. PICK i \in 1..Len(c) : c[i] = Acc(h, p)
  BY DEF Has
<1>2. \A j \in (i + 1)..Len(c) : j \in 1..Len(c)
  BY DEF Wired
<1> QED  BY <1>1, <1>2 DEF Wired, Level

\* A loop of gpio_init_outpin.
LEMMA OutPinsWired ==
  ASSUME NEW n \in Nat \ {0}, NEW pins \in [1..n -> Int], NEW S, \A q \in 1..n : pins[q] \in S
  PROVE  /\ Wired(ForEach(gpio_init_outpin, pins), S, {"clr"})
         /\ \A q \in 1..n : /\ Has(ForEach(gpio_init_outpin, pins), Acc("or_mux", pins[q]))
                            /\ Has(ForEach(gpio_init_outpin, pins), Acc("clr", pins[q]))
<1> DEFINE rounds == [q \in 1..n |-> gpio_init_outpin(pins[q])]
<1>1. ForEach(gpio_init_outpin, pins) = Joined(rounds)
  <2>1. Len(pins) = n
    OBVIOUS
  <2> QED  BY <2>1 DEF ForEach
<1>2. ASSUME NEW q \in 1..n
      PROVE  /\ Wired(rounds[q], S, {"clr"}) /\ Len(rounds[q]) = 15 /\ rounds[q] \in Seq(Access)
             /\ Has(rounds[q], Acc("or_mux", pins[q])) /\ Has(rounds[q], Acc("clr", pins[q]))
  <2>1. pins[q] \in Int /\ pins[q] \in S /\ "clr" \in {"clr"}
    OBVIOUS
  <2>2. Sound(gpio_init_outpin(pins[q]), Int, {}) /\ Len(gpio_init_outpin(pins[q])) = 15
    BY <2>1, OutPinSound
  <2>3. /\ Wired(gpio_init_outpin(pins[q]), S, {"clr"})
        /\ Has(gpio_init_outpin(pins[q]), Acc("or_mux", pins[q]))
        /\ Has(gpio_init_outpin(pins[q]), Acc("clr", pins[q]))
    BY <2>1, OutPinWired
  <2> QED  BY <2>2, <2>3 DEF Sound
<1>3. Rounds(rounds, n, 15)
  BY <1>2 DEF Rounds
<1> HIDE DEF rounds
<1>4. Wired(Joined(rounds), S, {"clr"})
  BY <1>2, <1>3, JoinedWired
<1>5. \A q \in 1..n : \A a : Has(rounds[q], a) => Has(Joined(rounds), a)
  BY <1>2, <1>3, JoinedWired
<1> QED  BY <1>1, <1>2, <1>4, <1>5

\* led_init.
LEMMA LedInitProgram ==
  ASSUME NEW k, k = Call("led_init", 0, 0)
  PROVE  Program(led_init, k) /\ \A p \in Outputs(k) : MakesOut(led_init, p)
<1>1. k.fn = "led_init"
  BY DEF Call
<1>2. Outputs(k) = Range(LedPins) /\ Switched(k) = Range(LedPins) /\ High(k) = {} /\ Asked(k) = <<>>
  BY <1>1 DEF Outputs, Inputs, Switched, High, Asked, Answers
<1>3. LedPins \in [1..4 -> Int] /\ \A q \in 1..4 : LedPins[q] \in Switched(k)
  BY <1>2, LedsAndButtons DEF Range
<1>4. \A p \in Switched(k) : \E q \in 1..4 : p = LedPins[q]
  BY <1>2, <1>3 DEF Range
<1>5. 4 \in Nat \ {0}
  OBVIOUS
<1>6. /\ Wired(led_init, Switched(k), {"clr"})
      /\ \A q \in 1..4 : Has(led_init, Acc("or_mux", LedPins[q])) /\ Has(led_init, Acc("clr", LedPins[q]))
  BY <1>3, <1>5, OutPinsWired DEF led_init
<1>7. Whole(led_init, k)
  BY <1>1, <1>2, <1>6, EndsQuietly
<1>8. \A p \in Outputs(k) : Level(led_init, p, "clr")
  BY <1>2, <1>4, <1>6, OnlyLevel
<1> QED  BY <1>2, <1>4, <1>6, <1>7, <1>8, LedInitSound DEF Program, Wanted

\* button_init.
LEMMA ButtonInitProgram ==
  ASSUME NEW k, k = Call("button_init", 0, 0)
  PROVE  Program(button_init, k) /\ Outputs(k) = {}
<1> DEFINE rounds == [q \in 1..6 |-> gpio_init_inpin(buttons[q])]
           a == Acc("pull", "up_group_25")
           S == Switched(k)
<1>1. k.fn = "button_init"
  BY DEF Call
<1>2. Outputs(k) = {} /\ S = Range(buttons) /\ Asked(k) = <<>>
  BY <1>1 DEF Outputs, Inputs, Switched, High, Asked, Answers
<1>3. buttons \in [1..6 -> Int] /\ \A q \in 1..6 : buttons[q] \in S
  BY <1>2, LedsAndButtons DEF Range
<1>4. \A p \in S : \E q \in 1..6 : p = buttons[q]
  BY <1>2, <1>3 DEF Range
<1>5. button_init = Joined(rounds) \o <<a>>
  <2>1. Len(buttons) = 6
    BY <1>3
  <2> QED  BY <2>1 DEF button_init, ForEach
<1> HIDE DEF S
<1>6. ASSUME NEW q \in 1..6
      PROVE  /\ Wired(rounds[q], S, {}) /\ Len(rounds[q]) = 14 /\ rounds[q] \in Seq(Access)
             /\ Has(rounds[q], Acc("or_mux", buttons[q]))
  <2>1. buttons[q] \in Int /\ buttons[q] \in S /\ buttons[q] \in {buttons[q]}
    BY <1>3
  <2>2. Sound(gpio_init_inpin(buttons[q]), {}, {buttons[q]}) /\ Len(gpio_init_inpin(buttons[q])) = 14
    BY <2>1, InPinSound
  <2>3. Wired(gpio_init_inpin(buttons[q]), S, {}) /\ Has(gpio_init_inpin(buttons[q]), Acc("or_mux", buttons[q]))
    BY <2>1, InPinWired
  <2> QED  BY <2>2, <2>3 DEF Sound
<1>7. Rounds(rounds, 6, 14)
  BY <1>6 DEF Rounds
<1>8. Wired(<<a>>, S, {})
  <2>1. a \in Access /\ a.op = "pull"
    BY DEF Access, Ops, Args, Acc
  <2> HIDE DEF a
  <2> QED  BY <2>1, OneWired
<1> HIDE DEF rounds, a
<1>9. Wired(Joined(rounds), S, {})
  BY <1>6, <1>7, JoinedWired
<1>10. \A q \in 1..6 : \A x : Has(rounds[q], x) => Has(Joined(rounds), x)
  BY <1>6, <1>7, JoinedWired
<1>11. Wired(Joined(rounds) \o <<a>>, S, {})
  BY <1>8, <1>9, WiredConcat
<1>12. Joined(rounds) \in Seq(Access) /\ <<a>> \in Seq(Access)
  BY <1>8, <1>9 DEF Wired
<1>13. \A q \in 1..6 : Has(Joined(rounds) \o <<a>>, Acc("or_mux", buttons[q]))
  BY <1>6, <1>10, <1>12, HasConcat
<1>14. Whole(button_init, k)
  BY <1>1, <1>2, <1>5, <1>11, EndsQuietly DEF S
<1> QED  BY <1>2, <1>4, <1>5, <1>13, <1>14 DEF Program, S

\* motor_init.
LEMMA MotorInitProgram ==
  ASSUME NEW k, k = Call("motor_init", 0, 0)
  PROVE  Program(motor_init, k) /\ \A p \in Outputs(k) : MakesOut(motor_init, p)
<1> DEFINE rounds == [q \in 1..4 |-> ForEach(gpio_init_outpin, MotorPorts[q])]
           a == Acc("pull", "down_all")
           S == Switched(k)
<1>1. k.fn = "motor_init"
  BY DEF Call
<1>2. /\ Outputs(k) = UNION {Range(p) : p \in Range(MotorPorts)} /\ S = Outputs(k)
      /\ High(k) = {} /\ Asked(k) = <<>>
  BY <1>1 DEF Outputs, Inputs, Switched, High, Asked, Answers
<1>3. \A i \in 1..4 : \A j \in 1..5 : MotorPorts[i][j] \in S
  <2> TAKE i \in 1..4
  <2> TAKE j \in 1..5
  <2>1. MotorPorts[i] \in Range(MotorPorts) /\ MotorPorts[i][j] \in Range(MotorPorts[i])
    BY Motors DEF Range
  <2> QED  BY <2>1, <1>2
<1>4. ASSUME NEW p \in S PROVE \E i \in 1..4 : \E j \in 1..5 : p = MotorPorts[i][j]
  <2>0. p \in UNION {Range(m) : m \in Range(MotorPorts)}
    BY <1>2
  <2>1. PICK i \in 1..4 : p \in Range(MotorPorts[i])
    BY <2>0, Motors DEF Range
  <2> QED  BY <2>1, Motors DEF Range
<1>5. motor_init = Joined(rounds) \o <<a>>
  <2>1. Len(MotorPorts) = 4
    BY Motors
  <2> QED  BY <2>1 DEF motor_init, ForEach
<1> HIDE DEF S
<1>6. ASSUME NEW q \in 1..4
      PROVE  /\ Wired(rounds[q], S, {"clr"}) /\ Len(rounds[q]) = 75 /\ rounds[q] \in Seq(Access)
             /\ \A j \in 1..5 : /\ Has(rounds[q], Acc("or_mux", MotorPorts[q][j]))
                                /\ Has(rounds[q], Acc("clr", MotorPorts[q][j]))
  <2> DEFINE pins == MotorPorts[q]
  <2>1. /\ 5 \in Nat \ {0} /\ pins \in [1..5 -> Int] /\ \A j \in 1..5 : pins[j] \in S
        /\ \A j \in 1..5 : pins[j] \in OutPins
    BY <1>3, Motors
  <2> HIDE DEF pins
  <2>2. Len(ForEach(gpio_init_outpin, pins)) = 15 * 5
    BY <2>1, OutPinsSound
  <2>3. /\ Wired(ForEach(gpio_init_outpin, pins), S, {"clr"})
        /\ \A j \in 1..5 : /\ Has(ForEach(gpio_init_outpin, pins), Acc("or_mux", pins[j]))
                           /\ Has(ForEach(gpio_init_outpin, pins), Acc("clr", pins[j]))
    BY <2>1, OutPinsWired
  <2>4. rounds[q] = ForEach(gpio_init_outpin, pins)
    BY DEF pins
  <2> HIDE DEF rounds
  <2>5. Len(rounds[q]) = 75 /\ rounds[q] \in Seq(Access)
    BY <2>2, <2>3, <2>4 DEF Wired
  <2> QED  BY <2>3, <2>4, <2>5 DEF pins
<1>7. Rounds(rounds, 4, 75)
  BY <1>6 DEF Rounds
<1>8. Wired(<<a>>, S, {"clr"})
  <2>1. a \in Access /\ a.op = "pull"
    BY DEF Access, Ops, Args, Acc
  <2> HIDE DEF a
  <2> QED  BY <2>1, OneWired
<1> HIDE DEF rounds, a
<1>9. \A q \in 1..4 : Wired(rounds[q], S, {"clr"})
  BY <1>6
<1>10. /\ Wired(Joined(rounds), S, {"clr"})
       /\ \A q \in 1..4 : \A x : Has(rounds[q], x) => Has(Joined(rounds), x)
  BY <1>7, <1>9, JoinedWired
<1> DEFINE e == Joined(rounds) \o <<a>>
<1>11. Wired(e, S, {"clr"})
  BY <1>8, <1>10, WiredConcat
<1>12. Joined(rounds) \in Seq(Access) /\ <<a>> \in Seq(Access)
  BY <1>8, <1>10 DEF Wired
<1>13. \A x : Has(Joined(rounds), x) => Has(e, x)
  BY <1>12, HasConcat
<1> HIDE DEF e
<1>14. \A i \in 1..4 : \A j \in 1..5 : Has(e, Acc("or_mux", MotorPorts[i][j])) /\ Has(e, Acc("clr", MotorPorts[i][j]))
  BY <1>6, <1>10, <1>13
<1>15. \A p \in S : Has(e, Acc("or_mux", p)) /\ Has(e, Acc("clr", p)) /\ MakesOut(motor_init, p)
  BY <1>4, <1>14, MotorInitSound
<1>16. Whole(e, k)
  BY <1>1, <1>2, <1>11, EndsQuietly DEF S
<1>17. \A p \in S : Level(e, p, "clr")
  BY <1>11, <1>15, OnlyLevel
<1>18. motor_init = e
  BY <1>5 DEF e
<1> QED  BY <1>2, <1>15, <1>16, <1>17, <1>18 DEF Program, Wanted, S

\* sensor_init on one port.
LEMMA SensorRoundWired ==
  ASSUME NEW S, NEW p \in [1..7 -> Int], \A j \in 1..5 : p[j] \in S
  PROVE  /\ Wired(SensorRound(p), S, {"clr"}) /\ Has(SensorRound(p), Acc("clr", p[3]))
         /\ \A j \in 1..5 : Has(SensorRound(p), Acc("or_mux", p[j]))
<1> DEFINE a == gpio_init_inpin(p[1])
           b == gpio_init_inpin(p[2])
           c == gpio_init_outpin(p[3])
           d == gpio_init_pin(p[4])
           e == gpio_init_pin(p[5])
           H == {"clr"}
<1>1. /\ p[1] \in Int /\ p[2] \in Int /\ p[3] \in Int /\ p[4] \in Int /\ p[5] \in Int
      /\ p[1] \in S /\ p[2] \in S /\ p[3] \in S /\ p[4] \in S /\ p[5] \in S
      /\ "clr" \in H
  OBVIOUS
<1>2. SensorRound(p) = a \o b \o c \o d \o e
  BY DEF SensorRound
<1> HIDE DEF H
<1>3. /\ Wired(a, S, H) /\ Has(a, Acc("or_mux", p[1]))
      /\ Wired(b, S, H) /\ Has(b, Acc("or_mux", p[2]))
  BY <1>1, InPinWired
<1>4. Wired(c, S, H) /\ Has(c, Acc("or_mux", p[3])) /\ Has(c, Acc("clr", p[3]))
  BY <1>1, OutPinWired
<1>5. /\ Wired(d, S, H) /\ Has(d, Acc("or_mux", p[4]))
      /\ Wired(e, S, H) /\ Has(e, Acc("or_mux", p[5]))
  BY <1>1, InitPinWired
<1> HIDE DEF a, b, c, d, e
<1> DEFINE s == a \o b \o c
<1>6. /\ Wired(s, S, H)
      /\ \A x : Has(a, x) \/ Has(b, x) \/ Has(c, x) => Has(s, x)
  BY <1>3, <1>4, WiredThree
<1> HIDE DEF s
<1> DEFINE u == s \o d \o e
<1>7. /\ Wired(u, S, H)
      /\ \A x : Has(s, x) \/ Has(d, x) \/ Has(e, x) => Has(u, x)
  BY <1>5, <1>6, WiredThree
<1> HIDE DEF u
<1>8. SensorRound(p) = u
  BY <1>2 DEF s, u
<1>9. /\ Has(u, Acc("or_mux", p[1])) /\ Has(u, Acc("or_mux", p[2])) /\ Has(u, Acc("or_mux", p[3]))
      /\ Has(u, Acc("or_mux", p[4])) /\ Has(u, Acc("or_mux", p[5])) /\ Has(u, Acc("clr", p[3]))
  BY <1>3, <1>4, <1>5, <1>6, <1>7
<1>10. \A j \in 1..5 : Has(u, Acc("or_mux", p[j]))
  BY <1>9
<1> QED  BY <1>7, <1>8, <1>9, <1>10 DEF H

\* sensor_init.
LEMMA SensorInitProgram ==
  ASSUME NEW k, k = Call("sensor_init", 0, 0)
  PROVE  Program(sensor_init, k) /\ \A p \in Outputs(k) : MakesOut(sensor_init, p)
<1> DEFINE rounds == [q \in 1..4 |-> SensorRound(SensorPorts[q])]
           a == Acc("pull", "down_all")
           S == Switched(k)
<1>1. k.fn = "sensor_init"
  BY DEF Call
<1>2. /\ Outputs(k) = Column(SensorPorts, 3) /\ High(k) = {} /\ Asked(k) = <<>>
      /\ S = Column(SensorPorts, 3) \cup (Column(SensorPorts, 1) \cup Column(SensorPorts, 2))
               \cup (Column(SensorPorts, 4) \cup Column(SensorPorts, 5))
  BY <1>1 DEF Outputs, Inputs, Switched, High, Asked, Answers
<1>3. /\ \A i \in 1..4 : \A j \in 1..5 : SensorPorts[i][j] \in S
      /\ \A p \in S : \E i \in 1..4 : \E j \in 1..5 : p = SensorPorts[i][j]
      /\ \A p \in Outputs(k) : \E i \in 1..4 : p = SensorPorts[i][3]
  <2>1. \A j \in 1..5 : Column(SensorPorts, j) = {SensorPorts[i][j] : i \in 1..4}
    BY Sensors DEF Column, Range
  <2>2. Outputs(k) = {SensorPorts[i][3] : i \in 1..4}
    BY <1>2, <2>1
  <2>3. S = UNION {Column(SensorPorts, j) : j \in 1..5}
    BY <1>2
  <2> QED  BY <2>1, <2>2, <2>3
<1>4. Outputs(k) \subseteq S
  BY <1>2
<1>5. sensor_init = Joined(rounds) \o <<a>>
  <2>1. Len(SensorPorts) = 4
    BY Sensors
  <2> QED  BY <2>1 DEF sensor_init, ForEach, SensorRound
<1> HIDE DEF S
<1>6. ASSUME NEW q \in 1..4
      PROVE  /\ Wired(rounds[q], S, {"clr"}) /\ Len(rounds[q]) = 59 /\ rounds[q] \in Seq(Access)
             /\ \A j \in 1..5 : Has(rounds[q], Acc("or_mux", SensorPorts[q][j]))
             /\ Has(rounds[q], Acc("clr", SensorPorts[q][3]))
  <2> DEFINE p == SensorPorts[q]
  <2>1. /\ p \in [1..7 -> Int] /\ \A j \in 1..5 : p[j] \in S
        /\ p[1] \in InPins /\ p[2] \in InPins /\ p[3] \in OutPins
    BY <1>3, Sensors
  <2>2. rounds[q] = SensorRound(p)
    OBVIOUS
  <2> HIDE DEF p, rounds
  <2>3. Len(SensorRound(p)) = 59 /\ SensorRound(p) \in Seq(Access)
    BY <2>1, SensorRoundSound
  <2>4. /\ Wired(SensorRound(p), S, {"clr"}) /\ Has(SensorRound(p), Acc("clr", p[3]))
        /\ \A j \in 1..5 : Has(SensorRound(p), Acc("or_mux", p[j]))
    BY <2>1, SensorRoundWired
  <2> QED  BY <2>2, <2>3, <2>4 DEF p
<1>7. Rounds(rounds, 4, 59)
  BY <1>6 DEF Rounds
<1>8. Wired(<<a>>, S, {"clr"})
  <2>1. a \in Access /\ a.op = "pull"
    BY DEF Access, Ops, Args, Acc
  <2> HIDE DEF a
  <2> QED  BY <2>1, OneWired
<1> HIDE DEF rounds, a
<1>9. \A q \in 1..4 : Wired(rounds[q], S, {"clr"})
  BY <1>6
<1>10. /\ Wired(Joined(rounds), S, {"clr"})
       /\ \A q \in 1..4 : \A x : Has(rounds[q], x) => Has(Joined(rounds), x)
  BY <1>7, <1>9, JoinedWired
<1> DEFINE e == Joined(rounds) \o <<a>>
<1>11. Wired(e, S, {"clr"})
  BY <1>8, <1>10, WiredConcat
<1>12. Joined(rounds) \in Seq(Access) /\ <<a>> \in Seq(Access)
  BY <1>8, <1>10 DEF Wired
<1>13. \A x : Has(Joined(rounds), x) => Has(e, x)
  BY <1>12, HasConcat
<1> HIDE DEF e
<1>14. /\ \A i \in 1..4 : \A j \in 1..5 : Has(e, Acc("or_mux", SensorPorts[i][j]))
       /\ \A i \in 1..4 : Has(e, Acc("clr", SensorPorts[i][3]))
  BY <1>6, <1>10, <1>13
<1>15. /\ \A p \in S : Has(e, Acc("or_mux", p))
       /\ \A p \in Outputs(k) : Has(e, Acc("clr", p)) /\ MakesOut(sensor_init, p)
  BY <1>3, <1>14, SensorInitSound
<1>16. Whole(e, k)
  BY <1>1, <1>2, <1>11, EndsQuietly DEF S
<1>17. \A p \in Outputs(k) : Level(e, p, "clr")
  BY <1>11, <1>15, OnlyLevel
<1>18. sensor_init = e
  BY <1>5 DEF e
<1> QED  BY <1>2, <1>15, <1>16, <1>17, <1>18 DEF Program, Wanted, S

\* All calls.
LEMMA AllPrograms ==
  ASSUME NEW k \in AllCalls
  PROVE  Program(CodeOf(k), k)
<1>1. CASE k \in DriverCalls
  <2>1. k.fn \in {"led_set", "button_get_state", "motor_set_state", "sensor_touch_get_state", "sensor_light_get"}
    BY <1>1 DEF DriverCalls
  <2>2. CASE k.fn = "led_set"
    BY <1>1, <2>2, LedSetProgram DEF CodeOf
  <2>3. CASE k.fn = "button_get_state"
    BY <1>1, <2>3, ButtonProgram DEF CodeOf
  <2>4. CASE k.fn = "motor_set_state"
    BY <1>1, <2>4, MotorSetProgram DEF CodeOf
  <2>5. CASE k.fn = "sensor_touch_get_state"
    BY <1>1, <2>5, TouchProgram DEF CodeOf
  <2>6. CASE k.fn = "sensor_light_get"
    BY <1>1, <2>6, LightProgram DEF CodeOf
  <2> QED  BY <2>1, <2>2, <2>3, <2>4, <2>5, <2>6
<1>2. ASSUME NEW f \in Constructors, k = Call(f, 0, 0) PROVE Program(CodeOf(k), k)
  <2>1. k.fn = f
    BY <1>2 DEF Call
  <2>4. CASE f = "led_init"
    BY <1>2, <2>1, <2>4, LedInitProgram DEF CodeOf
  <2>5. CASE f = "button_init"
    BY <1>2, <2>1, <2>5, ButtonInitProgram DEF CodeOf
  <2>6. CASE f = "motor_init"
    BY <1>2, <2>1, <2>6, MotorInitProgram DEF CodeOf
  <2>7. CASE f = "sensor_init"
    BY <1>2, <2>1, <2>7, SensorInitProgram DEF CodeOf
  <2> QED  BY <2>4, <2>5, <2>6, <2>7 DEF Constructors
<1> QED  BY <1>1, <1>2 DEF AllCalls

\* A constructor makes its outputs outputs.
LEMMA ConstructorOutputs ==
  ASSUME NEW f \in Constructors, NEW p \in Outputs(Call(f, 0, 0))
  PROVE  MakesOut(CodeOf(Call(f, 0, 0)), p)
<1>1. /\ CodeOf(Call("led_init", 0, 0)) = led_init /\ CodeOf(Call("button_init", 0, 0)) = button_init
      /\ CodeOf(Call("motor_init", 0, 0)) = motor_init /\ CodeOf(Call("sensor_init", 0, 0)) = sensor_init
  BY DEF CodeOf, Call
<1>4. CASE f = "led_init"
  BY <1>1, <1>4, LedInitProgram
<1>5. CASE f = "button_init"
  BY <1>5, ButtonInitProgram
<1>6. CASE f = "motor_init"
  BY <1>1, <1>6, MotorInitProgram
<1>7. CASE f = "sensor_init"
  BY <1>1, <1>7, SensorInitProgram
<1> QED  BY <1>4, <1>5, <1>6, <1>7 DEF Constructors

\* The pins that are ever switched to their function.
UsedPins ==
  OutPins \cup InPins \cup Column(SensorPorts, 4) \cup Column(SensorPorts, 5)

\* A row of the table describes a pin.
Describes(r, p) ==
  /\ p \in r[1] .. r[2]
  /\ pininfo[p] = [muxreg |-> r[3], muxreg_mask |-> Nibbles \ {r[4] - (p - r[1])},
                   nibble |-> r[4] - (p - r[1]), muxreg_mode |-> {r[5]}]

\* A pin with information has a row, and a pin in the range of a row has information.
LEMMA PinRow ==
  ASSUME NEW p \in 0..153
  PROVE  /\ pininfo[p].muxreg_mode # {} => \E r \in PinRows : Describes(r, p)
         /\ (\E r \in PinRows : p \in r[1]..r[2]) => \E r \in PinRows : Describes(r, p)
<1> DEFINE R == CHOOSE r \in PinRows : p \in r[1] .. r[2]
<1>1. pininfo_size - 1 = 153
  BY DEF pininfo_size
<1>2. CASE \E r \in PinRows : p \in r[1] .. r[2]
  <2>1. R \in PinRows /\ p \in R[1] .. R[2]
    BY <1>2
  <2>2. pininfo[p] = LET n == R[4] - (p - R[1])
                     IN [muxreg |-> R[3], muxreg_mask |-> Nibbles \ {n}, nibble |-> n, muxreg_mode |-> {R[5]}]
    BY <1>1, <1>2 DEF pininfo
  <2> HIDE DEF R
  <2> QED  BY <2>1, <2>2 DEF Describes
<1>3. CASE ~ \E r \in PinRows : p \in r[1] .. r[2]
  <2>1. pininfo[p].muxreg_mode = {}
    BY <1>1, <1>3 DEF pininfo
  <2> QED  BY <2>1, <1>3
<1> QED  BY <1>2, <1>3

\* Registers and nibbles are in range, ...
LEMMA RowIs ==
  ASSUME NEW p \in Int, NEW r \in PinRows, p \in r[1]..r[2]
  PROVE  r[3] \in MuxRegs /\ r[4] - (p - r[1]) \in Nibbles
BY DEF PinRows, GPIO_PIN, MuxRegs, Nibbles

\* ... two pins with the same nibble have different modes, ...
LEMMA RowsDiffer ==
  ASSUME NEW p \in Int, NEW q \in Int, NEW r \in PinRows, NEW s \in PinRows,
         p \in r[1]..r[2], q \in s[1]..s[2], r[3] = s[3],  r[4] - (p - r[1]) = s[4] - (q - s[1]), r[5] = s[5]
  PROVE  p = q
BY DEF PinRows, GPIO_PIN

\* The pins in use have information, and are none of those that share a nibble with one in use.
LEMMA UsedAre ==
  ASSUME NEW p \in UsedPins
  PROVE  /\ p \in 0..153 /\ p \notin {16, 24, 130, 131, 133, 134, 145, 146, 147}
         /\ \E r \in PinRows : p \in r[1]..r[2]
<1>1. \A i \in 1..4 : /\ SensorPorts[i][4] \in {15, 13, 30, 31}
                      /\ SensorPorts[i][5] \in {139, 142, 121, 122}
  BY DEF SensorPorts, GPIO_PIN
<1>2. p \in Column(SensorPorts, 4) \cup Column(SensorPorts, 5) => p \in {15, 13, 30, 31, 139, 142, 121, 122}
  BY <1>1, Sensors DEF Column, Range
<1>4. \/ p \in {109, 103, 108, 110, 63, 54, 84, 91, 4, 3, 33, 37, 88, 41, 104, 89, 56, 93,
                62, 90, 83, 95, 105, 40, 2, 14, 12, 1}
      \/ p \in {102, 124, 127, 126, 29, 106, 138, 140, 137, 100, 34, 143, 123, 120}
      \/ p \in {15, 13, 30, 31, 139, 142, 121, 122}
  BY <1>2, PinsAre DEF UsedPins
<1>5. \E r \in PinRows : p \in r[1]..r[2]
  BY <1>4 DEF PinRows, GPIO_PIN
<1> QED  BY <1>4, <1>5

\* ... and no two of the other pins have the same nibble.
LEMMA UsedDiffer ==
  ASSUME NEW p \in Int, NEW q \in Int, NEW r \in PinRows, NEW s \in PinRows,
         p \notin {16, 24, 130, 131, 133, 134, 145, 146, 147}, q \notin {16, 24, 130, 131, 133, 134, 145, 146, 147}, 
         p \in r[1]..r[2], q \in s[1]..s[2], r[3] = s[3],  r[4] - (p - r[1]) = s[4] - (q - s[1])
  PROVE  p = q
BY DEF PinRows, GPIO_PIN

\* What pininfo.c says of a pin with information.
LEMMA PinCell ==
  ASSUME NEW p \in 0..153, pininfo[p].muxreg_mode # {}
  PROVE  /\ pininfo[p].muxreg \in MuxRegs /\ pininfo[p].nibble \in Nibbles
         /\ pininfo[p].muxreg_mask = Nibbles \ {pininfo[p].nibble}
<1>1. PICK r \in PinRows : Describes(r, p)
  BY PinRow
<1>2. r[3] \in MuxRegs /\ r[4] - (p - r[1]) \in Nibbles
  BY <1>1, RowIs DEF Describes
<1> QED  BY <1>1, <1>2 DEF Describes

\* Every pin in use has information.
LEMMA UsedHaveInfo ==
  ASSUME NEW q \in UsedPins
  PROVE  q \in 0..153 /\ pininfo[q].muxreg_mode # {}
<1>1. q \in 0..153 /\ \E r \in PinRows : q \in r[1]..r[2]
  BY UsedAre
<1>2. PICK r \in PinRows : Describes(r, q)
  BY <1>1, PinRow
<1> QED  BY <1>1, <1>2 DEF Describes

\* No two pins in use share a nibble.
LEMMA UsedApart ==
  ASSUME NEW p \in UsedPins, NEW q \in UsedPins,
         pininfo[p].muxreg = pininfo[q].muxreg, pininfo[p].nibble = pininfo[q].nibble
  PROVE  p = q
<1>1. /\ p \in 0..153 /\ p \notin {16, 24, 130, 131, 133, 134, 145, 146, 147}
      /\ \E r \in PinRows : p \in r[1]..r[2]
      /\ q \in 0..153 /\ q \notin {16, 24, 130, 131, 133, 134, 145, 146, 147}
      /\ \E r \in PinRows : q \in r[1]..r[2]
  BY UsedAre
<1>2. PICK r \in PinRows : Describes(r, p)
  BY <1>1, PinRow
<1>3. PICK s \in PinRows : Describes(s, q)
  BY <1>1, PinRow
<1>4. /\ p \in r[1]..r[2] /\ q \in s[1]..s[2] /\ r[3] = s[3]
      /\ r[4] - (p - r[1]) = s[4] - (q - s[1]) /\ p \in Int /\ q \in Int
  BY <1>1, <1>2, <1>3 DEF Describes
<1> QED  BY <1>1, <1>4, UsedDiffer

\* Pins that share a nibble need different modes.
LEMMA ModesApart ==
  ASSUME NEW p \in 0..153, pininfo[p].muxreg_mode # {}, NEW q \in UsedPins,
         pininfo[p].muxreg = pininfo[q].muxreg, pininfo[p].nibble = pininfo[q].nibble,
         pininfo[p].muxreg_mode = pininfo[q].muxreg_mode
  PROVE  p = q
<1>1. q \in 0..153 /\ \E r \in PinRows : q \in r[1]..r[2]
  BY UsedAre
<1>2. PICK r \in PinRows : Describes(r, p)
  BY PinRow
<1>3. PICK s \in PinRows : Describes(s, q)
  BY <1>1, PinRow
<1>4. /\ p \in r[1]..r[2] /\ q \in s[1]..s[2] /\ r[3] = s[3]
      /\ r[4] - (p - r[1]) = s[4] - (q - s[1]) /\ {r[5]} = {s[5]} /\ p \in Int /\ q \in Int
  BY <1>1, <1>2, <1>3 DEF Describes
<1>5. r[5] = s[5]
  BY <1>4
<1> QED  BY <1>4, <1>5, RowsDiffer

\* The pins of all calls, and what they ask.
LEMMA AllCallPins ==
  ASSUME NEW k \in AllCalls
  PROVE  /\ Outputs(k) \subseteq OutPins /\ Inputs(k) \subseteq InPins /\ Switched(k) \subseteq UsedPins
         /\ Outputs(k) \subseteq Switched(k) /\ High(k) \subseteq Outputs(k)
<1>1. Outputs(k) \subseteq OutPins /\ Inputs(k) \subseteq InPins
  <2>1. CASE k \in DriverCalls
    BY <2>1, CallPins
  <2>2. ASSUME NEW f \in Constructors, k = Call(f, 0, 0) PROVE Outputs(k) \subseteq OutPins /\ Inputs(k) \subseteq InPins
    <3>1. k.fn = f
      BY <2>2 DEF Call
    <3> QED  BY <3>1 DEF Constructors, Outputs, Inputs, OutPins, InPins
  <2> QED  BY <2>1, <2>2 DEF AllCalls
<1>2. Switched(k) \subseteq UsedPins
  BY <1>1 DEF Switched, UsedPins
<1>3. Outputs(k) \subseteq Switched(k)
  BY DEF Switched
<1>4. High(k) \subseteq Outputs(k)
  <2>1. CASE k.fn = "motor_set_state"
    BY <2>1 DEF High, Outputs
  <2>2. CASE k.fn # "motor_set_state"
    BY <2>2 DEF High
  <2> QED  BY <2>1, <2>2
<1> QED  BY <1>1, <1>2, <1>3, <1>4

\* The channels of the converter are numbers.
LEMMA AskedAre ==
  ASSUME NEW k \in AllCalls
  PROVE  Asked(k) \in Seq(Int)
<1>1. CASE k.fn = "button_get_state"
  BY <1>1 DEF Asked
<1>2. CASE k.fn = "sensor_touch_get_state"
  <2>1. k.a \in 0..3
    BY <1>2 DEF AllCalls, DriverCalls, Constructors, Call
  <2>2. SensorPorts[k.a + 1][6] \in Int /\ SensorPorts[k.a + 1][7] \in Int
    BY <2>1, Sensors
  <2>3. Asked(k) = <<SensorPorts[k.a + 1][6], SensorPorts[k.a + 1][7]>>
    BY <1>2 DEF Asked, Answers
  <2> QED  BY <2>2, <2>3
<1>3. CASE k.fn = "sensor_light_get"
  <2>1. k.a \in 0..3
    BY <1>3 DEF AllCalls, DriverCalls, Constructors, Call
  <2>2. SensorPorts[k.a + 1][6] \in Int
    BY <2>1, Sensors
  <2>3. Asked(k) = <<SensorPorts[k.a + 1][6]>>
    BY <1>3 DEF Asked, Answers
  <2> QED  BY <2>2, <2>3
<1>5. CASE k.fn \notin {"button_get_state", "sensor_touch_get_state", "sensor_light_get"}
  <2>1. Asked(k) = <<>>
    BY <1>5 DEF Asked, Answers
  <2> QED  BY <2>1
<1> QED  BY <1>1, <1>2, <1>3, <1>5

----------------------------------------------------------------------------
----------------------------------------------------------------------------
(* The invariant of undisturbed calls. *)

\* Each nibble of a multiplexing register is empty or as a used pin needs it.
MuxRow(r, row) ==
  /\ DOMAIN row = Nibbles
  /\ \A n \in Nibbles :
       \/ row[n] = {}
       \/ \E q \in UsedPins : /\ pininfo[q].muxreg = r /\ pininfo[q].nibble = n
                              /\ row[n] = pininfo[q].muxreg_mode

\* The next access of t is a store to a multiplexing register.
Storing(t) == ~Idle(t) /\ code[t][1].op \in {"and_mux", "or_mux"}

\* So is each nibble of the registers and of the values loaded from them, whoever
\* preempted whom.
MuxInv ==
  /\ DOMAIN mux = MuxRegs /\ \A r \in MuxRegs : MuxRow(r, mux[r])
  /\ \A t \in Threads : Storing(t) => MuxRow(pininfo[code[t][1].arg].muxreg, latch[t])

\* What remains of a call is part of its program.
PartInv == \A t \in Threads : ~Idle(t) => call[t] \in AllCalls /\ Part(code[t], call[t])

\* A frame in the SPI is one that a thread inside spi_update waits for, and no two
\* frames are one thread's.
Waits(t) == ~Idle(t) /\ code[t][1].op = "rx"
FrameInv ==
  /\ tx # NoFrame \/ rx # NoFrame => \E t \in Threads : Waits(t)
  /\ tx # NoFrame /\ rx # NoFrame => \E t, u \in Threads : t # u /\ Waits(t) /\ Waits(u)

\* The answers so far, and the frame under way.
Told(t) ==
  LET A == Asked(call[t])
      n == Len(data[t])
      r == Len(code[t])
  IN  /\ data[t] \in Seq(Int)
      /\ n <= Len(A) /\ \A i \in 1..n : data[t][i] = A[i]
      /\ IF r >= 2 * Len(A) THEN n = 0 ELSE r \in {2 * (Len(A) - n), 2 * (Len(A) - n) - 1}
      /\ Waits(t) => /\ n < Len(A)
                     /\ (tx = A[n + 1] /\ rx = NoFrame) \/ (tx = NoFrame /\ rx = A[n + 1])

\* What a call that nobody disturbs has done so far: the kick registers are open for
\* the next store, what is to be stored is what was loaded, and each pin is switched, at its
\* level and an output, or the rest of the call makes it so.
Opened(t) ==
  \A j \in 1..Len(code[t]) :
    code[t][j].op \in {"and_mux", "or_mux"} => (j < 4 => kick[0]) /\ (j < 3 => kick[1])
Loaded(t) == Storing(t) => latch[t] = mux[pininfo[code[t][1].arg].muxreg]
SwitchedSoFar(t) == \A p \in Switched(call[t]) : Has(code[t], Acc("or_mux", p)) \/ Muxed(p)
LevelSoFar(t) ==
  \A p \in Outputs(call[t]) :
    \/ Level(code[t], p, Wanted(call[t], p))
    \/ Steady(code[t], p, Wanted(call[t], p)) /\ (p \in out <=> p \in High(call[t]))
OutSoFar(t) == \A p \in Outputs(call[t]) : MakesOut(code[t], p) \/ p \notin dir
SoFar(t) == Opened(t) /\ Loaded(t) /\ SwitchedSoFar(t) /\ LevelSoFar(t) /\ OutSoFar(t)
            /\ IF call[t].fn = "button_get_state"
               THEN data[t] = IF Idle(t) THEN Answers(call[t]) ELSE <<>>
               ELSE Told(t)

\* A call that nobody disturbs is the only one in progress.
AloneInv ==
  /\ DOMAIN alone = Threads /\ DOMAIN data = Threads
  /\ \A t \in Threads : alone[t] /\ ~Idle(t) => SoFar(t) /\ \A u \in Threads : u # t => Idle(u)

AInv == MuxInv /\ PartInv /\ FrameInv /\ AloneInv

\* What remains of a call after an access.
LEMMA PartTail ==
  ASSUME NEW c, NEW k, Part(c, k), c # <<>>
  PROVE  /\ Head(c) = c[1] /\ c[1] \in Access /\ Part(Tail(c), k)
         /\ Tail(c) \in Seq(Access) /\ Len(Tail(c)) = Len(c) - 1 /\ Len(c) \in Nat \ {0}
         /\ \A i \in 1..Len(Tail(c)) : Tail(c)[i] = c[i + 1]
         /\ c[1].op \in PinOps => c[1].arg \in Switched(k)
         /\ Tail(c) # <<>> /\ Tail(c)[1].op \in {"and_mux", "or_mux"} => c[1] = Acc("load_mux", Tail(c)[1].arg)
         /\ c[1].op = "and_mux" => Has(Tail(c), Acc("or_mux", c[1].arg))
         /\ \A a : Has(c, a) => c[1] = a \/ Has(Tail(c), a)
<1> DEFINE d == Tail(c)
<1>1. c \in Seq(Access) /\ Len(c) \in Nat \ {0}
  BY DEF Part
<1>2. /\ Head(c) = c[1] /\ c[1] \in Access /\ d \in Seq(Access) /\ Len(d) = Len(c) - 1
      /\ \A i \in 1..Len(d) : d[i] = c[i + 1]
  BY <1>1
<1> HIDE DEF d
<1>3. \A i \in 2..Len(c) : i - 1 \in 1..Len(d) /\ d[i - 1] = c[i]
  BY <1>1, <1>2
<1>4. 1 \in 1..Len(c) /\ \A i \in 1..Len(d) : i + 1 \in 1..Len(c)
  BY <1>1, <1>2
<1>5. \A a : Has(c, a) => c[1] = a \/ Has(d, a)
  BY <1>1, <1>3 DEF Has
<1>6. d # <<>> /\ d[1].op \in {"and_mux", "or_mux"} => c[1] = Acc("load_mux", d[1].arg)
  <2>1. d # <<>> => 1 \in 1..Len(d) /\ d[1] = c[2] /\ 2 \in 1..Len(c) /\ 2 > 1 /\ 2 - 1 = 1
    BY <1>1, <1>2
  <2> QED  BY <2>1 DEF Part, SwitchingRest
<1>7. c[1].op = "and_mux" => Has(d, Acc("or_mux", c[1].arg))
  <2> SUFFICES ASSUME c[1].op = "and_mux" PROVE Has(d, Acc("or_mux", c[1].arg))
    OBVIOUS
  <2>1. 1 + 2 <= Len(c) /\ c[1 + 2] = Acc("or_mux", c[1].arg)
    BY <1>4 DEF Part, SwitchingRest
  <2>2. 3 <= Len(c) /\ c[3] = Acc("or_mux", c[1].arg)
    BY <2>1
  <2>3. 2 \in 1..Len(d) /\ d[2] = c[3]
    BY <1>1, <1>2, <2>2
  <2> QED  BY <2>2, <2>3 DEF Has
<1>8. SwitchingRest(d)
  <2> SUFFICES ASSUME NEW i \in 1..Len(d)
               PROVE  /\ d[i].op = "and_mux" =>
                           /\ i > 3 => d[i - 3] = Acc("unlock", 0)
                           /\ i > 2 => d[i - 2] = Acc("unlock", 1)
                           /\ i > 1 => d[i - 1] = Acc("load_mux", d[i].arg)
                           /\ i + 2 <= Len(d) /\ d[i + 2] = Acc("or_mux", d[i].arg)
                      /\ d[i].op = "or_mux" =>
                           /\ i > 2 => d[i - 2] = Acc("and_mux", d[i].arg)
                           /\ i > 1 => d[i - 1] = Acc("load_mux", d[i].arg)
    BY DEF SwitchingRest
  <2> DEFINE m == i + 1
  <2>1. m \in 1..Len(c) /\ d[i] = c[m] /\ m > 1 /\ i \in Nat
    BY <1>2, <1>4
  <2>2. /\ i > 1 => m > 2 /\ d[i - 1] = c[m - 1]
        /\ i > 2 => m > 3 /\ d[i - 2] = c[m - 2]
        /\ i > 3 => m > 4 /\ d[i - 3] = c[m - 3]
        /\ m + 2 <= Len(c) => i + 2 <= Len(d) /\ d[i + 2] = c[m + 2]
    <3>1. i > 1 => m > 2 /\ d[i - 1] = c[m - 1]
      BY <1>1, <1>2
    <3>2. i > 2 => m > 3 /\ d[i - 2] = c[m - 2]
      BY <1>1, <1>2
    <3>3. i > 3 => m > 4 /\ d[i - 3] = c[m - 3]
      BY <1>1, <1>2
    <3>4. m + 2 <= Len(c) => i + 2 <= Len(d) /\ d[i + 2] = c[m + 2]
      BY <1>1, <1>2
    <3> QED  BY <3>1, <3>2, <3>3, <3>4
  <2> HIDE DEF m
  <2>3. /\ c[m].op = "and_mux" =>
             /\ m > 3 => c[m - 3] = Acc("unlock", 0)
             /\ m > 2 => c[m - 2] = Acc("unlock", 1)
             /\ m > 1 => c[m - 1] = Acc("load_mux", c[m].arg)
             /\ m + 2 <= Len(c) /\ c[m + 2] = Acc("or_mux", c[m].arg)
        /\ c[m].op = "or_mux" =>
             /\ m > 2 => c[m - 2] = Acc("and_mux", c[m].arg)
             /\ m > 1 => c[m - 1] = Acc("load_mux", c[m].arg)
    BY <2>1 DEF Part, SwitchingRest
  <2>4. /\ i > 3 => m > 3
        /\ i > 2 => m > 2 /\ m > 3
        /\ i > 1 => m > 1 /\ m > 2
    BY <2>1, <2>2
  <2> QED  BY <2>1, <2>2, <2>3, <2>4
<1>9. Talks(d, Asked(k))
  <2> DEFINE A == Asked(k)
  <2> HIDE DEF A
  <2>1. Talks(c, A)
    BY DEF Part, A
  <2>2. \A i \in 1..Len(d) : d[i].op \in {"tx", "rx"} => Len(d) - i < 2 * Len(A)
    <3> TAKE i \in 1..Len(d)
    <3>1. d[i] = c[i + 1] /\ i + 1 \in 1..Len(c) /\ Len(d) - i = Len(c) - (i + 1)
      BY <1>1, <1>2, <1>4
    <3> QED  BY <3>1, <2>1 DEF Talks
  <2>3. ASSUME NEW j \in 0 .. Len(A) - 1
        PROVE  /\ Len(d) > 2 * j => d[Len(d) - 2 * j] = Acc("rx", 0)
               /\ Len(d) > 2 * j + 1 => d[Len(d) - 2 * j - 1] = Acc("tx", A[Len(A) - j])
    <3>1. /\ Len(c) > 2 * j => c[Len(c) - 2 * j] = Acc("rx", 0)
          /\ Len(c) > 2 * j + 1 => c[Len(c) - 2 * j - 1] = Acc("tx", A[Len(A) - j])
      BY <2>1 DEF Talks
    <3>2. j \in Nat
      OBVIOUS
    <3>3. ASSUME Len(d) > 2 * j PROVE Len(c) > 2 * j /\ d[Len(d) - 2 * j] = c[Len(c) - 2 * j]
      <4>1. Len(d) - 2 * j \in 1..Len(d) /\ (Len(d) - 2 * j) + 1 = Len(c) - 2 * j
        BY <1>1, <1>2, <3>2, <3>3
      <4>2. d[Len(d) - 2 * j] = c[(Len(d) - 2 * j) + 1]
        BY <4>1, <1>2
      <4> QED  BY <4>1, <4>2, <1>1, <1>2, <3>2, <3>3
    <3>4. ASSUME Len(d) > 2 * j + 1 PROVE Len(c) > 2 * j + 1 /\ d[Len(d) - 2 * j - 1] = c[Len(c) - 2 * j - 1]
      <4>1. Len(d) - 2 * j - 1 \in 1..Len(d) /\ (Len(d) - 2 * j - 1) + 1 = Len(c) - 2 * j - 1
        BY <1>1, <1>2, <3>2, <3>4
      <4>2. d[Len(d) - 2 * j - 1] = c[(Len(d) - 2 * j - 1) + 1]
        BY <4>1, <1>2
      <4> QED  BY <4>1, <4>2, <1>1, <1>2, <3>2, <3>4
    <3> QED  BY <3>1, <3>3, <3>4
  <2> QED  BY <2>2, <2>3 DEF Talks, A
<1>10. Gets(d, k)
  <2>1. \A i \in 1..Len(d) : i + 1 = Len(c) => i = Len(d)
    BY <1>1, <1>2
  <2>2. d # <<>> => Len(d) \in 1..Len(d) /\ d[Len(d)] = c[Len(c)]
    BY <1>1, <1>2
  <2>3. Gets(c, k)
    BY DEF Part
  <2> QED  BY <1>2, <1>4, <2>1, <2>2, <2>3 DEF Gets
<1>11. /\ c[1].op \in PinOps => c[1].arg \in Switched(k)
       /\ \A i \in 1..Len(d) : d[i].op \in PinOps => d[i].arg \in Switched(k)
  BY <1>2, <1>4 DEF Part
<1>12. Part(d, k)
  BY <1>2, <1>8, <1>9, <1>10, <1>11 DEF Part
<1> QED  BY <1>1, <1>2, <1>5, <1>6, <1>7, <1>11, <1>12 DEF d

\* Which access is next, by the number that remain.
LEMMA TalksFirst ==
  ASSUME NEW c \in Seq(Access), c # <<>>, NEW A \in Seq(Int), Talks(c, A)
  PROVE  \/ Len(c) > 2 * Len(A) /\ c[1].op \notin {"tx", "rx"}
         \/ \E m \in 1..Len(A) : Len(c) = 2 * m /\ c[1] = Acc("tx", A[Len(A) - m + 1])
         \/ \E m \in 1..Len(A) : Len(c) = 2 * m - 1 /\ c[1] = Acc("rx", 0)
<1>1. Len(c) \in Nat \ {0} /\ Len(A) \in Nat
  OBVIOUS
<1>2. CASE Len(c) > 2 * Len(A)
  <2>1. 1 \in 1..Len(c) /\ ~(Len(c) - 1 < 2 * Len(A))
    BY <1>1, <1>2
  <2> QED  BY <1>2, <2>1 DEF Talks
<1>3. CASE Len(c) <= 2 * Len(A)
  <2>1. PICK m \in 1..Len(A) : Len(c) = 2 * m \/ Len(c) = 2 * m - 1
    <3>1. (Len(c) + 1) \div 2 \in 1..Len(A) /\ (Len(c) = 2 * ((Len(c) + 1) \div 2) \/ Len(c) = 2 * ((Len(c) + 1) \div 2) - 1)
      BY <1>1, <1>3
    <3> QED  BY <3>1
  <2> DEFINE j == m - 1
  <2>2. j \in 0 .. Len(A) - 1
    BY <1>1
  <2>3. /\ Len(c) > 2 * j => c[Len(c) - 2 * j] = Acc("rx", 0)
        /\ Len(c) > 2 * j + 1 => c[Len(c) - 2 * j - 1] = Acc("tx", A[Len(A) - j])
    BY <2>2 DEF Talks
  <2>4. CASE Len(c) = 2 * m
    <3>1. Len(c) > 2 * j + 1 /\ Len(c) - 2 * j - 1 = 1 /\ Len(A) - j = Len(A) - m + 1
      BY <1>1, <2>4
    <3> QED  BY <2>3, <2>4, <3>1
  <2>5. CASE Len(c) = 2 * m - 1
    <3>1. Len(c) > 2 * j /\ Len(c) - 2 * j = 1
      BY <1>1, <2>5
    <3> QED  BY <2>3, <2>5, <3>1
  <2> QED  BY <2>1, <2>4, <2>5
<1> QED  BY <1>1, <1>2, <1>3

----------------------------------------------------------------------------
(* Register accesses of a call. *)

\* What an access of t does to what remains of the calls.
LEMMA AccessFacts ==
  ASSUME IInv, PartInv, NEW t \in Threads, Runs(t)
  PROVE  /\ ~Idle(t) /\ code'[t] = Tail(code[t]) /\ call' = call /\ alone' = alone
         /\ code[t] # <<>> /\ Op(t) = code[t][1].op /\ Arg(t) = code[t][1].arg
         /\ call[t] \in AllCalls /\ Part(code[t], call[t]) /\ Part(Tail(code[t]), call[t])
         /\ Op(t) \in PinOps => Arg(t) \in Switched(call[t]) /\ Arg(t) \in UsedPins
         /\ \A u \in Threads : u # t => code'[u] = code[u]
         /\ PartInv'
<1>1. PICK ops : Step(t, ops)
  BY DEF Runs, Kick, Load, StoreMux, StoreDir, SetClr, Get, Pull, Tx, Rx
<1>2. /\ code[t] # <<>> /\ code'[t] = Tail(code[t]) /\ Head(code[t]) = code[t][1]
      /\ \A u \in Threads : u # t => code'[u] = code[u]
  BY <1>1, CodeStep
<1>3. ~Idle(t) /\ call' = call /\ alone' = alone
  BY <1>1 DEF Step
<1>4. Op(t) = code[t][1].op /\ Arg(t) = code[t][1].arg
  BY <1>2 DEF Op, Arg
<1>5. call[t] \in AllCalls /\ Part(code[t], call[t])
  BY <1>3 DEF PartInv
<1> DEFINE c == code[t]
           k == call[t]
<1>6. Part(c, k) /\ c # <<>>
  BY <1>5, <1>2
<1> HIDE DEF c, k
<1>7. Part(Tail(c), k) /\ (c[1].op \in PinOps => c[1].arg \in Switched(k))
  BY <1>6, PartTail
<1>8. Switched(k) \subseteq UsedPins
  BY <1>5, AllCallPins DEF k
<1>9. PartInv'
  BY <1>2, <1>3, <1>5, <1>7 DEF PartInv, Idle, c, k
<1> QED  BY <1>2, <1>3, <1>4, <1>5, <1>7, <1>8, <1>9 DEF c, k

\* A store to a multiplexing register follows the load of its value.
LEMMA StoringStep ==
  ASSUME IInv, PartInv, NEW t \in Threads, Runs(t), NEW u \in Threads, Storing(u)'
  PROVE  \/ u # t /\ Storing(u) /\ code'[u] = code[u]
         \/ u = t /\ Op(t) = "load_mux" /\ Arg(t) = code'[t][1].arg
<1>1. CASE u # t
  <2>1. code'[u] = code[u]
    BY <1>1, AccessFacts
  <2> QED  BY <1>1, <2>1 DEF Storing, Idle
<1>2. CASE u = t
  <2> DEFINE c == code[t]
             k == call[t]
  <2>1. Part(c, k) /\ c # <<>> /\ code'[t] = Tail(c) /\ Op(t) = c[1].op /\ Arg(t) = c[1].arg
    BY AccessFacts
  <2>2. Tail(c) # <<>> /\ Tail(c)[1].op \in {"and_mux", "or_mux"}
    BY <1>2, <2>1 DEF Storing, Idle
  <2> HIDE DEF c, k
  <2>3. c[1] = Acc("load_mux", Tail(c)[1].arg)
    BY <2>1, <2>2, PartTail
  <2>4. \A a, b : b = Acc("load_mux", a) => b.op = "load_mux" /\ b.arg = a
    BY DEF Acc
  <2>5. c[1].op = "load_mux" /\ c[1].arg = Tail(c)[1].arg
    BY <2>3, <2>4, Zenon
  <2> QED  BY <1>2, <2>1, <2>5
<1> QED  BY <1>1, <1>2

\* The two values gpio_init_pin stores.
Cleared(row, q) == [n \in Nibbles |-> IF n \in pininfo[q].muxreg_mask THEN row[n] ELSE {}]
Filled(row, q)  == [row EXCEPT ![pininfo[q].nibble] = @ \cup pininfo[q].muxreg_mode]

\* They differ from the value loaded in the pin's own nibble.
LEMMA StoredRow ==
  ASSUME NEW q \in UsedPins, NEW row, MuxRow(pininfo[q].muxreg, row)
  PROVE  /\ MuxRow(pininfo[q].muxreg, Cleared(row, q)) /\ MuxRow(pininfo[q].muxreg, Filled(row, q))
         /\ \A n \in Nibbles :
              /\ Cleared(row, q)[n] = IF n = pininfo[q].nibble THEN {} ELSE row[n]
              /\ Filled(row, q)[n] = IF n = pininfo[q].nibble THEN pininfo[q].muxreg_mode ELSE row[n]
<1> DEFINE i == pininfo[q]
<1>1. i.muxreg \in MuxRegs /\ i.nibble \in Nibbles /\ i.muxreg_mask = Nibbles \ {i.nibble}
  BY UsedHaveInfo, PinCell
<1>2. row[i.nibble] = {} \/ row[i.nibble] = i.muxreg_mode
  <2> SUFFICES ASSUME row[i.nibble] # {} PROVE row[i.nibble] = i.muxreg_mode
    OBVIOUS
  <2>1. PICK p \in UsedPins : /\ pininfo[p].muxreg = i.muxreg /\ pininfo[p].nibble = i.nibble
                              /\ row[i.nibble] = pininfo[p].muxreg_mode
    BY <1>1 DEF MuxRow
  <2>2. p = q
    BY <2>1, UsedApart
  <2> QED  BY <2>1, <2>2
<1>3. DOMAIN row = Nibbles
  BY DEF MuxRow
<1> HIDE DEF i
<1>4. row[i.nibble] \cup i.muxreg_mode = i.muxreg_mode
  BY <1>2
<1>5. /\ DOMAIN Cleared(row, q) = Nibbles /\ DOMAIN Filled(row, q) = Nibbles
      /\ \A n \in Nibbles :
           /\ Cleared(row, q)[n] = IF n = i.nibble THEN {} ELSE row[n]
           /\ Filled(row, q)[n] = IF n = i.nibble THEN i.muxreg_mode ELSE row[n]
  BY <1>1, <1>3, <1>4 DEF Cleared, Filled, i
<1>6. MuxRow(i.muxreg, Cleared(row, q))
  BY <1>5 DEF MuxRow, i
<1>7. MuxRow(i.muxreg, Filled(row, q))
  BY <1>5 DEF MuxRow, i
<1> QED  BY <1>5, <1>6, <1>7 DEF i

\* What a store does to the registers.
LEMMA StoreMuxIs ==
  ASSUME IInv, PartInv, MuxInv, NEW t \in Threads, StoreMux(t)
  PROVE  LET i == Row(t) IN
         /\ Storing(t) /\ Op(t) \in {"and_mux", "or_mux"} /\ Arg(t) \in UsedPins
         /\ Arg(t) \in Switched(call[t])
         /\ i.muxreg \in MuxRegs /\ MuxRow(i.muxreg, latch[t])
         /\ DOMAIN mux' = MuxRegs /\ MuxRow(i.muxreg, mux'[i.muxreg])
         /\ ~(kick[0] /\ kick[1]) => mux' = mux
         /\ \A r \in MuxRegs \ {i.muxreg} : mux'[r] = mux[r]
         /\ kick[0] /\ kick[1] => \A n \in Nibbles :
              mux'[i.muxreg][n] = IF n # i.nibble THEN latch[t][n]
                                  ELSE IF Op(t) = "and_mux" THEN {} ELSE i.muxreg_mode
<1> DEFINE i == Row(t)
           q == Arg(t)
           row == latch[t]
<1>1. Runs(t)
  BY DEF Runs
<1>2. Op(t) \in {"and_mux", "or_mux"}
  BY DEF StoreMux, Step, Op
<1>3. Storing(t) /\ q \in UsedPins /\ q \in Switched(call[t])
  BY <1>1, <1>2, AccessFacts DEF Storing, PinOps
<1>4. MuxRow(i.muxreg, row) /\ i = pininfo[q]
  BY <1>1, <1>3, AccessFacts DEF MuxInv, Row
<1>5. i.muxreg \in MuxRegs
  BY <1>3, UsedHaveInfo, PinCell DEF Row
<1>6. mux' = IF kick[0] /\ kick[1]
             THEN [mux EXCEPT ![i.muxreg] = IF Op(t) = "and_mux" THEN Cleared(row, q) ELSE Filled(row, q)]
             ELSE mux
  BY DEF StoreMux, Cleared, Filled, Row
<1>7. DOMAIN mux = MuxRegs /\ MuxRow(i.muxreg, mux[i.muxreg])
  BY <1>5 DEF MuxInv
<1>8. q \in UsedPins /\ MuxRow(pininfo[q].muxreg, row)
  BY <1>3, <1>4
<1> HIDE DEF i, q, row
<1>9. /\ MuxRow(i.muxreg, Cleared(row, q)) /\ MuxRow(i.muxreg, Filled(row, q))
      /\ \A n \in Nibbles :
           /\ Cleared(row, q)[n] = IF n = i.nibble THEN {} ELSE row[n]
           /\ Filled(row, q)[n] = IF n = i.nibble THEN i.muxreg_mode ELSE row[n]
  BY <1>4, <1>8, StoredRow
<1>10. ASSUME kick[0] /\ kick[1]
       PROVE /\ DOMAIN mux' = MuxRegs
             /\ mux'[i.muxreg] = IF Op(t) = "and_mux" THEN Cleared(row, q) ELSE Filled(row, q)
             /\ \A r \in MuxRegs \ {i.muxreg} : mux'[r] = mux[r]
  BY <1>5, <1>6, <1>7, <1>10
<1>11. ASSUME kick[0] /\ kick[1], NEW n \in Nibbles
       PROVE  mux'[i.muxreg][n] = IF n # i.nibble THEN latch[t][n]
                                  ELSE IF Op(t) = "and_mux" THEN {} ELSE i.muxreg_mode
  <2>1. CASE Op(t) = "and_mux"
    BY <2>1, <1>9, <1>10, <1>11 DEF row
  <2>2. CASE Op(t) # "and_mux"
    BY <2>2, <1>9, <1>10, <1>11 DEF row
  <2> QED  BY <2>1, <2>2
<1>12. DOMAIN mux' = MuxRegs /\ MuxRow(i.muxreg, mux'[i.muxreg])
  BY <1>6, <1>7, <1>9, <1>10
<1>13. \A r \in MuxRegs \ {i.muxreg} : mux'[r] = mux[r]
  BY <1>6, <1>10
<1> QED  BY <1>2, <1>3, <1>4, <1>5, <1>6, <1>11, <1>12, <1>13 DEF i, q, row

\* The multiplexing registers never hold another mode than one of the pins in use.
LEMMA MuxStep ==
  ASSUME IInv, PartInv, MuxInv, NEW t \in Threads, Runs(t)
  PROVE  MuxInv'
<1>0. DOMAIN latch = Threads /\ DOMAIN mux = MuxRegs /\ \A r \in MuxRegs : MuxRow(r, mux[r])
  BY DEF IInv, DirInv, MuxInv
<1>1. CASE StoreMux(t)
  <2>1. DOMAIN mux' = MuxRegs /\ \A r \in MuxRegs : MuxRow(r, mux'[r])
    BY <1>0, <1>1, StoreMuxIs
  <2>2. ASSUME NEW u \in Threads, Storing(u)'
        PROVE  MuxRow(pininfo[code'[u][1].arg].muxreg, latch'[u])
    <3>1. Op(t) # "load_mux"
      BY <1>1, StoreMuxIs
    <3>2. u # t /\ Storing(u) /\ code'[u] = code[u]
      BY <2>2, <3>1, StoringStep
    <3>3. latch'[u] = latch[u]
      BY <1>1, <1>0, <3>2 DEF StoreMux
    <3> QED  BY <3>2, <3>3 DEF MuxInv
  <2> QED  BY <2>1, <2>2 DEF MuxInv
<1>2. CASE ~StoreMux(t)
  <2>1. mux' = mux
    BY <1>2 DEF Runs, Kick, Load, StoreDir, SetClr, Get, Pull, Tx, Rx, regs
  <2>2. ASSUME NEW u \in Threads, Storing(u)'
        PROVE  MuxRow(pininfo[code'[u][1].arg].muxreg, latch'[u])
    <3>1. CASE u # t
      <4>1. Storing(u) /\ code'[u] = code[u]
        BY <2>2, <3>1, StoringStep
      <4>2. latch'[u] = latch[u]
        BY <1>2, <1>0, <3>1 DEF Runs, Kick, Load, StoreDir, SetClr, Get, Pull, Tx, Rx, regs
      <4> QED  BY <4>1, <4>2 DEF MuxInv
    <3>2. CASE u = t
      <4>1. Op(t) = "load_mux" /\ Arg(t) = code'[t][1].arg
        BY <2>2, <3>2, StoringStep
      <4>2. Load(t)
        BY <4>1 DEF Runs, Kick, Load, StoreMux, StoreDir, SetClr, Get, Pull, Tx, Rx, Step, Op
      <4>3. latch'[t] = mux[pininfo[Arg(t)].muxreg]
        BY <1>0, <4>1, <4>2 DEF Load, Row
      <4>4. Arg(t) \in UsedPins
        BY <4>1, AccessFacts DEF PinOps
      <4>5. pininfo[Arg(t)].muxreg \in MuxRegs
        BY <4>4, UsedHaveInfo, PinCell
      <4> QED  BY <1>0, <3>2, <4>1, <4>3, <4>5
    <3> QED  BY <3>1, <3>2
  <2> QED  BY <1>0, <2>1, <2>2 DEF MuxInv
<1> QED  BY <1>1, <1>2

\* After a frame is sent its answer is awaited.
LEMMA TxThenRx ==
  ASSUME NEW k \in AllCalls, NEW c, Part(c, k), c # <<>>, c[1].op = "tx"
  PROVE  Tail(c) # <<>> /\ Tail(c)[1].op = "rx"
<1> DEFINE A == Asked(k)
           d == Tail(c)
<1>1. A \in Seq(Int) /\ Len(A) \in Nat
  BY AskedAre
<1>2. c \in Seq(Access) /\ Talks(c, A)
  BY DEF Part
<1>3. d \in Seq(Access) /\ Talks(d, A) /\ Len(d) = Len(c) - 1
  BY PartTail DEF Part
<1> HIDE DEF A, d
<1>4. PICK m \in 1..Len(A) : Len(c) = 2 * m
  <2>1. c[1] # Acc("rx", 0)
    BY DEF Acc
  <2> QED  BY <1>1, <1>2, <2>1, TalksFirst
<1>5. Len(d) = 2 * m - 1 /\ d # <<>> /\ m \in Nat \ {0}
  BY <1>1, <1>3, <1>4
<1>6. ~(Len(d) > 2 * Len(A)) /\ \A n \in 1..Len(A) : Len(d) # 2 * n
  BY <1>1, <1>5
<1>7. d[1] = Acc("rx", 0)
  BY <1>1, <1>3, <1>5, <1>6, TalksFirst
<1> QED  BY <1>5, <1>7 DEF Acc, d

\* Frames under way.
LEMMA FrameStep ==
  ASSUME IInv, PartInv, FrameInv, NEW t \in Threads, Runs(t)
  PROVE  FrameInv'
<1>1. \A u \in Threads : u # t => Waits(u)' = Waits(u)
  BY AccessFacts DEF Waits, Idle
<1>2. Waits(t) => Op(t) = "rx"
  BY AccessFacts DEF Waits
<1>3. CASE Tx(t)
  <2>1. tx = NoFrame /\ rx' = rx /\ Op(t) = "tx"
    BY <1>3 DEF Tx, Step, Op
  <2>2. Waits(t)'
    <3> DEFINE c == code[t]
               k == call[t]
    <3>1. k \in AllCalls /\ Part(c, k) /\ c # <<>> /\ c[1].op = "tx" /\ code'[t] = Tail(c)
      BY <2>1, AccessFacts
    <3> HIDE DEF c, k
    <3>2. Tail(c) # <<>> /\ Tail(c)[1].op = "rx"
      BY <3>1, TxThenRx
    <3> QED  BY <3>1, <3>2 DEF Waits, Idle
  <2>3. rx # NoFrame => \E u \in Threads : u # t /\ Waits(u)'
    BY <2>1, <1>1, <1>2 DEF FrameInv
  <2> QED  BY <2>1, <2>2, <2>3 DEF FrameInv
<1>4. CASE Rx(t)
  <2>1. rx' = NoFrame /\ tx' = tx /\ rx # NoFrame
    BY <1>4 DEF Rx
  <2>2. tx # NoFrame => \E u \in Threads : u # t /\ Waits(u)'
    BY <2>1, <1>1 DEF FrameInv
  <2> QED  BY <2>1, <2>2 DEF FrameInv
<1>5. CASE ~Tx(t) /\ ~Rx(t)
  <2>1. tx' = tx /\ rx' = rx /\ Op(t) # "rx"
    BY <1>5 DEF Runs, Kick, Load, StoreMux, StoreDir, SetClr, Get, Pull, Step, Op, regs
  <2>2. \A u \in Threads : Waits(u) => Waits(u)'
    BY <2>1, <1>1, <1>2
  <2> QED  BY <2>1, <2>2 DEF FrameInv
<1> QED  BY <1>3, <1>4, <1>5

----------------------------------------------------------------------------
(* Register accesses of a call that nobody disturbs. *)

\* What is known of it.
LEMMA AloneFacts ==
  ASSUME IInv, AInv, NEW t \in Threads, Runs(t), alone[t]
  PROVE  SoFar(t) /\ \A u \in Threads : u # t => Idle(u)
BY AccessFacts DEF AInv, AloneInv

\* An access is made by the action of its kind.
LEMMA ActionOf ==
  ASSUME NEW t, Runs(t)
  PROVE  /\ Op(t) \in {"unlock", "lock"} => Kick(t)
         /\ Op(t) \notin {"unlock", "lock"} => kick' = kick
         /\ Op(t) = "load_mux" => Load(t)
         /\ Op(t) \in {"and_mux", "or_mux"} => StoreMux(t)
         /\ Op(t) \notin {"and_mux", "or_mux"} => mux' = mux
         /\ Op(t) \in {"set", "clr"} => SetClr(t)
         /\ Op(t) \notin {"set", "clr"} => out' = out
         /\ Op(t) = "get" => Get(t)
         /\ Op(t) = "tx" => Tx(t)
         /\ Op(t) = "rx" => Rx(t)
         /\ Op(t) \notin {"get", "rx"} => data' = data
         /\ Op(t) \notin {"tx", "rx"} => tx' = tx /\ rx' = rx
BY DEF Runs, Kick, Load, StoreMux, StoreDir, SetClr, Get, Pull, Tx, Rx, Step, Op, regs

\* The kick registers are open when a multiplexing register is stored.
LEMMA OpenedStep ==
  ASSUME IInv, AInv, NEW t \in Threads, Runs(t), alone[t]
  PROVE  Opened(t)'
<1> DEFINE c == code[t]
           d == Tail(c)
           k == call[t]
           S == {"and_mux", "or_mux"}
<1>1. Part(c, k) /\ c # <<>> /\ code'[t] = d /\ Op(t) = c[1].op /\ Arg(t) = c[1].arg
  BY AccessFacts DEF AInv
<1>2. \A j \in 1..Len(c) : c[j].op \in S => (j < 4 => kick[0]) /\ (j < 3 => kick[1])
  BY AloneFacts DEF SoFar, Opened
<1>3. kick \in [0..1 -> BOOLEAN]
  BY DEF IInv, LockInv
<1>4. c[1].op \in {"unlock", "lock"} => Kick(t)
  BY <1>1, ActionOf
<1>5. c[1].op \notin {"unlock", "lock"} => kick' = kick
  BY <1>1, ActionOf
<1> HIDE DEF c, k
<1>6. /\ Len(d) = Len(c) - 1 /\ Len(c) \in Nat \ {0} /\ SwitchingRest(c)
      /\ \A i \in 1..Len(d) : d[i] = c[i + 1]
  BY <1>1, PartTail DEF Part
<1>7. ASSUME NEW i \in 0..1, c[1] = Acc("unlock", i)
      PROVE  kick'[i] /\ \A n \in 0..1 : kick[n] => kick'[n]
  <2>1. c[1].op = "unlock" /\ c[1].arg = i
    BY <1>7 DEF Acc
  <2>2. Kick(t)
    BY <1>4, <2>1
  <2>3. kick' = [kick EXCEPT ![i] = (Op(t) = "unlock")] /\ Op(t) = "unlock"
    BY <1>1, <2>1, <2>2 DEF Kick
  <2>4. kick' \in [0..1 -> BOOLEAN] /\ \A n \in 0..1 : kick'[n] = IF n = i THEN (Op(t) = "unlock") ELSE kick[n]
    BY <1>3, <2>3
  <2> QED  BY <2>3, <2>4
<1>8. \A a : c[1] = Acc("load_mux", a) => kick' = kick
  BY <1>5 DEF Acc
<1> HIDE DEF d
<1> SUFFICES ASSUME NEW j \in 1..Len(d), d[j].op \in S
             PROVE  (j < 4 => kick'[0]) /\ (j < 3 => kick'[1])
  BY <1>1 DEF Opened
<1> DEFINE m == j + 1
<1>9. d[j] = c[m] /\ m \in 1..Len(c) /\ m > 1 /\ j \in Nat /\ c[m].op \in S
  BY <1>6
<1>10. /\ c[m].op = "and_mux" =>
            /\ m > 3 => c[m - 3] = Acc("unlock", 0)
            /\ m > 2 => c[m - 2] = Acc("unlock", 1)
            /\ m > 1 => c[m - 1] = Acc("load_mux", c[m].arg)
       /\ c[m].op = "or_mux" =>
            /\ m > 2 => c[m - 2] = Acc("and_mux", c[m].arg)
            /\ m > 1 => c[m - 1] = Acc("load_mux", c[m].arg)
  BY <1>6, <1>9 DEF SwitchingRest
<1>11. (m < 4 => kick[0]) /\ (m < 3 => kick[1])
  BY <1>2, <1>9
<1>12. CASE j = 1
  <2>1. m = 2 /\ m - 1 = 1
    BY <1>12
  <2>2. kick' = kick
    BY <1>8, <1>9, <1>10, <2>1
  <2> QED  BY <2>1, <2>2, <1>11
<1>13. CASE j = 2
  <2>1. m = 3 /\ m - 2 = 1 /\ m > 2
    BY <1>13
  <2>2. CASE c[m].op = "and_mux"
    <3>1. c[1] = Acc("unlock", 1)
      BY <1>10, <2>1, <2>2
    <3> QED  BY <1>7, <1>11, <2>1, <3>1
  <2>3. CASE c[m].op = "or_mux"
    <3>1. c[1] = Acc("and_mux", c[m].arg)
      BY <1>10, <2>1, <2>3
    <3>2. c[1].op = "and_mux"
      BY <3>1 DEF Acc
    <3>3. kick' = kick /\ kick[0] /\ kick[1]
      BY <1>2, <1>5, <1>6, <3>2
    <3> QED  BY <3>3
  <2> QED  BY <1>9, <2>2, <2>3
<1>14. CASE j = 3
  <2>1. m = 4 /\ m - 3 = 1 /\ m > 3 /\ m - 2 = 2 /\ m > 2
    BY <1>14
  <2>2. CASE c[m].op = "and_mux"
    <3>1. c[1] = Acc("unlock", 0)
      BY <1>10, <2>1, <2>2
    <3> QED  BY <1>7, <1>14, <3>1
  <2>3. CASE c[m].op = "or_mux"
    <3>1. c[2] = Acc("and_mux", c[m].arg) /\ 2 \in 1..Len(c) /\ 2 > 1 /\ 2 - 1 = 1
      BY <1>6, <1>9, <1>10, <2>1, <2>3
    <3>2. c[2].op = "and_mux"
      BY <3>1 DEF Acc
    <3>3. c[1] = Acc("load_mux", c[2].arg)
      BY <1>6, <3>1, <3>2 DEF SwitchingRest
    <3>4. kick' = kick /\ kick[0]
      BY <1>2, <1>8, <3>1, <3>2, <3>3
    <3> QED  BY <1>14, <3>4
  <2> QED  BY <1>9, <2>2, <2>3
<1>15. CASE j > 3
  BY <1>9, <1>15
<1> QED  BY <1>9, <1>12, <1>13, <1>14, <1>15

\* What is stored is what was loaded.
LEMMA LoadedStep ==
  ASSUME IInv, AInv, NEW t \in Threads, Runs(t), alone[t]
  PROVE  Loaded(t)'
<1> SUFFICES ASSUME Storing(t)' PROVE latch'[t] = mux'[pininfo[code'[t][1].arg].muxreg]
  BY DEF Loaded
<1>1. Op(t) = "load_mux" /\ Arg(t) = code'[t][1].arg
  BY StoringStep DEF AInv
<1>2. Load(t) /\ mux' = mux
  BY <1>1, ActionOf
<1>3. DOMAIN latch = Threads
  BY DEF IInv, DirInv
<1> QED  BY <1>1, <1>2, <1>3 DEF Load, Row

\* So a store changes the pin's own nibble, to nothing or to the pin's function.
LEMMA StoreAlone ==
  ASSUME IInv, AInv, NEW t \in Threads, StoreMux(t), alone[t], NEW r \in MuxRegs, NEW n \in Nibbles
  PROVE  LET i == Row(t) IN
         mux'[r][n] = IF r = i.muxreg /\ n = i.nibble
                      THEN IF Op(t) = "and_mux" THEN {} ELSE i.muxreg_mode
                      ELSE mux[r][n]
<1>1. Runs(t)
  BY DEF Runs
<1>2. Storing(t) /\ Op(t) \in {"and_mux", "or_mux"} /\ Op(t) = code[t][1].op /\ Arg(t) = code[t][1].arg
  BY <1>1, StoreMuxIs, AccessFacts DEF AInv
<1>3. 1 \in 1..Len(code[t])
  BY <1>1, AccessFacts DEF AInv, Part
<1>4. kick[0] /\ kick[1]
  BY <1>1, <1>2, <1>3, AloneFacts DEF SoFar, Opened
<1>5. latch[t] = mux[Row(t).muxreg]
  BY <1>1, <1>2, AloneFacts DEF SoFar, Loaded, Row
<1>6. /\ \A s \in MuxRegs \ {Row(t).muxreg} : mux'[s] = mux[s]
      /\ \A m \in Nibbles :
              mux'[Row(t).muxreg][m] = IF m # Row(t).nibble THEN latch[t][m]
                                  ELSE IF Op(t) = "and_mux" THEN {} ELSE Row(t).muxreg_mode
  BY <1>4, StoreMuxIs DEF AInv
<1>7. CASE r = Row(t).muxreg
  BY <1>5, <1>6, <1>7
<1>8. CASE r # Row(t).muxreg
  BY <1>6, <1>8
<1> QED  BY <1>7, <1>8

\* Pins keep the function they have been switched to.
LEMMA SwitchedStep ==
  ASSUME IInv, AInv, NEW t \in Threads, Runs(t), alone[t]
  PROVE  SwitchedSoFar(t)'
<1> DEFINE c == code[t]
           k == call[t]
<1>1. /\ Part(c, k) /\ c # <<>> /\ code'[t] = Tail(c) /\ Op(t) = c[1].op /\ Arg(t) = c[1].arg
      /\ call' = call /\ k \in AllCalls
  BY AccessFacts DEF AInv
<1> SUFFICES ASSUME NEW p \in Switched(k) PROVE Has(Tail(c), Acc("or_mux", p)) \/ Muxed(p)'
  BY <1>1 DEF SwitchedSoFar
<1>2. Has(c, Acc("or_mux", p)) \/ Muxed(p)
  BY AloneFacts DEF SoFar, SwitchedSoFar
<1>3. p \in UsedPins
  BY <1>1, AllCallPins
<1>4. pininfo[p].muxreg \in MuxRegs /\ pininfo[p].nibble \in Nibbles
  BY <1>3, UsedHaveInfo, PinCell
<1> HIDE DEF c, k
<1>5. /\ c[1].op = "and_mux" => Has(Tail(c), Acc("or_mux", c[1].arg))
      /\ Has(c, Acc("or_mux", p)) => c[1] = Acc("or_mux", p) \/ Has(Tail(c), Acc("or_mux", p))
  BY <1>1, PartTail
<1>6. CASE StoreMux(t)
  <2>1. Arg(t) \in UsedPins /\ Op(t) \in {"and_mux", "or_mux"}
    BY <1>6, StoreMuxIs DEF AInv
  <2>2. mux'[pininfo[p].muxreg][pininfo[p].nibble] =
          IF pininfo[p].muxreg = pininfo[Arg(t)].muxreg /\ pininfo[p].nibble = pininfo[Arg(t)].nibble
          THEN IF Op(t) = "and_mux" THEN {} ELSE pininfo[Arg(t)].muxreg_mode
          ELSE mux[pininfo[p].muxreg][pininfo[p].nibble]
    BY <1>4, <1>6, StoreAlone DEF Row
  <2>3. CASE Arg(t) = p
    BY <1>1, <1>5, <2>1, <2>2, <2>3 DEF Muxed
  <2>4. CASE Arg(t) # p
    <3>1. mux'[pininfo[p].muxreg][pininfo[p].nibble] = mux[pininfo[p].muxreg][pininfo[p].nibble]
      BY <1>3, <2>1, <2>2, <2>4, UsedApart
    <3>2. c[1] # Acc("or_mux", p)
      BY <1>1, <2>4 DEF Acc
    <3> QED  BY <1>2, <1>5, <3>1, <3>2 DEF Muxed
  <2> QED  BY <2>3, <2>4
<1>7. CASE ~StoreMux(t)
  <2>1. mux' = mux /\ c[1].op \notin {"and_mux", "or_mux"}
    BY <1>1, <1>7, ActionOf
  <2>2. c[1] # Acc("or_mux", p)
    BY <2>1 DEF Acc
  <2> QED  BY <1>2, <1>5, <2>1, <2>2 DEF Muxed
<1> QED  BY <1>6, <1>7

\* Levels.
LEMMA LevelAlone ==
  ASSUME IInv, AInv, NEW t \in Threads, Runs(t), alone[t]
  PROVE  LevelSoFar(t)'
<1>1. call' = call
  BY AccessFacts DEF AInv
<1>2. PICK ops : Step(t, ops)
  BY DEF Runs, Kick, Load, StoreMux, StoreDir, SetClr, Get, Pull, Tx, Rx
<1>3. SetClr(t) \/ (out' = out /\ Op(t) \notin {"set", "clr"})
  BY ActionOf
<1>4. LevelSoFar(t)
  BY AloneFacts DEF SoFar
<1>5. ASSUME NEW p \in Outputs(call[t])
      PROVE  \/ Level(code'[t], p, Wanted(call[t], p))
             \/ Steady(code'[t], p, Wanted(call[t], p)) /\ (p \in out' <=> p \in High(call[t]))
  BY <1>2, <1>3, <1>4, LevelOwn DEF LevelSoFar
<1> QED  BY <1>1, <1>5 DEF LevelSoFar

\* Directions.
LEMMA OutStep ==
  ASSUME IInv, AInv, NEW t \in Threads, Runs(t), alone[t]
  PROVE  OutSoFar(t)'
<1> DEFINE c == code[t]
           k == call[t]
<1>1. /\ c # <<>> /\ code'[t] = Tail(c) /\ Op(t) = c[1].op /\ Arg(t) = c[1].arg /\ call' = call
  BY AccessFacts DEF AInv
<1>2. dir' = IF Op(t) = "dir_out" THEN dir \ {Arg(t)} ELSE dir
  BY RunsInv
<1>3. \A p \in Outputs(k) : MakesOut(c, p) \/ p \notin dir
  BY AloneFacts DEF SoFar, OutSoFar
<1>4. Rest(c, OutPins, InPins)
  BY ThreadRest
<1> HIDE DEF c
<1>5. \A p : MakesOut(c, p) => c[1] = Acc("dir_out", p) \/ MakesOut(Tail(c), p)
  BY <1>1, <1>4, RestTail
<1>6. \A p : c[1] = Acc("dir_out", p) => p \notin dir'
  BY <1>1, <1>2 DEF Acc
<1>7. \A p \in Outputs(k) : MakesOut(Tail(c), p) \/ p \notin dir'
  BY <1>2, <1>3, <1>5, <1>6
<1> QED  BY <1>1, <1>7 DEF OutSoFar, c

\* No two buttons share a pin.
LEMMA ButtonsApart ==
  ASSUME NEW a \in 0..5, NEW b \in 0..5, buttons[b + 1] = buttons[a + 1]
  PROVE  a = b
<1>1. /\ buttons[1] = 102 /\ buttons[2] = 124 /\ buttons[3] = 127
      /\ buttons[4] = 126 /\ buttons[5] = 29 /\ buttons[6] = 106
  BY DEF buttons, GPIO_PIN
<1>2. /\ a \in {0, 1, 2, 3, 4, 5} /\ b \in {0, 1, 2, 3, 4, 5}
  OBVIOUS
<1>3. \A x \in {0, 1, 2, 3, 4, 5} :
        buttons[x + 1] = IF x = 0 THEN 102 ELSE IF x = 1 THEN 124 ELSE IF x = 2 THEN 127
                         ELSE IF x = 3 THEN 126 ELSE IF x = 4 THEN 29 ELSE 106
  BY <1>1
<1> QED  BY <1>2, <1>3

\* Appending to nothing.
LEMMA AppendIs ==
  ASSUME NEW e
  PROVE  Append(<<>>, e) = <<e>>
OBVIOUS

\* A button is read once its pin is switched.
LEMMA ButtonStep ==
  ASSUME IInv, AInv, NEW t \in Threads, Runs(t), alone[t], call[t].fn = "button_get_state"
  PROVE  data'[t] = IF Idle(t)' THEN Answers(call[t]) ELSE <<>>
<1> DEFINE c == code[t]
           k == call[t]
<1>1. /\ Part(c, k) /\ c # <<>> /\ code'[t] = Tail(c) /\ Op(t) = c[1].op /\ Arg(t) = c[1].arg
      /\ call' = call /\ k \in AllCalls /\ ~Idle(t)
  BY AccessFacts DEF AInv
<1>2. data[t] = <<>> /\ DOMAIN data = Threads
  BY <1>1, AloneFacts DEF SoFar, AInv, AloneInv
<1>3. SwitchedSoFar(t)
  BY AloneFacts DEF SoFar
<1>4. k.fn = "button_get_state"
  OBVIOUS
<1>5. Idle(t)' <=> Tail(c) = <<>>
  BY <1>1 DEF Idle
<1>6. k \in DriverCalls /\ k.a \in 0..5
  <2>1. \A f \in Constructors : Call(f, 0, 0).fn # "button_get_state"
    BY DEF Call, Constructors
  <2>2. k \in DriverCalls
    BY <1>1, <1>4, <2>1 DEF AllCalls
  <2> QED  BY <1>4, <2>2 DEF DriverCalls
<1>7. Pressed \subseteq 0..5
  BY Ev3ConstantsOK
<1>8. Asked(k) = <<>>
  BY <1>4 DEF Asked
<1>9. SwitchedSoFar(t) = \A p \in Switched(k) : Has(c, Acc("or_mux", p)) \/ Muxed(p)
  BY DEF SwitchedSoFar
<1> HIDE DEF c, k
<1>10. /\ c \in Seq(Access) /\ Len(c) \in Nat \ {0} /\ 1 \in 1..Len(c)
       /\ Tail(c) = <<>> <=> Len(c) = 1
  <2>1. c \in Seq(Access) /\ Len(c) \in Nat \ {0}
    BY <1>1 DEF Part
  <2>2. Tail(c) \in Seq(Access) /\ Len(Tail(c)) = Len(c) - 1
    BY <1>1, PartTail
  <2> DEFINE d == Tail(c)
  <2> HIDE DEF d
  <2>3. d \in Seq(Access) /\ Len(d) = Len(c) - 1
    BY <2>2 DEF d
  <2>4. d = <<>> <=> Len(d) = 0
    BY <2>3, EmptySeq
  <2>5. d = <<>> <=> Len(c) = 1
    BY <2>1, <2>3, <2>4
  <2> QED  BY <2>1, <2>5 DEF d
<1>11. c[1].op \notin {"tx", "rx"}
  <2>1. Talks(c, <<>>)
    BY <1>1, <1>8 DEF Part
  <2>2. Len(<<>>) = 0 /\ ~(Len(c) - 1 < 2 * 0)
    BY <1>10
  <2> QED  BY <1>10, <2>1, <2>2 DEF Talks
<1>12. /\ c[1].op = "get" => Len(c) = 1
       /\ c[Len(c)] = Acc("get", buttons[k.a + 1])
  BY <1>1, <1>4, <1>10 DEF Part, Gets
<1>13. Acc("get", buttons[k.a + 1]).op = "get" /\ Acc("get", buttons[k.a + 1]).arg = buttons[k.a + 1]
  BY DEF Acc
<1>14. CASE c[1].op = "get"
  <2>1. Len(c) = 1 /\ c[1] = Acc("get", buttons[k.a + 1]) /\ Arg(t) = buttons[k.a + 1]
    BY <1>1, <1>12, <1>13, <1>14
  <2>2. Get(t)
    BY <1>1, <1>14, ActionOf
  <2>3. buttons[k.a + 1] \in Switched(k)
    BY <1>4 DEF Switched, Inputs
  <2>4. ~Has(c, Acc("or_mux", buttons[k.a + 1]))
    <3>1. \A i \in 1..Len(c) : i = 1
      BY <2>1
    <3>2. c[1] # Acc("or_mux", buttons[k.a + 1])
      BY <1>14 DEF Acc
    <3> QED  BY <3>1, <3>2 DEF Has
  <2>5. Muxed(Arg(t))
    BY <1>3, <1>9, <2>1, <2>3, <2>4
  <2>6. PICK level \in BOOLEAN : /\ level = (\E b \in Pressed : buttons[b + 1] = Arg(t))
                                 /\ data' = [data EXCEPT ![t] = Append(@, level)]
    BY <2>2, <2>5 DEF Get
  <2>7. (\E b \in Pressed : buttons[b + 1] = buttons[k.a + 1]) <=> k.a \in Pressed
    BY <1>6, <1>7, ButtonsApart
  <2>8. data'[t] = <<level>>
    <3>1. data'[t] = Append(<<>>, level)
      BY <1>2, <2>6
    <3> QED  BY <3>1, AppendIs
  <2>9. level = (k.a \in Pressed)
    <3>1. level <=> k.a \in Pressed
      BY <2>1, <2>6, <2>7
    <3> QED  BY <3>1
  <2>10. Answers(k) = <<k.a \in Pressed>>
    BY <1>4 DEF Answers
  <2> QED  BY <1>5, <1>10, <2>1, <2>8, <2>9, <2>10 DEF k
<1>15. CASE c[1].op # "get"
  <2>1. data' = data
    BY <1>1, <1>11, <1>15, ActionOf
  <2>2. Tail(c) # <<>>
    BY <1>10, <1>12, <1>13, <1>15
  <2> QED  BY <1>2, <1>5, <2>1, <2>2
<1> QED  BY <1>14, <1>15

\* The answers are those of the channels asked, in their order.
LEMMA ToldStep ==
  ASSUME IInv, AInv, NEW t \in Threads, Runs(t), alone[t], call[t].fn # "button_get_state"
  PROVE  Told(t)'
<1> DEFINE c == code[t]
           k == call[t]
           d == Tail(c)
           A == Asked(k)
           x == data[t]
           y == data'[t]
<1>1. /\ Part(c, k) /\ c # <<>> /\ code'[t] = d /\ Op(t) = c[1].op /\ Arg(t) = c[1].arg
      /\ call' = call /\ k \in AllCalls /\ ~Idle(t)
  BY AccessFacts DEF AInv
<1>2. Told(t) /\ DOMAIN data = Threads
  BY AloneFacts DEF SoFar, AInv, AloneInv
<1>3. A \in Seq(Int) /\ Len(A) \in Nat
  BY <1>1, AskedAre
<1>4. /\ x \in Seq(Int) /\ Len(x) \in Nat
      /\ Len(x) <= Len(A) /\ \A i \in 1..Len(x) : x[i] = A[i]
  BY <1>2 DEF Told
<1>5. IF Len(c) >= 2 * Len(A) THEN Len(x) = 0
      ELSE Len(c) \in {2 * (Len(A) - Len(x)), 2 * (Len(A) - Len(x)) - 1}
  BY <1>2 DEF Told
<1>6. c[1].op = "rx" => (tx = A[Len(x) + 1] /\ rx = NoFrame) \/ (tx = NoFrame /\ rx = A[Len(x) + 1])
  BY <1>1, <1>2 DEF Told, Waits
<1>7. c \in Seq(Access) /\ Talks(c, A) /\ Len(c) \in Nat
  BY <1>1 DEF Part
<1>8. c[1].op # "get"
  <2>1. 1 \in 1..Len(c)
    BY <1>1, <1>7
  <2> QED  BY <1>1, <2>1 DEF Part, Gets
<1>9. c[1].op # "rx" => rx = NoFrame \/ c[1].op # "tx"
  <2> SUFFICES ASSUME c[1].op = "tx", rx # NoFrame PROVE FALSE
    OBVIOUS
  <2>1. PICK u \in Threads : Waits(u)
    BY DEF AInv, FrameInv
  <2>2. u # t
    BY <2>1 DEF Waits
  <2> QED  BY <2>1, <2>2, AloneFacts DEF Waits
<1> SUFFICES /\ y \in Seq(Int) /\ Len(y) <= Len(A) /\ \A i \in 1..Len(y) : y[i] = A[i]
             /\ IF Len(d) >= 2 * Len(A) THEN Len(y) = 0
                ELSE Len(d) \in {2 * (Len(A) - Len(y)), 2 * (Len(A) - Len(y)) - 1}
             /\ d # <<>> /\ d[1].op = "rx" =>
                  /\ Len(y) < Len(A)
                  /\ (tx' = A[Len(y) + 1] /\ rx' = NoFrame) \/ (tx' = NoFrame /\ rx' = A[Len(y) + 1])
  BY <1>1 DEF Told, Waits, Idle
<1> HIDE DEF c, k
<1>10. d \in Seq(Access) /\ Talks(d, A) /\ Len(d) = Len(c) - 1 /\ Len(d) \in Nat
  BY <1>1, PartTail DEF Part, A
<1>11. Acc("rx", 0).op = "rx" /\ \A a : Acc("tx", a).op = "tx" /\ Acc("tx", a).arg = a
  BY DEF Acc
<1>12. Op(t) \notin {"get", "rx"} => y = x
  BY ActionOf
<1> HIDE DEF d, A, x, y
<1>13. d # <<>> /\ d[1].op = "rx" => \E m \in 1..Len(A) : Len(d) = 2 * m - 1
  BY <1>3, <1>10, <1>11, TalksFirst
<1>14. CASE Len(c) > 2 * Len(A) /\ c[1].op \notin {"tx", "rx"}
  <2>1. y = x
    BY <1>1, <1>8, <1>12, <1>14
  <2>2. Len(x) = 0 /\ Len(d) >= 2 * Len(A)
    BY <1>3, <1>5, <1>7, <1>10, <1>14
  <2>3. ~(d # <<>> /\ d[1].op = "rx")
    BY <1>3, <1>13, <2>2
  <2> QED  BY <1>4, <2>1, <2>2, <2>3
<1>15. ASSUME NEW m \in 1..Len(A), Len(c) = 2 * m, c[1] = Acc("tx", A[Len(A) - m + 1])
       PROVE  /\ y = x /\ Len(x) = Len(A) - m /\ tx' = A[Len(x) + 1] /\ rx' = NoFrame
  <2>1. c[1].op = "tx" /\ Arg(t) = A[Len(A) - m + 1]
    BY <1>1, <1>11, <1>15
  <2>2. Len(x) = Len(A) - m
    <3>1. CASE Len(c) >= 2 * Len(A)
      BY <1>3, <1>5, <1>15, <3>1
    <3>2. CASE ~(Len(c) >= 2 * Len(A))
      BY <1>3, <1>4, <1>5, <1>15, <3>2
    <3> QED  BY <3>1, <3>2
  <2>3. Tx(t)
    BY <1>1, <2>1, ActionOf
  <2>4. tx' = A[Len(A) - m + 1] /\ rx' = rx /\ rx = NoFrame
    BY <1>9, <2>1, <2>3 DEF Tx
  <2> QED  BY <1>1, <1>12, <2>1, <2>2, <2>4
<1>16. ASSUME NEW m \in 1..Len(A), Len(c) = 2 * m - 1, c[1] = Acc("rx", 0)
       PROVE  Len(x) = Len(A) - m /\ y = Append(x, A[Len(x) + 1])
  <2>1. Len(x) = Len(A) - m
    BY <1>3, <1>4, <1>5, <1>16
  <2>2. c[1].op = "rx"
    BY <1>11, <1>16
  <2>3. Rx(t)
    BY <1>1, <2>2, ActionOf
  <2>4. rx # NoFrame /\ y = Append(x, rx)
    BY <1>2, <2>3 DEF Rx, x, y
  <2>5. rx = A[Len(x) + 1]
    BY <1>6, <2>2, <2>4
  <2> QED  BY <2>1, <2>4, <2>5
<1>17. CASE \E m \in 1..Len(A) : Len(c) = 2 * m /\ c[1] = Acc("tx", A[Len(A) - m + 1])
  <2>1. PICK m \in 1..Len(A) : Len(c) = 2 * m /\ c[1] = Acc("tx", A[Len(A) - m + 1])
    BY <1>17
  <2>2. y = x /\ Len(x) = Len(A) - m /\ tx' = A[Len(x) + 1] /\ rx' = NoFrame
    BY <1>15, <2>1
  <2>3. ~(Len(d) >= 2 * Len(A)) /\ Len(d) = 2 * (Len(A) - Len(x)) - 1 /\ Len(x) < Len(A)
    BY <1>3, <1>10, <2>1, <2>2
  <2> QED  BY <1>4, <2>2, <2>3
<1>18. CASE \E m \in 1..Len(A) : Len(c) = 2 * m - 1 /\ c[1] = Acc("rx", 0)
  <2>1. PICK m \in 1..Len(A) : Len(c) = 2 * m - 1 /\ c[1] = Acc("rx", 0)
    BY <1>18
  <2>2. Len(x) = Len(A) - m /\ y = Append(x, A[Len(x) + 1])
    BY <1>16, <2>1
  <2>3. Len(x) + 1 \in 1..Len(A) /\ A[Len(x) + 1] \in Int
    BY <1>3, <2>2
  <2>4. /\ y \in Seq(Int) /\ Len(y) = Len(x) + 1 /\ y[Len(x) + 1] = A[Len(x) + 1]
        /\ \A i \in 1..Len(x) : y[i] = x[i]
    <3> DEFINE e == A[Len(x) + 1]
    <3> HIDE DEF e
    <3>1. x \in Seq(Int) /\ e \in Int /\ y = Append(x, e)
      BY <1>4, <2>2, <2>3 DEF e
    <3>2. /\ y \in Seq(Int) /\ Len(y) = Len(x) + 1 /\ y[Len(x) + 1] = e
          /\ \A i \in 1..Len(x) : y[i] = x[i]
      BY <3>1, AppendProperties
    <3> QED  BY <3>2 DEF e
  <2>5. \A i \in 1..Len(y) : y[i] = A[i]
    <3> TAKE i \in 1..Len(y)
    <3>1. i \in 1..Len(x) \/ i = Len(x) + 1
      BY <1>4, <2>4
    <3> QED  BY <1>4, <2>4, <3>1
  <2>6. ~(Len(d) >= 2 * Len(A)) /\ Len(d) = 2 * (Len(A) - Len(y)) /\ Len(y) <= Len(A)
    BY <1>3, <1>10, <2>1, <2>2, <2>4
  <2>7. ~(d # <<>> /\ d[1].op = "rx")
    BY <1>3, <1>4, <1>13, <2>4, <2>6
  <2> QED  BY <2>4, <2>5, <2>6, <2>7
<1> QED  BY <1>1, <1>3, <1>7, <1>14, <1>17, <1>18, TalksFirst

\* A call that nobody disturbs goes on as it is to.
LEMMA SoFarStep ==
  ASSUME IInv, AInv, NEW t \in Threads, Runs(t), alone[t]
  PROVE  SoFar(t)'
<1>1. call' = call
  BY AccessFacts DEF AInv
<1>2. Opened(t)' /\ Loaded(t)' /\ SwitchedSoFar(t)' /\ LevelSoFar(t)' /\ OutSoFar(t)'
  BY OpenedStep, LoadedStep, SwitchedStep, LevelAlone, OutStep
<1>3. CASE call[t].fn = "button_get_state"
  BY <1>1, <1>2, <1>3, ButtonStep DEF SoFar
<1>4. CASE call[t].fn # "button_get_state"
  BY <1>1, <1>2, <1>4, ToldStep DEF SoFar
<1> QED  BY <1>3, <1>4

\* Every access keeps the invariant.
LEMMA RunsAlone ==
  ASSUME IInv, AInv, NEW t \in Threads, Runs(t)
  PROVE  AInv'
<1>1. /\ alone' = alone /\ ~Idle(t) /\ \A u \in Threads : u # t => code'[u] = code[u]
      /\ PartInv'
  BY AccessFacts DEF AInv
<1>2. MuxInv' /\ FrameInv'
  BY MuxStep, FrameStep DEF AInv
<1>3. DOMAIN alone = Threads /\ DOMAIN data = Threads
  BY DEF AInv, AloneInv
<1>4. DOMAIN data' = Threads
  BY <1>3 DEF Runs, Kick, Load, StoreMux, StoreDir, SetClr, Get, Pull, Tx, Rx
<1>5. ASSUME NEW u \in Threads, alone'[u], ~Idle(u)'
      PROVE  SoFar(u)' /\ \A v \in Threads : v # u => Idle(v)'
  <2>1. u = t
    <3> SUFFICES ASSUME u # t PROVE FALSE
      OBVIOUS
    <3>1. alone[u] /\ ~Idle(u)
      BY <1>1, <1>5 DEF Idle
    <3> QED  BY <1>1, <3>1 DEF AInv, AloneInv
  <2>2. SoFar(t)' /\ \A v \in Threads : v # t => Idle(v)
    BY <1>1, <1>5, <2>1, SoFarStep, AloneFacts
  <2> QED  BY <1>1, <2>1, <2>2 DEF Idle
<1> QED  BY <1>1, <1>2, <1>3, <1>4, <1>5 DEF AInv, AloneInv

----------------------------------------------------------------------------
(* The other steps, and the theorems. *)

\* A call begins.
LEMMA BeginAlone ==
  ASSUME IInv, AInv, NEW t \in Threads, NEW k \in AllCalls, Begin(t, k),
         \A p \in Outputs(k) : MakesOut(CodeOf(k), p) \/ p \notin dir
  PROVE  AInv'
<1> DEFINE c == CodeOf(k)
<1>1. /\ DOMAIN code = Threads /\ DOMAIN call = Threads /\ DOMAIN data = Threads
      /\ DOMAIN alone = Threads
  BY DEF IInv, CallInv, AInv, AloneInv
<1> HIDE DEF c
<1>2. /\ code'[t] = c /\ call'[t] = k /\ data'[t] = <<>> /\ DOMAIN data' = Threads /\ DOMAIN alone' = Threads
      /\ \A u \in Threads : u # t => code'[u] = code[u] /\ call'[u] = call[u]
      /\ kick' = kick /\ mux' = mux /\ dir' = dir /\ tx' = tx /\ rx' = rx /\ latch' = latch
  BY <1>1 DEF Begin, regs, c
<1>3. Idle(t)
  BY DEF Begin
<1>4. \A u \in Threads : u # t => Idle(u)' = Idle(u)
  BY <1>2 DEF Idle
<1>5. \A u \in Threads \ {t} : alone'[u] => Idle(u)
  BY DEF Begin
<1>6. alone'[t] => \A u \in Threads : Idle(u)
  BY DEF Begin
<1>7. Program(c, k)
  BY AllPrograms DEF c
<1>8. Part(c, k) /\ Switching(c) /\ Len(c) >= 2 * Len(Asked(k)) /\ c \in Seq(Access) /\ Len(c) \in Nat
  BY <1>7 DEF Program, Whole, Part
<1>9. ASSUME NEW j \in 1..Len(c), c[j].op \in {"and_mux", "or_mux"} PROVE j > 3
  <2>1. CASE c[j].op = "and_mux"
    BY <1>8, <2>1 DEF Switching
  <2>2. CASE c[j].op = "or_mux"
    <3>1. j > 2 /\ c[j - 2] = Acc("and_mux", c[j].arg)
      BY <1>8, <2>2 DEF Switching
    <3>2. j - 2 \in 1..Len(c) /\ c[j - 2].op = "and_mux"
      BY <1>8, <3>1 DEF Acc
    <3>3. j - 2 > 3
      BY <1>8, <3>2 DEF Switching
    <3> QED  BY <1>8, <3>3
  <2> QED  BY <1>9, <2>1, <2>2
<1>10. \A u \in Threads : Storing(u)' => u # t /\ Storing(u) /\ code'[u] = code[u]
  <2> SUFFICES ASSUME NEW u \in Threads, Storing(u)' PROVE u # t /\ Storing(u) /\ code'[u] = code[u]
    OBVIOUS
  <2>1. u # t
    <3> SUFFICES ASSUME u = t PROVE FALSE
      OBVIOUS
    <3>1. c # <<>> /\ c[1].op \in {"and_mux", "or_mux"}
      BY <1>2 DEF Storing, Idle
    <3>2. 1 \in 1..Len(c)
      BY <1>8, <3>1
    <3> QED  BY <1>9, <3>1, <3>2
  <2> QED  BY <1>2, <2>1 DEF Storing, Idle
<1>11. MuxInv'
  BY <1>2, <1>10 DEF AInv, MuxInv
<1>12. PartInv'
  BY <1>2, <1>4, <1>8 DEF AInv, PartInv
<1>13. FrameInv'
  <2>1. \A u \in Threads : Waits(u) => Waits(u)'
    BY <1>2, <1>3 DEF Waits, Idle
  <2> QED  BY <1>2, <2>1 DEF AInv, FrameInv
<1>14. ASSUME alone'[t], ~Idle(t)' PROVE SoFar(t)'
  <2>1. Opened(t)'
    BY <1>2, <1>8, <1>9 DEF Opened
  <2>2. Loaded(t)'
    BY <1>10 DEF Loaded
  <2>3. SwitchedSoFar(t)'
    BY <1>2, <1>7 DEF SwitchedSoFar, Program
  <2>4. LevelSoFar(t)'
    BY <1>2, <1>7 DEF LevelSoFar, Program
  <2>5. OutSoFar(t)'
    BY <1>2 DEF OutSoFar, c
  <2>6. CASE k.fn = "button_get_state"
    BY <1>2, <1>14, <2>1, <2>2, <2>3, <2>4, <2>5, <2>6 DEF SoFar
  <2>7. CASE k.fn # "button_get_state"
    <3> DEFINE A == Asked(k)
    <3>1. A \in Seq(Int) /\ Len(A) \in Nat /\ Len(c) >= 2 * Len(A) /\ Talks(c, A)
      BY <1>8, AskedAre DEF Part
    <3>2. c # <<>>
      BY <1>2, <1>14 DEF Idle
    <3>3. Acc("rx", 0).op = "rx" /\ \A a : Acc("tx", a).op # "rx"
      BY DEF Acc
    <3> HIDE DEF A
    <3>4. \A m \in 1..Len(A) : Len(c) # 2 * m - 1
      BY <3>1
    <3>5. c[1].op # "rx"
      BY <1>8, <3>1, <3>2, <3>3, <3>4, TalksFirst
    <3>6. ~Waits(t)'
      BY <1>2, <3>5 DEF Waits
    <3>7. <<>> \in Seq(Int) /\ Len(<<>>) = 0
      OBVIOUS
    <3>8. Told(t)'
      BY <1>2, <3>1, <3>6, <3>7 DEF Told, A
    <3> QED  BY <1>2, <2>1, <2>2, <2>3, <2>4, <2>5, <2>7, <3>8 DEF SoFar
  <2> QED  BY <2>6, <2>7
<1>15. AloneInv'
  BY <1>2, <1>4, <1>5, <1>6, <1>14 DEF AloneInv
<1> QED  BY <1>11, <1>12, <1>13, <1>15 DEF AInv

\* The SPI exchanges a frame.
LEMMA TransferAlone ==
  ASSUME IInv, AInv, Transfer
  PROVE  AInv'
<1>1. /\ call' = call /\ code' = code /\ kick' = kick /\ mux' = mux /\ dir' = dir /\ out' = out /\ latch' = latch
      /\ data' = data /\ alone' = alone /\ tx # NoFrame /\ rx' = tx /\ tx' = NoFrame
  BY DEF Transfer
<1>2. MuxInv'
  BY <1>1 DEF AInv, MuxInv, Storing, Idle
<1>3. PartInv'
  BY <1>1 DEF AInv, PartInv, Idle
<1>4. FrameInv'
  BY <1>1 DEF AInv, FrameInv, Waits, Idle
<1>5. ASSUME NEW t \in Threads, alone[t], ~Idle(t) PROVE SoFar(t)'
  <2>1. SoFar(t)
    BY <1>5 DEF AInv, AloneInv
  <2>2. Opened(t)' /\ Loaded(t)' /\ SwitchedSoFar(t)' /\ LevelSoFar(t)' /\ OutSoFar(t)'
    BY <1>1, <2>1 DEF SoFar, Opened, Loaded, SwitchedSoFar, LevelSoFar, OutSoFar, Muxed, Storing, Idle
  <2>3. Told(t) => Told(t)'
    BY <1>1 DEF Told, Waits, Idle
  <2> QED  BY <1>1, <2>1, <2>2, <2>3 DEF SoFar, Idle
<1>6. AloneInv'
  BY <1>1, <1>5 DEF AInv, AloneInv, Idle
<1> QED  BY <1>2, <1>3, <1>4, <1>6 DEF AInv

\* Before any call.
LEMMA InitAlone == Init => AInv
<1> SUFFICES ASSUME Init PROVE AInv
  OBVIOUS
<1>1. \A t \in Threads : Idle(t)
  BY DEF Init, Idle
<1>2. MuxInv
  BY <1>1 DEF Init, MuxInv, MuxRow, Storing
<1>3. PartInv /\ FrameInv /\ AloneInv
  BY <1>1 DEF Init, PartInv, FrameInv, AloneInv
<1> QED  BY <1>2, <1>3 DEF AInv

\* Every step keeps the invariant.
LEMMA NextAlone ==
  ASSUME IInv, AInv, [Next]_vars
  PROVE  AInv'
<1>1. ASSUME NEW f \in Constructors, init_array(f) PROVE AInv'
  <2> DEFINE k == Call(f, 0, 0)
  <2>1. Begin("boot", k) /\ "boot" \in Threads
    BY <1>1 DEF init_array, Threads
  <2>2. k \in AllCalls
    BY DEF AllCalls
  <2>3. \A p \in Outputs(k) : MakesOut(CodeOf(k), p)
    BY ConstructorOutputs
  <2> HIDE DEF k
  <2> QED  BY <2>1, <2>2, <2>3, BeginAlone
<1>2. ASSUME NEW t \in Tasks, NEW k \in Makes(t), TaskBegins(t, k) PROVE AInv'
  <2>1. Begin(t, k) /\ t \in Threads /\ ~Booting /\ code["boot"] = <<>> /\ waiting = {}
    BY <1>2 DEF TaskBegins, Threads, Booting, Idle
  <2>2. k \in DriverCalls /\ k \in AllCalls
    BY MakesAre DEF AllCalls
  <2>3. \A p : ~MakesOut(<<>>, p)
    BY DEF MakesOut
  <2>4. \A p \in OutPins : p \notin dir
    BY <2>1, <2>3 DEF IInv, DirInv
  <2>5. \A p \in Outputs(k) : p \notin dir
    BY <2>2, <2>4, CallPins
  <2> QED  BY <2>1, <2>2, <2>5, BeginAlone
<1>3. ASSUME NEW t \in Tasks, TaskCalls(t) PROVE AInv'
  BY <1>2, <1>3 DEF TaskCalls, Makes
<1>4. ASSUME NEW t \in Tasks, demo_motor(t) PROVE AInv'
  <2>1. call[t] \in Makes(t) \cup {NoCall}
    BY DEF IInv, CallInv
  <2>2. call[t] = Call("sensor_touch_get_state", 1, 0) /\ call[t] # NoCall
    BY <1>4 DEF demo_motor, Call, NoCall
  <2>3. call[t] \notin {Call("motor_set_state", 0, 1), Call("motor_set_state", 0, 2)}
    BY <2>2 DEF Call
  <2>4. call[t] \in CallsOf[t]
    BY <2>1, <2>2, <2>3 DEF Makes
  <2>5. {Call("motor_set_state", 0, 1), Call("motor_set_state", 0, 2)} \subseteq Makes(t)
    BY <2>2, <2>4 DEF Makes
  <2>6. PICK n \in {1, 2} : TaskBegins(t, Call("motor_set_state", 0, n))
    BY <1>4 DEF demo_motor
  <2> QED  BY <1>2, <2>5, <2>6
<1>5. ASSUME NEW t \in Threads, Runs(t) PROVE AInv'
  BY <1>5, RunsAlone
<1>6. CASE UNCHANGED vars
  <2>1. /\ call' = call /\ code' = code /\ kick' = kick /\ mux' = mux /\ dir' = dir /\ out' = out
        /\ latch' = latch /\ data' = data /\ alone' = alone /\ tx' = tx /\ rx' = rx
    BY <1>6 DEF vars
  <2>2. MuxInv' /\ PartInv' /\ FrameInv'
    BY <2>1 DEF AInv, MuxInv, PartInv, FrameInv, Waits, Storing, Idle
  <2>3. AloneInv'
    BY <2>1 DEF AInv, AloneInv, SoFar, Opened, Loaded, SwitchedSoFar, LevelSoFar, OutSoFar, Told, Waits,
                Muxed, Storing, Idle
  <2> QED  BY <2>2, <2>3 DEF AInv
<1> QED  BY <1>1, <1>3, <1>4, <1>5, <1>6, TransferAlone DEF Next

\* What remains of a call changes by the accesses of its thread only.
LEMMA OnlyRuns ==
  ASSUME IInv, [Next]_vars, NEW t \in Threads, ~Idle(t), code'[t] # code[t]
  PROVE  Runs(t)
<1>0. DOMAIN code = Threads
  BY DEF IInv, CallInv
<1>1. ASSUME NEW u \in Threads, NEW k, Begin(u, k) PROVE FALSE
  BY <1>0, <1>1 DEF Begin, Idle
<1>2. "boot" \in Threads /\ Tasks \subseteq Threads
  BY DEF Threads
<1>3. \A f \in Constructors : ~init_array(f)
  BY <1>1, <1>2 DEF init_array
<1>4. \A u \in Tasks : ~TaskCalls(u) /\ ~demo_motor(u)
  BY <1>1, <1>2 DEF TaskCalls, demo_motor, TaskBegins
<1>5. ~Transfer /\ ~UNCHANGED vars
  BY DEF Transfer, vars
<1>6. PICK u \in Threads : Runs(u)
  BY <1>3, <1>4, <1>5 DEF Next
<1>7. PICK ops : Step(u, ops)
  BY <1>6 DEF Runs, Kick, Load, StoreMux, StoreDir, SetClr, Get, Pull, Tx, Rx
<1>8. u = t
  BY <1>0, <1>7 DEF Step
<1> QED  BY <1>6, <1>8

\* A call that nobody disturbed has done what it is for when it ends.
LEMMA EndsRight ==
  ASSUME IInv, AInv, [Next]_vars, NEW t \in Threads, ~Idle(t), Idle(t)', alone[t]
  PROVE  DoneRight(t, call[t])
<1> DEFINE k == call[t]
<1>1. Runs(t)
  BY OnlyRuns DEF Idle
<1>2. SoFar(t)' /\ IInv'
  BY <1>1, SoFarStep, RunsInv
<1>3. call' = call /\ k \in AllCalls
  BY <1>1, AccessFacts DEF AInv
<1>4. code'[t] = <<>>
  BY DEF Idle
<1>5. /\ \A a : ~Has(<<>>, a)
      /\ \A p : ~MakesOut(<<>>, p)
      /\ \A p, h : ~Level(<<>>, p, h)
  BY DEF Has, MakesOut, Level
<1>6. /\ Outputs(k) \subseteq OutPins /\ Inputs(k) \subseteq InPins /\ High(k) \subseteq Outputs(k)
  BY <1>3, AllCallPins
<1>7. \A p \in Switched(k) : Muxed(p)'
  BY <1>2, <1>3, <1>4, <1>5 DEF SoFar, SwitchedSoFar
<1>8. Outputs(k) \cap dir' = {}
  BY <1>2, <1>3, <1>4, <1>5 DEF SoFar, OutSoFar
<1>9. Inputs(k) \subseteq dir'
  BY <1>2, <1>6 DEF IInv, DirInv
<1>10. out' \cap Outputs(k) = High(k)
  <2>1. \A p \in Outputs(k) : p \in out' <=> p \in High(k)
    BY <1>2, <1>3, <1>4, <1>5 DEF SoFar, LevelSoFar
  <2> QED  BY <1>6, <2>1
<1>11. data'[t] = Answers(k)
  <2>1. CASE k.fn = "button_get_state"
    BY <1>2, <1>3, <2>1 DEF SoFar
  <2>2. CASE k.fn # "button_get_state"
    <3> DEFINE A == Asked(k)
               y == data'[t]
    <3>1. A = Answers(k)
      BY <2>2 DEF Asked
    <3>2. A \in Seq(Int) /\ Len(A) \in Nat
      BY <1>3, AskedAre
    <3>3. Told(t)'
      BY <1>2, <1>3, <2>2 DEF SoFar
    <3>4. /\ y \in Seq(Int) /\ Len(y) \in Nat /\ \A i \in 1..Len(y) : y[i] = A[i]
          /\ IF 0 >= 2 * Len(A) THEN Len(y) = 0 ELSE 0 \in {2 * (Len(A) - Len(y)), 2 * (Len(A) - Len(y)) - 1}
      <4>1. Len(code'[t]) = 0 /\ Asked(call'[t]) = A
        BY <1>3, <1>4
      <4>2. y \in Seq(Int) /\ \A i \in 1..Len(y) : y[i] = A[i]
        BY <3>3, <4>1 DEF Told
      <4>3. IF Len(code'[t]) >= 2 * Len(A) THEN Len(y) = 0
            ELSE Len(code'[t]) \in {2 * (Len(A) - Len(y)), 2 * (Len(A) - Len(y)) - 1}
        BY <3>3, <4>1 DEF Told
      <4> HIDE DEF A, y
      <4> QED  BY <4>1, <4>2, <4>3
    <3> HIDE DEF A, y
    <3>5. Len(y) = Len(A)
      BY <3>2, <3>4
    <3>6. y = A
      BY <3>2, <3>4, <3>5, SeqEqual
    <3> QED  BY <3>1, <3>6 DEF y
  <2> QED  BY <2>1, <2>2
<1> QED  BY <1>7, <1>8, <1>9, <1>10, <1>11 DEF DoneRight

\* An access of a call that nobody disturbs leaves the other pins alone.
LEMMA BystanderStep ==
  ASSUME IInv, AInv, [Next]_vars, NEW t \in Threads, code[t] # code'[t], ~Idle(t), alone[t],
         NEW p \in 0 .. pininfo_size - 1, p \notin Switched(call[t]), pininfo[p].muxreg_mode # {}
  PROVE  /\ Muxed(p) => Muxed(p)'
         /\ (p \in dir) = (p \in dir')
         /\ (p \in out) = (p \in out')
<1>1. Runs(t)
  BY OnlyRuns
<1>2. /\ Op(t) \in PinOps => Arg(t) \in Switched(call[t])
  BY <1>1, AccessFacts DEF AInv
<1>3. p \in 0..153
  BY DEF pininfo_size
<1>4. pininfo[p].muxreg \in MuxRegs /\ pininfo[p].nibble \in Nibbles
  BY <1>3, PinCell
<1>5. p \in dir <=> p \in dir'
  <2>1. dir' = IF Op(t) = "dir_out" THEN dir \ {Arg(t)} ELSE dir
    BY <1>1, RunsInv
  <2> QED  BY <1>2, <2>1 DEF PinOps
<1>6. p \in out <=> p \in out'
  <2>1. CASE Op(t) \in {"set", "clr"}
    <3>1. SetClr(t)
      BY <1>1, <2>1, ActionOf
    <3>2. Arg(t) # p
      BY <1>2, <2>1 DEF PinOps
    <3> QED  BY <3>1, <3>2 DEF SetClr
  <2>2. CASE Op(t) \notin {"set", "clr"}
    <3>1. out' = out
      BY <1>1, <2>2, ActionOf
    <3> QED  BY <3>1
  <2> QED  BY <2>1, <2>2
<1>7. Muxed(p) => Muxed(p)'
  <2>1. CASE StoreMux(t)
    <3>1. Arg(t) \in UsedPins /\ Arg(t) \in Switched(call[t]) /\ DOMAIN mux = MuxRegs
      BY <2>1, StoreMuxIs DEF AInv, MuxInv
    <3>2. mux'[pininfo[p].muxreg][pininfo[p].nibble] =
            IF pininfo[p].muxreg = pininfo[Arg(t)].muxreg /\ pininfo[p].nibble = pininfo[Arg(t)].nibble
            THEN IF Op(t) = "and_mux" THEN {} ELSE pininfo[Arg(t)].muxreg_mode
            ELSE mux[pininfo[p].muxreg][pininfo[p].nibble]
      BY <1>4, <2>1, StoreAlone DEF Row
    <3>3. CASE pininfo[p].muxreg = pininfo[Arg(t)].muxreg /\ pininfo[p].nibble = pininfo[Arg(t)].nibble
      <4> SUFFICES ASSUME Muxed(p) PROVE FALSE
        OBVIOUS
      <4>1. MuxRow(pininfo[p].muxreg, mux[pininfo[p].muxreg])
        BY <1>4 DEF AInv, MuxInv
      <4>2. PICK q \in UsedPins : /\ pininfo[q].muxreg = pininfo[p].muxreg /\ pininfo[q].nibble = pininfo[p].nibble
                                  /\ pininfo[p].muxreg_mode = pininfo[q].muxreg_mode
        BY <1>4, <4>1 DEF MuxRow, Muxed
      <4>3. p = q
        BY <1>3, <4>2, ModesApart
      <4>4. p = Arg(t)
        BY <3>1, <3>3, <4>3, UsedApart
      <4> QED  BY <3>1, <4>4
    <3>4. CASE ~(pininfo[p].muxreg = pininfo[Arg(t)].muxreg /\ pininfo[p].nibble = pininfo[Arg(t)].nibble)
      BY <3>2, <3>4 DEF Muxed
    <3> QED  BY <3>3, <3>4
  <2>2. CASE ~StoreMux(t)
    <3>1. mux' = mux
      BY <1>1, <2>2, ActionOf
    <3> QED  BY <3>1 DEF Muxed
  <2> QED  BY <2>1, <2>2
<1> QED  BY <1>5, <1>6, <1>7

\* The invariant of undisturbed calls, whatever calls disturbed each other before.
THEOREM AloneInvariant == Spec => []AInv
<1>1. IInv /\ AInv /\ [Next]_vars => AInv'
  BY NextAlone
<1> QED  BY <1>1, InitAlone, Invariant, PTL DEF Spec

\* For any tasks and calls: a call of a driver during which no other was in progress
\* ends with its pins switched, directed and driven as it is for and with the answers
\* of the button or the channels it asked, whatever earlier calls that preempted each
\* other inside gpio_init_pin or spi_update left in the registers.
THEOREM UndisturbedCallsAreRight == Spec => UndisturbedCallRight
<1>1. IInv /\ AInv /\ [Next]_vars =>
        [\A t \in Threads : (~Idle(t) /\ Idle(t)' /\ alone[t]) => DoneRight(t, call[t])]_vars
  BY EndsRight
<1> QED  BY <1>1, Invariant, AloneInvariant, PTL DEF Spec, UndisturbedCallRight

\* For any tasks and calls: no access of such a call takes the function, the direction
\* or the level of a pin that is not its own, although GPIO and multiplexing registers
\* hold the bits of many pins.
THEOREM BystandersAreKept == Spec => BystandersKept
<1> DEFINE Kept(p) == /\ Muxed(p) => Muxed(p)'
                      /\ (p \in dir) = (p \in dir')
                      /\ (p \in out) = (p \in out')
<1>1. IInv /\ AInv /\ [Next]_vars =>
        [\A t \in Threads : (code[t] # code'[t] /\ ~Idle(t) /\ alone[t]) =>
           \A p \in 0 .. pininfo_size - 1 :
             (p \notin Switched(call[t]) /\ pininfo[p].muxreg_mode # {}) => Kept(p)]_vars
  BY BystanderStep
<1> QED  BY <1>1, Invariant, AloneInvariant, PTL DEF Spec, BystandersKept

=============================================================================
