----------------------------- MODULE CommonLemmas -----------------------------
(***************************************************************************)
(* Facts that several components' proofs rest on.  A ring buffer of N      *)
(* slots with a start and an end index that wrap, the way                  *)
(* recv_packet_queue, the receive descriptors and the scheduler's          *)
(* ring_buffer keep one, for every N and every contents; sequences; and    *)
(* least elements, which a search from the start finds.                    *)
(***************************************************************************)
EXTENDS Integers, Sequences, WellFoundedInduction, TLAPS

\* The contents of the slots F from start s up to, not including, end e.
Window(F, N, s, e) == [k \in 1..((e - s) % N) |-> F[(s + k - 1) % N]]

\* The same in linear arithmetic: the number of slots, and the k-th of them.
WSize(N, s, e) == IF s <= e THEN e - s ELSE e - s + N
WSlot(N, s, k) == IF s + k - 1 < N THEN s + k - 1 ELSE s + k - 1 - N

\* Slot i lies between start and end.
WIn(s, e, i) == IF s <= e THEN s <= i /\ i < e ELSE s <= i \/ i < e

\* The slots of S other than e hold the same.
SameBut(F, G, S, e) == \A i \in S : i # e => G[i] = F[i]

\* The successor of an index, with one wrap.
LEMMA NextIs ==
  ASSUME NEW N \in Nat, N >= 2, NEW i \in 0..(N - 1)
  PROVE  /\ (i + 1) % N = IF i = N - 1 THEN 0 ELSE i + 1
         /\ (i + 1) % N \in 0..(N - 1)
OBVIOUS

\* The window in linear arithmetic.
LEMMA WindowIs ==
  ASSUME NEW N \in Nat, N >= 2, NEW s \in 0..(N - 1), NEW e \in 0..(N - 1), NEW F
  PROVE  /\ WSize(N, s, e) \in 0..(N - 1)
         /\ \A k \in 1..WSize(N, s, e) : WSlot(N, s, k) \in 0..(N - 1) /\ WIn(s, e, WSlot(N, s, k))
         /\ Window(F, N, s, e) = [k \in 1..WSize(N, s, e) |-> F[WSlot(N, s, k)]]
<1>1. (e - s) % N = WSize(N, s, e)
  BY DEF WSize
<1>2. WSize(N, s, e) \in 0..(N - 1)
  BY DEF WSize
<1>3. \A k \in 1..WSize(N, s, e) : WSlot(N, s, k) \in 0..(N - 1) /\ WIn(s, e, WSlot(N, s, k))
  BY <1>2 DEF WSize, WSlot, WIn
<1>4. ASSUME NEW k \in 1..WSize(N, s, e)
      PROVE  (s + k - 1) % N = WSlot(N, s, k)
  <2>1. s + k - 1 \in 0..(2 * N - 1)
    BY <1>2
  <2> QED  BY <2>1 DEF WSlot
<1>5. Window(F, N, s, e) = [k \in 1..WSize(N, s, e) |-> F[WSlot(N, s, k)]]
  BY <1>1, <1>4 DEF Window
<1> QED  BY <1>2, <1>3, <1>5

\* A window is a sequence over the values of the slots.
LEMMA WindowSeq ==
  ASSUME NEW N \in Nat, N >= 2, NEW s \in 0..(N - 1), NEW e \in 0..(N - 1), NEW F, NEW V,
         \A i \in 0..(N - 1) : F[i] \in V
  PROVE  /\ Window(F, N, s, e) \in Seq(V)
         /\ Len(Window(F, N, s, e)) = WSize(N, s, e)
<1> DEFINE n == WSize(N, s, e)
           W == [k \in 1..n |-> F[WSlot(N, s, k)]]
<1>1. n \in Nat /\ \A k \in 1..n : WSlot(N, s, k) \in 0..(N - 1)
  BY DEF WSize, WSlot
<1>2. W \in [1..n -> V]
  BY <1>1
<1>3. Window(F, N, s, e) = W
  BY WindowIs
<1> HIDE DEF n, W
<1>4. W \in Seq(V) /\ Len(W) = n
  BY <1>1, <1>2
<1> QED  BY <1>3, <1>4 DEF n

\* It is empty when start and end meet, and holds N - 1 slots when one more
\* step of the end would meet the start.
LEMMA WindowBounds ==
  ASSUME NEW N \in Nat, N >= 2, NEW s \in 0..(N - 1), NEW e \in 0..(N - 1), NEW F
  PROVE  /\ Len(Window(F, N, s, e)) \in 0..(N - 1)
         /\ s = e <=> Window(F, N, s, e) = << >>
         /\ (e + 1) % N = s <=> Len(Window(F, N, s, e)) = N - 1
<1> DEFINE V == {F[i] : i \in 0..(N - 1)}
<1>0. \A i \in 0..(N - 1) : F[i] \in V
  OBVIOUS
<1> HIDE DEF V
<1>1. Window(F, N, s, e) \in Seq(V) /\ Len(Window(F, N, s, e)) = WSize(N, s, e)
  BY <1>0, WindowSeq
<1>2. s = e <=> WSize(N, s, e) = 0
  BY DEF WSize
<1>3. (e + 1) % N = s <=> WSize(N, s, e) = N - 1
  <2>1. (e + 1) % N = IF e = N - 1 THEN 0 ELSE e + 1
    BY NextIs
  <2> QED  BY <2>1 DEF WSize
<1>4. WSize(N, s, e) \in 0..(N - 1)
  BY DEF WSize
<1>5. Window(F, N, s, e) = << >> <=> Len(Window(F, N, s, e)) = 0
  BY <1>1
<1> QED  BY <1>1, <1>2, <1>3, <1>4, <1>5

\* Writing the slot at the end and advancing it appends to the window.
LEMMA WindowInsert ==
  ASSUME NEW N \in Nat, N >= 2, NEW s \in 0..(N - 1), NEW e \in 0..(N - 1), NEW F, NEW G,
         (e + 1) % N # s, SameBut(F, G, 0..(N - 1), e)
  PROVE  Window(G, N, s, (e + 1) % N) = Append(Window(F, N, s, e), G[e])
<1> DEFINE f == (e + 1) % N
           n == WSize(N, s, e)
           W == Window(F, N, s, e)
           X == Window(G, N, s, f)
           V == {F[i] : i \in 0..(N - 1)} \cup {G[i] : i \in 0..(N - 1)}
<1>0. \A i \in 0..(N - 1) : F[i] \in V /\ G[i] \in V
  OBVIOUS
<1> HIDE DEF V
<1>1. f \in 0..(N - 1) /\ WSize(N, s, f) = n + 1 /\ n \in Nat
  <2>1. f = (IF e = N - 1 THEN 0 ELSE e + 1) /\ f # s
    BY NextIs
  <2> HIDE DEF f, W, X
  <2> QED  BY <2>1 DEF WSize
<1>2. W \in Seq(V) /\ Len(W) = n /\ X \in Seq(V) /\ Len(X) = n + 1
  BY <1>0, <1>1, WindowSeq
<1>3. \A k \in 1..n : W[k] = F[WSlot(N, s, k)] /\ WSlot(N, s, k) \in 0..(N - 1)
                      /\ WIn(s, e, WSlot(N, s, k))
  <2>1. W = [k \in 1..n |-> F[WSlot(N, s, k)]]
    BY WindowIs
  <2>2. \A k \in 1..n : WSlot(N, s, k) \in 0..(N - 1) /\ WIn(s, e, WSlot(N, s, k))
    BY WindowIs
  <2> HIDE DEF W, n
  <2> QED  BY <2>1, <2>2
<1>4. \A k \in 1..(n + 1) : X[k] = G[WSlot(N, s, k)]
  BY <1>1, WindowIs
<1>5. WSlot(N, s, n + 1) = e /\ ~WIn(s, e, e)
  BY DEF WSlot, WSize, WIn
<1> HIDE DEF f, n, W, X
<1>6. \A k \in 1..n : X[k] = W[k]
  BY <1>1, <1>3, <1>4, <1>5 DEF SameBut
<1>7. X[n + 1] = G[e]
  BY <1>1, <1>4, <1>5
<1>8. X = Append(W, G[e])
  BY <1>1, <1>2, <1>6, <1>7
<1> QED  BY <1>8 DEF f, W, X

\* Advancing the start drops the head of the window.
LEMMA WindowRemove ==
  ASSUME NEW N \in Nat, N >= 2, NEW s \in 0..(N - 1), NEW e \in 0..(N - 1), NEW F, s # e
  PROVE  /\ Window(F, N, s, e) # << >>
         /\ Head(Window(F, N, s, e)) = F[s]
         /\ Tail(Window(F, N, s, e)) = Window(F, N, (s + 1) % N, e)
<1> DEFINE t == (s + 1) % N
           n == WSize(N, t, e)
           W == Window(F, N, s, e)
           X == Window(F, N, t, e)
           V == {F[i] : i \in 0..(N - 1)}
<1> \A i \in 0..(N - 1) : F[i] \in V
  OBVIOUS
<1> HIDE DEF V
<1>0. t = IF s = N - 1 THEN 0 ELSE s + 1
  BY NextIs
<1> HIDE DEF t
<1>1. t \in 0..(N - 1) /\ WSize(N, s, e) = n + 1 /\ n \in Nat
  BY <1>0 DEF WSize
<1>2. W \in Seq(V) /\ Len(W) = n + 1 /\ X \in Seq(V) /\ Len(X) = n
  BY <1>1, WindowSeq
<1>3. \A k \in 1..(n + 1) : W[k] = F[WSlot(N, s, k)]
  <2>1. W = [k \in 1..WSize(N, s, e) |-> F[WSlot(N, s, k)]]
    BY WindowIs
  <2> QED  BY <1>1, <2>1
<1>4. \A k \in 1..n : X[k] = F[WSlot(N, t, k)]
  BY <1>1, WindowIs
<1>5. WSlot(N, s, 1) = s
  BY DEF WSlot
<1>6. \A k \in 1..n : WSlot(N, t, k) = WSlot(N, s, k + 1)
  BY <1>0, <1>1 DEF WSlot, WSize
<1> HIDE DEF n, W, X
<1>7. W # << >> /\ Head(W) = F[s]
  BY <1>1, <1>2, <1>3, <1>5
<1>8. \A k \in 1..n : X[k] = W[k + 1]
  BY <1>1, <1>3, <1>4, <1>6
<1>9. Tail(W) = X
  BY <1>1, <1>2, <1>8
<1> QED  BY <1>7, <1>9 DEF t, W, X

\* Which slots lie between start and end, when either is advanced.
LEMMA AdvanceEnd ==
  ASSUME NEW N \in Nat, N >= 2, NEW s \in 0..(N - 1), NEW e \in 0..(N - 1), (e + 1) % N # s
  PROVE  /\ ~WIn(s, e, e)
         /\ \A i \in 0..(N - 1) : WIn(s, (e + 1) % N, i) <=> WIn(s, e, i) \/ i = e
<1> DEFINE f == (e + 1) % N
<1>1. f = IF e = N - 1 THEN 0 ELSE e + 1
  BY NextIs
<1> HIDE DEF f
<1>2. ~WIn(s, e, e)
  BY DEF WIn
<1>3. \A i \in 0..(N - 1) : WIn(s, f, i) <=> WIn(s, e, i) \/ i = e
  BY <1>1 DEF WIn, f
<1> QED  BY <1>2, <1>3 DEF f

\* The same for the start.
LEMMA AdvanceStart ==
  ASSUME NEW N \in Nat, N >= 2, NEW s \in 0..(N - 1), NEW e \in 0..(N - 1), s # e
  PROVE  /\ WIn(s, e, s)
         /\ \A i \in 0..(N - 1) : WIn((s + 1) % N, e, i) <=> WIn(s, e, i) /\ i # s
<1> DEFINE t == (s + 1) % N
<1>1. t = IF s = N - 1 THEN 0 ELSE s + 1
  BY NextIs
<1> HIDE DEF t
<1>2. WIn(s, e, s)
  BY DEF WIn
<1>3. \A i \in 0..(N - 1) : WIn(t, e, i) <=> WIn(s, e, i) /\ i # s
  BY <1>1 DEF WIn
<1> QED  BY <1>2, <1>3 DEF t

\* Two indices with the same successor are the same.
LEMMA NextInjective ==
  ASSUME NEW N \in Nat, N >= 2, NEW i \in 0..(N - 1), NEW j \in 0..(N - 1),
         (i + 1) % N = (j + 1) % N
  PROVE  i = j
<1>1. (i + 1) % N = IF i = N - 1 THEN 0 ELSE i + 1
  BY NextIs
<1>2. (j + 1) % N = IF j = N - 1 THEN 0 ELSE j + 1
  BY NextIs
<1> QED  BY <1>1, <1>2

----------------------------------------------------------------------------
(* Sequences. *)

\* The elements of a sequence.
LEMMA SeqElement ==
  ASSUME NEW V, NEW a \in Seq(V), NEW i \in DOMAIN a
  PROVE  a[i] \in V
OBVIOUS

\* Appending to the second of two sequences appends to both together.
LEMMA ConcatAppend ==
  ASSUME NEW V, NEW a \in Seq(V), NEW b \in Seq(V), NEW x \in V
  PROVE  a \o Append(b, x) = Append(a \o b, x)
OBVIOUS

\* Moving the head of the second sequence to the end of the first leaves both
\* together as they were.
LEMMA ConcatMove ==
  ASSUME NEW V, NEW a \in Seq(V), NEW b \in Seq(V), b # << >>
  PROVE  Append(a, Head(b)) \o Tail(b) = a \o b
OBVIOUS

\* The head goes from the end of the sequences into a hand of one, ...
LEMMA ConcatTake ==
  ASSUME NEW V, NEW a \in Seq(V), NEW b \in Seq(V), b # << >>
  PROVE  a \o (<<Head(b)>> \o Tail(b)) = a \o (<< >> \o b)
<1>1. << >> \o b = b /\ <<Head(b)>> \o Tail(b) = b
  OBVIOUS
<1> QED  BY <1>1

\* ... and from the hand to the end of the first.
LEMMA ConcatFinish ==
  ASSUME NEW V, NEW a \in Seq(V), NEW b \in Seq(V), NEW x \in V
  PROVE  Append(a, x) \o (<< >> \o b) = a \o (<<x>> \o b)
<1>1. << >> \o b = b
  OBVIOUS
<1>2. Append(a, x) \o b = a \o (<<x>> \o b)
  OBVIOUS
<1> QED  BY <1>1, <1>2

----------------------------------------------------------------------------
(* Least elements. *)

Less == {p \in Nat \X Nat : p[1] < p[2]}

\* A set of naturals has a least element.
LEMMA LeastExists ==
  ASSUME NEW T, T \subseteq Nat, T # {}
  PROVE  \E x \in T : \A y \in T : x <= y
<1>1. OpToRel(<, Nat) = Less
  BY DEF OpToRel, Less
<1>2. PICK x \in T : \A y \in T : <<y, x>> \notin Less
  BY <1>1, NatLessThanWellFounded, WFMin
<1>3. ASSUME NEW y \in T PROVE x <= y
  <2>1. <<y, x>> \notin Less /\ x \in Nat /\ y \in Nat
    BY <1>2
  <2> QED  BY <2>1 DEF Less
<1> QED  BY <1>3
=============================================================================
