--------------------------- MODULE TerminalProofs ---------------------------
(***************************************************************************)
(* Proofs about the console, for any number of readers and writers, rings  *)
(* of any size and indices that wrap around: the indices stay within their *)
(* rings, no wakeup and no interrupt is lost, committed lines are only     *)
(* read and output leaves the UART once and in order.                      *)
(***************************************************************************)
EXTENDS Terminal, WellFoundedInduction, TLAPS

(***************************************************************************)
(* Arithmetic.  The indices are below UINT; Gap(a, b) is how far b is      *)
(* ahead of a.                                                             *)
(***************************************************************************)
Index == 0 .. UINT - 1
RingSize(S) == S \in Nat \ {0} /\ UINT % S = 0 /\ S < UINT
Gap(a, b) == (b - a) % UINT

LEMMA Sizes ==
  /\ UINT \in Nat \ {0} /\ INPUT_BUF_SIZE \in Nat \ {0} /\ UART_TX_BUF_SIZE \in Nat \ {0}
  /\ UINT > INPUT_BUF_SIZE /\ UINT > UART_TX_BUF_SIZE
  BY TerminalAssumption

LEMMA RingSizes == RingSize(INPUT_BUF_SIZE) /\ RingSize(UART_TX_BUF_SIZE)
  BY TerminalAssumption DEF RingSize

LEMMA DivMod ==
  ASSUME NEW S \in Nat \ {0}, NEW x \in Int
  PROVE  x % S \in 0 .. S - 1 /\ x \div S \in Int /\ x = S * (x \div S) + (x % S)
<1>1. x % S \in 0 .. S - 1
  OBVIOUS
<1>2. x \div S \in Int
  OBVIOUS
<1>3. x = S * (x \div S) + (x % S)
  OBVIOUS
<1> QED
  BY <1>1, <1>2, <1>3

LEMMA ModIs ==
  ASSUME NEW S \in Nat \ {0}, NEW q \in Int, NEW r \in 0 .. S - 1
  PROVE  (S * q + r) % S = r
  OBVIOUS

(* A number of whole turns of a ring changes no place in it ... *)
LEMMA Around ==
  ASSUME NEW S, RingSize(S), NEW x \in Int
  PROVE  (x + UINT) % S = x % S
<1> USE DEF RingSize
<1>1. PICK q \in Int, r \in 0 .. S - 1 : x = S * q + r /\ x % S = r
  BY DivMod
<1>2. PICK p \in Int : UINT = S * p
  <2>1. UINT \in Int /\ UINT % S = 0
    BY Sizes
  <2>2. PICK p \in Int : UINT = S * p + (UINT % S)
    BY <2>1, DivMod
  <2>3. S * p \in Int /\ UINT = S * p
    BY <2>1, <2>2
  <2> QED
    BY <2>3
<1>3. S * (q + p) = S * q + S * p
  OBVIOUS
<1>4. x + UINT = S * (q + p) + r
  BY <1>1, <1>2, <1>3
<1>5. (S * (q + p) + r) % S = r
  BY ModIs
<1> QED
  BY <1>1, <1>4, <1>5

(* ... and less than one turn leads to another place. *)
LEMMA Apart ==
  ASSUME NEW S \in Nat \ {0}, NEW x \in Int, NEW y \in Int, x < y, y < x + S
  PROVE  x % S # y % S
<1>1. PICK q \in Int, r \in 0 .. S - 1 : x = S * q + r /\ x % S = r
  BY DivMod
<1>2. PICK p \in Int, s \in 0 .. S - 1 : y = S * p + s /\ y % S = s
  BY DivMod
<1>3. SUFFICES ASSUME r = s PROVE FALSE
  BY <1>1, <1>2
<1>4. S * (p - q) > 0 /\ S * (p - q) < S
  BY <1>1, <1>2, <1>3
<1>5. p - q > 0
  BY <1>4
<1>6. p - q < 1
  BY <1>4
<1> QED
  BY <1>5, <1>6

LEMMA GapIs ==
  ASSUME NEW a \in Index, NEW b \in Index
  PROVE  Gap(a, b) = IF a <= b THEN b - a ELSE b - a + UINT
  BY Sizes DEF Gap, Index

LEMMA GapRange ==
  ASSUME NEW a \in Index, NEW b \in Index
  PROVE  Gap(a, b) \in 0 .. UINT - 1 /\ (Gap(a, b) = 0 <=> a = b)
  BY Sizes, GapIs DEF Index

LEMMA PlusIs ==
  ASSUME NEW a \in Index
  PROVE  Plus(a) = IF a = UINT - 1 THEN 0 ELSE a + 1
  BY Sizes DEF Plus, Index

(* One more at the end, ... *)
LEMMA GapPlus ==
  ASSUME NEW a \in Index, NEW b \in Index, Gap(a, b) < UINT - 1
  PROVE  Plus(b) \in Index /\ Gap(a, Plus(b)) = Gap(a, b) + 1
<1>1. UINT \in Nat \ {0}
  BY Sizes
<1>2. Gap(a, b) = IF a <= b THEN b - a ELSE b - a + UINT
  BY GapIs
<1>3. PICK c \in Index : c = Plus(b) /\ c = IF b = UINT - 1 THEN 0 ELSE b + 1
  BY <1>1, PlusIs DEF Index
<1>4. Gap(a, c) = IF a <= c THEN c - a ELSE c - a + UINT
  BY GapIs
<1> QED
  BY <1>1, <1>2, <1>3, <1>4 DEF Index

(* ... one less at the front, ... *)
LEMMA GapTake ==
  ASSUME NEW a \in Index, NEW b \in Index, a # b
  PROVE  Plus(a) \in Index /\ Gap(Plus(a), b) = Gap(a, b) - 1
<1>1. UINT \in Nat \ {0}
  BY Sizes
<1>2. Gap(a, b) = IF a <= b THEN b - a ELSE b - a + UINT
  BY GapIs
<1>3. PICK c \in Index : c = Plus(a) /\ c = IF a = UINT - 1 THEN 0 ELSE a + 1
  BY <1>1, PlusIs DEF Index
<1>4. Gap(c, b) = IF c <= b THEN b - c ELSE b - c + UINT
  BY GapIs
<1> QED
  BY <1>1, <1>2, <1>3, <1>4 DEF Index

(* ... some less at the end. *)
LEMMA GapErase ==
  ASSUME NEW a \in Index, NEW b \in Index, NEW k \in 0 .. Gap(a, b)
  PROVE  (b - k) % UINT \in Index /\ Gap(a, (b - k) % UINT) = Gap(a, b) - k
<1>1. UINT \in Nat \ {0}
  BY Sizes
<1>2. Gap(a, b) = IF a <= b THEN b - a ELSE b - a + UINT
  BY GapIs
<1>3. k \in 0 .. UINT - 1
  BY <1>1, <1>2 DEF Index
<1>4. PICK c \in Index : c = (b - k) % UINT /\ c = IF k <= b THEN b - k ELSE b - k + UINT
  BY <1>1, <1>3 DEF Index
<1>5. Gap(a, c) = IF a <= c THEN c - a ELSE c - a + UINT
  BY GapIs
<1> QED
  BY <1>1, <1>2, <1>4, <1>5 DEF Index

(* Three indices in their order. *)
LEMMA GapSum ==
  ASSUME NEW a \in Index, NEW b \in Index, NEW c \in Index, Gap(a, b) <= Gap(a, c)
  PROVE  Gap(b, c) = Gap(a, c) - Gap(a, b)
  BY Sizes, GapIs DEF Index

(* A ring is full when the next index to write is its size ahead. *)
LEMMA GapFull ==
  ASSUME NEW a \in Index, NEW S \in 0 .. UINT - 1
  PROVE  (a + S) % UINT \in Index /\ Gap(a, (a + S) % UINT) = S
<1>1. UINT \in Nat \ {0}
  BY Sizes
<1>2. PICK c \in Index : c = (a + S) % UINT /\ c = IF a + S < UINT THEN a + S ELSE a + S - UINT
  BY <1>1 DEF Index
<1>3. Gap(a, c) = IF a <= c THEN c - a ELSE c - a + UINT
  BY GapIs
<1> QED
  BY <1>1, <1>2, <1>3 DEF Index

(* Two indices a ring's size apart. *)
LEMMA NotFull ==
  ASSUME NEW a \in Index, NEW b \in Index, NEW S \in 0 .. UINT - 1, Gap(a, b) = S
  PROVE  b = (a + S) % UINT
<1>1. UINT \in Nat \ {0}
  BY Sizes
<1>2. PICK c \in Index : c = (a + S) % UINT /\ c = IF a + S < UINT THEN a + S ELSE a + S - UINT
  BY <1>1 DEF Index
<1>3. Gap(a, b) = IF a <= b THEN b - a ELSE b - a + UINT
  BY GapIs
<1> QED
  BY <1>1, <1>2, <1>3 DEF Index

(***************************************************************************)
(* What a ring of size S holds from index b on, when b lies ahead of a.    *)
(***************************************************************************)
From(ring, S, i, n) == [k \in 1 .. n |-> ring[(i + k - 1) % S]]

LEMMA PlaceFrom ==
  ASSUME NEW S, RingSize(S), NEW a \in Index, NEW b \in Index, NEW k \in Int
  PROVE  (b + k) % S = (a + Gap(a, b) + k) % S
<1>1. UINT \in Nat \ {0}
  BY Sizes
<1>2. CASE a <= b
  <2>1. a + Gap(a, b) + k = b + k
    BY <1>1, <1>2, GapIs DEF Index
  <2> QED
    BY <2>1
<1>3. CASE a > b
  <2>1. Gap(a, b) \in Int /\ a + Gap(a, b) + k = (b + k) + UINT
    BY <1>1, <1>3, GapIs DEF Index
  <2>2. b + k \in Int
    BY DEF Index
  <2>3. ((b + k) + UINT) % S = (b + k) % S
    BY <2>2, Around
  <2> QED
    BY <2>1, <2>3
<1> QED
  BY <1>1, <1>2, <1>3 DEF Index

LEMMA HeldFrom ==
  ASSUME NEW S, RingSize(S), NEW ring,
         NEW a \in Index, NEW b \in Index, NEW c \in Index, Gap(a, b) <= Gap(a, c)
  PROVE  Held(ring, b, c, S)
           = From(ring, S, a + Gap(a, b), Gap(a, c) - Gap(a, b))
<1>1. Gap(b, c) = Gap(a, c) - Gap(a, b) /\ Gap(a, b) \in Int /\ a \in Int /\ b \in Int
  BY GapSum, GapRange, Sizes DEF Index
<1>2. ASSUME NEW k \in 1 .. Gap(b, c)
      PROVE  (b + k - 1) % S = (a + Gap(a, b) + k - 1) % S
  <2>1. k - 1 \in Int /\ b + (k - 1) = b + k - 1
        /\ a + Gap(a, b) + (k - 1) = a + Gap(a, b) + k - 1
    BY <1>1, <1>2
  <2>2. (b + (k - 1)) % S = (a + Gap(a, b) + (k - 1)) % S
    BY <2>1, PlaceFrom
  <2> QED
    BY <2>1, <2>2
<1>3. Held(ring, b, c, S) = [k \in 1 .. Gap(b, c) |-> ring[(b + k - 1) % S]]
  BY DEF Held, Gap
<1> QED
  BY <1>1, <1>2, <1>3 DEF From

(* How much a ring holds. *)
LEMMA HeldLen ==
  ASSUME NEW S, NEW ring, NEW a \in Index, NEW b \in Index
  PROVE  /\ Len(Held(ring, a, b, S)) = Gap(a, b)
         /\ Held(ring, a, b, S) = <<>> <=> a = b
<1>1. Gap(a, b) \in Nat
  BY GapRange, Sizes
<1>2. Held(ring, a, b, S) = [k \in 1 .. Gap(a, b) |-> ring[(a + k - 1) % S]]
  BY DEF Held, Gap
<1>3. Len(Held(ring, a, b, S)) = Gap(a, b)
  BY <1>1, <1>2
<1>4. Held(ring, a, b, S) = <<>> <=> Gap(a, b) = 0
  BY <1>1, <1>2
<1> QED
  BY <1>3, <1>4, GapRange

\* The ring with c put at index b.
Put(ring, S, b, c) == [ring EXCEPT ![b % S] = c]

(* One more at the end of what it holds. *)
LEMMA HeldAppend ==
  ASSUME NEW S, RingSize(S), NEW ring, DOMAIN ring = 0 .. S - 1,
         NEW a \in Index, NEW b \in Index, Gap(a, b) < S, NEW c
  PROVE  Held(Put(ring, S, b, c), a, Plus(b), S) = Append(Held(ring, a, b, S), c)
<1> USE DEF RingSize
<1> DEFINE n == Gap(a, b)
           new == Put(ring, S, b, c)
<1>1. n \in Nat /\ n < S /\ a \in Int /\ b \in Int /\ UINT \in Nat
  BY GapRange, Sizes DEF Index
<1>2. Plus(b) \in Index /\ Gap(a, Plus(b)) = n + 1
  BY <1>1, GapPlus
<1>3. (a + n) % S = b % S
  <2>1. (b + 0) % S = (a + n + 0) % S
    BY PlaceFrom
  <2> QED
    BY <1>1, <2>1
<1>4. ASSUME NEW k \in 1 .. n
      PROVE  new[(a + k - 1) % S] = ring[(a + k - 1) % S]
  <2> HIDE DEF n
  <2>1. (a + k - 1) % S # (a + n) % S
    <3>1. a + k - 1 \in Int /\ a + n \in Int
          /\ a + k - 1 < a + n /\ a + n < (a + k - 1) + S
      BY <1>1
    <3> QED
      BY <3>1, Apart
  <2> QED
    BY <1>3, <2>1 DEF Put
<1>5. new[(a + (n + 1) - 1) % S] = c
  <2>1. b % S \in 0 .. S - 1
    BY <1>1, DivMod
  <2>2. new[b % S] = c
    BY <2>1 DEF Put
  <2> HIDE DEF n, new
  <2>3. a + (n + 1) - 1 = a + n
    BY <1>1
  <2> QED
    BY <1>3, <2>2, <2>3
<1>6. Held(new, a, Plus(b), S) = [k \in 1 .. n + 1 |-> new[(a + k - 1) % S]]
  BY <1>2 DEF Held, Gap
<1>7. Held(ring, a, b, S) = [k \in 1 .. n |-> ring[(a + k - 1) % S]]
  BY DEF Held, Gap
<1> HIDE DEF n, new
<1>8. [k \in 1 .. n + 1 |-> new[(a + k - 1) % S]]
        = [k \in 1 .. n + 1 |-> IF k <= n THEN ring[(a + k - 1) % S] ELSE c]
  <2>1. ASSUME NEW k \in 1 .. n + 1
        PROVE  new[(a + k - 1) % S] = IF k <= n THEN ring[(a + k - 1) % S] ELSE c
    <3>1. CASE k <= n
      <4>1. k \in 1 .. n
        BY <1>1, <3>1
      <4> QED
        BY <1>4, <3>1, <4>1
    <3>2. CASE k = n + 1
      BY <1>1, <1>5, <3>2
    <3> QED
      BY <1>1, <3>1, <3>2
  <2> QED
    BY <2>1
<1>9. Append([k \in 1 .. n |-> ring[(a + k - 1) % S]], c)
        = [k \in 1 .. n + 1 |-> IF k <= n THEN ring[(a + k - 1) % S] ELSE c]
  BY <1>1
<1> QED
  BY <1>6, <1>7, <1>8, <1>9 DEF new

(* One less at the front. *)
LEMMA HeldTail ==
  ASSUME NEW S, RingSize(S), NEW ring,
         NEW a \in Index, NEW b \in Index, a # b
  PROVE  /\ Held(ring, Plus(a), b, S) = Tail(Held(ring, a, b, S))
         /\ Held(ring, a, b, S) = <<ring[a % S]>> \o Held(ring, Plus(a), b, S)
<1> DEFINE n == Gap(a, b)
<1>1. n \in Nat \ {0} /\ a \in Int /\ UINT \in Nat
  BY GapRange, Sizes DEF Index
<1>2. Plus(a) \in Index /\ Gap(Plus(a), b) = n - 1
  BY GapTake
<1>3. ASSUME NEW k \in 1 .. n - 1
      PROVE  (Plus(a) + k - 1) % S = (a + k) % S
  <2>1. CASE a = UINT - 1
    <3>1. Plus(a) + k - 1 = k - 1 /\ a + k = (k - 1) + UINT /\ k - 1 \in Int
      BY <1>1, <2>1, PlusIs
    <3> QED
      BY <3>1, Around
  <2>2. CASE a # UINT - 1
    BY <1>1, <2>2, PlusIs
  <2> QED
    BY <2>1, <2>2
<1>4. Held(ring, Plus(a), b, S) = [k \in 1 .. n - 1 |-> ring[(Plus(a) + k - 1) % S]]
  BY <1>2 DEF Held, Gap
<1>5. Held(ring, a, b, S) = [k \in 1 .. n |-> ring[(a + k - 1) % S]]
  BY DEF Held, Gap
<1> HIDE DEF n
<1>6. Held(ring, Plus(a), b, S) = [k \in 1 .. n - 1 |-> ring[(a + k) % S]]
  BY <1>3, <1>4
<1>7. Tail([k \in 1 .. n |-> ring[(a + k - 1) % S]]) = [k \in 1 .. n - 1 |-> ring[(a + k) % S]]
  BY <1>1
<1>8. [k \in 1 .. n |-> ring[(a + k - 1) % S]]
        = <<ring[a % S]>> \o [k \in 1 .. n - 1 |-> ring[(a + k) % S]]
  BY <1>1
<1> QED
  BY <1>5, <1>6, <1>7, <1>8

\* Two rings that differ at most at the places from lo to hi - 1 ahead of a.
Outside(new, ring, S, a, lo, hi) ==
  \A i \in 0 .. S - 1 : (\A m \in lo .. hi - 1 : i # (a + m) % S) => new[i] = ring[i]

(* Writing to places outside what it holds changes nothing of it. *)
LEMMA HeldKept ==
  ASSUME NEW S, RingSize(S), NEW ring, NEW new,
         NEW a \in Index, NEW b \in Index, NEW c \in Index,
         Gap(a, b) <= Gap(a, c), Gap(a, c) <= S,
         NEW lo \in Nat, NEW hi \in 0 .. S, hi <= Gap(a, b) \/ Gap(a, c) <= lo,
         Outside(new, ring, S, a, lo, hi)
  PROVE  Held(new, b, c, S) = Held(ring, b, c, S)
<1> DEFINE p == Gap(a, b)
           q == Gap(a, c)
<1>1. p \in Nat /\ q \in Nat /\ a \in Int /\ S \in Nat \ {0}
  BY GapRange, Sizes DEF Index, RingSize
<1>2. ASSUME NEW k \in 1 .. q - p
      PROVE  new[(a + p + k - 1) % S] = ring[(a + p + k - 1) % S]
  <2> HIDE DEF p, q
  <2>1. a + p + k - 1 \in Int
    BY <1>1
  <2>2. (a + p + k - 1) % S \in 0 .. S - 1
    BY <1>1, <2>1, DivMod
  <2>3. ASSUME NEW m \in lo .. hi - 1
        PROVE  (a + p + k - 1) % S # (a + m) % S
    <3>1. a + m \in Int /\ m < S /\ p + k - 1 < S /\ m >= 0
      BY <1>1 DEF p, q
    <3>2. CASE m < p
      <4>1. a + m < a + p + k - 1 /\ a + p + k - 1 < (a + m) + S
        BY <1>1, <3>1, <3>2
      <4> QED
        BY <1>1, <2>1, <3>1, <4>1, Apart
    <3>3. CASE m > p + k - 1
      <4>1. a + p + k - 1 < a + m /\ a + m < (a + p + k - 1) + S
        BY <1>1, <3>1, <3>3
      <4> QED
        BY <1>1, <2>1, <3>1, <4>1, Apart
    <3> QED
      BY <1>1, <3>2, <3>3 DEF p, q
  <2> QED
    BY <2>2, <2>3 DEF Outside
<1>3. Held(new, b, c, S) = From(new, S, a + p, q - p)
  BY HeldFrom
<1>4. Held(ring, b, c, S) = From(ring, S, a + p, q - p)
  BY HeldFrom
<1> HIDE DEF p, q
<1> QED
  BY <1>2, <1>3, <1>4 DEF From

(* What it holds up to an earlier end. *)
LEMMA HeldPrefix ==
  ASSUME NEW S, NEW ring,
         NEW a \in Index, NEW b \in Index, NEW c \in Index, Gap(a, b) <= Gap(a, c)
  PROVE  Held(ring, a, b, S) = SubSeq(Held(ring, a, c, S), 1, Gap(a, b))
<1> DEFINE p == Gap(a, b)
           q == Gap(a, c)
<1>1. p \in Nat /\ q \in Nat
  BY GapRange, Sizes
<1>2. Held(ring, a, b, S) = [k \in 1 .. p |-> ring[(a + k - 1) % S]]
  BY DEF Held, Gap
<1>3. Held(ring, a, c, S) = [k \in 1 .. q |-> ring[(a + k - 1) % S]]
  BY DEF Held, Gap
<1>4. p <= q
  OBVIOUS
<1> HIDE DEF p, q
<1>5. SubSeq([k \in 1 .. q |-> ring[(a + k - 1) % S]], 1, p)
        = [k \in 1 .. p |-> ring[(a + k - 1) % S]]
  BY <1>1, <1>4
<1> QED
  BY <1>2, <1>3, <1>5 DEF p

(* What it holds in two parts, the second one longer by c. *)
LEMMA HeldCat ==
  ASSUME NEW S, RingSize(S), NEW ring, NEW x,
         NEW a \in Index, NEW b \in Index, NEW c \in Index, Gap(a, b) <= Gap(a, c)
  PROVE  Append(Held(ring, a, c, S), x)
           = Held(ring, a, b, S) \o Append(Held(ring, b, c, S), x)
<1> DEFINE p == Gap(a, b)
           q == Gap(a, c)
<1>1. p \in Nat /\ q \in Nat /\ a \in Int
  BY GapRange, Sizes DEF Index
<1>2. Held(ring, a, b, S) = [k \in 1 .. p |-> ring[(a + k - 1) % S]]
  BY DEF Held, Gap
<1>3. Held(ring, a, c, S) = [k \in 1 .. q |-> ring[(a + k - 1) % S]]
  BY DEF Held, Gap
<1>4. Held(ring, b, c, S) = [k \in 1 .. q - p |-> ring[(a + p + k - 1) % S]]
  BY HeldFrom DEF From
<1>5. p <= q
  OBVIOUS
<1> HIDE DEF p, q
<1>6. PICK d \in Nat : d = q - p /\ q = p + d
  <2>1. q - p \in Nat /\ q = p + (q - p)
    BY <1>1, <1>5
  <2> QED
    BY <2>1
<1>7. Append([k \in 1 .. q |-> ring[(a + k - 1) % S]], x)
        = [k \in 1 .. q + 1 |-> IF k <= q THEN ring[(a + k - 1) % S] ELSE x]
  BY <1>1
<1>8. Append([k \in 1 .. d |-> ring[(a + p + k - 1) % S]], x)
        = [k \in 1 .. d + 1 |-> IF k <= d THEN ring[(a + p + k - 1) % S] ELSE x]
  BY <1>6
<1>9. [k \in 1 .. p |-> ring[(a + k - 1) % S]]
        \o [k \in 1 .. d + 1 |-> IF k <= d THEN ring[(a + p + k - 1) % S] ELSE x]
        = [k \in 1 .. q + 1 |-> IF k <= q THEN ring[(a + k - 1) % S] ELSE x]
  BY <1>1, <1>6
<1> QED
  BY <1>2, <1>3, <1>4, <1>6, <1>7, <1>8, <1>9

(* The greatest element of a set of numbers. *)
LEMMA Greatest ==
  ASSUME NEW n \in Nat, NEW T \in SUBSET (1 .. n), T # {}
  PROVE  \E k \in T : \A l \in T : l <= k
<1> DEFINE R == OpToRel(<, Nat)
           D == {n - k : k \in T}
<1>1. IsWellFoundedOn(R, Nat)
  BY NatLessThanWellFounded
<1>2. \A x, y \in Nat : y < x => <<y, x>> \in R
  BY DEF OpToRel
<1>3. D # {}
  OBVIOUS
<1>4. \A k \in T : k \in Int /\ n - k \in Nat
  OBVIOUS
<1>5. D \subseteq Nat
  BY <1>4
<1>6. PICK x \in D : \A y \in D : ~(<<y, x>> \in R)
  <2> HIDE DEF D, R
  <2> QED
    BY <1>1, <1>3, <1>5, WFMin
<1> HIDE DEF R
<1>7. ASSUME NEW y \in D PROVE x <= y
  <2> HIDE DEF D
  <2>1. x \in Nat /\ y \in Nat /\ ~(y < x)
    BY <1>2, <1>5, <1>6
  <2> QED
    BY <2>1
<1>8. PICK k \in T : x = n - k
  OBVIOUS
<1>9. ASSUME NEW l \in T PROVE l <= k
  <2>1. n - k <= n - l
    BY <1>7, <1>8
  <2> QED
    BY <1>4, <2>1
<1> QED
  BY <1>9

(***************************************************************************)
(* The inductive invariant.                                                *)
(***************************************************************************)
Char == Key \cup {"NUL", "NL"}
Sleeper ==
  [at : {"idle", "loop", "asleep"}, n : Nat, target : Nat, c : Glyph \cup {Echo}, killed : BOOLEAN]

ConsTypes ==
  cons \in [buf : [0 .. INPUT_BUF_SIZE - 1 -> Char], r : Index, w : Index, e : Index]
TxTypes ==
  tx \in [buf : [0 .. UART_TX_BUF_SIZE - 1 -> Glyph \cup {Echo}], r : Index, w : Index]
UartTypes ==
  uart \in [the : BOOLEAN, thr : Glyph \cup {Echo}, edge : BOOLEAN, iid1 : BOOLEAN,
            dr : BOOLEAN, rbr : Key \cup {"NUL"}]
OwnerTypes ==
  owner \in [at : {"none", "start", "sync", "getc", "complete", "read"},
             by : Reader \cup Writer \cup {"none", "intr", "printf"}, out : Nat]
ThreadTypes == thread \in [Reader \cup Writer -> Sleeper]

ConsOrder == Gap(cons.r, cons.w) <= Gap(cons.r, cons.e) /\ Gap(cons.r, cons.e) <= INPUT_BUF_SIZE
TxOrder == Gap(tx.r, tx.w) <= UART_TX_BUF_SIZE

\* Nobody sleeps on what is there.
Sleepers ==
  /\ \A p \in Reader : thread[p].at = "asleep" => cons.r = cons.w
  /\ \A p \in Writer : thread[p].at = "asleep" => tx.w = (tx.r + UART_TX_BUF_SIZE) % UINT

\* Unless uartstart() is about to look, the UART is busy, is about to raise its
\* interrupt or has raised it, when there is something to send.
Sending == owner.at # "start" /\ tx.w # tx.r => ~uart.the \/ uart.edge \/ uart.iid1

TerminalInv ==
  /\ ConsTypes /\ TxTypes /\ UartTypes /\ OwnerTypes /\ ThreadTypes
  /\ ConsOrder /\ TxOrder /\ Sleepers /\ Sending

(***************************************************************************)
(* What a step may do to the two rings, whoever takes it.                  *)
(***************************************************************************)
Longer(c) == [cons EXCEPT !.buf[cons.e % INPUT_BUF_SIZE] = c, !.e = Plus(cons.e)]

ConsStep ==
  \/ cons' = cons
  \/ cons.r # cons.w /\ cons' = Taken
  \/ \E k \in 0 .. Gap(cons.w, cons.e) : cons' = Erased(k)
  \/ Gap(cons.r, cons.e) < INPUT_BUF_SIZE /\ \E c \in Key : cons' = Longer(c)
  \/ /\ Gap(cons.r, cons.e) < INPUT_BUF_SIZE
     /\ \E c \in Key \cup {"NL"} :
          /\ cons' = [Longer(c) EXCEPT !.w = Plus(cons.e)]
          /\ c \in {"NL", "EOF"} \/ Gap(cons.r, Plus(cons.e)) = INPUT_BUF_SIZE

TxStep ==
  \/ tx' = tx /\ uart'.the = uart.the /\ uart'.thr = uart.thr
  \/ /\ tx.w # (tx.r + UART_TX_BUF_SIZE) % UINT
     /\ \E c \in Glyph \cup {Echo} :
          tx' = [tx EXCEPT !.buf[tx.w % UART_TX_BUF_SIZE] = c, !.w = Plus(tx.w)]
     /\ uart'.the = uart.the /\ uart'.thr = uart.thr
  \/ /\ tx.r # tx.w /\ uart.the
     /\ tx' = [tx EXCEPT !.r = Plus(tx.r)]
     /\ ~uart'.the /\ uart'.thr = tx.buf[tx.r % UART_TX_BUF_SIZE]
  \/ uart.the /\ ~uart'.the /\ uart'.thr = Echo /\ tx' = tx
  \/ ~uart.the /\ uart'.the /\ tx' = tx

(* A place is a place of the ring. *)
LEMMA ConsPlace ==
  ASSUME NEW x \in Int
  PROVE  x % INPUT_BUF_SIZE \in 0 .. INPUT_BUF_SIZE - 1
  BY DivMod, Sizes
LEMMA TxPlace ==
  ASSUME NEW x \in Int
  PROVE  x % UART_TX_BUF_SIZE \in 0 .. UART_TX_BUF_SIZE - 1
  BY DivMod, Sizes

(* Blanked places. *)
LEMMA BlankIs ==
  ASSUME ConsTypes, NEW from, NEW k
  PROVE  /\ Blank(from, k) \in [0 .. INPUT_BUF_SIZE - 1 -> Char]
         /\ \A i \in 0 .. INPUT_BUF_SIZE - 1 :
              (\A j \in 0 .. k - 1 : i # (from + j) % INPUT_BUF_SIZE)
                => Blank(from, k)[i] = cons.buf[i]
  BY DEF ConsTypes, Blank, Char

(* The input ring keeps its types and its order. *)
LEMMA ConsStepKeeps ==
  ASSUME ConsTypes, ConsOrder, ConsStep
  PROVE  ConsTypes' /\ ConsOrder'
<1> DEFINE S == INPUT_BUF_SIZE
<1>1. cons.r \in Index /\ cons.w \in Index /\ cons.e \in Index
      /\ cons.buf \in [0 .. S - 1 -> Char]
  BY DEF ConsTypes
<1>2. /\ Gap(cons.r, cons.w) \in Nat /\ Gap(cons.r, cons.e) \in Nat /\ Gap(cons.w, cons.e) \in Nat
      /\ Gap(cons.w, cons.e) = Gap(cons.r, cons.e) - Gap(cons.r, cons.w)
      /\ Gap(cons.r, cons.w) <= Gap(cons.r, cons.e) /\ Gap(cons.r, cons.e) <= S
      /\ S \in Nat \ {0} /\ UINT \in Nat /\ S < UINT
  BY <1>1, GapRange, GapSum, Sizes DEF ConsOrder
<1>3. CASE cons' = cons
  BY <1>3 DEF ConsTypes, ConsOrder
<1>4. CASE cons.r # cons.w /\ cons' = Taken
  <2>1. Plus(cons.r) \in Index /\ Gap(Plus(cons.r), cons.w) = Gap(cons.r, cons.w) - 1
    BY <1>1, <1>4, GapTake
  <2>2. cons.r # cons.e
    BY <1>1, <1>2, <1>4, GapRange
  <2>3. Gap(Plus(cons.r), cons.e) = Gap(cons.r, cons.e) - 1
    BY <1>1, <2>2, GapTake
  <2>4. Blank(cons.r, 1) \in [0 .. S - 1 -> Char]
    BY BlankIs
  <2>5. cons' = [buf |-> Blank(cons.r, 1), r |-> Plus(cons.r), w |-> cons.w, e |-> cons.e]
    BY <1>4 DEF Taken, ConsTypes
  <2> QED
    BY <1>1, <1>2, <2>1, <2>3, <2>4, <2>5 DEF ConsTypes, ConsOrder
<1>5. CASE \E k \in 0 .. Gap(cons.w, cons.e) : cons' = Erased(k)
  <2>1. PICK k \in 0 .. Gap(cons.w, cons.e) : cons' = Erased(k)
    BY <1>5
  <2> DEFINE e == (cons.e - k) % UINT
  <2>2. k \in 0 .. Gap(cons.r, cons.e)
    BY <1>2
  <2>3. e \in Index /\ Gap(cons.r, e) = Gap(cons.r, cons.e) - k
    BY <1>1, <2>2, GapErase
  <2>4. Blank(e, k) \in [0 .. S - 1 -> Char]
    BY BlankIs
  <2>5. cons' = [buf |-> Blank(e, k), r |-> cons.r, w |-> cons.w, e |-> e]
    BY <2>1 DEF Erased, ConsTypes
  <2> HIDE DEF e
  <2> QED
    BY <1>1, <1>2, <2>3, <2>4, <2>5 DEF ConsTypes, ConsOrder
<1>6. ASSUME NEW c \in Key \cup {"NL"}, Gap(cons.r, cons.e) < S
      PROVE  /\ Longer(c) = [buf |-> [cons.buf EXCEPT ![cons.e % S] = c],
                             r |-> cons.r, w |-> cons.w, e |-> Plus(cons.e)]
             /\ [cons.buf EXCEPT ![cons.e % S] = c] \in [0 .. S - 1 -> Char]
             /\ Plus(cons.e) \in Index /\ Gap(cons.r, Plus(cons.e)) = Gap(cons.r, cons.e) + 1
  <2>1. Longer(c) = [buf |-> [cons.buf EXCEPT ![cons.e % S] = c],
                     r |-> cons.r, w |-> cons.w, e |-> Plus(cons.e)]
    <3>1. PICK b \in [0 .. S - 1 -> Char], r \in Index, w \in Index, e \in Index :
               cons = [buf |-> b, r |-> r, w |-> w, e |-> e]
      BY DEF ConsTypes
    <3>2. cons.buf = b /\ cons.r = r /\ cons.w = w /\ cons.e = e
      BY <3>1
    <3>3. Longer(c) = [[buf |-> b, r |-> r, w |-> w, e |-> e]
                         EXCEPT !.buf = [b EXCEPT ![e % S] = c], !.e = Plus(e)]
      BY <3>1, <3>2 DEF Longer
    <3> QED
      BY <3>2, <3>3
  <2>2. [cons.buf EXCEPT ![cons.e % S] = c] \in [0 .. S - 1 -> Char]
    BY <1>1, <1>6 DEF Char
  <2>3. Plus(cons.e) \in Index /\ Gap(cons.r, Plus(cons.e)) = Gap(cons.r, cons.e) + 1
    <3>1. Gap(cons.r, cons.e) < UINT - 1
      BY <1>2, <1>6
    <3> QED
      BY <1>1, <3>1, GapPlus
  <2> QED
    BY <2>1, <2>2, <2>3
<1>7. CASE Gap(cons.r, cons.e) < S /\ \E c \in Key : cons' = Longer(c)
  <2>1. PICK c \in Key : cons' = Longer(c)
    BY <1>7
  <2> DEFINE b == [cons.buf EXCEPT ![cons.e % S] = c]
  <2>2. cons' = [buf |-> b, r |-> cons.r, w |-> cons.w, e |-> Plus(cons.e)]
        /\ b \in [0 .. S - 1 -> Char]
    BY <1>6, <1>7, <2>1
  <2>3. Plus(cons.e) \in Index /\ Gap(cons.r, Plus(cons.e)) = Gap(cons.r, cons.e) + 1
    BY <1>6, <1>7
  <2> HIDE DEF b
  <2> QED
    BY <1>1, <1>2, <1>7, <2>2, <2>3 DEF ConsTypes, ConsOrder
<1>8. CASE Gap(cons.r, cons.e) < S
           /\ \E c \in Key \cup {"NL"} : cons' = [Longer(c) EXCEPT !.w = Plus(cons.e)]
  <2>1. PICK c \in Key \cup {"NL"} : cons' = [Longer(c) EXCEPT !.w = Plus(cons.e)]
    BY <1>8
  <2> DEFINE b == [cons.buf EXCEPT ![cons.e % S] = c]
  <2>2. cons' = [buf |-> b, r |-> cons.r, w |-> Plus(cons.e), e |-> Plus(cons.e)]
        /\ b \in [0 .. S - 1 -> Char]
    BY <1>6, <1>8, <2>1
  <2>3. Plus(cons.e) \in Index /\ Gap(cons.r, Plus(cons.e)) = Gap(cons.r, cons.e) + 1
    BY <1>6, <1>8
  <2> HIDE DEF b
  <2>4. ConsTypes'
    BY <1>1, <2>2, <2>3 DEF ConsTypes
  <2> QED
    BY <1>2, <1>8, <2>2, <2>3, <2>4 DEF ConsOrder
<1> QED
  BY <1>3, <1>4, <1>5, <1>7, <1>8 DEF ConsStep

(* The output ring keeps its types and its order. *)
LEMMA TxStepKeeps ==
  ASSUME TxTypes, TxOrder, TxStep
  PROVE  TxTypes' /\ TxOrder'
<1> DEFINE S == UART_TX_BUF_SIZE
<1>1. /\ tx.r \in Index /\ tx.w \in Index /\ tx.buf \in [0 .. S - 1 -> Glyph \cup {Echo}]
      /\ Gap(tx.r, tx.w) \in Nat /\ Gap(tx.r, tx.w) <= S
      /\ S \in Nat \ {0} /\ UINT \in Nat /\ S < UINT
  BY GapRange, Sizes DEF TxTypes, TxOrder
<1>2. CASE tx' = tx
  BY <1>2 DEF TxTypes, TxOrder
<1>3. CASE tx.w # (tx.r + S) % UINT /\ \E c \in Glyph \cup {Echo} :
             tx' = [tx EXCEPT !.buf[tx.w % S] = c, !.w = Plus(tx.w)]
  <2>1. PICK c \in Glyph \cup {Echo} : tx' = [tx EXCEPT !.buf[tx.w % S] = c, !.w = Plus(tx.w)]
    BY <1>3
  <2>2. tx' = [buf |-> [tx.buf EXCEPT ![tx.w % S] = c], r |-> tx.r, w |-> Plus(tx.w)]
    BY <2>1 DEF TxTypes
  <2>3. [tx.buf EXCEPT ![tx.w % S] = c] \in [0 .. S - 1 -> Glyph \cup {Echo}]
    BY <1>1
  <2>4. Gap(tx.r, tx.w) # S
    BY <1>1, <1>3, NotFull
  <2>5. Plus(tx.w) \in Index /\ Gap(tx.r, Plus(tx.w)) = Gap(tx.r, tx.w) + 1
    <3>1. Gap(tx.r, tx.w) < UINT - 1
      BY <1>1, <2>4
    <3> QED
      BY <1>1, <3>1, GapPlus
  <2> QED
    BY <1>1, <2>2, <2>3, <2>4, <2>5 DEF TxTypes, TxOrder
<1>4. CASE tx.r # tx.w /\ tx' = [tx EXCEPT !.r = Plus(tx.r)]
  <2>1. tx' = [buf |-> tx.buf, r |-> Plus(tx.r), w |-> tx.w]
    BY <1>4 DEF TxTypes
  <2>2. Plus(tx.r) \in Index /\ Gap(Plus(tx.r), tx.w) = Gap(tx.r, tx.w) - 1
    BY <1>1, <1>4, GapTake
  <2> QED
    BY <1>1, <2>1, <2>2 DEF TxTypes, TxOrder
<1> QED
  BY <1>2, <1>3, <1>4 DEF TxStep

(***************************************************************************)
(* What the console promises of a step of its rings.                       *)
(***************************************************************************)
(* Committed lines are only read, the edited line grows and shrinks at its end *)
(* and is handed over whole.                                                    *)
LEMMA ConsStepLines ==
  ASSUME ConsTypes, ConsOrder, ConsStep
  PROVE  LineStep
<1> DEFINE S == INPUT_BUF_SIZE
           W == Gap(cons.r, cons.w)
           E == Gap(cons.r, cons.e)
<1>1. /\ cons.r \in Index /\ cons.w \in Index /\ cons.e \in Index
      /\ cons.buf \in [0 .. S - 1 -> Char] /\ DOMAIN cons.buf = 0 .. S - 1
      /\ cons = [buf |-> cons.buf, r |-> cons.r, w |-> cons.w, e |-> cons.e]
  BY DEF ConsTypes
<1>2. /\ W \in Nat /\ E \in Nat /\ W <= E /\ E <= S
      /\ Gap(cons.w, cons.e) = E - W /\ Gap(cons.r, cons.r) = 0
      /\ S \in Nat \ {0} /\ UINT \in Nat /\ S < UINT /\ cons.r \in Int /\ cons.e \in Int
  BY <1>1, GapRange, GapSum, Sizes DEF ConsOrder, Index
<1>3. RingSize(S)
  BY RingSizes
<1>4. /\ Committed = Held(cons.buf, cons.r, cons.w, S)
      /\ Editing = Held(cons.buf, cons.w, cons.e, S)
      /\ Committed' = Held(cons'.buf, cons'.r, cons'.w, S)
      /\ Editing' = Held(cons'.buf, cons'.w, cons'.e, S)
  BY DEF Committed, Editing
<1>5. Len(Editing) = E - W /\ (Committed = <<>> <=> cons.r = cons.w)
  BY <1>1, <1>2, <1>4, HeldLen
<1> HIDE DEF S, W, E
<1>6. CASE cons' = cons
  BY <1>4, <1>6 DEF LineStep
<1>7. CASE cons.r # cons.w /\ cons' = Taken
  <2> DEFINE new == Blank(cons.r, 1)
  <2>1. /\ cons'.buf = new /\ cons'.r = Plus(cons.r)
        /\ cons'.w = cons.w /\ cons'.e = cons.e
    BY <1>1, <1>7 DEF Taken
  <2>2. Plus(cons.r) \in Index /\ Gap(cons.r, Plus(cons.r)) = 1 /\ 1 <= W
    <3>1. W # 0
      BY <1>1, <1>7, GapRange DEF W
    <3>2. 0 < UINT - 1
      BY <1>2, <3>1
    <3> QED
      BY <1>1, <1>2, <3>1, <3>2, GapPlus
  <2>3. Outside(new, cons.buf, S, cons.r, 0, 1)
    BY BlankIs DEF S, Outside
  <2> HIDE DEF new
  <2>4. Held(new, Plus(cons.r), cons.w, S) = Held(cons.buf, Plus(cons.r), cons.w, S)
    <3>1. 1 \in 0 .. S /\ 0 \in Nat /\ 1 <= Gap(cons.r, Plus(cons.r))
          /\ Gap(cons.r, Plus(cons.r)) <= Gap(cons.r, cons.w) /\ Gap(cons.r, cons.w) <= S
      BY <1>2, <2>2 DEF W
    <3> QED
      BY <1>1, <1>2, <1>3, <2>2, <2>3, <3>1, HeldKept
  <2>5. Held(new, cons.w, cons.e, S) = Held(cons.buf, cons.w, cons.e, S)
    <3>1. 1 \in 0 .. S /\ 0 \in Nat /\ 1 <= Gap(cons.r, cons.w)
          /\ Gap(cons.r, cons.w) <= Gap(cons.r, cons.e) /\ Gap(cons.r, cons.e) <= S
      BY <1>2, <2>2 DEF W, E
    <3> QED
      BY <1>1, <1>2, <1>3, <2>3, <3>1, HeldKept
  <2>6. Held(cons.buf, Plus(cons.r), cons.w, S) = Tail(Held(cons.buf, cons.r, cons.w, S))
    BY <1>1, <1>2, <1>3, <1>7, HeldTail
  <2>7. Committed # <<>> /\ Committed' = Tail(Committed) /\ Editing' = Editing
    BY <1>4, <1>5, <1>7, <2>1, <2>4, <2>5, <2>6
  <2> QED
    BY <2>7 DEF LineStep
<1>8. CASE \E k \in 0 .. Gap(cons.w, cons.e) : cons' = Erased(k)
  <2>1. PICK k \in 0 .. Gap(cons.w, cons.e) : cons' = Erased(k)
    BY <1>8
  <2> DEFINE e == (cons.e - k) % UINT
             new == Blank(e, k)
  <2>2. cons'.buf = new /\ cons'.r = cons.r /\ cons'.w = cons.w /\ cons'.e = e
    BY <1>1, <2>1 DEF Erased
  <2>3. k \in Nat /\ k <= E - W /\ k \in 0 .. Gap(cons.r, cons.e)
    BY <1>2 DEF E
  <2>4. e \in Index /\ Gap(cons.r, e) = E - k
    BY <1>1, <2>3, GapErase DEF E
  <2>5. Outside(new, cons.buf, S, cons.r, E - k, E)
    <3> SUFFICES ASSUME NEW i \in 0 .. S - 1, \A m \in E - k .. E - 1 : i # (cons.r + m) % S
                 PROVE  new[i] = cons.buf[i]
      BY DEF Outside
    <3>1. ASSUME NEW j \in 0 .. k - 1 PROVE i # (e + j) % S
      <4>1. (e + j) % S = (cons.r + (E - k) + j) % S
        BY <1>1, <1>2, <1>3, <2>3, <2>4, PlaceFrom
      <4>2. E - k + j \in E - k .. E - 1 /\ cons.r + (E - k) + j = cons.r + (E - k + j)
        BY <1>2, <2>3
      <4> QED
        BY <4>1, <4>2
    <3> HIDE DEF e
    <3> QED
      BY <3>1, BlankIs DEF S
  <2> HIDE DEF e, new
  <2>6. E - k \in Nat /\ E \in 0 .. S /\ W <= E - k /\ E - k <= S
    BY <1>2, <2>3
  <2>7. Held(new, cons.r, cons.w, S) = Held(cons.buf, cons.r, cons.w, S)
    <3>1. Gap(cons.r, cons.r) <= Gap(cons.r, cons.w) /\ Gap(cons.r, cons.w) <= S
          /\ Gap(cons.r, cons.w) <= E - k
      BY <1>2, <2>6 DEF W
    <3> QED
      BY <1>1, <1>2, <1>3, <2>5, <2>6, <3>1, HeldKept
  <2>8. Held(new, cons.w, e, S) = Held(cons.buf, cons.w, e, S)
    <3>1. Gap(cons.r, cons.w) <= Gap(cons.r, e) /\ Gap(cons.r, e) <= S /\ Gap(cons.r, e) <= E - k
      BY <1>2, <2>4, <2>6 DEF W
    <3> QED
      BY <1>1, <1>2, <1>3, <2>4, <2>5, <2>6, <3>1, HeldKept
  <2>9. Gap(cons.w, e) = E - k - W
    BY <1>1, <1>2, <2>4, <2>6, GapSum DEF W
  <2>10. Held(cons.buf, cons.w, e, S) = SubSeq(Held(cons.buf, cons.w, cons.e, S), 1, E - k - W)
    <3>1. Gap(cons.w, e) <= Gap(cons.w, cons.e)
      BY <1>2, <2>3, <2>9
    <3> QED
      <4>1. Held(cons.buf, cons.w, e, S)
              = SubSeq(Held(cons.buf, cons.w, cons.e, S), 1, Gap(cons.w, e))
        BY <1>1, <2>4, <3>1, HeldPrefix
      <4> QED
        BY <2>9, <4>1
  <2>11. E - k - W \in 0 .. Len(Editing)
    BY <1>2, <1>5, <2>3
  <2>12. Committed' = Committed /\ Editing' = SubSeq(Editing, 1, E - k - W)
    BY <1>4, <2>2, <2>7, <2>8, <2>10
  <2> QED
    BY <2>11, <2>12 DEF LineStep
<1>9. ASSUME NEW c \in Key \cup {"NL"}, Gap(cons.r, cons.e) < S
      PROVE  LET new == Put(cons.buf, S, cons.e, c)
             IN  /\ Longer(c) = [buf |-> new, r |-> cons.r, w |-> cons.w, e |-> Plus(cons.e)]
                 /\ Held(new, cons.r, cons.w, S) = Committed
                 /\ Held(new, cons.w, Plus(cons.e), S) = Append(Editing, c)
                 /\ Held(new, cons.r, Plus(cons.e), S) = Committed \o Append(Editing, c)
                 /\ Plus(cons.e) \in Index
  <2> DEFINE new == Put(cons.buf, S, cons.e, c)
  <2>1. Longer(c) = [buf |-> new, r |-> cons.r, w |-> cons.w, e |-> Plus(cons.e)]
    <3>1. PICK b \in [0 .. S - 1 -> Char], r \in Index, w \in Index, e \in Index :
               cons = [buf |-> b, r |-> r, w |-> w, e |-> e]
      BY DEF ConsTypes, S
    <3>2. cons.buf = b /\ cons.r = r /\ cons.w = w /\ cons.e = e
      BY <3>1
    <3>3. Longer(c) = [[buf |-> b, r |-> r, w |-> w, e |-> e]
                         EXCEPT !.buf = [b EXCEPT ![e % S] = c], !.e = Plus(e)]
      BY <3>1, <3>2 DEF Longer, S
    <3> QED
      BY <3>2, <3>3 DEF Put
  <2>2. E < S
    BY <1>9 DEF E
  <2>3. (cons.r + E) % S = cons.e % S
    <3>1. (cons.e + 0) % S = (cons.r + Gap(cons.r, cons.e) + 0) % S
      BY <1>1, <1>2, <1>3, PlaceFrom, SMTT(40)
    <3> QED
      BY <1>2, <3>1 DEF E
  <2>4. Outside(new, cons.buf, S, cons.r, E, E + 1)
    <3>1. E \in E .. (E + 1) - 1
      BY <1>2
    <3> QED
      BY <1>1, <2>3, <3>1 DEF Outside, Put
  <2>5. Held(new, cons.r, cons.w, S) = Held(cons.buf, cons.r, cons.w, S)
    <3> HIDE DEF new
    <3>1. Gap(cons.r, cons.r) <= Gap(cons.r, cons.w) /\ Gap(cons.r, cons.w) <= S
          /\ Gap(cons.r, cons.w) <= E /\ E + 1 \in 0 .. S
      BY <1>2, <2>2 DEF W
    <3> QED
      BY <1>1, <1>2, <1>3, <2>4, <3>1, HeldKept
  <2>6. Held(new, cons.w, Plus(cons.e), S) = Append(Held(cons.buf, cons.w, cons.e, S), c)
    <3>1. Gap(cons.w, cons.e) < S
      BY <1>2, <2>2
    <3> QED
      BY <1>1, <1>3, <3>1, HeldAppend
  <2>7. Held(new, cons.r, Plus(cons.e), S) = Append(Held(cons.buf, cons.r, cons.e, S), c)
    BY <1>1, <1>3, <1>9, HeldAppend
  <2>8. Append(Held(cons.buf, cons.r, cons.e, S), c)
          = Held(cons.buf, cons.r, cons.w, S) \o Append(Held(cons.buf, cons.w, cons.e, S), c)
    <3>1. Gap(cons.r, cons.w) <= Gap(cons.r, cons.e)
      BY <1>2 DEF W, E
    <3> QED
      BY <1>1, <1>2, <1>3, <3>1, HeldCat, SMTT(40)
  <2>9. Plus(cons.e) \in Index
    <3>1. Gap(cons.r, cons.e) < UINT - 1
      BY <1>2, <2>2 DEF E
    <3> QED
      BY <1>1, <3>1, GapPlus
  <2> QED
    BY <1>4, <2>1, <2>5, <2>6, <2>7, <2>8, <2>9
<1>10. CASE Gap(cons.r, cons.e) < S /\ \E c \in Key : cons' = Longer(c)
  <2>1. PICK c \in Key : cons' = Longer(c)
    BY <1>10
  <2> DEFINE new == Put(cons.buf, S, cons.e, c)
  <2>2. cons' = [buf |-> new, r |-> cons.r, w |-> cons.w, e |-> Plus(cons.e)]
    BY <1>9, <1>10, <2>1
  <2>3. Held(new, cons.r, cons.w, S) = Committed
        /\ Held(new, cons.w, Plus(cons.e), S) = Append(Editing, c)
    BY <1>9, <1>10
  <2> HIDE DEF new
  <2>4. Committed' = Committed /\ Editing' = Append(Editing, c)
    BY <1>4, <2>2, <2>3
  <2> QED
    BY <2>4 DEF LineStep
<1>11. CASE /\ Gap(cons.r, cons.e) < S
            /\ \E c \in Key \cup {"NL"} :
                 /\ cons' = [Longer(c) EXCEPT !.w = Plus(cons.e)]
                 /\ c \in {"NL", "EOF"} \/ Gap(cons.r, Plus(cons.e)) = S
  <2>1. PICK c \in Key \cup {"NL"} :
               /\ cons' = [Longer(c) EXCEPT !.w = Plus(cons.e)]
               /\ c \in {"NL", "EOF"} \/ Gap(cons.r, Plus(cons.e)) = S
    BY <1>11
  <2> DEFINE new == Put(cons.buf, S, cons.e, c)
  <2>2. Longer(c) = [buf |-> new, r |-> cons.r, w |-> cons.w, e |-> Plus(cons.e)]
    BY <1>9, <1>11
  <2>3. Held(new, cons.r, Plus(cons.e), S) = Committed \o Append(Editing, c)
        /\ Plus(cons.e) \in Index
    BY <1>9, <1>11
  <2> HIDE DEF new
  <2>4. cons' = [buf |-> new, r |-> cons.r, w |-> Plus(cons.e), e |-> Plus(cons.e)]
    BY <2>1, <2>2
  <2>5. Committed' = Held(new, cons.r, Plus(cons.e), S)
        /\ Editing' = Held(new, Plus(cons.e), Plus(cons.e), S)
    BY <1>4, <2>4
  <2>6. Editing' = <<>> /\ Len(Committed') = Gap(cons.r, Plus(cons.e))
    BY <1>1, <2>3, <2>5, HeldLen
  <2> QED
    BY <2>1, <2>3, <2>5, <2>6 DEF LineStep, S
<1> QED
  BY <1>6, <1>7, <1>8, <1>10, <1>11 DEF ConsStep, S


(* Sequences with one more element in front or at the end. *)
LEMMA FrontAndEnd ==
  ASSUME NEW T, NEW B \in Seq(T), NEW x \in T, NEW y \in T
  PROVE  /\ <<>> \o B = B /\ <<>> \o Append(B, y) = Append(B, y)
         /\ <<x>> \o B \in Seq(T) /\ Tail(<<x>> \o B) = B
         /\ Len(<<x>> \o B) = Len(B) + 1
         /\ Len(Append(B, y)) = Len(B) + 1 /\ SubSeq(Append(B, y), 1, Len(B)) = B
         /\ <<x>> \o Append(B, y) = Append(<<x>> \o B, y)
  OBVIOUS

(* Output leaves in order; only the character in the THR goes, and only an echo *)
(* gets in front.                                                              *)
LEMMA TxStepOutput ==
  ASSUME TxTypes, TxOrder, UartTypes, TxStep
  PROVE  OutputStep
<1> DEFINE S == UART_TX_BUF_SIZE
           T == Glyph \cup {Echo}
           B == Held(tx.buf, tx.r, tx.w, S)
<1>1. /\ tx.r \in Index /\ tx.w \in Index /\ tx.buf \in [0 .. S - 1 -> T]
      /\ DOMAIN tx.buf = 0 .. S - 1 /\ tx = [buf |-> tx.buf, r |-> tx.r, w |-> tx.w]
      /\ uart.the \in BOOLEAN /\ uart.thr \in T
  BY DEF TxTypes, UartTypes
<1>2. Gap(tx.r, tx.w) \in Nat /\ Gap(tx.r, tx.w) <= S /\ S \in Nat \ {0} /\ S < UINT
  BY <1>1, GapRange, Sizes DEF TxOrder
<1>3. RingSize(S)
  BY RingSizes
<1>4. B \in Seq(T)
  <2>1. ASSUME NEW k \in 1 .. Gap(tx.r, tx.w) PROVE tx.buf[(tx.r + k - 1) % S] \in T
    <3>1. tx.r + k - 1 \in Int
      BY <1>1, Sizes DEF Index
    <3>2. (tx.r + k - 1) % S \in 0 .. S - 1
      BY <3>1, TxPlace
    <3> QED
      BY <1>1, <3>2
  <2>2. B = [k \in 1 .. Gap(tx.r, tx.w) |-> tx.buf[(tx.r + k - 1) % S]]
    BY DEF Held, Gap
  <2> HIDE DEF B
  <2> QED
    BY <1>2, <2>1, <2>2
<1>5. /\ Outgoing = (IF uart.the THEN <<>> ELSE <<uart.thr>>) \o B
      /\ Outgoing' = (IF uart'.the THEN <<>> ELSE <<uart'.thr>>)
                       \o Held(tx'.buf, tx'.r, tx'.w, S)
  BY DEF Outgoing, Buffered
<1>6. Echo \in T
  OBVIOUS
<1> HIDE DEF S, T, B
<1>7. CASE tx' = tx /\ uart'.the = uart.the /\ uart'.thr = uart.thr
  BY <1>5, <1>7 DEF OutputStep, B
<1>8. CASE /\ tx.w # (tx.r + S) % UINT
           /\ \E c \in T : tx' = [tx EXCEPT !.buf[tx.w % S] = c, !.w = Plus(tx.w)]
           /\ uart'.the = uart.the /\ uart'.thr = uart.thr
  <2>1. PICK c \in T : tx' = [tx EXCEPT !.buf[tx.w % S] = c, !.w = Plus(tx.w)]
    BY <1>8
  <2>2. tx' = [buf |-> Put(tx.buf, S, tx.w, c), r |-> tx.r, w |-> Plus(tx.w)]
    BY <1>1, <2>1 DEF Put
  <2>3. Gap(tx.r, tx.w) < S
    <3>1. S \in 0 .. UINT - 1
      BY <1>2, Sizes
    <3>2. Gap(tx.r, tx.w) # S
      BY <1>1, <1>8, <3>1, NotFull
    <3> QED
      BY <1>2, <3>2
  <2>4. Held(Put(tx.buf, S, tx.w, c), tx.r, Plus(tx.w), S) = Append(B, c)
    BY <1>1, <1>3, <2>3, HeldAppend DEF B
  <2>5. Outgoing' = (IF uart.the THEN <<>> ELSE <<uart.thr>>) \o Append(B, c)
    BY <1>5, <1>8, <2>2, <2>4
  <2>6. CASE uart.the
    <3>1. Outgoing = B /\ Outgoing' = Append(B, c)
      BY <1>4, <1>5, <2>5, <2>6, FrontAndEnd
    <3>2. Len(Append(B, c)) = Len(B) + 1 /\ SubSeq(Append(B, c), 1, Len(B)) = B /\ Len(B) \in Nat
      BY <1>4
    <3>4. Len(Outgoing') > Len(Outgoing) /\ SubSeq(Outgoing', 1, Len(Outgoing)) = Outgoing
      BY ONLY <3>1, <3>2
    <3> QED
      BY <3>4 DEF OutputStep
  <2>7. CASE ~uart.the
    <3>1. PICK D \in Seq(T) : D = <<uart.thr>> \o B
      BY <1>1, <1>4, FrontAndEnd
    <3>2. Outgoing = D /\ Outgoing' = Append(D, c)
      BY <1>1, <1>4, <1>5, <2>5, <2>7, <3>1, FrontAndEnd
    <3>3. Len(Append(D, c)) = Len(D) + 1 /\ SubSeq(Append(D, c), 1, Len(D)) = D /\ Len(D) \in Nat
      BY <3>1
    <3>4. Len(Outgoing') > Len(Outgoing) /\ SubSeq(Outgoing', 1, Len(Outgoing)) = Outgoing
      BY ONLY <3>2, <3>3
    <3> QED
      BY <3>4 DEF OutputStep
  <2> QED
    BY <2>6, <2>7
<1>9. CASE /\ tx.r # tx.w /\ uart.the
           /\ tx' = [tx EXCEPT !.r = Plus(tx.r)]
           /\ ~uart'.the /\ uart'.thr = tx.buf[tx.r % S]
  <2>1. tx'.buf = tx.buf /\ tx'.r = Plus(tx.r) /\ tx'.w = tx.w
    BY <1>1, <1>9
  <2>2. B = <<tx.buf[tx.r % S]>> \o Held(tx.buf, Plus(tx.r), tx.w, S)
    BY <1>1, <1>3, <1>9, HeldTail DEF B
  <2>3. Outgoing' = B
    BY <1>5, <1>9, <2>1, <2>2
  <2>4. Outgoing = B
    BY <1>1, <1>4, <1>5, <1>9, FrontAndEnd
  <2> QED
    BY <2>3, <2>4 DEF OutputStep
<1>10. CASE uart.the /\ ~uart'.the /\ uart'.thr = Echo /\ tx' = tx
  <2>1. Outgoing' = <<Echo>> \o B
    BY <1>5, <1>10 DEF B
  <2>2. Outgoing = B
    BY <1>1, <1>4, <1>5, <1>10, FrontAndEnd
  <2>3. Len(<<Echo>> \o B) = Len(B) + 1 /\ Len(B) \in Nat
    BY <1>4, <1>6
  <2> QED
    BY <1>10, <2>1, <2>2, <2>3 DEF OutputStep
<1>11. CASE ~uart.the /\ uart'.the /\ tx' = tx
  <2>1. Outgoing' = <<>> \o B /\ Outgoing = <<uart.thr>> \o B
    BY <1>5, <1>11 DEF B
  <2>2. Outgoing' = B /\ Tail(Outgoing) = B
    BY <1>1, <1>4, <2>1, FrontAndEnd
  <2> QED
    BY <1>11, <2>2 DEF OutputStep
<1> QED
  BY <1>7, <1>8, <1>9, <1>10, <1>11 DEF TxStep, S, T

(***************************************************************************)
(* The operators of the model.                                             *)
(***************************************************************************)
(* How much of the line ^U erases. *)
LEMMA OnLineIs ==
  ASSUME ConsTypes, ConsOrder
  PROVE  OnLine \in 0 .. Gap(cons.w, cons.e)
<1> DEFINE n == Gap(cons.w, cons.e)
           stops == {k \in 1 .. Len(Editing) : Editing[k] = "NL"}
           last == CHOOSE k \in stops : \A l \in stops : l <= k
<1>1. n \in Nat /\ Len(Editing) = n
  <2>1. cons.w \in Index /\ cons.e \in Index
    BY DEF ConsTypes
  <2> QED
    BY <2>1, HeldLen, GapRange DEF Editing
<1>2. OnLine = Len(Editing) - (IF stops = {} THEN 0 ELSE last)
  BY DEF OnLine
<1>3. stops \in SUBSET (1 .. n)
  BY <1>1
<1>4. CASE stops = {}
  BY <1>1, <1>2, <1>4
<1>5. CASE stops # {}
  <2> HIDE DEF stops, n
  <2>1. \E k \in stops : \A l \in stops : l <= k
    BY <1>1, <1>3, <1>5, Greatest
  <2>2. last \in stops
    BY <2>1
  <2> HIDE DEF last
  <2>3. last \in 1 .. n /\ OnLine = n - last
    BY <1>1, <1>2, <1>3, <1>5, <2>2
  <2> QED
    BY <1>1, <2>3 DEF n
<1> QED
  BY <1>4, <1>5

(* Who still sleeps after a wakeup of set. *)
LEMMA WokenIs ==
  ASSUME ThreadTypes, NEW set
  PROVE  /\ Woken(set) \in [Reader \cup Writer -> Sleeper]
         /\ \A p \in Reader \cup Writer :
              /\ Woken(set)[p].at = "asleep" => thread[p].at = "asleep" /\ p \notin set
              /\ Woken(set)[p].killed = thread[p].killed
<1>1. ASSUME NEW p \in Reader \cup Writer
      PROVE  [thread[p] EXCEPT !.at = "loop"] \in Sleeper /\ thread[p] \in Sleeper
             /\ [thread[p] EXCEPT !.at = "loop"].at = "loop"
             /\ [thread[p] EXCEPT !.at = "loop"].killed = thread[p].killed
  BY DEF ThreadTypes, Sleeper
<1>2. DOMAIN thread = Reader \cup Writer
  BY DEF ThreadTypes
<1> QED
  BY <1>1, <1>2 DEF Woken

(* An access to the UART leaves the THR alone and cannot lose a rise of THE that *)
(* was not read.                                                                 *)
LEMMA AccessIs ==
  ASSUME UartTypes, NEW clears \in BOOLEAN
  PROVE  /\ Access(clears) = [the |-> uart.the, thr |-> uart.thr, edge |-> FALSE,
                              iid1 |-> IF uart.iid1 THEN ~clears ELSE uart.edge,
                              dr |-> uart.dr, rbr |-> uart.rbr]
         /\ \A c \in Glyph \cup {Echo} :
              WriteTHR(c) = [the |-> FALSE, thr |-> c, edge |-> FALSE,
                             iid1 |-> IF uart.iid1 THEN FALSE ELSE uart.edge,
                             dr |-> uart.dr, rbr |-> uart.rbr]
<1>1. PICK h \in BOOLEAN, t \in Glyph \cup {Echo}, e \in BOOLEAN, i \in BOOLEAN,
            d \in BOOLEAN, r \in Key \cup {"NUL"} :
        uart = [the |-> h, thr |-> t, edge |-> e, iid1 |-> i, dr |-> d, rbr |-> r]
  BY DEF UartTypes
<1>2. uart.the = h /\ uart.thr = t /\ uart.edge = e /\ uart.iid1 = i /\ uart.dr = d /\ uart.rbr = r
  BY <1>1
<1>3. ASSUME NEW b \in BOOLEAN
      PROVE  Access(b) = [the |-> h, thr |-> t, edge |-> FALSE,
                          iid1 |-> IF i THEN ~b ELSE e, dr |-> d, rbr |-> r]
  <2>1. Access(b) = [[the |-> h, thr |-> t, edge |-> e, iid1 |-> i, dr |-> d, rbr |-> r]
                       EXCEPT !.iid1 = IF i THEN ~b ELSE e, !.edge = FALSE]
    BY <1>1, <1>2 DEF Access
  <2> QED
    BY <2>1
<1>4. ASSUME NEW c \in Glyph \cup {Echo}
      PROVE  WriteTHR(c) = [the |-> FALSE, thr |-> c, edge |-> FALSE,
                            iid1 |-> IF i THEN FALSE ELSE e, dr |-> d, rbr |-> r]
  <2>1. Access(TRUE) = [the |-> h, thr |-> t, edge |-> FALSE,
                        iid1 |-> IF i THEN FALSE ELSE e, dr |-> d, rbr |-> r]
    BY <1>3
  <2>2. WriteTHR(c) = [[the |-> h, thr |-> t, edge |-> FALSE,
                        iid1 |-> IF i THEN FALSE ELSE e, dr |-> d, rbr |-> r]
                         EXCEPT !.the = FALSE, !.thr = c]
    BY <2>1 DEF WriteTHR
  <2> QED
    BY <2>2
<1> QED
  BY <1>2, <1>3, <1>4

(* A received character. *)
LEMMA ConsoleIntr ==
  ASSUME ConsTypes, ConsOrder, ThreadTypes, NEW c \in Key \cup {"NUL"}, consoleintr(c)
  PROVE  /\ ConsStep
         /\ \E n \in Nat : owner' = [owner EXCEPT !.at = "sync", !.out = n]
         /\ \/ thread' = thread /\ cons'.r = cons.r /\ cons'.w = cons.w
            \/ thread' = Woken(Reader)
<1>1. /\ cons.r \in Index /\ cons.w \in Index /\ cons.e \in Index
      /\ cons = [buf |-> cons.buf, r |-> cons.r, w |-> cons.w, e |-> cons.e]
  BY DEF ConsTypes
<1>2. Gap(cons.w, cons.e) \in Nat /\ (Gap(cons.w, cons.e) = 0 <=> cons.w = cons.e)
  BY <1>1, GapRange
<1>3. ASSUME NEW k \in 0 .. Gap(cons.w, cons.e)
      PROVE  Erased(k).r = cons.r /\ Erased(k).w = cons.w
  BY <1>1 DEF Erased
<1>4. CASE c = "DUMP"
  <2>1. cons' = cons /\ owner' = [owner EXCEPT !.at = "sync", !.out = 1] /\ thread' = thread
    BY <1>4 DEF consoleintr
  <2> QED
    BY <2>1 DEF ConsStep
<1>5. CASE c = "KILL"
  <2>1. /\ cons' = Erased(OnLine) /\ thread' = thread
        /\ owner' = [owner EXCEPT !.at = "sync", !.out = 3 * OnLine]
    BY <1>5 DEF consoleintr
  <2>2. OnLine \in 0 .. Gap(cons.w, cons.e)
    BY OnLineIs
  <2>3. OnLine \in 0 .. Gap(cons.w, cons.e) /\ 3 * OnLine \in Nat
    BY <1>2, <2>2
  <2> QED
    BY <1>3, <2>1, <2>3 DEF ConsStep
<1>6. CASE c = "BS" /\ cons.e # cons.w
  <2>1. /\ cons' = Erased(1) /\ thread' = thread
        /\ owner' = [owner EXCEPT !.at = "sync", !.out = 3]
    BY <1>6 DEF consoleintr
  <2>2. 1 \in 0 .. Gap(cons.w, cons.e)
    BY <1>2, <1>6
  <2> QED
    BY <1>3, <2>1, <2>2 DEF ConsStep
<1>7. CASE c = "BS" /\ cons.e = cons.w
  <2>1. cons' = cons /\ thread' = thread /\ owner' = [owner EXCEPT !.at = "sync", !.out = 0]
    BY <1>7 DEF consoleintr
  <2> QED
    BY <2>1 DEF ConsStep
<1>8. CASE /\ c \notin {"DUMP", "KILL", "BS"}
           /\ ~(c # "NUL" /\ Gap(cons.r, cons.e) < INPUT_BUF_SIZE)
  <2>1. cons' = cons /\ thread' = thread /\ owner' = [owner EXCEPT !.at = "sync", !.out = 0]
    BY <1>8 DEF consoleintr, Gap
  <2> QED
    BY <2>1 DEF ConsStep
<1>9. CASE /\ c \notin {"DUMP", "KILL", "BS"}
           /\ c # "NUL" /\ Gap(cons.r, cons.e) < INPUT_BUF_SIZE
  <2> DEFINE stored == IF c = "CR" THEN "NL" ELSE c
             commits == stored \in {"NL", "EOF"}
                        \/ Gap(Longer(stored).r, Longer(stored).e) = INPUT_BUF_SIZE
  <2>1. /\ cons' = IF commits THEN [Longer(stored) EXCEPT !.w = Longer(stored).e]
                   ELSE Longer(stored)
        /\ thread' = IF commits THEN Woken(Reader) ELSE thread
        /\ owner' = [owner EXCEPT !.at = "sync", !.out = 1]
    BY <1>9 DEF consoleintr, Longer, Gap
  <2>2. Longer(stored).r = cons.r /\ Longer(stored).w = cons.w /\ Longer(stored).e = Plus(cons.e)
    BY <1>1 DEF Longer
  <2>3. CASE commits
    <3>1. /\ cons' = [Longer(stored) EXCEPT !.w = Plus(cons.e)] /\ stored \in Key \cup {"NL"}
          /\ stored \in {"NL", "EOF"} \/ Gap(cons.r, Plus(cons.e)) = INPUT_BUF_SIZE
      BY <1>9, <2>1, <2>2, <2>3
    <3>2. ConsStep
      <4> HIDE DEF stored, commits
      <4> QED
        BY <1>9, <3>1 DEF ConsStep
    <3> QED
      BY <2>1, <2>3, <3>2
  <2>4. CASE ~commits
    <3>1. cons' = Longer(stored) /\ stored \in Key
      BY <1>9, <2>1, <2>4
    <3>2. ConsStep
      <4> HIDE DEF stored, commits
      <4> QED
        BY <1>9, <3>1 DEF ConsStep
    <3> QED
      BY <2>1, <2>2, <2>4, <3>1, <3>2
  <2> QED
    BY <2>3, <2>4
<1> QED
  BY <1>4, <1>5, <1>6, <1>7, <1>8, <1>9

(***************************************************************************)
(* Every action steps the rings as above and keeps the rest.               *)
(***************************************************************************)
Keeps ==
  /\ ConsStep /\ TxStep
  /\ UartTypes' /\ OwnerTypes' /\ ThreadTypes' /\ Sleepers' /\ Sending'

(* The devices. *)
LEMMA CycleKeeps ==
  ASSUME TerminalInv, Cycle
  PROVE  Keeps
<1>1. uart' = [the |-> uart.the, thr |-> uart.thr, edge |-> FALSE, iid1 |-> TRUE,
               dr |-> uart.dr, rbr |-> uart.rbr]
  <2>1. UartTypes /\ uart.iid1 \in BOOLEAN
    BY DEF TerminalInv, UartTypes
  <2>2. Access(FALSE) = [the |-> uart.the, thr |-> uart.thr, edge |-> FALSE,
                         iid1 |-> IF uart.iid1 THEN ~FALSE ELSE uart.edge,
                         dr |-> uart.dr, rbr |-> uart.rbr]
    BY <2>1, AccessIs
  <2>3. uart' = Access(FALSE) /\ uart.edge
    BY DEF Cycle
  <2> QED
    BY <2>1, <2>2, <2>3
<1>2. UNCHANGED <<cons, tx, owner, thread>>
  BY DEF Cycle
<1>3. ConsStep /\ TxStep
  BY <1>1, <1>2 DEF ConsStep, TxStep
<1>4. UartTypes'
  BY <1>1 DEF TerminalInv, UartTypes
<1>5. OwnerTypes' /\ ThreadTypes' /\ Sleepers' /\ Sending'
  BY <1>1, <1>2 DEF TerminalInv, OwnerTypes, ThreadTypes, Sleepers, Sending
<1> QED
  BY <1>3, <1>4, <1>5 DEF Keeps

LEMMA LoadTSRKeeps ==
  ASSUME TerminalInv, LoadTSR
  PROVE  Keeps
<1>1. /\ uart'.the /\ uart'.edge /\ ~uart.the
      /\ UNCHANGED <<cons, tx, owner, thread>>
  BY DEF TerminalInv, UartTypes, LoadTSR
<1>2. ConsStep /\ TxStep
  BY <1>1 DEF ConsStep, TxStep
<1>3. UartTypes'
  BY DEF TerminalInv, UartTypes, LoadTSR
<1>4. OwnerTypes' /\ ThreadTypes' /\ Sleepers' /\ Sending'
  BY <1>1 DEF TerminalInv, OwnerTypes, ThreadTypes, Sleepers, Sending
<1> QED
  BY <1>2, <1>3, <1>4 DEF Keeps

LEMMA ReceiveKeeps ==
  ASSUME TerminalInv, NEW c \in Key, Receive(c)
  PROVE  Keeps
<1>1. /\ uart'.the = uart.the /\ uart'.thr = uart.thr
      /\ uart'.edge = uart.edge /\ uart'.iid1 = uart.iid1
      /\ UNCHANGED <<cons, tx, owner, thread>>
  BY DEF TerminalInv, UartTypes, Receive
<1>2. ConsStep /\ TxStep
  BY <1>1 DEF ConsStep, TxStep
<1>3. UartTypes'
  BY DEF TerminalInv, UartTypes, Receive
<1>4. OwnerTypes' /\ ThreadTypes' /\ Sleepers' /\ Sending'
  BY <1>1 DEF TerminalInv, OwnerTypes, ThreadTypes, Sleepers, Sending
<1> QED
  BY <1>2, <1>3, <1>4 DEF Keeps

(* A step that leaves the rings, the UART and the threads alone, and does not *)
(* leave uartstart().                                                         *)
LEMMA OwnerOnly ==
  ASSUME TerminalInv, UNCHANGED <<cons, tx, uart, thread>>, OwnerTypes', owner.at # "start"
  PROVE  Keeps
<1>1. ConsStep /\ TxStep
  BY DEF ConsStep, TxStep
<1>2. UartTypes' /\ ThreadTypes' /\ Sleepers' /\ Sending'
  BY DEF TerminalInv, UartTypes, ThreadTypes, Sleepers, Sending
<1> QED
  BY <1>1, <1>2 DEF Keeps

(* The step of the interrupt handler and of the kernel's output. *)
LEMMA PlainKeeps ==
  ASSUME TerminalInv, uartintr \/ plic_complete \/ SyncEnd \/ Printf \/ Latch
  PROVE  Keeps
<1> USE DEF TerminalInv, OwnerTypes, Free
<1>1. CASE uartintr
  BY <1>1, OwnerOnly DEF uartintr
<1>2. CASE plic_complete
  BY <1>2, OwnerOnly DEF plic_complete
<1>3. CASE SyncEnd
  <2>1. OwnerTypes' /\ owner.at # "start"
    BY <1>3 DEF SyncEnd
  <2> QED
    BY <1>3, <2>1, OwnerOnly DEF SyncEnd
<1>4. CASE Printf
  BY <1>4, OwnerOnly DEF Printf
<1>5. CASE Latch
  <2>1. UNCHANGED <<cons, tx, uart, owner, thread>>
    BY <1>5 DEF Latch
  <2>2. ConsStep /\ TxStep
    BY <2>1 DEF ConsStep, TxStep
  <2>3. UartTypes' /\ OwnerTypes' /\ ThreadTypes' /\ Sleepers' /\ Sending'
    BY <2>1 DEF UartTypes, ThreadTypes, Sleepers, Sending
  <2> QED
    BY <2>2, <2>3 DEF Keeps
<1> QED
  BY <1>1, <1>2, <1>3, <1>4, <1>5

(* uartgetc(), with the character or without one. *)
LEMMA uartgetcKeeps ==
  ASSUME TerminalInv, uartgetc
  PROVE  Keeps
<1>1. /\ ConsTypes /\ ConsOrder /\ UartTypes /\ OwnerTypes /\ ThreadTypes /\ Sleepers /\ Sending
      /\ owner.at = "getc" /\ tx' = tx
  BY DEF TerminalInv, uartgetc
<1>2. Access(FALSE) = [the |-> uart.the, thr |-> uart.thr, edge |-> FALSE,
                       iid1 |-> IF uart.iid1 THEN ~FALSE ELSE uart.edge,
                       dr |-> uart.dr, rbr |-> uart.rbr]
  BY <1>1, AccessIs
<1>3. uart' = Access(FALSE) \/ uart' = [Access(FALSE) EXCEPT !.dr = FALSE, !.rbr = "NUL"]
  BY DEF uartgetc
<1>4. /\ uart'.the = uart.the /\ uart'.thr = uart.thr
      /\ uart'.iid1 = (uart.iid1 \/ uart.edge) /\ UartTypes'
  <2>1. PICK h \in BOOLEAN, t \in Glyph \cup {Echo}, i \in BOOLEAN, d \in BOOLEAN,
              r \in Key \cup {"NUL"} :
          /\ h = uart.the /\ t = uart.thr /\ d = uart.dr /\ r = uart.rbr
          /\ i = (IF uart.iid1 THEN ~FALSE ELSE uart.edge) /\ i = (uart.iid1 \/ uart.edge)
    <3>1. /\ uart.the \in BOOLEAN /\ uart.thr \in Glyph \cup {Echo} /\ uart.dr \in BOOLEAN
          /\ uart.rbr \in Key \cup {"NUL"} /\ uart.iid1 \in BOOLEAN /\ uart.edge \in BOOLEAN
      BY <1>1 DEF UartTypes
    <3> QED
      BY <3>1
  <2>2. Access(FALSE) = [the |-> h, thr |-> t, edge |-> FALSE, iid1 |-> i, dr |-> d, rbr |-> r]
    BY <1>2, <2>1
  <2>3. CASE uart' = Access(FALSE)
    <3>1. uart' = [the |-> h, thr |-> t, edge |-> FALSE, iid1 |-> i, dr |-> d, rbr |-> r]
      BY <2>2, <2>3
    <3>2. UartTypes'
      BY <3>1 DEF UartTypes
    <3> QED
      BY <2>1, <3>1, <3>2
  <2>4. CASE uart' = [Access(FALSE) EXCEPT !.dr = FALSE, !.rbr = "NUL"]
    <3>1. uart' = [[the |-> h, thr |-> t, edge |-> FALSE, iid1 |-> i, dr |-> d, rbr |-> r]
                     EXCEPT !.dr = FALSE, !.rbr = "NUL"]
      BY <2>2, <2>4
    <3>2. uart' = [the |-> h, thr |-> t, edge |-> FALSE, iid1 |-> i, dr |-> FALSE, rbr |-> "NUL"]
      BY <3>1
    <3>3. UartTypes'
      BY <3>2 DEF UartTypes
    <3> QED
      BY <2>1, <3>2, <3>3
  <2> QED
    BY <1>3, <2>3, <2>4
<1>5. TxStep
  BY <1>1, <1>4 DEF TxStep
<1>6. Sending'
  BY <1>1, <1>4 DEF Sending
<1>7. CASE uart.dr
  <2>1. consoleintr(uart.rbr) /\ uart.rbr \in Key \cup {"NUL"}
    BY <1>1, <1>7 DEF uartgetc, UartTypes
  <2>2. ConsStep
    BY <1>1, <2>1, ConsoleIntr
  <2>3. PICK n \in Nat : owner' = [owner EXCEPT !.at = "sync", !.out = n]
    BY <1>1, <2>1, ConsoleIntr
  <2>4. \/ thread' = thread /\ cons'.r = cons.r /\ cons'.w = cons.w
        \/ thread' = Woken(Reader)
    BY <1>1, <2>1, ConsoleIntr
  <2>5. OwnerTypes'
    BY <1>1, <2>3 DEF OwnerTypes
  <2>6. ThreadTypes' /\ Sleepers'
    <3>1. CASE thread' = thread /\ cons'.r = cons.r /\ cons'.w = cons.w
      BY <1>1, <3>1 DEF ThreadTypes, Sleepers
    <3>2. CASE thread' = Woken(Reader)
      <4>1. /\ Woken(Reader) \in [Reader \cup Writer -> Sleeper]
            /\ \A p \in Reader \cup Writer :
                 Woken(Reader)[p].at = "asleep" => thread[p].at = "asleep" /\ p \notin Reader
        BY <1>1, WokenIs
      <4> QED
        BY <1>1, <3>2, <4>1 DEF ThreadTypes, Sleepers
    <3> QED
      BY <2>4, <3>1, <3>2
  <2> QED
    BY <1>4, <1>5, <1>6, <2>2, <2>5, <2>6 DEF Keeps
<1>8. CASE ~uart.dr
  <2>1. owner' = [owner EXCEPT !.at = "start"] /\ UNCHANGED <<cons, thread>>
    BY <1>8 DEF uartgetc
  <2>2. OwnerTypes'
    BY <1>1, <2>1 DEF OwnerTypes
  <2>3. ConsStep
    BY <2>1 DEF ConsStep
  <2>4. ThreadTypes' /\ Sleepers'
    BY <1>1, <2>1 DEF ThreadTypes, Sleepers
  <2> QED
    BY <1>4, <1>5, <1>6, <2>2, <2>3, <2>4 DEF Keeps
<1> QED
  BY <1>7, <1>8

(* uartstart() with nothing to do. *)
LEMMA uartstartKeeps ==
  ASSUME TerminalInv, uartstart
  PROVE  Keeps
<1>1. /\ UartTypes /\ OwnerTypes /\ ThreadTypes /\ Sleepers /\ Sending
      /\ UNCHANGED <<cons, tx, thread>>
      /\ \/ tx.w = tx.r \/ ~uart.the
  BY DEF TerminalInv, uartstart
<1>2. PICK b \in BOOLEAN : uart' = Access(b)
  BY DEF uartstart
<1>3. Access(b) = [the |-> uart.the, thr |-> uart.thr, edge |-> FALSE,
                   iid1 |-> IF uart.iid1 THEN ~b ELSE uart.edge,
                   dr |-> uart.dr, rbr |-> uart.rbr]
  BY <1>1, AccessIs
<1>4. uart'.the = uart.the /\ uart'.thr = uart.thr /\ UartTypes'
  <2>1. PICK i \in BOOLEAN : i = IF uart.iid1 THEN ~b ELSE uart.edge
    <3>1. uart.iid1 \in BOOLEAN /\ uart.edge \in BOOLEAN
      BY <1>1 DEF UartTypes
    <3> QED
      BY <3>1
  <2>2. uart' = [the |-> uart.the, thr |-> uart.thr, edge |-> FALSE, iid1 |-> i,
                 dr |-> uart.dr, rbr |-> uart.rbr]
    BY <1>2, <1>3, <2>1
  <2> QED
    BY <1>1, <2>2 DEF UartTypes
<1>5. ConsStep /\ TxStep
  BY <1>1, <1>4 DEF ConsStep, TxStep
<1>6. OwnerTypes'
  <2>1. Started
    BY DEF uartstart
  <2> QED
    BY <1>1, <2>1 DEF Started, OwnerTypes, Free
<1>7. ThreadTypes' /\ Sleepers' /\ Sending'
  <2>1. Sending'
    BY <1>1, <1>4 DEF Sending
  <2>2. ThreadTypes' /\ Sleepers'
    BY <1>1 DEF ThreadTypes, Sleepers
  <2> QED
    BY <2>1, <2>2
<1> QED
  BY <1>4, <1>5, <1>6, <1>7 DEF Keeps

(* uartstart() sends a character: the writers are awake. *)
LEMMA uartstartSendKeeps ==
  ASSUME TerminalInv, uartstartSend
  PROVE  Keeps
<1>1. /\ UartTypes /\ TxTypes /\ OwnerTypes /\ ThreadTypes /\ Sleepers
      /\ owner.at = "start" /\ tx.w # tx.r /\ uart.the
      /\ tx' = [tx EXCEPT !.r = Plus(tx.r)] /\ thread' = Woken(Writer)
      /\ uart' = WriteTHR(tx.buf[tx.r % UART_TX_BUF_SIZE])
      /\ UNCHANGED <<cons, owner>>
  BY DEF TerminalInv, uartstartSend
<1>2. tx.buf[tx.r % UART_TX_BUF_SIZE] \in Glyph \cup {Echo}
  <2>1. tx.r \in Int /\ tx.buf \in [0 .. UART_TX_BUF_SIZE - 1 -> Glyph \cup {Echo}]
    BY <1>1 DEF TxTypes, Index
  <2> QED
    BY <2>1, TxPlace
<1>3. PICK c \in Glyph \cup {Echo} : c = tx.buf[tx.r % UART_TX_BUF_SIZE]
  BY <1>2
<1>4. /\ uart' = [the |-> FALSE, thr |-> c, edge |-> FALSE,
                  iid1 |-> IF uart.iid1 THEN FALSE ELSE uart.edge,
                  dr |-> uart.dr, rbr |-> uart.rbr]
  <2>1. TRUE \in BOOLEAN
    OBVIOUS
  <2> QED
    BY <1>1, <1>3, <2>1, AccessIs
<1>5. ~uart'.the /\ uart'.thr = c
  BY <1>4
<1>6. UartTypes'
  <2>1. PICK i \in BOOLEAN : i = IF uart.iid1 THEN FALSE ELSE uart.edge
    BY <1>1 DEF UartTypes
  <2>2. uart' = [the |-> FALSE, thr |-> c, edge |-> FALSE, iid1 |-> i,
                 dr |-> uart.dr, rbr |-> uart.rbr]
    BY <1>4, <2>1
  <2> QED
    BY <1>1, <2>2 DEF UartTypes
<1>7. ConsStep /\ TxStep
  BY <1>1, <1>3, <1>5 DEF ConsStep, TxStep
<1>8. /\ Woken(Writer) \in [Reader \cup Writer -> Sleeper]
      /\ \A p \in Reader \cup Writer :
           Woken(Writer)[p].at = "asleep" => thread[p].at = "asleep" /\ p \notin Writer
  BY <1>1, WokenIs
<1>9. OwnerTypes' /\ ThreadTypes' /\ Sleepers' /\ Sending'
  BY <1>1, <1>5, <1>8 DEF OwnerTypes, ThreadTypes, Sleepers, Sending
<1> QED
  BY <1>6, <1>7, <1>9 DEF Keeps

(* An echo or a kernel message goes to the THR directly. *)
LEMMA uartputc_syncKeeps ==
  ASSUME TerminalInv, uartputc_sync
  PROVE  Keeps
<1>1. /\ UartTypes /\ OwnerTypes /\ ThreadTypes /\ Sleepers
      /\ owner.out > 0 /\ uart.the /\ uart' = WriteTHR(Echo)
      /\ owner' = [owner EXCEPT !.out = owner.out - 1]
      /\ UNCHANGED <<cons, tx, thread>>
  BY DEF TerminalInv, uartputc_sync
<1>2. /\ uart' = [the |-> FALSE, thr |-> Echo, edge |-> FALSE,
                  iid1 |-> IF uart.iid1 THEN FALSE ELSE uart.edge,
                  dr |-> uart.dr, rbr |-> uart.rbr]
  <2>1. TRUE \in BOOLEAN /\ Echo \in Glyph \cup {Echo}
    OBVIOUS
  <2> QED
    BY <1>1, <2>1, AccessIs
<1>3. ~uart'.the /\ uart'.thr = Echo
  BY <1>2
<1>4. UartTypes'
  <2>1. PICK i \in BOOLEAN : i = IF uart.iid1 THEN FALSE ELSE uart.edge
    BY <1>1 DEF UartTypes
  <2>2. uart' = [the |-> FALSE, thr |-> Echo, edge |-> FALSE, iid1 |-> i,
                 dr |-> uart.dr, rbr |-> uart.rbr]
    BY <1>2, <2>1
  <2> QED
    BY <1>1, <2>2 DEF UartTypes
<1>5. ConsStep /\ TxStep
  BY <1>1, <1>3 DEF ConsStep, TxStep
<1>6. OwnerTypes'
  <2>1. owner.out \in Nat /\ owner.out - 1 \in Nat
    BY <1>1 DEF OwnerTypes
  <2> QED
    BY <1>1, <2>1 DEF OwnerTypes
<1>7. ThreadTypes' /\ Sleepers' /\ Sending'
  BY <1>1, <1>3 DEF ThreadTypes, Sleepers, Sending
<1> QED
  BY <1>4, <1>5, <1>6, <1>7 DEF Keeps

(* A step of one thread that leaves the rings and the UART alone: a reader falls *)
(* asleep only when no line is committed, a writer only when the buffer is full.  *)
LEMMA ThreadOnly ==
  ASSUME TerminalInv, NEW p \in Reader \cup Writer, NEW s \in Sleeper,
         thread' = [thread EXCEPT ![p] = s],
         UNCHANGED <<cons, tx, uart>>, OwnerTypes', owner.at # "start",
         s.at = "asleep" /\ p \in Reader => cons.r = cons.w,
         s.at = "asleep" /\ p \in Writer => tx.w = (tx.r + UART_TX_BUF_SIZE) % UINT
  PROVE  Keeps
<1>1. UartTypes /\ ThreadTypes /\ Sleepers /\ Sending
  BY DEF TerminalInv
<1>2. ThreadTypes'
  BY <1>1 DEF ThreadTypes
<1>3. \A q \in Reader \cup Writer : thread'[q] = IF q = p THEN s ELSE thread[q]
  BY <1>1 DEF ThreadTypes
<1>4. Sleepers'
  BY <1>1, <1>3 DEF Sleepers
<1>5. ConsStep /\ TxStep
  BY DEF ConsStep, TxStep
<1>6. UartTypes' /\ Sending'
  BY <1>1 DEF UartTypes, Sending
<1> QED
  BY <1>2, <1>4, <1>5, <1>6 DEF Keeps

(* A system call begins. *)
LEMMA CallKeeps ==
  ASSUME TerminalInv,
         \/ \E p \in Writer, c \in Glyph : Write(p, c)
         \/ \E p \in Reader, n \in 1 .. MaxRead : Read(p, n)
  PROVE  Keeps
<1>1. ThreadTypes /\ OwnerTypes
  BY DEF TerminalInv
<1>2. CASE \E p \in Writer, c \in Glyph : Write(p, c)
  <2>1. PICK p \in Writer, c \in Glyph : Write(p, c)
    BY <1>2
  <2> DEFINE s == [thread[p] EXCEPT !.at = "loop", !.c = c]
  <2>2. s \in Sleeper /\ s.at = "loop"
    BY <1>1 DEF ThreadTypes, Sleeper
  <2>3. thread' = [thread EXCEPT ![p] = s] /\ UNCHANGED <<cons, tx, uart, owner>> /\ owner = Free
    BY <2>1 DEF Write
  <2> HIDE DEF s
  <2>4. OwnerTypes' /\ owner.at # "start"
    BY <1>1, <2>3 DEF OwnerTypes, Free
  <2> QED
    BY <2>2, <2>3, <2>4, ThreadOnly
<1>3. CASE \E p \in Reader, n \in 1 .. MaxRead : Read(p, n)
  <2>1. PICK p \in Reader, n \in 1 .. MaxRead : Read(p, n)
    BY <1>3
  <2> DEFINE s == [thread[p] EXCEPT !.at = "loop", !.n = n, !.target = n]
  <2>2. n \in Nat
    BY TerminalAssumption
  <2>3. s \in Sleeper /\ s.at = "loop"
    BY <1>1, <2>2 DEF ThreadTypes, Sleeper
  <2>4. thread' = [thread EXCEPT ![p] = s] /\ UNCHANGED <<cons, tx, uart, owner>> /\ owner = Free
    BY <2>1 DEF Read
  <2> HIDE DEF s
  <2>5. OwnerTypes' /\ owner.at # "start"
    BY <1>1, <2>4 DEF OwnerTypes, Free
  <2> QED
    BY <2>3, <2>4, <2>5, ThreadOnly
<1> QED
  BY <1>2, <1>3

(* A thread whose call has returned. *)
LEMMA IdleIs ==
  ASSUME NEW k \in BOOLEAN
  PROVE  [Idle EXCEPT !.killed = k] \in Sleeper /\ [Idle EXCEPT !.killed = k].at = "idle"
<1>1. [Idle EXCEPT !.killed = k] = [at |-> "idle", n |-> 0, target |-> 0, c |-> Echo, killed |-> k]
  BY DEF Idle
<1> QED
  BY <1>1 DEF Sleeper

(* A writer puts its character into the buffer, or sleeps because it is full. *)
LEMMA uartputcKeeps ==
  ASSUME TerminalInv, NEW p \in Writer, uartputc(p)
  PROVE  Keeps
<1>1. /\ TxTypes /\ UartTypes /\ OwnerTypes /\ ThreadTypes /\ Sleepers
      /\ owner = Free /\ UNCHANGED <<cons, uart>>
  BY DEF TerminalInv, uartputc
<1>2. CASE tx.w = (tx.r + UART_TX_BUF_SIZE) % UINT
  <2> DEFINE s == [thread[p] EXCEPT !.at = "asleep"]
  <2>1. s \in Sleeper
    BY <1>1 DEF ThreadTypes, Sleeper
  <2>2. thread' = [thread EXCEPT ![p] = s] /\ UNCHANGED <<cons, tx, uart, owner>>
    BY <1>2 DEF uartputc
  <2>3. p \notin Reader
    BY TerminalAssumption
  <2> HIDE DEF s
  <2>4. OwnerTypes' /\ owner.at # "start"
    BY <1>1, <2>2 DEF OwnerTypes, Free
  <2> QED
    BY <1>2, <2>1, <2>2, <2>3, <2>4, ThreadOnly
<1>3. CASE tx.w # (tx.r + UART_TX_BUF_SIZE) % UINT
  <2>1. /\ tx' = [tx EXCEPT !.buf[tx.w % UART_TX_BUF_SIZE] = thread[p].c, !.w = Plus(tx.w)]
        /\ owner' = [Free EXCEPT !.at = "start", !.by = p]
        /\ thread' = [thread EXCEPT ![p] = [Idle EXCEPT !.killed = thread[p].killed]]
    BY <1>3 DEF uartputc
  <2>2. thread[p].c \in Glyph \cup {Echo} /\ thread[p].killed \in BOOLEAN
    BY <1>1 DEF ThreadTypes, Sleeper
  <2>3. ConsStep /\ TxStep
    BY <1>1, <1>3, <2>1, <2>2 DEF ConsStep, TxStep
  <2>4. OwnerTypes' /\ owner'.at = "start"
    BY <2>1 DEF OwnerTypes, Free
  <2>5. PICK s \in Sleeper : s = [Idle EXCEPT !.killed = thread[p].killed] /\ s.at = "idle"
    BY <2>2, IdleIs
  <2>6. ThreadTypes'
    BY <1>1, <2>1, <2>5 DEF ThreadTypes
  <2>7. \A q \in Reader \cup Writer : thread'[q] = IF q = p THEN s ELSE thread[q]
    BY <1>1, <2>1, <2>5 DEF ThreadTypes
  <2>8. Sleepers'
    BY <1>1, <1>3, <2>5, <2>7 DEF Sleepers
  <2>9. UartTypes' /\ Sending'
    BY <1>1, <2>4 DEF UartTypes, Sending
  <2> QED
    BY <2>3, <2>4, <2>6, <2>8, <2>9 DEF Keeps
<1> QED
  BY <1>2, <1>3

(* One turn of consoleread(): the reader returns, goes on, or sleeps while no line *)
(* is committed.                                                                    *)
LEMMA consolereadKeeps ==
  ASSUME TerminalInv, NEW p \in Reader, consoleread(p)
  PROVE  Keeps
<1> DEFINE t == thread[p]
           idle == [Idle EXCEPT !.killed = t.killed]
           Mine == [Free EXCEPT !.at = "read", !.by = p]
<1>1. /\ ConsTypes /\ TxTypes /\ UartTypes /\ OwnerTypes /\ ThreadTypes /\ Sleepers /\ Sending
      /\ UNCHANGED <<tx, uart>> /\ owner \in {Free, Mine}
  BY DEF TerminalInv, consoleread
<1>2. t \in Sleeper /\ t.killed \in BOOLEAN /\ t.n \in Nat
  BY <1>1 DEF ThreadTypes, Sleeper
<1>3. idle \in Sleeper /\ idle.at = "idle"
  BY <1>2, IdleIs
<1>4. Mine = [at |-> "read", by |-> p, out |-> 0] /\ Free = [at |-> "none", by |-> "none", out |-> 0]
      /\ owner.at # "start"
  <2>1. Mine = [at |-> "read", by |-> p, out |-> 0]
    <3>1. PICK x, y, z : x = "none" /\ y = "none" /\ z = 0 /\ Free = [at |-> x, by |-> y, out |-> z]
      BY DEF Free
    <3>2. Mine = [[at |-> x, by |-> y, out |-> z] EXCEPT !.at = "read", !.by = p]
      BY <3>1
    <3> HIDE DEF Mine
    <3>3. Mine = [at |-> "read", by |-> p, out |-> z]
      BY <3>2
    <3> QED
      BY <3>1, <3>3
  <2> HIDE DEF Mine
  <2> QED
    BY <1>1, <2>1 DEF Free
<1>5. ASSUME owner' \in {Free, Mine}
      PROVE  OwnerTypes'
  <2> HIDE DEF Mine
  <2> QED
    BY <1>4, <1>5 DEF OwnerTypes
<1>6. CASE cons' = cons
  <2>1. PICK s \in Sleeper : /\ thread' = [thread EXCEPT ![p] = s]
                             /\ s.at = "asleep" => cons.r = cons.w
                             /\ owner' \in {Free, Mine}
    <3>1. \/ thread' = [thread EXCEPT ![p] = idle] /\ owner' \in {Free, Mine}
          \/ /\ thread' = [thread EXCEPT ![p] = [t EXCEPT !.at = "asleep"]]
             /\ cons.r = cons.w /\ owner' \in {Free, Mine}
          \/ /\ thread' = [thread EXCEPT ![p] = [t EXCEPT !.n = t.n - 1]]
             /\ cons' = Taken /\ cons.r # cons.w /\ owner' \in {Free, Mine}
      BY DEF consoleread
    <3>2. [t EXCEPT !.at = "asleep"] \in Sleeper
      BY <1>2 DEF Sleeper
    <3>3. cons.r # cons.w => cons # Taken
      <4>1. cons.r \in Index /\ Taken.r = Plus(cons.r)
        BY <1>1 DEF ConsTypes, Taken
      <4>2. Plus(cons.r) # cons.r
        BY <4>1, PlusIs, Sizes DEF Index
      <4> QED
        BY <4>1, <4>2
    <3> HIDE DEF t, idle, Mine
    <3> QED
      BY <1>3, <1>6, <3>1, <3>2, <3>3
  <2>2. p \notin Writer
    BY TerminalAssumption
  <2>3. UNCHANGED <<cons, tx, uart>>
    BY <1>1, <1>6
  <2> QED
    BY <1>4, <1>5, <2>1, <2>2, <2>3, ThreadOnly
<1>7. CASE cons' # cons
  <2>1. cons' = Taken /\ cons.r # cons.w /\ owner' \in {Free, Mine}
    BY <1>7 DEF consoleread
  <2>2. PICK s \in Sleeper : thread' = [thread EXCEPT ![p] = s] /\ s.at # "asleep"
    <3>1. \/ thread' = [thread EXCEPT ![p] = idle]
          \/ /\ thread' = [thread EXCEPT ![p] = [t EXCEPT !.n = t.n - 1]]
             /\ t.n > 0 /\ t.at = "loop"
      BY <1>7 DEF consoleread
    <3>2. CASE t.n > 0 /\ t.at = "loop"
      <4>1. t.n - 1 \in Nat
        BY <1>2, <3>2
      <4>2. [t EXCEPT !.n = t.n - 1] \in Sleeper /\ [t EXCEPT !.n = t.n - 1].at = "loop"
        BY <1>2, <3>2, <4>1 DEF Sleeper
      <4> HIDE DEF t, idle
      <4> QED
        BY <1>3, <3>1, <4>2
    <3> HIDE DEF t, idle
    <3> QED
      BY <1>3, <3>1, <3>2
  <2>3. ThreadTypes'
    BY <1>1, <2>2 DEF ThreadTypes
  <2>4. \A q \in Reader \cup Writer : thread'[q] = IF q = p THEN s ELSE thread[q]
    BY <1>1, <2>2 DEF ThreadTypes
  <2>5. Sleepers'
    <3>1. \A q \in Reader : thread[q].at # "asleep"
      BY <1>1, <2>1 DEF Sleepers
    <3> QED
      BY <1>1, <2>2, <2>4, <3>1 DEF Sleepers
  <2>6. ConsStep /\ TxStep
    BY <1>1, <2>1 DEF ConsStep, TxStep
  <2>7. UartTypes' /\ Sending'
    BY <1>1, <1>4 DEF UartTypes, Sending
  <2>8. OwnerTypes'
    BY <1>5, <2>1
  <2> QED
    BY <2>3, <2>5, <2>6, <2>7, <2>8 DEF Keeps
<1> QED
  BY <1>6, <1>7

(* kill() only wakes. *)
LEMMA KillKeeps ==
  ASSUME TerminalInv, NEW p \in Reader, Kill(p)
  PROVE  Keeps
<1>1. /\ OwnerTypes /\ ThreadTypes /\ owner = Free
      /\ UNCHANGED <<cons, tx, uart, owner>>
      /\ thread' = [Woken({p}) EXCEPT ![p].killed = TRUE]
  BY DEF TerminalInv, Kill
<1>2. p \in Reader \cup Writer
  OBVIOUS
<1>3. /\ Woken({p}) \in [Reader \cup Writer -> Sleeper]
      /\ Woken({p})[p].at # "asleep"
  BY <1>1, <1>2, WokenIs
<1> DEFINE s == [Woken({p})[p] EXCEPT !.killed = TRUE]
<1>4. s \in Sleeper /\ s.at # "asleep"
  BY <1>3 DEF Sleeper
<1>5. thread' = [thread EXCEPT ![p] = s]
  <2>1. DOMAIN thread = Reader \cup Writer
    BY <1>1 DEF ThreadTypes
  <2>2. ASSUME NEW q \in Reader \cup Writer, q # p PROVE Woken({p})[q] = thread[q]
    BY <2>1, <2>2 DEF Woken
  <2>3. thread' = [Woken({p}) EXCEPT ![p] = s]
    BY <1>1
  <2>4. thread \in [Reader \cup Writer -> Sleeper]
    BY <1>1 DEF ThreadTypes
  <2> HIDE DEF s
  <2> QED
    BY <1>3, <2>2, <2>3, <2>4
<1>6. OwnerTypes' /\ owner.at # "start"
  BY <1>1 DEF OwnerTypes, Free
<1> HIDE DEF s
<1> QED
  BY <1>1, <1>4, <1>5, <1>6, ThreadOnly

(* The invariant is inductive. *)
LEMMA TerminalNextKeeps ==
  ASSUME TerminalInv, [TerminalNext]_terminal
  PROVE  TerminalInv' /\ LineStep /\ OutputStep
<1>1. CASE TerminalNext
  <2>1. Keeps
    <3>1. CASE Devices
      BY <3>1, CycleKeeps, LoadTSRKeeps, ReceiveKeeps, PlainKeeps DEF Devices
    <3>2. CASE Handler
      BY <3>2, PlainKeeps, uartgetcKeeps DEF Handler
    <3>3. CASE Output
      BY <3>3, PlainKeeps, uartstartKeeps, uartstartSendKeeps, uartputc_syncKeeps DEF Output
    <3>4. CASE SystemCalls
      BY <3>4, CallKeeps, uartputcKeeps, consolereadKeeps, KillKeeps DEF SystemCalls
    <3> QED
      BY <1>1, <3>1, <3>2, <3>3, <3>4 DEF TerminalNext
  <2>2. /\ ConsStep /\ TxStep /\ UartTypes' /\ OwnerTypes' /\ ThreadTypes' /\ Sleepers' /\ Sending'
    BY <2>1 DEF Keeps
  <2>3. ConsTypes /\ ConsOrder /\ TxTypes /\ TxOrder /\ UartTypes
    BY DEF TerminalInv
  <2>4. ConsTypes' /\ ConsOrder' /\ TxTypes' /\ TxOrder'
    BY <2>2, <2>3, ConsStepKeeps, TxStepKeeps
  <2>5. LineStep /\ OutputStep
    BY <2>2, <2>3, ConsStepLines, TxStepOutput
  <2> QED
    BY <2>2, <2>4, <2>5 DEF TerminalInv
<1>2. CASE UNCHANGED terminal
  <2>1. /\ UNCHANGED <<cons, tx, uart, owner, thread>>
    BY <1>2 DEF terminal
  <2>2. TerminalInv'
    BY <2>1 DEF TerminalInv, ConsTypes, TxTypes, UartTypes, OwnerTypes, ThreadTypes,
                ConsOrder, TxOrder, Sleepers, Sending
  <2>3. LineStep /\ OutputStep
    BY <2>1 DEF LineStep, OutputStep, Committed, Editing, Outgoing, Buffered
  <2> QED
    BY <2>2, <2>3
<1> QED
  BY <1>1, <1>2

(* It holds once the console is initialised. *)
LEMMA TerminalInitInv == TerminalInit => TerminalInv
<1> SUFFICES ASSUME TerminalInit PROVE TerminalInv
  OBVIOUS
<1>1. 0 \in Index /\ Gap(0, 0) = 0 /\ INPUT_BUF_SIZE \in Nat /\ UART_TX_BUF_SIZE \in Nat
  BY Sizes DEF Index, Gap
<1>2. ConsTypes /\ ConsOrder
  BY <1>1 DEF TerminalInit, ConsInit, ConsTypes, ConsOrder, Char
<1>3. TxTypes /\ TxOrder
  BY <1>1 DEF TerminalInit, TxTypes, TxOrder
<1>4. UartTypes
  BY DEF TerminalInit, UartTypes
<1>5. OwnerTypes
  BY DEF TerminalInit, OwnerTypes, Free
<1>6. ThreadTypes
  BY DEF TerminalInit, ThreadTypes, Idle, Sleeper
<1>7. Sleepers
  BY DEF TerminalInit, Sleepers, Idle
<1>8. Sending
  BY DEF TerminalInit, Sending
<1> QED
  BY <1>2, <1>3, <1>4, <1>5, <1>6, <1>7, <1>8 DEF TerminalInv

-----------------------------------------------------------------------------
(***************************************************************************)
(* The theorems.                                                           *)
(***************************************************************************)
\* The inductive invariant holds, for rings of any size whose indices wrap around.
THEOREM TerminalInvHolds == TerminalSpec => []TerminalInv
<1>1. TerminalInit => TerminalInv
  BY TerminalInitInv
<1>2. TerminalInv /\ [TerminalNext]_terminal => TerminalInv'
  BY TerminalNextKeeps
<1> QED
  BY <1>1, <1>2, PTL DEF TerminalSpec

\* The indices of both rings stay in order and within their rings (TerminalTypeOK).
THEOREM TerminalTypesHold == TerminalSpec => []TerminalTypeOK
<1>1. TerminalInv => TerminalTypeOK
  BY DEF TerminalInv, TerminalTypeOK, ConsOrder, TxOrder, Gap, UartTypes, ThreadTypes, Sleeper
<1> QED
  BY <1>1, TerminalInvHolds, PTL

\* No wakeup and no interrupt of the console is lost (ConsoleMoves): buffered output has
\* a busy UART, a rising THE or a raised interrupt behind it unless uartstart() runs,
\* readers sleep only without a line, writers only before a full buffer.
THEOREM ConsoleNeverStalls == TerminalSpec => []ConsoleMoves
<1>1. TerminalInv => ConsoleMoves
  <2> SUFFICES ASSUME TerminalInv PROVE ConsoleMoves
    OBVIOUS
  <2>1. /\ cons.r \in Index /\ cons.w \in Index /\ tx.r \in Index /\ tx.w \in Index
    BY DEF TerminalInv, ConsTypes, TxTypes
  <2>2. OutputMoves
    <3>1. Buffered # <<>> => tx.w # tx.r
      BY <2>1, HeldLen DEF Buffered
    <3> QED
      BY <3>1 DEF TerminalInv, Sending, OutputMoves, Free
  <2>3. cons.r = cons.w => Committed = <<>>
    BY <2>1, HeldLen DEF Committed
  <2>4. tx.w = (tx.r + UART_TX_BUF_SIZE) % UINT => Len(Buffered) = UART_TX_BUF_SIZE
    <3>1. UART_TX_BUF_SIZE \in 0 .. UINT - 1
      BY Sizes
    <3>2. Gap(tx.r, (tx.r + UART_TX_BUF_SIZE) % UINT) = UART_TX_BUF_SIZE
      BY <2>1, <3>1, GapFull
    <3>3. Len(Buffered) = Gap(tx.r, tx.w)
      <4> DEFINE ring == tx.buf
                 S == UART_TX_BUF_SIZE
      <4>1. Buffered = Held(ring, tx.r, tx.w, S)
        BY DEF Buffered
      <4> HIDE DEF ring, S
      <4>2. Len(Held(ring, tx.r, tx.w, S)) = Gap(tx.r, tx.w)
        BY <2>1, HeldLen
      <4> QED
        BY <4>1, <4>2
    <3> QED
      BY <3>2, <3>3
  <2>5. NobodySleepsOn
    BY <2>3, <2>4 DEF TerminalInv, Sleepers, NobodySleepsOn
  <2> QED
    BY <2>2, <2>5 DEF ConsoleMoves
<1> QED
  BY <1>1, TerminalInvHolds, PTL

\* Committed lines are only read, from the front, and the edited line is handed over
\* whole (LineDiscipline).
THEOREM LinesKept == TerminalSpec => LineDiscipline
<1>1. TerminalInv /\ [TerminalNext]_terminal => [LineStep]_terminal
  BY TerminalNextKeeps
<1> QED
  BY <1>1, TerminalInvHolds, PTL DEF TerminalSpec, LineDiscipline

\* What was accepted for output leaves the THR once and in order (OutputInOrder).
THEOREM OutputKept == TerminalSpec => OutputInOrder
<1>1. TerminalInv /\ [TerminalNext]_terminal => [OutputStep]_terminal
  BY TerminalNextKeeps
<1> QED
  BY <1>1, TerminalInvHolds, PTL DEF TerminalSpec, OutputInOrder
=============================================================================
