--------------------------- MODULE R8125TxProofs ---------------------------
(***************************************************************************)
(* Theorems about the transmit ring of R8125Tx, for rings of any size and  *)
(* any number of packets.                                                  *)
(*                                                                         *)
(* cur_tx, dirty_tx and the chip's pointers wrap, each at its own modulus. *)
(* The invariant speaks of positions instead: how many descriptors were    *)
(* filled, sent and emptied since the last reset.  There are positions     *)
(* that agree with all the counters, and they are in order.                *)
(***************************************************************************)
EXTENDS R8125Tx, TLAPS

\* A ring that the counters wrap with, and no packet that takes a descriptor
\* more than was counted.
Fits == PtrMod % NumDesc = 0 /\ ~LsoPatch

-----------------------------------------------------------------------------
(* Remainders *)

LEMMA SmallProduct ==
  ASSUME NEW n \in Nat \ {0}, NEW z \in Int, -n < n * z, n * z < n
  PROVE  z = 0
<1>1. z >= 1 => n * z >= n
  <2>1. ASSUME z >= 1 PROVE n * z >= n
    <3>1. n * (z - 1) >= 0
      BY <2>1
    <3>2. n * z = n * (z - 1) + n
      OBVIOUS
    <3>. QED BY <3>1, <3>2
  <2>. QED BY <2>1
<1>2. z <= -1 => n * z <= -n
  <2>1. ASSUME z <= -1 PROVE n * z <= -n
    <3>1. n * (-1 - z) >= 0
      BY <2>1
    <3>2. n * z = -n - n * (-1 - z)
      OBVIOUS
    <3>. QED BY <3>1, <3>2
  <2>. QED BY <2>1
<1>. QED BY <1>1, <1>2

\* A remainder is unique.
LEMMA Remainder ==
  ASSUME NEW n \in Nat \ {0}, NEW q \in Int, NEW r \in 0 .. n - 1
  PROVE  (n * q + r) % n = r
<1>. DEFINE x == n * q + r  k == x \div n  m == x % n
<1>1. x \in Int /\ k \in Int /\ m \in 0 .. n - 1 /\ x = n * k + m
  OBVIOUS
<1>2. n * (q - k) = m - r
  BY <1>1
<1>3. q - k = 0
  <2>1. -n < n * (q - k) /\ n * (q - k) < n
    BY <1>1, <1>2
  <2>. QED BY <1>1, <2>1, SmallProduct
<1>. QED BY <1>1, <1>2, <1>3

LEMMA Divided ==
  ASSUME NEW n \in Nat \ {0}, NEW x \in Int
  PROVE  \E q \in Int : x = n * q + (x % n) /\ x % n \in 0 .. n - 1
<1>1. x \div n \in Int /\ x = n * (x \div n) + (x % n) /\ x % n \in 0 .. n - 1
  OBVIOUS
<1>. QED BY <1>1

\* A multiple of the divisor makes no difference.
LEMMA Shift ==
  ASSUME NEW n \in Nat \ {0}, NEW x \in Int, NEW k \in Int
  PROVE  (x + n * k) % n = x % n
<1>1. PICK q \in Int : x = n * q + (x % n) /\ x % n \in 0 .. n - 1
  BY Divided
<1>2. x + n * k = n * (q + k) + (x % n)
  BY <1>1
<1>3. (n * (q + k) + (x % n)) % n = x % n
  <2>1. q + k \in Int
    BY <1>1
  <2>. QED BY <1>1, <2>1, Remainder
<1>. QED BY <1>2, <1>3

LEMMA Congruent ==
  ASSUME NEW n \in Nat \ {0}, NEW x \in Int, NEW y \in Int, NEW k \in Int, x = y + n * k
  PROVE  x % n = y % n
BY Shift

LEMMA Multiple ==
  ASSUME NEW n \in Nat \ {0}, NEW m \in Nat, m % n = 0
  PROVE  \E j \in Int : m = n * j
<1>1. m \div n \in Int /\ m = n * (m \div n) + (m % n)
  OBVIOUS
<1>. QED BY <1>1

\* A remainder differs from the number by a multiple of each divisor of m.
LEMMA Less ==
  ASSUME NEW m \in Nat \ {0}, NEW n \in Nat \ {0}, m % n = 0, NEW x \in Int
  PROVE  \E i \in Int : x % m = x + n * i
<1>1. PICK q \in Int : x = m * q + (x % m) /\ x % m \in 0 .. m - 1
  BY Divided
<1>2. PICK j \in Int : m = n * j
  BY Multiple
<1>. DEFINE a == m * q  b == n * (j * q)  i == -(j * q)  c == n * i  r == x % m
<1>3. a = b /\ c = -b /\ b \in Int /\ i \in Int
  <2>1. (n * j) * q = n * (j * q) /\ j * q \in Int
    OBVIOUS
  <2>. QED BY <1>2, <2>1
<1>4. x = a + r /\ r \in Int
  BY <1>1
<1>5. r = x + c
  <2>. HIDE DEF a, b, c, i, r
  <2>. QED BY <1>3, <1>4
<1>. QED BY <1>3, <1>5

\* A remainder of a remainder.
LEMMA Twice ==
  ASSUME NEW m \in Nat \ {0}, NEW n \in Nat \ {0}, m % n = 0, NEW x \in Int
  PROVE  (x % m) % n = x % n
<1>1. PICK i \in Int : x % m = x + n * i
  BY Less
<1>. DEFINE r == x % m
<1>2. r \in Int /\ r = x + n * i
  BY <1>1
<1>. HIDE DEF r
<1>3. r % n = x % n
  BY <1>2, Congruent
<1>. QED BY <1>3 DEF r

LEMMA Nested ==
  ASSUME NEW m \in Nat \ {0}, NEW n \in Nat \ {0}, m % n = 0, NEW x \in Int, NEW y \in Int
  PROVE  ((x % m) + y) % n = (x + y) % n
<1>1. PICK i \in Int : x % m = x + n * i
  BY Less
<1>. DEFINE r == x % m  u == r + y  v == x + y
<1>2. r \in Int
  OBVIOUS
<1>3. u \in Int /\ v \in Int /\ u = v + n * i
  <2>1. n * i \in Int
    OBVIOUS
  <2>2. r = x + n * i
    BY <1>1
  <2>. HIDE DEF r
  <2>. QED BY <1>2, <2>1, <2>2
<1>. HIDE DEF u, v
<1>4. u % n = v % n
  BY <1>3, Congruent
<1>. QED BY <1>4 DEF u, v

LEMMA SameNested ==
  ASSUME NEW n \in Nat \ {0}, NEW x \in Int, NEW y \in Int
  PROVE  ((x % n) + y) % n = (x + y) % n
<1>1. n % n = 0
  <2>1. (n * 1 + 0) % n = 0
    BY Remainder
  <2>2. n * 1 + 0 = n
    OBVIOUS
  <2>. QED BY <2>1, <2>2
<1>. QED BY <1>1, Nested

LEMMA SmallRemainder ==
  ASSUME NEW n \in Nat \ {0}, NEW r \in 0 .. n - 1
  PROVE  r % n = r
<1>1. (n * 0 + r) % n = r
  BY Remainder
<1>. QED BY <1>1

\* The difference of two numbers, by their remainders.
LEMMA Difference ==
  ASSUME NEW m \in Nat \ {0}, NEW n \in Nat \ {0}, m % n = 0,
         NEW x \in Int, NEW y \in Int, y - x \in 0 .. n - 1
  PROVE  ((y % n) - (x % m)) % n = y - x
<1>1. PICK i \in Int : x % m = x + n * i
  BY Less
<1>2. PICK k \in Int : y = n * k + (y % n) /\ y % n \in 0 .. n - 1
  BY Divided
<1>. DEFINE r == x % m  t == y % n  u == t - r  v == y - x
<1>3. r \in Int /\ t \in Int
  OBVIOUS
<1>4. u \in Int /\ v \in Int /\ u = v + n * (-(k + i))
  <2>1. n * (-(k + i)) = -(n * k) - n * i /\ n * i \in Int /\ n * k \in Int
    OBVIOUS
  <2>2. r = x + n * i /\ y = n * k + t
    BY <1>1, <1>2
  <2>. HIDE DEF r, t
  <2>. QED BY <1>3, <2>1, <2>2
<1>5. v \in 0 .. n - 1 /\ -(k + i) \in Int
  OBVIOUS
<1>. HIDE DEF u, v
<1>6. u % n = v % n
  BY <1>4, <1>5, Congruent
<1>7. v % n = v
  BY <1>5, SmallRemainder
<1>8. u % n = v
  BY <1>6, <1>7
<1>. QED BY <1>8 DEF u, v

LEMMA SameDifference ==
  ASSUME NEW n \in Nat \ {0}, NEW x \in Int, NEW y \in Int, NEW z, z = y - x, z \in 0 .. n - 1
  PROVE  ((y % n) - (x % n)) % n = z
<1>1. n % n = 0
  <2>1. (n * 1 + 0) % n = 0
    BY Remainder
  <2>2. n * 1 + 0 = n
    OBVIOUS
  <2>. QED BY <2>1, <2>2
<1>. QED BY <1>1, Difference

\* Numbers less than the divisor apart have different remainders.
LEMMA Apart ==
  ASSUME NEW n \in Nat \ {0}, NEW x \in Int, NEW y \in Int, y - x \in 1 .. n - 1
  PROVE  x % n # y % n
<1>1. PICK q \in Int : x = n * q + (x % n) /\ x % n \in 0 .. n - 1
  BY Divided
<1>2. PICK k \in Int : y = n * k + (y % n) /\ y % n \in 0 .. n - 1
  BY Divided
<1>3. ASSUME x % n = y % n PROVE FALSE
  <2>1. y - x = n * (k - q)
    <3>1. n * (k - q) = n * k - n * q /\ n * k \in Int /\ n * q \in Int
      OBVIOUS
    <3>2. x % n \in Int
      BY <1>1
    <3>. QED BY <1>1, <1>2, <1>3, <3>1, <3>2
  <2>2. k - q = 0
    BY <1>1, <1>2, <2>1, SmallProduct
  <2>. QED BY <2>1, <2>2
<1>. QED BY <1>3

-----------------------------------------------------------------------------
(* Positions, and what the counters say of them *)

Count(p) == p % PtrMod

LEMMA Sizes ==
  /\ NumDesc \in Nat \ {0} /\ CloMod \in Nat \ {0} /\ PtrMod \in Nat \ {0}
  /\ MaxFrags \in Nat /\ MaxFrags + 1 < NumDesc /\ NumDesc < CloMod /\ CloMod <= PtrMod
  /\ PtrMod % CloMod = 0 /\ PtrMod % PtrMod = 0
<1>1. /\ NumDesc \in Nat \ {0} /\ CloMod \in Nat \ {0} /\ PtrMod \in Nat \ {0}
      /\ MaxFrags \in Nat /\ MaxFrags + 1 < NumDesc /\ NumDesc < CloMod /\ PtrMod % CloMod = 0
  BY RingAssumption
<1>2. CloMod <= PtrMod
  <2>1. ASSUME PtrMod < CloMod PROVE FALSE
    <3>1. PtrMod \in 0 .. CloMod - 1
      BY <1>1, <2>1
    <3>2. PtrMod % CloMod = PtrMod
      BY <1>1, <3>1, SmallRemainder
    <3>. QED BY <1>1, <3>2
  <2>. QED BY <1>1, <2>1
<1>3. PtrMod % PtrMod = 0
  <2>1. (PtrMod * 1 + 0) % PtrMod = 0
    BY <1>1, Remainder
  <2>2. PtrMod * 1 + 0 = PtrMod
    BY <1>1
  <2>. QED BY <2>1, <2>2
<1>. QED BY <1>1, <1>2, <1>3

LEMMA EntryType ==
  ASSUME NEW p \in Int
  PROVE  EntryOf(p) \in Entry
BY Sizes DEF EntryOf, Entry

LEMMA EntryApart ==
  ASSUME NEW p \in Int, NEW q \in Int, p # q, p - q < NumDesc, q - p < NumDesc
  PROVE  EntryOf(p) # EntryOf(q)
<1>1. CASE p < q
  <2>1. q - p \in 1 .. NumDesc - 1
    BY <1>1, Sizes
  <2>. QED BY <2>1, Apart, Sizes DEF EntryOf
<1>2. CASE q < p
  <2>1. p - q \in 1 .. NumDesc - 1
    BY <1>2, Sizes
  <2>. QED BY <2>1, Apart, Sizes DEF EntryOf
<1>. QED BY <1>1, <1>2

LEMMA EntryRound ==
  ASSUME NEW p \in Int
  PROVE  EntryOf(p + NumDesc) = EntryOf(p)
<1>1. PICK k \in Int : k = 1
  OBVIOUS
<1>2. p + NumDesc = p + NumDesc * k
  BY <1>1, Sizes
<1>. QED BY <1>2, Shift, Sizes DEF EntryOf

\* Every descriptor has a position from any one on.
LEMMA EntryCovers ==
  ASSUME NEW e \in Entry, NEW D \in Nat
  PROVE  \E p \in D .. D + NumDesc - 1 : EntryOf(p) = e
<1>1. e \in Int /\ e \in 0 .. NumDesc - 1 /\ e - D \in Int
  BY Sizes DEF Entry
<1>2. PICK k \in Int : /\ e - D = NumDesc * k + ((e - D) % NumDesc)
                       /\ (e - D) % NumDesc \in 0 .. NumDesc - 1
  BY <1>1, Divided, Sizes
<1>. DEFINE p == D + ((e - D) % NumDesc)
<1>3. p \in D .. D + NumDesc - 1
  BY <1>2, Sizes
<1>4. p % NumDesc = e % NumDesc
  <2>1. p = e + NumDesc * (-k)
    <3>1. NumDesc * (-k) = -(NumDesc * k) /\ NumDesc * k \in Int
      BY Sizes
    <3>2. (e - D) % NumDesc \in Int
      BY <1>2
    <3>. QED BY <1>1, <1>2, <3>1, <3>2
  <2>2. p \in Int /\ -k \in Int
    BY <1>2, <1>3
  <2>. HIDE DEF p
  <2>. QED BY <1>1, <2>1, <2>2, Congruent, Sizes
<1>5. e % NumDesc = e
  BY <1>1, SmallRemainder, Sizes
<1>. QED BY <1>3, <1>4, <1>5 DEF EntryOf

\* The n-th descriptor after that of a position.
LEMMA EntryAfter ==
  ASSUME NEW p \in Int, NEW n \in Int
  PROVE  After(EntryOf(p), n) = EntryOf(p + n)
<1>1. NumDesc % NumDesc = 0
  <2>1. (NumDesc * 1 + 0) % NumDesc = 0
    BY Remainder, Sizes
  <2>2. NumDesc * 1 + 0 = NumDesc
    BY Sizes
  <2>. QED BY <2>1, <2>2
<1>. QED BY <1>1, Nested, Sizes DEF After, EntryOf

LEMMA Counting ==
  ASSUME NEW p \in Int, NEW n \in Int
  PROVE  /\ Count(p) \in Pointer
         /\ Add(Count(p), n) = Count(p + n)
         /\ Fits => EntryOf(Count(p)) = EntryOf(p)
         /\ Count(p) % CloMod = p % CloMod
<1>1. Count(p) \in Pointer
  BY Sizes DEF Count, Pointer
<1>2. Add(Count(p), n) = Count(p + n)
  BY Nested, Sizes DEF Add, Count
<1>3. PtrMod % NumDesc = 0 => (p % PtrMod) % NumDesc = p % NumDesc
  BY Twice, Sizes
<1>4. (p % PtrMod) % CloMod = p % CloMod
  BY Twice, Sizes
<1>. QED BY <1>1, <1>2, <1>3, <1>4 DEF Fits, EntryOf, Count

LEMMA Measuring ==
  ASSUME NEW a \in Int, NEW b \in Int, a <= b, b - a <= NumDesc
  PROVE  /\ Distance(Count(a), Count(b)) = b - a
         /\ SlotsAvail(Count(a), Count(b)) <=> a + NumDesc - b > MaxFrags
         /\ ((b % CloMod) - Count(a)) % CloMod = b - a
         /\ ((b % CloMod) - (a % CloMod)) % CloMod = b - a
<1>1. b - a \in 0 .. PtrMod - 1 /\ b - a \in 0 .. CloMod - 1
  BY Sizes
<1>2. Distance(Count(a), Count(b)) = b - a
  <2>1. ((b % PtrMod) - (a % PtrMod)) % PtrMod = b - a
    BY <1>1, Difference, Sizes
  <2>. QED BY <2>1 DEF Distance, Count
<1>3. ((b % CloMod) - Count(a)) % CloMod = b - a
  <2>1. ((b % CloMod) - (a % PtrMod)) % CloMod = b - a
    BY <1>1, Difference, Sizes
  <2>. QED BY <2>1 DEF Count
<1>4. ((b % CloMod) - (a % CloMod)) % CloMod = b - a
  <2>1. CloMod % CloMod = 0
    <3>1. (CloMod * 1 + 0) % CloMod = 0
      BY Remainder, Sizes
    <3>2. CloMod * 1 + 0 = CloMod
      BY Sizes
    <3>. QED BY <3>1, <3>2
  <2>. QED BY <1>1, <2>1, Difference, Sizes
<1>5. (Count(a) + NumDesc - Count(b)) % PtrMod = a + NumDesc - b
  <2>1. Add(Count(a), NumDesc) = Count(a + NumDesc)
    BY Counting, Sizes
  <2>2. (Count(a + NumDesc) - Count(b)) % PtrMod = a + NumDesc - b
    <3>. DEFINE u == a + NumDesc
    <3>1. u \in Int /\ u - b \in 0 .. PtrMod - 1
      BY Sizes
    <3>2. u - b = a + NumDesc - b
      BY Sizes
    <3>. HIDE DEF u
    <3>3. ((u % PtrMod) - (b % PtrMod)) % PtrMod = u - b
      <4>1. PtrMod \in Nat \ {0}
        BY Sizes
      <4>. QED BY <3>1, <4>1, SameDifference
    <3>4. (Count(u) - Count(b)) % PtrMod = u - b
      BY <3>3 DEF Count
    <3>. QED BY <3>2, <3>4 DEF u
  <2>3. (((Count(a) + NumDesc) % PtrMod) + (-Count(b))) % PtrMod = ((Count(a) + NumDesc) + (-Count(b))) % PtrMod
    <3>1. Count(a) + NumDesc \in Int /\ -Count(b) \in Int
      <4>1. Count(a) \in Pointer /\ Count(b) \in Pointer
        BY Counting
      <4>. QED BY <4>1, Sizes DEF Pointer
    <3>. QED BY <3>1, Nested, Sizes
  <2>4. Count(a) \in Int /\ Count(b) \in Int /\ Count(a + NumDesc) \in Int
    <3>1. a + NumDesc \in Int
      BY Sizes
    <3>. QED BY <3>1, Counting, Sizes DEF Pointer
  <2>5. /\ Count(a + NumDesc) + (-Count(b)) = Count(a + NumDesc) - Count(b)
        /\ (Count(a) + NumDesc) + (-Count(b)) = Count(a) + NumDesc - Count(b)
    BY <2>4, Sizes
  <2>. QED BY <2>1, <2>2, <2>3, <2>5 DEF Add
<1>. QED BY <1>2, <1>3, <1>4, <1>5 DEF SlotsAvail

-----------------------------------------------------------------------------
(* Types *)

LEMMA PointerSteps ==
  ASSUME NEW p \in Int, NEW n \in Int
  PROVE  /\ Add(p, n) \in Pointer /\ After(p, n) \in Entry /\ EntryOf(p) \in Entry
         /\ Distance(p, n) \in Nat
         /\ (p - n) % CloMod \in 0 .. CloMod - 1 /\ (p + n) % CloMod \in 0 .. CloMod - 1
         /\ p % CloMod \in 0 .. CloMod - 1
BY Sizes DEF Add, After, EntryOf, Distance, Pointer, Entry

LEMMA PointersInt ==
  /\ Pointer \subseteq Int /\ Entry \subseteq Int /\ 0 .. CloMod - 1 \subseteq Int
  /\ 0 \in Pointer /\ 0 \in Entry /\ 0 \in 0 .. CloMod - 1
BY Sizes DEF Pointer, Entry

LEMMA CleanType ==
  ASSUME NEW start, NEW n, TypeOK, TxClearRange(start, n)
  PROVE  /\ own' \in [Entry -> BOOLEAN] /\ addr' \in [Entry -> Skbs \cup {None}]
         /\ skb' \in [Entry -> Skbs \cup {None}]
BY DEF TypeOK, TxClearRange, Unmap

LEMMA ReturnType ==
  ASSUME TypeOK, Return
  PROVE  /\ tx' \in [skb : Skbs \cup {None}, frags : 0 .. MaxFrags + 1,
                     done : 0 .. MaxFrags + 1, more : BOOLEAN, stop : BOOLEAN]
         /\ pc' \in {"next", "idle"}
BY Sizes DEF Return, Idle

LEMMA TypeInit == Init => TypeOK
<1>. SUFFICES ASSUME Init PROVE TypeOK
  OBVIOUS
<1>1. tx \in [skb : Skbs \cup {None}, frags : 0 .. MaxFrags + 1,
              done : 0 .. MaxFrags + 1, more : BOOLEAN, stop : BOOLEAN]
  BY Sizes DEF Init, Idle
<1>. QED BY <1>1, PointersInt DEF Init, TypeOK

LEMMA TypeNext == TypeOK /\ [Next]_vars => TypeOK'
<1>. SUFFICES ASSUME TypeOK, [Next]_vars PROVE TypeOK'
  OBVIOUS
<1>. USE DEF TypeOK, work
<1>1. CASE \E s \in Skbs : Enqueue(s)
  BY <1>1 DEF Enqueue, ring, napi, chip
<1>2. CASE XmitBegin
  <2>1. CASE UNCHANGED <<tx, qdisc>> /\ pc' = "busy"
    BY <1>2, <2>1 DEF XmitBegin, ring, napi, chip
  <2>2. CASE ~(UNCHANGED <<tx, qdisc>> /\ pc' = "busy")
    <3>. DEFINE Takes(b, n) ==
           /\ pc' = "frags"
           /\ tx' = [Idle EXCEPT !.skb = Head(qdisc), !.frags = n, !.more = b]
           /\ qdisc' = Tail(qdisc)
    <3>1. \E more \in BOOLEAN, nr \in 0 .. MaxFrags : \E frags \in FragsOf(nr) : Takes(more, frags)
      BY <1>2, <2>2, Zenon DEF XmitBegin
    <3>2. PICK more \in BOOLEAN, nr \in 0 .. MaxFrags : \E frags \in FragsOf(nr) : Takes(more, frags)
      BY <3>1, Zenon
    <3>3. PICK frags \in FragsOf(nr) : Takes(more, frags)
      BY <3>2, Zenon
    <3>4. frags \in 0 .. MaxFrags + 1
      BY Sizes DEF FragsOf
    <3>5. qdisc # <<>> /\ qdisc \in Seq(Skbs)
      <4>1. qdisc # <<>>
        BY <1>2, Zenon DEF XmitBegin
      <4>. QED BY <4>1
    <3>6. Head(qdisc) \in Skbs /\ Tail(qdisc) \in Seq(Skbs)
      BY <3>5
    <3>7. tx' \in [skb : Skbs \cup {None}, frags : 0 .. MaxFrags + 1,
                   done : 0 .. MaxFrags + 1, more : BOOLEAN, stop : BOOLEAN]
      <4>1. tx' = [skb |-> Head(qdisc), frags |-> frags, done |-> 0, more |-> more, stop |-> FALSE]
        BY <3>3 DEF Idle
      <4>2. 0 \in 0 .. MaxFrags + 1
        BY Sizes
      <4>. QED BY <3>4, <3>6, <4>1, <4>2
    <3>8. UNCHANGED <<noClose, cur, dirty, seen, ring, stopped, running, napi, chip, work>>
      BY <1>2, Zenon DEF XmitBegin
    <3>9. pc' = "frags" /\ qdisc' = Tail(qdisc)
      BY <3>3
    <3>. HIDE DEF Takes
    <3>. QED BY <3>6, <3>7, <3>8, <3>9 DEF ring, napi, chip
  <2>. QED BY <2>1, <2>2
<1>3. CASE XmitBusy
  BY <1>3 DEF XmitBusy, ring, napi, chip
<1>4. CASE XmitFrag
  <2>. DEFINE e == After(EntryOf(Add(cur, 1)), tx.done)
  <2>1. tx.done \in Nat /\ tx.done + 1 \in 0 .. MaxFrags + 1 /\ tx.skb \in Skbs \cup {None}
    BY <1>4, Sizes DEF XmitFrag
  <2>2. tx' = [tx EXCEPT !.done = @ + 1]
    BY <1>4 DEF XmitFrag
  <2>3. tx' \in [skb : Skbs \cup {None}, frags : 0 .. MaxFrags + 1,
                 done : 0 .. MaxFrags + 1, more : BOOLEAN, stop : BOOLEAN]
    BY <2>1, <2>2
  <2>4. own' = [own EXCEPT ![e] = TRUE] /\ addr' = [addr EXCEPT ![e] = tx.skb]
    BY <1>4 DEF XmitFrag
  <2>5. own' \in [Entry -> BOOLEAN] /\ addr' \in [Entry -> Skbs \cup {None}]
    <3>. HIDE DEF e
    <3>. QED BY <2>1, <2>4
  <2>. QED BY <1>4, <2>3, <2>5 DEF XmitFrag, napi, chip
<1>5. CASE XmitFirst
  <2>1. own' \in [Entry -> BOOLEAN] /\ addr' \in [Entry -> Skbs \cup {None}]
    BY <1>5 DEF XmitFirst
  <2>2. skb' \in [Entry -> Skbs \cup {None}]
    BY <1>5 DEF XmitFirst
  <2>. QED BY <1>5, <2>1, <2>2 DEF XmitFirst, napi, chip
<1>6. CASE XmitAdvance
  <2>1. cur' \in Pointer
    <3>1. cur \in Int /\ tx.frags + 1 \in Int
      BY PointersInt, Sizes
    <3>. QED BY <1>6, <3>1, PointerSteps DEF XmitAdvance
  <2>2. tx' \in [skb : Skbs \cup {None}, frags : 0 .. MaxFrags + 1,
                 done : 0 .. MaxFrags + 1, more : BOOLEAN, stop : BOOLEAN]
    <3>1. tx' = [tx EXCEPT !.stop = ~SlotsAvail(seen, cur')]
      BY <1>6 DEF XmitAdvance
    <3>2. (~SlotsAvail(seen, cur')) \in BOOLEAN
      BY DEF SlotsAvail
    <3>. DEFINE b == ~SlotsAvail(seen, cur')
    <3>. HIDE DEF b
    <3>3. tx' = [tx EXCEPT !.stop = b] /\ b \in BOOLEAN
      BY <3>1, <3>2 DEF b
    <3>. QED BY <3>3
  <2>. QED BY <1>6, <2>1, <2>2 DEF XmitAdvance, ring, napi, chip
<1>7. CASE XmitStop
  BY <1>7 DEF XmitStop, ring, napi, chip
<1>8. CASE XmitKick
  <2>1. tail' \in 0 .. CloMod - 1
    BY <1>8, PointerSteps, PointersInt DEF XmitKick
  <2>2. poll' \in BOOLEAN
    BY <1>8 DEF XmitKick
  <2>3. CASE tx.stop
    BY <1>8, <2>1, <2>2, <2>3 DEF XmitKick, ring, napi
  <2>4. CASE ~tx.stop
    BY <1>8, <2>1, <2>2, <2>4, ReturnType DEF XmitKick, ring, napi
  <2>. QED BY <2>3, <2>4
<1>9. CASE XmitRecheck
  BY <1>9, ReturnType DEF XmitRecheck, ring, napi, chip
<1>10. CASE XmitStart
  BY <1>10, ReturnType DEF XmitStart, ring, napi, chip
<1>11. CASE QdiscEnd
  <2>1. /\ pc' = "idle" /\ running' = FALSE
        /\ UNCHANGED <<noClose, cur, dirty, seen, ring, stopped, tx, qdisc, napi, chip, work>>
    BY <1>11, Zenon DEF QdiscEnd
  <2>2. UNCHANGED <<noClose, cur, dirty, seen, own, addr, skb, stopped, tx, qdisc, npc, d, left, begin,
                    hw, clo, tail, poll, irq, on, linking, reset>>
    BY <2>1 DEF ring, napi, chip
  <2>3. pc' \in {"idle", "next"} /\ running' \in BOOLEAN
    BY <2>1
  <2>. QED BY <2>2, <2>3
<1>12. CASE XmitDrop
  BY <1>12, ReturnType, CleanType DEF XmitDrop, napi, chip
<1>13. CASE NapiRead
  <2>1. Distance(dirty, cur) \in Nat /\ Closed \in Nat
    BY PointerSteps, PointersInt, Sizes DEF Closed
  <2>2. left' \in Nat
    BY <1>13, <2>1 DEF NapiRead
  <2>3. begin' \in Pointer
    <3>1. begin \in Int /\ left' \in Int
      BY <2>2, PointersInt
    <3>2. begin' \in {begin, Add(begin, left')}
      BY <1>13 DEF NapiRead
    <3>3. Add(begin, left') \in Pointer
      <4>. DEFINE n == left'
      <4>. HIDE DEF n
      <4>1. begin \in Int /\ n \in Int
        BY <3>1 DEF n
      <4>2. Add(begin, n) \in Pointer
        BY <4>1, PointerSteps
      <4>. QED BY <4>2 DEF n
    <3>. QED BY <3>2, <3>3
  <2>4. /\ irq' = FALSE /\ npc' = "free" /\ d' = dirty
        /\ UNCHANGED <<noClose, cur, dirty, seen, ring, stopped, xmit, hw, clo, tail, poll, work>>
    BY <1>13, Zenon DEF NapiRead
  <2>5. UNCHANGED <<noClose, cur, dirty, seen, own, addr, skb, stopped, pc, tx, qdisc, running,
                    hw, clo, tail, poll, on, linking, reset>>
    BY <2>4 DEF ring, xmit
  <2>6. irq' \in BOOLEAN /\ npc' \in {"idle", "free", "wake", "start", "poll"} /\ d' \in Pointer
    BY <2>4
  <2>. QED BY <2>2, <2>3, <2>5, <2>6
<1>14. CASE NapiFree
  <2>1. d' \in Pointer /\ left' \in Nat
    BY <1>14, PointerSteps, PointersInt DEF NapiFree, Reapable
  <2>2. /\ own' \in [Entry -> BOOLEAN] /\ addr' \in [Entry -> Skbs \cup {None}]
        /\ skb' \in [Entry -> Skbs \cup {None}]
    BY <1>14 DEF NapiFree, Unmap
  <2>. QED BY <1>14, <2>1, <2>2 DEF NapiFree, xmit, chip
<1>15. CASE NapiPublish
  BY <1>15 DEF NapiPublish, ring, xmit, chip
<1>16. CASE NapiWake
  BY <1>16 DEF NapiWake, ring, xmit, chip
<1>17. CASE NapiStart
  <2>1. /\ stopped' = FALSE /\ seen' = dirty /\ npc' = "poll"
        /\ UNCHANGED <<noClose, cur, dirty, ring, xmit, d, left, begin, chip, work>>
    BY <1>17, Zenon DEF NapiStart
  <2>2. UNCHANGED <<noClose, cur, dirty, own, addr, skb, pc, tx, qdisc, running, d, left, begin,
                    hw, clo, tail, poll, irq, on, linking, reset>>
    BY <2>1 DEF ring, xmit, chip
  <2>3. /\ stopped' \in BOOLEAN /\ seen' \in Pointer
        /\ npc' \in {"idle", "free", "wake", "start", "poll"}
    BY <2>1
  <2>. QED BY <2>2, <2>3
<1>18. CASE NapiPoll
  <2>1. poll' \in BOOLEAN
    BY <1>18 DEF NapiPoll
  <2>. QED BY <1>18, <2>1 DEF NapiPoll, ring, xmit
<1>19. CASE DirtyVisible
  BY <1>19 DEF DirtyVisible, ring, xmit, napi, chip
<1>20. CASE HwSend
  <2>1. hw' \in Entry /\ clo' \in 0 .. CloMod - 1
    <3>1. hw \in Int /\ clo \in Int /\ 1 \in Int
      BY PointersInt
    <3>2. hw' = After(hw, 1) /\ clo' \in {clo, (clo + 1) % CloMod}
      BY <1>20 DEF HwSend
    <3>. QED BY <3>1, <3>2, PointerSteps
  <2>2. own' \in [Entry -> BOOLEAN]
    BY <1>20 DEF HwSend
  <2>3. irq' \in BOOLEAN
    BY <1>20 DEF HwSend
  <2>. QED BY <1>20, <2>1, <2>2, <2>3 DEF HwSend, xmit, napi
<1>21. CASE HwIdle
  <2>1. /\ poll' = FALSE
        /\ UNCHANGED <<noClose, cur, dirty, seen, ring, stopped, xmit, napi, hw, clo, tail, irq, work>>
    BY <1>21, Zenon DEF HwIdle
  <2>2. UNCHANGED <<noClose, cur, dirty, seen, own, addr, skb, stopped, pc, tx, qdisc, running,
                    npc, d, left, begin, hw, clo, tail, irq, on, linking, reset>>
    BY <2>1 DEF ring, xmit, napi
  <2>3. poll' \in BOOLEAN
    BY <2>1
  <2>. QED BY <2>2, <2>3
<1>22. CASE TxTimeout
  BY <1>22 DEF TxTimeout, ring, xmit, napi, chip
<1>23. CASE Reinit \/ Shortage \/ LinkDown
  <2>1. TakeDown /\ begin' \in {0, begin} /\ linking' \in BOOLEAN /\ reset' \in BOOLEAN
    BY <1>23 DEF Reinit, Shortage, LinkDown
  <2>2. TxClearRange(dirty, NumDesc)
    BY <2>1, Zenon DEF TakeDown
  <2>3. /\ own' \in [Entry -> BOOLEAN] /\ addr' \in [Entry -> Skbs \cup {None}]
        /\ skb' \in [Entry -> Skbs \cup {None}]
    BY <2>2, CleanType
  <2>4. /\ on' = FALSE /\ stopped' = TRUE /\ ChipReset
        /\ cur' = 0 /\ dirty' = 0 /\ seen' = 0
        /\ UNCHANGED <<noClose, pc, tx, qdisc, running, npc, d, left>>
    BY <2>1, Zenon DEF TakeDown
  <2>. QED BY <2>1, <2>3, <2>4, PointersInt DEF ChipReset
<1>24. CASE LinkOn
  BY <1>24, PointersInt DEF LinkOn, ChipReset, ring, napi
<1>25. CASE UNCHANGED vars
  BY <1>25 DEF vars, ring, xmit, napi, chip
<1>. QED
  BY <1>1, <1>2, <1>3, <1>4, <1>5, <1>6, <1>7, <1>8, <1>9, <1>10, <1>11, <1>12, <1>13, <1>14,
     <1>15, <1>16, <1>17, <1>18, <1>19, <1>20, <1>21, <1>22, <1>23, <1>24, <1>25
  DEF Next, Transmit, Napi, Chip, ResetTask

\* Every variable keeps its type; the chip's pointers stay in their moduli.
THEOREM TypeCorrect == Spec => []TypeOK
<1>. QED BY TypeInit, TypeNext, PTL DEF Spec

-----------------------------------------------------------------------------
(***************************************************************************)
(* The positions: S is where the transmitter saw the poll, Y where the     *)
(* poll published it is, D where it is, H where the chip is, T where the   *)
(* chip was told to stop, C where cur_tx is.  The packet whose first       *)
(* descriptor is written counts as filled before cur_tx is advanced        *)
(* (Ahead), and fragments lie mapped behind an empty first descriptor      *)
(* (Mapped).                                                               *)
(***************************************************************************)
Ahead == IF pc = "advance" THEN tx.frags + 1 ELSE 0
Mapped == IF pc = "frags" THEN tx.done ELSE 0
Extent(C, F, m) == F = C + Ahead /\ m = Mapped

Agree(S, Y, H, C) ==
  /\ seen = Count(S) /\ dirty = Count(Y) /\ cur = Count(C)
  /\ hw = EntryOf(H)

Ordered(S, Y, D, H, C, F) ==
  S <= Y /\ Y <= D /\ D <= H /\ D <= C /\ H <= F /\ F <= S + NumDesc

Polling(Y, D) == IF npc = "free" THEN d = Count(D) ELSE D = Y /\ left = 0

\* What the chip reports by its close pointer, and what it was told.
Reported(D, H, T, C) ==
  /\ noClose => /\ clo = H % CloMod /\ tail = T % CloMod
                /\ H <= T /\ T <= C
                /\ D + left <= H /\ (on \/ linking => begin = Count(D + left))
  /\ ~noClose => D + left <= C

Filling(S, C) ==
  /\ pc = "frags" => tx.done <= tx.frags /\ C + tx.frags + 1 <= S + NumDesc
  /\ pc \in {"frags", "advance"} => tx.skb # None

\* The descriptors from the poll to the end of what is filled ...
Lives(D, F) ==
  \A p \in D .. F - 1 :
    /\ addr[EntryOf(p)] # None
    /\ \E q \in p .. F - 1 : skb[EntryOf(q)] = addr[EntryOf(p)]
\* ... and the rest of the ring.
Empties(D, F, m) ==
  \A p \in F .. D + NumDesc - 1 :
    /\ skb[EntryOf(p)] = None
    /\ addr[EntryOf(p)] = IF p \in F + 1 .. F + m THEN tx.skb ELSE None
Owned(D, H, F, m) ==
  ~noClose => \A p \in D .. D + NumDesc - 1 :
                own[EntryOf(p)] <=> p \in H .. F - 1 \/ p \in F + 1 .. F + m

Positions(S, Y, D, H, T, C, F, m) ==
  /\ Extent(C, F, m) /\ Agree(S, Y, H, C) /\ Ordered(S, Y, D, H, C, F)
  /\ Polling(Y, D) /\ Reported(D, H, T, C) /\ Filling(S, C)
Contents(D, H, F, m) == Lives(D, F) /\ Empties(D, F, m) /\ Owned(D, H, F, m)

(***************************************************************************)
(* The inductive invariant.  Overwriting and reading are about the         *)
(* contents of the descriptors; which descriptors those are takes the      *)
(* positions, and the three actors each move one of them.                  *)
(***************************************************************************)
Placed ==
  \E S \in Nat, Y \in Nat, D \in Nat, H \in Nat, T \in Nat, C \in Nat, F \in Nat, m \in Nat :
    Positions(S, Y, D, H, T, C, F, m) /\ Contents(D, H, F, m)

\* While the chip is off nothing moves, and it is at its first descriptor.
Dark ==
  /\ ~on => hw = 0 /\ clo = 0 /\ tail = 0 /\ ~irq /\ stopped /\ pc = "idle" /\ npc = "idle"
  /\ linking => ~on
TxInv == TypeOK /\ Placed /\ Dark

LEMMA Ranges ==
  ASSUME TypeOK
  PROVE  /\ tx.frags \in Nat /\ tx.done \in Nat /\ left \in Nat
         /\ Ahead \in Nat /\ Mapped \in Nat
BY Sizes DEF TypeOK, Ahead, Mapped

LEMMA EntrySame ==
  ASSUME NEW D \in Int, NEW p \in D .. D + NumDesc - 1, NEW q \in D .. D + NumDesc - 1
  PROVE  EntryOf(p) = EntryOf(q) <=> p = q
<1>1. p \in Int /\ q \in Int /\ p - q < NumDesc /\ q - p < NumDesc
  BY Sizes
<1>. QED BY <1>1, EntryApart

LEMMA InOrder ==
  ASSUME TypeOK, NEW S \in Nat, NEW Y \in Nat, NEW D \in Nat, NEW H \in Nat, NEW T \in Nat,
         NEW C \in Nat, NEW F \in Nat, NEW m \in Nat, Positions(S, Y, D, H, T, C, F, m)
  PROVE  S <= Y /\ Y <= D /\ D <= H /\ D <= C /\ C <= F /\ H <= F /\ F <= S + NumDesc
BY Ranges, Sizes DEF Positions, Extent, Ordered

\* Filled and mapped descriptors lie within one round of the poll.
LEMMA Room ==
  ASSUME TypeOK, NEW S \in Nat, NEW Y \in Nat, NEW D \in Nat, NEW H \in Nat, NEW T \in Nat,
         NEW C \in Nat, NEW F \in Nat, NEW m \in Nat, Positions(S, Y, D, H, T, C, F, m)
  PROVE  F <= D + NumDesc /\ (m > 0 => F + m < D + NumDesc)
<1>1. S <= Y /\ Y <= D /\ F <= S + NumDesc
  BY InOrder
<1>2. CASE pc = "frags"
  BY <1>1, <1>2, Ranges, Sizes DEF Positions, Extent, Filling, Mapped, Ahead
<1>3. CASE pc # "frags"
  <2>1. m = 0
    BY <1>3 DEF Positions, Extent, Mapped
  <2>. QED BY <1>1, <2>1, Sizes
<1>. QED BY <1>2, <1>3

\* In the middle of a packet there is room for all of its fragments.
FragsFit(D, C, F, m) ==
  /\ F = C /\ m = tx.done /\ m <= tx.frags /\ D <= F
  /\ F + tx.frags < D + NumDesc /\ tx.skb # None

LEMMA FragRoom ==
  ASSUME TypeOK, NEW S \in Nat, NEW Y \in Nat, NEW D \in Nat, NEW H \in Nat, NEW T \in Nat,
         NEW C \in Nat, NEW F \in Nat, NEW m \in Nat, Positions(S, Y, D, H, T, C, F, m),
         pc = "frags"
  PROVE  FragsFit(D, C, F, m)
<1>1. S <= Y /\ Y <= D /\ D <= C
  BY InOrder
<1>2. F = C /\ m = tx.done /\ m <= tx.frags /\ C + tx.frags + 1 <= S + NumDesc /\ tx.skb # None
  BY Ranges DEF Positions, Extent, Filling, Mapped, Ahead
<1>. QED BY <1>1, <1>2, Ranges, Sizes DEF FragsFit

LEMMA PositionsInit ==
  Init => Positions(0, 0, 0, 0, 0, 0, 0, 0) /\ Contents(0, 0, 0, 0)
<1>. SUFFICES ASSUME Init PROVE Positions(0, 0, 0, 0, 0, 0, 0, 0) /\ Contents(0, 0, 0, 0)
  OBVIOUS
<1>1. Count(0) = 0 /\ EntryOf(0) = 0 /\ 0 % CloMod = 0
  BY SmallRemainder, Sizes DEF Count, EntryOf
<1>2. Ahead = 0 /\ Mapped = 0 /\ Extent(0, 0, 0)
  BY DEF Init, Ahead, Mapped, Extent
<1>3. pc = "idle" /\ npc = "idle" /\ left = 0 /\ 0 + left = 0 /\ 0 + NumDesc >= 0
  BY Sizes DEF Init
<1>4. Agree(0, 0, 0, 0) /\ Ordered(0, 0, 0, 0, 0, 0)
  BY <1>1, <1>2, <1>3 DEF Init, Agree, Ordered
<1>5. Polling(0, 0) /\ Reported(0, 0, 0, 0) /\ Filling(0, 0)
  BY <1>1, <1>3 DEF Init, Polling, Reported, Filling
<1>6. \A p \in Int : addr[EntryOf(p)] = None /\ skb[EntryOf(p)] = None /\ ~own[EntryOf(p)]
  BY EntryType DEF Init
<1>7. Lives(0, 0)
  BY DEF Lives
<1>8. Empties(0, 0, 0)
  BY <1>6, Sizes DEF Empties
<1>9. Owned(0, 0, 0, 0)
  BY <1>6, Sizes DEF Owned
<1>. QED BY <1>2, <1>4, <1>5, <1>7, <1>8, <1>9 DEF Positions, Contents

-----------------------------------------------------------------------------
(* Steps that move a position and leave the ring alone *)

\* What is in the ring does not change with the step.
LEMMA SameContents ==
  ASSUME NEW D \in Nat, NEW H \in Nat, NEW F \in Nat, NEW m \in Nat,
         Contents(D, H, F, m), UNCHANGED <<noClose, own, addr, skb>>, m > 0 => tx'.skb = tx.skb
  PROVE  Contents(D, H, F, m)'
<1>1. Lives(D, F)'
  BY DEF Contents, Lives
<1>2. Empties(D, F, m)'
  BY DEF Contents, Empties
<1>3. Owned(D, H, F, m)'
  BY DEF Contents, Owned
<1>. QED BY <1>1, <1>2, <1>3 DEF Contents

\* No position moves.
LEMMA StillStep ==
  ASSUME TypeOK, NEW S \in Nat, NEW Y \in Nat, NEW D \in Nat, NEW H \in Nat, NEW T \in Nat,
         NEW C \in Nat, NEW F \in Nat, NEW m \in Nat,
         Positions(S, Y, D, H, T, C, F, m), Contents(D, H, F, m),
         UNCHANGED <<noClose, cur, dirty, seen, own, addr, skb, d, left, begin, hw, clo, tail>>,
         on' \/ linking' => on \/ linking,
         \/ UNCHANGED <<pc, tx>>
         \/ pc \notin {"frags", "advance"} /\ pc' \notin {"frags", "advance"},
         npc' = "free" <=> npc = "free"
  PROVE  Positions(S, Y, D, H, T, C, F, m)' /\ Contents(D, H, F, m)'
<1>1. Ahead' = Ahead /\ Mapped' = Mapped /\ Filling(S, C)' /\ (m > 0 => tx'.skb = tx.skb)
  <2>1. CASE UNCHANGED <<pc, tx>>
    BY <2>1 DEF Positions, Ahead, Mapped, Filling
  <2>2. CASE pc \notin {"frags", "advance"} /\ pc' \notin {"frags", "advance"}
    <3>1. m = 0
      BY <2>2 DEF Positions, Extent, Mapped
    <3>. QED BY <2>2, <3>1 DEF Ahead, Mapped, Filling
  <2>. QED BY <2>1, <2>2
<1>2. Contents(D, H, F, m)'
  BY <1>1, SameContents
<1>3. Extent(C, F, m)' /\ Ordered(S, Y, D, H, C, F)'
  BY <1>1 DEF Positions, Extent, Ordered
<1>4. Agree(S, Y, H, C)' /\ Polling(Y, D)' /\ Reported(D, H, T, C)'
  BY DEF Positions, Agree, Polling, Reported
<1>. QED BY <1>1, <1>2, <1>3, <1>4 DEF Positions

\* A packet is taken when there is room for all of it, and its tail.
LEMMA BeginStep ==
  ASSUME TypeOK, NEW S \in Nat, NEW Y \in Nat, NEW D \in Nat, NEW H \in Nat, NEW T \in Nat,
         NEW C \in Nat, NEW F \in Nat, NEW m \in Nat,
         Positions(S, Y, D, H, T, C, F, m), Contents(D, H, F, m),
         ~LsoPatch, XmitBegin
  PROVE  Positions(S, Y, D, H, T, C, F, m)' /\ Contents(D, H, F, m)'
<1>1. UNCHANGED <<noClose, cur, dirty, seen, own, addr, skb, d, left, begin, on, linking, hw, clo, tail, npc>>
  <2>1. UNCHANGED <<noClose, cur, dirty, seen, ring, stopped, running, napi, chip, work>>
    BY Zenon DEF XmitBegin
  <2>. QED BY <2>1 DEF ring, napi, chip, work
<1>2. pc \notin {"frags", "advance"}
  <2>1. pc \in {"idle", "next"}
    BY Zenon DEF XmitBegin
  <2>. QED BY <2>1
<1>3. CASE pc' = "busy"
  BY <1>1, <1>2, <1>3, StillStep
<1>4. CASE pc' # "busy"
  <2>. DEFINE Takes(b, n) ==
         /\ pc' = "frags"
         /\ tx' = [Idle EXCEPT !.skb = Head(qdisc), !.frags = n, !.more = b]
         /\ qdisc' = Tail(qdisc)
  <2>1. SlotsAvail(seen, cur)
    BY <1>4, Zenon DEF XmitBegin
  <2>2. \E more \in BOOLEAN, nr \in 0 .. MaxFrags : \E frags \in FragsOf(nr) : Takes(more, frags)
    BY <1>4, Zenon DEF XmitBegin
  <2>3. PICK more \in BOOLEAN, nr \in 0 .. MaxFrags : \E frags \in FragsOf(nr) : Takes(more, frags)
    BY <2>2, Zenon
  <2>4. PICK frags \in FragsOf(nr) : Takes(more, frags)
    BY <2>3, Zenon
  <2>5. frags = nr
    BY DEF FragsOf
  <2>6. pc' = "frags" /\ tx' = [skb |-> Head(qdisc), frags |-> nr, done |-> 0, more |-> more, stop |-> FALSE]
    BY <2>4, <2>5 DEF Idle
  <2>7. Head(qdisc) \in Skbs
    <3>1. qdisc # <<>>
      BY Zenon DEF XmitBegin
    <3>. QED BY <3>1 DEF TypeOK
  <2>8. tx'.skb # None
    BY <2>6, <2>7, ModeAssumption
  <2>9. m = 0 /\ F = C
    BY <1>2 DEF Positions, Extent, Mapped, Ahead
  <2>10. C + nr + 1 <= S + NumDesc
    <3>1. S + NumDesc - C > MaxFrags
      <4>1. SlotsAvail(Count(S), Count(C))
        BY <2>1 DEF Positions, Agree
      <4>2. S <= C /\ C - S <= NumDesc
        <5>1. S <= Y /\ Y <= D /\ D <= H /\ D <= C /\ C <= F /\ H <= F /\ F <= S + NumDesc
          BY InOrder
        <5>. QED BY <2>9, <5>1, Sizes
      <4>. QED BY <4>1, <4>2, Measuring, Sizes
    <3>. QED BY <3>1, Sizes
  <2>11. Filling(S, C)'
    BY <2>6, <2>8, <2>10 DEF Filling
  <2>12. Extent(C, F, m)'
    BY <2>6, <2>9 DEF Extent, Ahead, Mapped
  <2>13. Contents(D, H, F, m)'
    BY <1>1, <2>9, SameContents
  <2>14. Agree(S, Y, H, C)' /\ Ordered(S, Y, D, H, C, F)' /\ Polling(Y, D)' /\ Reported(D, H, T, C)'
    BY <1>1 DEF Positions, Agree, Ordered, Polling, Reported
  <2>. QED BY <2>11, <2>12, <2>13, <2>14 DEF Positions
<1>. QED BY <1>3, <1>4

\* cur_tx comes to the end of what is filled.
LEMMA AdvanceStep ==
  ASSUME TypeOK, NEW S \in Nat, NEW Y \in Nat, NEW D \in Nat, NEW H \in Nat, NEW T \in Nat,
         NEW C \in Nat, NEW F \in Nat, NEW m \in Nat,
         Positions(S, Y, D, H, T, C, F, m), Contents(D, H, F, m),
         XmitAdvance
  PROVE  Positions(S, Y, D, H, T, F, F, m)' /\ Contents(D, H, F, m)'
<1>1. UNCHANGED <<noClose, dirty, seen, own, addr, skb, d, left, begin, on, linking, hw, clo, tail, npc>>
  <2>1. UNCHANGED <<noClose, dirty, seen, ring, stopped, qdisc, running, napi, chip, work>>
    BY Zenon DEF XmitAdvance
  <2>. QED BY <2>1 DEF ring, napi, chip, work
<1>2. pc = "advance" /\ pc' \in {"stop", "kick"} /\ cur' = Add(cur, tx.frags + 1)
  BY DEF XmitAdvance
<1>3. m = 0 /\ F = C + (tx.frags + 1)
  BY <1>2, Ranges DEF Positions, Extent, Mapped, Ahead
<1>4. cur' = Count(F)
  <2>. DEFINE n == tx.frags + 1
  <2>1. n \in Int
    BY Ranges
  <2>. HIDE DEF n
  <2>2. Add(Count(C), n) = Count(C + n)
    BY <2>1, Counting
  <2>3. cur' = Add(Count(C), n)
    BY <1>2 DEF n, Positions, Agree
  <2>. QED BY <1>3, <2>2, <2>3 DEF n
<1>5. Extent(F, F, m)' /\ Filling(S, F)'
  BY <1>2, <1>3 DEF Extent, Ahead, Mapped, Filling
<1>6. Agree(S, Y, H, F)'
  BY <1>1, <1>4 DEF Positions, Agree
<1>7. Ordered(S, Y, D, H, F, F)' /\ Polling(Y, D)'
  BY <1>1, InOrder DEF Positions, Ordered, Polling
<1>8. Reported(D, H, T, F)'
  <2>1. S <= Y /\ Y <= D /\ D <= H /\ D <= C /\ C <= F /\ H <= F /\ F <= S + NumDesc
    BY InOrder
  <2>2. noClose => T <= C
    BY DEF Positions, Reported
  <2>3. ~noClose => D + left <= C
    BY DEF Positions, Reported
  <2>. QED BY <1>1, <2>1, <2>2, <2>3, Ranges DEF Positions, Reported
<1>9. Contents(D, H, F, m)'
  <2>1. UNCHANGED <<noClose, own, addr, skb>>
    BY <1>1
  <2>2. ~(m > 0)
    BY <1>3
  <2>. QED BY <2>1, <2>2, SameContents
<1>. QED BY <1>5, <1>6, <1>7, <1>8, <1>9 DEF Positions

\* The doorbell tells the chip of everything up to cur_tx.
LEMMA KickStep ==
  ASSUME TypeOK, NEW S \in Nat, NEW Y \in Nat, NEW D \in Nat, NEW H \in Nat, NEW T \in Nat,
         NEW C \in Nat, NEW F \in Nat, NEW m \in Nat,
         Positions(S, Y, D, H, T, C, F, m), Contents(D, H, F, m),
         XmitKick
  PROVE  \E t \in Nat : Positions(S, Y, D, H, t, C, F, m)' /\ Contents(D, H, F, m)'
<1>1. UNCHANGED <<noClose, cur, dirty, seen, own, addr, skb, d, left, begin, on, linking, hw, clo, npc>>
  <2>1. UNCHANGED <<noClose, cur, dirty, seen, ring, stopped, qdisc, running, napi, hw, clo, irq, work>>
    BY Zenon DEF XmitKick
  <2>. QED BY <2>1 DEF ring, napi, work
<1>2. pc = "kick" /\ pc' \notin {"frags", "advance"}
  BY DEF XmitKick, Return
<1>3. m = 0 /\ F = C
  BY <1>2 DEF Positions, Extent, Mapped, Ahead
<1>4. Extent(C, F, m)' /\ Filling(S, C)'
  BY <1>2, <1>3 DEF Extent, Ahead, Mapped, Filling
<1>5. Agree(S, Y, H, C)' /\ Ordered(S, Y, D, H, C, F)' /\ Polling(Y, D)'
  BY <1>1 DEF Positions, Agree, Ordered, Polling
<1>6. Contents(D, H, F, m)'
  <2>1. UNCHANGED <<noClose, own, addr, skb>>
    BY <1>1
  <2>2. ~(m > 0)
    BY <1>3
  <2>. QED BY <2>1, <2>2, SameContents
<1>7. \E t \in Nat : Reported(D, H, t, C)'
  <2>1. CASE noClose /\ tail' = cur % CloMod
    <3>1. tail' = C % CloMod
      BY <2>1, Counting DEF Positions, Agree
    <3>2. H <= C
      <4>1. S <= Y /\ Y <= D /\ D <= H /\ D <= C /\ C <= F /\ H <= F /\ F <= S + NumDesc
        BY InOrder
      <4>. QED BY <1>3, <4>1
    <3>3. Reported(D, H, C, C)'
      BY <1>1, <2>1, <3>1, <3>2 DEF Positions, Reported
    <3>. QED BY <3>3
  <2>2. CASE UNCHANGED tail
    <3>1. Reported(D, H, T, C)'
      BY <1>1, <2>2 DEF Positions, Reported
    <3>. QED BY <3>1
  <2>. QED BY <2>1, <2>2 DEF XmitKick
<1>. QED BY <1>4, <1>5, <1>6, <1>7 DEF Positions

-----------------------------------------------------------------------------
(* Steps that change the ring *)

LEMMA OneEntry ==
  ASSUME NEW D \in Nat, NEW w \in D .. D + NumDesc - 1, NEW p \in D .. D + NumDesc - 1
  PROVE  EntryOf(p) \in Entry /\ (EntryOf(p) = EntryOf(w) <=> p = w)
<1>1. p \in Int
  BY Sizes
<1>. QED BY <1>1, EntrySame, EntryType

LEMMA RingDomains ==
  ASSUME TypeOK
  PROVE  DOMAIN own = Entry /\ DOMAIN addr = Entry /\ DOMAIN skb = Entry
BY DEF TypeOK

LEMMA FragEntry ==
  ASSUME Fits, NEW C \in Nat, NEW n \in Nat
  PROVE  /\ After(EntryOf(Add(Count(C), 1)), n) = EntryOf(C + 1 + n)
         /\ After(EntryOf(Count(C)), n) = EntryOf(C + n)
         /\ EntryOf(Count(C)) = EntryOf(C)
         /\ EntryOf(Add(Count(C), n)) = EntryOf(C + n)
<1>. DEFINE w == C + 1  u == C + n
<1>1. w \in Int /\ C \in Int /\ n \in Int /\ u \in Int
  OBVIOUS
<1>2. Add(Count(C), 1) = Count(w) /\ Add(Count(C), n) = Count(u)
  BY <1>1, Counting
<1>. HIDE DEF w, u
<1>3. EntryOf(Count(w)) = EntryOf(w) /\ EntryOf(Count(C)) = EntryOf(C) /\ EntryOf(Count(u)) = EntryOf(u)
  BY <1>1, Counting
<1>4. After(EntryOf(w), n) = EntryOf(w + n) /\ After(EntryOf(C), n) = EntryOf(C + n)
  BY <1>1, EntryAfter
<1>. QED BY <1>2, <1>3, <1>4 DEF w, u

LEMMA FragStep ==
  ASSUME TypeOK, NEW S \in Nat, NEW Y \in Nat, NEW D \in Nat, NEW H \in Nat, NEW T \in Nat,
         NEW C \in Nat, NEW F \in Nat, NEW m \in Nat,
         Positions(S, Y, D, H, T, C, F, m), Contents(D, H, F, m),
         Fits, XmitFrag
  PROVE  Positions(S, Y, D, H, T, C, F, m + 1)' /\ Contents(D, H, F, m + 1)'
<1>. DEFINE w == F + m + 1  k == tx.skb
<1>1. /\ UNCHANGED <<noClose, cur, dirty, seen, skb, d, left, begin, on, linking, hw, clo, tail, npc, pc>>
      /\ pc = "frags" /\ tx.done < tx.frags
      /\ tx' = [tx EXCEPT !.done = @ + 1]
  <2>1. UNCHANGED <<noClose, cur, dirty, seen, skb, stopped, pc, qdisc, running, napi, chip, work>>
    BY Zenon DEF XmitFrag
  <2>. QED BY <2>1 DEF XmitFrag, napi, chip, work
<1>2. /\ F = C /\ m = tx.done /\ D <= F /\ F + tx.frags < D + NumDesc /\ k # None
  <2>1. pc = "frags"
    BY <1>1
  <2>2. FragsFit(D, C, F, m)
    BY <2>1, FragRoom
  <2>. QED BY <2>2 DEF FragsFit
<1>3. w \in D .. D + NumDesc - 1 /\ w = C + 1 + tx.done
  BY <1>1, <1>2, Ranges, Sizes
<1>4. own' = [own EXCEPT ![EntryOf(w)] = TRUE] /\ addr' = [addr EXCEPT ![EntryOf(w)] = k]
  <2>1. After(EntryOf(Add(cur, 1)), tx.done) = EntryOf(w)
    <3>. DEFINE n == tx.done
    <3>1. cur = Count(C) /\ n \in Nat /\ w = C + 1 + n
      BY <1>3, Ranges DEF Positions, Agree
    <3>. HIDE DEF n, w
    <3>2. After(EntryOf(Add(Count(C), 1)), n) = EntryOf(C + 1 + n)
      BY <3>1, FragEntry
    <3>. QED BY <3>1, <3>2 DEF n
  <2>. QED BY <2>1 DEF XmitFrag
<1>5. tx'.done = tx.done + 1 /\ tx'.frags = tx.frags /\ tx'.skb = k
  BY <1>1 DEF TypeOK
<1>6. \A p \in D .. D + NumDesc - 1 :
        /\ addr'[EntryOf(p)] = IF p = w THEN k ELSE addr[EntryOf(p)]
        /\ own'[EntryOf(p)] = IF p = w THEN TRUE ELSE own[EntryOf(p)]
  <2>. HIDE DEF w, k
  <2>. SUFFICES ASSUME NEW p \in D .. D + NumDesc - 1
                PROVE  /\ addr'[EntryOf(p)] = IF p = w THEN k ELSE addr[EntryOf(p)]
                       /\ own'[EntryOf(p)] = IF p = w THEN TRUE ELSE own[EntryOf(p)]
    OBVIOUS
  <2>1. w \in D .. D + NumDesc - 1
    BY <1>3
  <2>2. EntryOf(p) \in Entry /\ (EntryOf(p) = EntryOf(w) <=> p = w)
    BY <2>1, OneEntry
  <2>. QED BY <1>4, <2>2, RingDomains
<1>7. F \in D .. D + NumDesc /\ w = F + m + 1
  BY <1>2, <1>3, Sizes
<1>8. tx'.skb = k /\ tx.skb = k
  BY <1>5
<1>9. Extent(C, F, m + 1)' /\ Filling(S, C)'
  BY <1>1, <1>2, <1>5, Ranges DEF Positions, Extent, Ahead, Mapped, Filling
<1>10. Agree(S, Y, H, C)' /\ Ordered(S, Y, D, H, C, F)' /\ Polling(Y, D)' /\ Reported(D, H, T, C)'
  BY <1>1 DEF Positions, Agree, Ordered, Polling, Reported
<1>. HIDE DEF w, k
<1>11. Lives(D, F)'
  <2>1. ASSUME NEW p \in D .. F - 1
        PROVE  addr'[EntryOf(p)] = addr[EntryOf(p)]
    <3>1. p \in D .. D + NumDesc - 1 /\ p # w
      BY <1>7, Sizes
    <3>. QED BY <1>6, <3>1
  <2>. QED BY <1>1, <2>1 DEF Contents, Lives
<1>12. Empties(D, F, m + 1)'
  <2>. SUFFICES ASSUME NEW p \in F .. D + NumDesc - 1
                PROVE  /\ skb'[EntryOf(p)] = None
                       /\ addr'[EntryOf(p)] = IF p \in F + 1 .. F + (m + 1) THEN tx'.skb ELSE None
    BY DEF Empties
  <2>1. p \in D .. D + NumDesc - 1
    BY <1>7, Sizes
  <2>2. /\ skb[EntryOf(p)] = None
        /\ addr[EntryOf(p)] = IF p \in F + 1 .. F + m THEN tx.skb ELSE None
    BY DEF Contents, Empties
  <2>3. p \in F + 1 .. F + (m + 1) <=> p \in F + 1 .. F + m \/ p = w
    BY <1>7, <2>1, Sizes
  <2>. QED BY <1>1, <1>6, <1>8, <2>1, <2>2, <2>3
<1>13. Owned(D, H, F, m + 1)'
  <2>. SUFFICES ASSUME ~noClose', NEW p \in D .. D + NumDesc - 1
                PROVE  own'[EntryOf(p)] <=> p \in H .. F - 1 \/ p \in F + 1 .. F + (m + 1)
    BY DEF Owned
  <2>1. own[EntryOf(p)] <=> p \in H .. F - 1 \/ p \in F + 1 .. F + m
    BY <1>1 DEF Contents, Owned
  <2>2. p \in F + 1 .. F + (m + 1) <=> p \in F + 1 .. F + m \/ p = w
    BY <1>7, Sizes
  <2>3. own'[EntryOf(p)] <=> own[EntryOf(p)] \/ p = w
    BY <1>6
  <2>. QED BY <2>1, <2>2, <2>3
<1>. QED BY <1>9, <1>10, <1>11, <1>12, <1>13 DEF Positions, Contents

\* What rtl8125_tx_clear_range does to the descriptors of a round.
Hit(p, B, n) == p \in B .. B + n - 1 /\ addr[EntryOf(p)] # None
Cleared(D, B, n) ==
  \A p \in D .. D + NumDesc - 1 :
    /\ addr'[EntryOf(p)] = IF Hit(p, B, n) THEN None ELSE addr[EntryOf(p)]
    /\ skb'[EntryOf(p)] = IF Hit(p, B, n) THEN None ELSE skb[EntryOf(p)]
    /\ own'[EntryOf(p)] <=> own[EntryOf(p)] /\ ~Hit(p, B, n)

LEMMA ClearRange ==
  ASSUME TypeOK, Fits, NEW D \in Nat, NEW B \in Nat, NEW n \in Nat, D <= B, B + n <= D + NumDesc,
         TxClearRange(Count(B), n)
  PROVE  Cleared(D, B, n)
<1>. DEFINE R == {e \in {EntryOf(Add(Count(B), i)) : i \in 0 .. n - 1} : addr[e] # None}
<1>1. /\ own' = [e \in Entry |-> own[e] /\ e \notin R]
      /\ addr' = [e \in Entry |-> IF e \in R THEN None ELSE addr[e]]
      /\ skb' = [e \in Entry |-> IF e \in R THEN None ELSE skb[e]]
  BY Zenon DEF TxClearRange, Unmap
<1>. SUFFICES ASSUME NEW p \in D .. D + NumDesc - 1
              PROVE  /\ addr'[EntryOf(p)] = IF Hit(p, B, n) THEN None ELSE addr[EntryOf(p)]
                     /\ skb'[EntryOf(p)] = IF Hit(p, B, n) THEN None ELSE skb[EntryOf(p)]
                     /\ own'[EntryOf(p)] <=> own[EntryOf(p)] /\ ~Hit(p, B, n)
  BY DEF Cleared
<1>2. p \in Int /\ EntryOf(p) \in Entry
  BY EntryType, Sizes
<1>3. EntryOf(p) \in R <=> Hit(p, B, n)
  <2>1. ASSUME EntryOf(p) \in R PROVE Hit(p, B, n)
    <3>1. PICK i \in 0 .. n - 1 : EntryOf(p) = EntryOf(Add(Count(B), i))
      BY <2>1
    <3>2. addr[EntryOf(p)] # None
      BY <2>1
    <3>3. EntryOf(Add(Count(B), i)) = EntryOf(B + i)
      BY FragEntry
    <3>. DEFINE w == B + i
    <3>4. w \in D .. D + NumDesc - 1 /\ w \in B .. B + n - 1
      BY Sizes
    <3>5. EntryOf(p) = EntryOf(w)
      BY <3>1, <3>3
    <3>. HIDE DEF w
    <3>6. p = w
      BY <3>4, <3>5, OneEntry
    <3>. QED BY <3>2, <3>4, <3>6 DEF Hit
  <2>2. ASSUME Hit(p, B, n) PROVE EntryOf(p) \in R
    <3>. DEFINE i == p - B
    <3>1. i \in 0 .. n - 1 /\ i \in Nat /\ B + i = p
      BY <2>2, <1>2 DEF Hit
    <3>. HIDE DEF i
    <3>2. EntryOf(Add(Count(B), i)) = EntryOf(p)
      BY <3>1, FragEntry
    <3>3. addr[EntryOf(p)] # None
      BY <2>2 DEF Hit
    <3>. QED BY <3>1, <3>2, <3>3
  <2>. QED BY <2>1, <2>2
<1>. HIDE DEF R
<1>. QED BY <1>1, <1>2, <1>3

\* A dropped packet leaves the ring as it was before the first fragment.
LEMMA DropStep ==
  ASSUME TypeOK, NEW S \in Nat, NEW Y \in Nat, NEW D \in Nat, NEW H \in Nat, NEW T \in Nat,
         NEW C \in Nat, NEW F \in Nat, NEW m \in Nat,
         Positions(S, Y, D, H, T, C, F, m), Contents(D, H, F, m),
         Fits, XmitDrop
  PROVE  Positions(S, Y, D, H, T, C, F, 0)' /\ Contents(D, H, F, 0)'
<1>1. UNCHANGED <<noClose, cur, dirty, seen, d, left, begin, on, linking, hw, clo, tail, npc>>
  <2>1. UNCHANGED <<noClose, cur, dirty, seen, stopped, qdisc, running, napi, chip, work>>
    BY Zenon DEF XmitDrop
  <2>. QED BY <2>1 DEF napi, chip, work
<1>2. pc = "frags" /\ pc' \notin {"frags", "advance"} /\ TxClearRange(Add(cur, 1), tx.done)
  BY DEF XmitDrop, Return
<1>3. FragsFit(D, C, F, m)
  BY <1>2, FragRoom
<1>4. F = C /\ m = tx.done /\ D <= F /\ F + m < D + NumDesc /\ tx.skb # None
  BY <1>3, Ranges, Sizes DEF FragsFit
<1>. DEFINE B == F + 1
<1>5. B \in Nat /\ D <= B /\ B + m <= D + NumDesc
  BY <1>4, Sizes
<1>6. TxClearRange(Count(B), m)
  <2>1. Add(cur, 1) = Count(B)
    <3>1. Add(Count(C), 1) = Count(C + 1)
      BY Counting
    <3>. QED BY <1>4, <3>1 DEF Positions, Agree
  <2>. HIDE DEF B
  <2>. QED BY <1>2, <1>4, <2>1
<1>7. Cleared(D, B, m)
  <2>. HIDE DEF B
  <2>. QED BY <1>5, <1>6, ClearRange
<1>8. Extent(C, F, 0)' /\ Filling(S, C)'
  BY <1>2, <1>4 DEF Extent, Ahead, Mapped, Filling
<1>9. Agree(S, Y, H, C)' /\ Ordered(S, Y, D, H, C, F)' /\ Polling(Y, D)' /\ Reported(D, H, T, C)'
  BY <1>1 DEF Positions, Agree, Ordered, Polling, Reported
<1>10. Lives(D, F)'
  <2>1. ASSUME NEW p \in D .. F - 1
        PROVE  addr'[EntryOf(p)] = addr[EntryOf(p)] /\ skb'[EntryOf(p)] = skb[EntryOf(p)]
    <3>1. p \in D .. D + NumDesc - 1 /\ p \notin B .. B + m - 1
      BY <1>4, Sizes
    <3>2. ~Hit(p, B, m)
      BY <3>1 DEF Hit
    <3>. QED BY <1>7, <3>1, <3>2 DEF Cleared
  <2>2. \A p \in D .. F - 1 : \A q \in p .. F - 1 : q \in D .. F - 1
    OBVIOUS
  <2>. QED BY <2>1, <2>2 DEF Contents, Lives
<1>11. Empties(D, F, 0)'
  <2>. SUFFICES ASSUME NEW p \in F .. D + NumDesc - 1
                PROVE  skb'[EntryOf(p)] = None /\ addr'[EntryOf(p)] = None
    BY DEF Empties
  <2>1. p \in D .. D + NumDesc - 1
    BY <1>4, Sizes
  <2>2. /\ skb[EntryOf(p)] = None
        /\ addr[EntryOf(p)] = IF p \in F + 1 .. F + m THEN tx.skb ELSE None
    BY DEF Contents, Empties
  <2>3. p \in B .. B + m - 1 <=> p \in F + 1 .. F + m
    BY <2>1, Sizes
  <2>. QED BY <1>7, <2>1, <2>2, <2>3 DEF Cleared, Hit
<1>12. Owned(D, H, F, 0)'
  <2>. SUFFICES ASSUME ~noClose', NEW p \in D .. D + NumDesc - 1
                PROVE  own'[EntryOf(p)] <=> p \in H .. F - 1 \/ p \in F + 1 .. F + 0
    BY DEF Owned
  <2>1. own[EntryOf(p)] <=> p \in H .. F - 1 \/ p \in F + 1 .. F + m
    BY <1>1 DEF Contents, Owned
  <2>2. own'[EntryOf(p)] <=> own[EntryOf(p)] /\ ~Hit(p, B, m)
    BY <1>7 DEF Cleared
  <2>3. p \in B .. B + m - 1 <=> p \in F + 1 .. F + m
    BY Sizes
  <2>4. p \in F + 1 .. F + m => addr[EntryOf(p)] # None
    <3>1. p \in F + 1 .. F + m => p \in F .. D + NumDesc - 1
      BY <1>4, Sizes
    <3>2. p \in F + 1 .. F + m => addr[EntryOf(p)] = tx.skb
      BY <3>1 DEF Contents, Empties
    <3>. QED BY <1>4, <3>2
  <2>5. p \in F + 1 .. F + m <=> Hit(p, B, m)
    BY <2>3, <2>4 DEF Hit
  <2>6. ~(p \in F + 1 .. F + m /\ p \in H .. F - 1) /\ p \notin F + 1 .. F + 0
    BY <1>4, Sizes
  <2>. QED BY <2>1, <2>2, <2>5, <2>6
<1>. QED BY <1>8, <1>9, <1>10, <1>11, <1>12 DEF Positions, Contents

\* With the first descriptor the packet counts as filled.
LEMMA FirstStep ==
  ASSUME TypeOK, NEW S \in Nat, NEW Y \in Nat, NEW D \in Nat, NEW H \in Nat, NEW T \in Nat,
         NEW C \in Nat, NEW F \in Nat, NEW m \in Nat,
         Positions(S, Y, D, H, T, C, F, m), Contents(D, H, F, m),
         Fits, XmitFirst
  PROVE  Positions(S, Y, D, H, T, C, F + m + 1, 0)' /\ Contents(D, H, F + m + 1, 0)'
<1>. DEFINE G == F + m + 1  w == F + m  k == tx.skb
<1>1. /\ UNCHANGED <<noClose, cur, dirty, seen, d, left, begin, on, linking, hw, clo, tail, npc, tx>>
      /\ pc = "frags" /\ pc' = "advance" /\ tx.done = tx.frags
  <2>1. UNCHANGED <<noClose, cur, dirty, seen, stopped, tx, qdisc, running, napi, chip, work>>
    BY Zenon DEF XmitFirst
  <2>. QED BY <2>1 DEF XmitFirst, napi, chip, work
<1>2. FragsFit(D, C, F, m)
  BY <1>1, FragRoom
<1>3. /\ F = C /\ m = tx.done /\ m = tx.frags /\ D <= F /\ F + m < D + NumDesc /\ k # None
      /\ G \in Nat /\ w \in Nat /\ G = w + 1 /\ w = F + m
  BY <1>1, <1>2, Ranges DEF FragsFit
<1>4. F \in D .. D + NumDesc - 1 /\ w \in D .. D + NumDesc - 1
  BY <1>3, Sizes
<1>5. /\ skb' = [skb EXCEPT ![EntryOf(w)] = k]
      /\ addr' = [addr EXCEPT ![EntryOf(F)] = k]
      /\ own' = [own EXCEPT ![EntryOf(F)] = TRUE]
  <2>1. cur = Count(C) /\ tx.frags = m /\ F = C
    BY <1>3 DEF Positions, Agree
  <2>2. EntryOf(Count(C)) = EntryOf(C) /\ After(EntryOf(Count(C)), m) = EntryOf(C + m)
    BY FragEntry
  <2>3. EntryOf(cur) = EntryOf(F) /\ After(EntryOf(cur), tx.frags) = EntryOf(w)
    BY <2>1, <2>2
  <2>. QED BY <2>3 DEF XmitFirst
<1>6. Extent(C, G, 0)' /\ Filling(S, C)'
  BY <1>1, <1>3 DEF Extent, Ahead, Mapped, Filling
<1>7. Agree(S, Y, H, C)' /\ Polling(Y, D)' /\ Reported(D, H, T, C)'
  BY <1>1 DEF Positions, Agree, Polling, Reported
<1>8. Ordered(S, Y, D, H, C, G)'
  <2>1. C + tx.frags + 1 <= S + NumDesc
    BY <1>1 DEF Positions, Filling
  <2>2. G <= S + NumDesc
    BY <1>3, <2>1
  <2>3. S <= Y /\ Y <= D /\ D <= H /\ D <= C /\ C <= F /\ H <= F
    BY InOrder
  <2>4. H <= G
    BY <1>3, <2>3
  <2>. HIDE DEF G
  <2>. QED BY <2>2, <2>3, <2>4 DEF Ordered
<1>. HIDE DEF G, w, k
<1>9. \A p \in D .. D + NumDesc - 1 :
        /\ addr'[EntryOf(p)] = IF p = F THEN k ELSE addr[EntryOf(p)]
        /\ own'[EntryOf(p)] = IF p = F THEN TRUE ELSE own[EntryOf(p)]
        /\ skb'[EntryOf(p)] = IF p = w THEN k ELSE skb[EntryOf(p)]
  <2>. SUFFICES ASSUME NEW p \in D .. D + NumDesc - 1
                PROVE  /\ addr'[EntryOf(p)] = IF p = F THEN k ELSE addr[EntryOf(p)]
                       /\ own'[EntryOf(p)] = IF p = F THEN TRUE ELSE own[EntryOf(p)]
                       /\ skb'[EntryOf(p)] = IF p = w THEN k ELSE skb[EntryOf(p)]
    OBVIOUS
  <2>1. EntryOf(p) \in Entry /\ (EntryOf(p) = EntryOf(w) <=> p = w) /\ (EntryOf(p) = EntryOf(F) <=> p = F)
    BY <1>4, OneEntry
  <2>. QED BY <1>5, <2>1, RingDomains
<1>10. \A p \in F .. D + NumDesc - 1 :
         /\ skb[EntryOf(p)] = None
         /\ addr[EntryOf(p)] = IF p \in F + 1 .. F + m THEN k ELSE None
  BY DEF Contents, Empties, k
<1>11. Lives(D, G)'
  <2>. SUFFICES ASSUME NEW p \in D .. G - 1
                PROVE  /\ addr'[EntryOf(p)] # None
                       /\ \E q \in p .. G - 1 : skb'[EntryOf(q)] = addr'[EntryOf(p)]
    BY DEF Lives
  <2>1. p \in D .. D + NumDesc - 1 /\ w \in D .. D + NumDesc - 1 /\ w \in p .. G - 1
    BY <1>3, Sizes
  <2>2. CASE p < F
    <3>1. p \in D .. F - 1 /\ p # F
      BY <2>2
    <3>2. /\ addr[EntryOf(p)] # None
          /\ \E q \in p .. F - 1 : skb[EntryOf(q)] = addr[EntryOf(p)]
      BY <3>1 DEF Contents, Lives
    <3>3. PICK q \in p .. F - 1 : skb[EntryOf(q)] = addr[EntryOf(p)]
      BY <3>2
    <3>4. q \in D .. D + NumDesc - 1 /\ q # w /\ q \in p .. G - 1
      BY <1>3, <3>3, Sizes
    <3>5. skb'[EntryOf(q)] = skb[EntryOf(q)] /\ addr'[EntryOf(p)] = addr[EntryOf(p)]
      BY <1>9, <2>1, <3>1, <3>4
    <3>. QED BY <3>2, <3>3, <3>4, <3>5
  <2>3. CASE p >= F
    <3>1. addr'[EntryOf(p)] = k
      <4>1. CASE p = F
        BY <1>9, <2>1, <4>1
      <4>2. CASE p # F
        <5>1. p \in F + 1 .. F + m /\ p \in F .. D + NumDesc - 1
          BY <1>3, <2>1, <2>3, <4>2
        <5>2. addr[EntryOf(p)] = k
          BY <1>10, <5>1
        <5>. QED BY <1>9, <2>1, <4>2, <5>2
      <4>. QED BY <4>1, <4>2
    <3>2. skb'[EntryOf(w)] = k
      BY <1>9, <2>1
    <3>. QED BY <1>3, <2>1, <3>1, <3>2
  <2>. QED BY <2>2, <2>3
<1>12. Empties(D, G, 0)'
  <2>. SUFFICES ASSUME NEW p \in G .. D + NumDesc - 1
                PROVE  skb'[EntryOf(p)] = None /\ addr'[EntryOf(p)] = None
    BY <1>3 DEF Empties
  <2>1. p \in D .. D + NumDesc - 1 /\ p \in F .. D + NumDesc - 1 /\ p # F /\ p # w /\ p \notin F + 1 .. F + m
    BY <1>3, Sizes
  <2>. QED BY <1>9, <1>10, <2>1
<1>13. Owned(D, H, G, 0)'
  <2>. SUFFICES ASSUME ~noClose', NEW p \in D .. D + NumDesc - 1
                PROVE  own'[EntryOf(p)] <=> p \in H .. G - 1 \/ p \in G + 1 .. G + 0
    BY DEF Owned
  <2>1. own[EntryOf(p)] <=> p \in H .. F - 1 \/ p \in F + 1 .. F + m
    BY <1>1 DEF Contents, Owned
  <2>2. own'[EntryOf(p)] <=> own[EntryOf(p)] \/ p = F
    BY <1>9
  <2>3. H <= F
    BY InOrder
  <2>4. p \in H .. G - 1 <=> p \in H .. F - 1 \/ p \in F + 1 .. F + m \/ p = F
    BY <1>3, <2>3
  <2>5. p \notin G + 1 .. G + 0
    BY <1>3
  <2>. QED BY <2>1, <2>2, <2>4, <2>5
<1>. QED BY <1>6, <1>7, <1>8, <1>11, <1>12, <1>13 DEF Positions, Contents, G

\* The poll empties the descriptor it is at; it is the end of a round later
\* that is free by it.
LEMMA FreeStep ==
  ASSUME TypeOK, NEW S \in Nat, NEW Y \in Nat, NEW D \in Nat, NEW H \in Nat, NEW T \in Nat,
         NEW C \in Nat, NEW F \in Nat, NEW m \in Nat,
         Positions(S, Y, D, H, T, C, F, m), Contents(D, H, F, m),
         Fits, NapiFree
  PROVE  Positions(S, Y, D + 1, H, T, C, F, m)' /\ Contents(D + 1, H, F, m)'
<1>. DEFINE E == D + 1  z == D + NumDesc
<1>1. /\ UNCHANGED <<noClose, cur, dirty, seen, begin, on, linking, hw, clo, tail, npc, pc, tx>>
      /\ npc = "free" /\ left > 0 /\ (noClose \/ ~own[EntryOf(d)])
      /\ d' = Add(d, 1) /\ left' = left - 1
  <2>1. UNCHANGED <<noClose, cur, dirty, seen, stopped, xmit, npc, begin, chip, work>>
    BY Zenon DEF NapiFree
  <2>2. /\ npc = "free" /\ Reapable
        /\ d' = Add(d, 1) /\ left' = left - 1
    BY Zenon DEF NapiFree
  <2>. QED BY <2>1, <2>2 DEF xmit, chip, Reapable, work
<1>2. d = Count(D) /\ d' = Count(E) /\ EntryOf(d) = EntryOf(D)
  <2>1. Add(Count(D), 1) = Count(D + 1) /\ EntryOf(Count(D)) = EntryOf(D)
    BY Counting, FragEntry
  <2>. QED BY <1>1, <2>1 DEF Positions, Polling
<1>3. /\ own' = [e \in Entry |-> own[e] /\ e # EntryOf(D)]
      /\ addr' = [e \in Entry |-> IF e = EntryOf(D) THEN None ELSE addr[e]]
      /\ skb' = [skb EXCEPT ![EntryOf(D)] = None]
  BY <1>2 DEF NapiFree, Unmap
<1>4. S <= Y /\ Y <= D /\ D <= H /\ D <= C /\ C <= F /\ H <= F /\ F <= S + NumDesc
  BY InOrder
<1>5. F <= D + NumDesc /\ (m > 0 => F + m < D + NumDesc)
  BY Room
<1>6. left \in Nat /\ (noClose => H <= T /\ T <= C /\ D + left <= H) /\ (~noClose => D + left <= C)
  BY Ranges DEF Positions, Reported
<1>7. D + 1 <= C
  BY <1>1, <1>4, <1>6
<1>8. D + 1 <= H
  <2>1. CASE noClose
    BY <1>1, <1>6, <2>1
  <2>2. CASE ~noClose
    <3>1. ~own[EntryOf(D)]
      BY <1>1, <1>2, <2>2
    <3>2. D \in D .. D + NumDesc - 1
      BY Sizes
    <3>3. own[EntryOf(D)] <=> D \in H .. F - 1 \/ D \in F + 1 .. F + m
      BY <2>2, <3>2 DEF Contents, Owned
    <3>. QED BY <1>4, <1>7, <3>1, <3>3
  <2>. QED BY <2>1, <2>2
<1>9. Extent(C, F, m)' /\ Filling(S, C)'
  BY <1>1 DEF Positions, Extent, Ahead, Mapped, Filling
<1>10. Agree(S, Y, H, C)' /\ Ordered(S, Y, E, H, C, F)' /\ Polling(Y, E)'
  BY <1>1, <1>2, <1>4, <1>7, <1>8 DEF Positions, Agree, Ordered, Polling
<1>11. Reported(E, H, T, C)'
  <2>1. E + (left - 1) = D + left
    BY <1>6
  <2>. QED BY <1>1, <1>6, <2>1 DEF Positions, Reported
<1>12. /\ addr'[EntryOf(z)] = None /\ skb'[EntryOf(z)] = None /\ ~own'[EntryOf(z)]
       /\ z \in Int /\ z = D + NumDesc /\ E = D + 1
  <2>1. EntryOf(z) = EntryOf(D) /\ EntryOf(D) \in Entry
    BY EntryRound, EntryType
  <2>2. z \in Int
    BY Sizes
  <2>. QED BY <1>3, <2>1, <2>2, RingDomains
<1>13. \A p \in E .. z - 1 :
         /\ addr'[EntryOf(p)] = addr[EntryOf(p)] /\ skb'[EntryOf(p)] = skb[EntryOf(p)]
         /\ own'[EntryOf(p)] <=> own[EntryOf(p)]
  <2>. SUFFICES ASSUME NEW p \in E .. z - 1
                PROVE  /\ addr'[EntryOf(p)] = addr[EntryOf(p)] /\ skb'[EntryOf(p)] = skb[EntryOf(p)]
                       /\ own'[EntryOf(p)] <=> own[EntryOf(p)]
    OBVIOUS
  <2>1. p \in D .. D + NumDesc - 1 /\ D \in D .. D + NumDesc - 1 /\ p # D
    BY Sizes
  <2>2. EntryOf(p) \in Entry /\ EntryOf(p) # EntryOf(D)
    BY <2>1, OneEntry
  <2>. QED BY <1>3, <2>2, RingDomains
<1>. HIDE DEF E, z
<1>14. Lives(E, F)'
  <2>1. \A p \in E .. F - 1 : p \in D .. F - 1 /\ p \in E .. z - 1 /\ \A q \in p .. F - 1 : q \in E .. z - 1
    BY <1>5, <1>12, Sizes
  <2>. QED BY <1>13, <2>1 DEF Contents, Lives
<1>15. Empties(E, F, m)'
  <2>. SUFFICES ASSUME NEW p \in F .. E + NumDesc - 1
                PROVE  /\ skb'[EntryOf(p)] = None
                       /\ addr'[EntryOf(p)] = IF p \in F + 1 .. F + m THEN tx'.skb ELSE None
    BY DEF Empties
  <2>1. CASE p = z
    <3>1. p \notin F + 1 .. F + m
      BY <1>5, <1>12, <2>1
    <3>. QED BY <1>12, <2>1, <3>1
  <2>2. CASE p # z
    <3>1. p \in F .. D + NumDesc - 1 /\ p \in E .. z - 1
      <4>1. E = D + 1 /\ z = D + NumDesc /\ NumDesc \in Nat /\ D + 1 <= F
        BY <1>4, <1>7, <1>12, Sizes
      <4>. QED BY <2>2, <4>1
    <3>. QED BY <1>1, <1>13, <3>1 DEF Contents, Empties
  <2>. QED BY <2>1, <2>2
<1>16. Owned(E, H, F, m)'
  <2>. SUFFICES ASSUME ~noClose', NEW p \in E .. E + NumDesc - 1
                PROVE  own'[EntryOf(p)] <=> p \in H .. F - 1 \/ p \in F + 1 .. F + m
    BY DEF Owned
  <2>1. CASE p = z
    <3>1. p \notin F + 1 .. F + m /\ p \notin H .. F - 1
      BY <1>5, <1>12, <2>1
    <3>. QED BY <1>12, <2>1, <3>1
  <2>2. CASE p # z
    <3>1. p \in D .. D + NumDesc - 1 /\ p \in E .. z - 1
      <4>1. E = D + 1 /\ z = D + NumDesc /\ NumDesc \in Nat
        BY <1>12, Sizes
      <4>. QED BY <2>2, <4>1
    <3>2. own[EntryOf(p)] <=> p \in H .. F - 1 \/ p \in F + 1 .. F + m
      BY <1>1, <3>1 DEF Contents, Owned
    <3>. QED BY <1>13, <3>1, <3>2
  <2>. QED BY <2>1, <2>2
<1>. QED BY <1>9, <1>10, <1>11, <1>14, <1>15, <1>16 DEF Positions, Contents, E

-----------------------------------------------------------------------------
(* The poll, the chip and the watchdog *)

\* tx_left is what the chip has closed, and never more than was filled.
LEMMA ReadStep ==
  ASSUME TypeOK, NEW S \in Nat, NEW Y \in Nat, NEW D \in Nat, NEW H \in Nat, NEW T \in Nat,
         NEW C \in Nat, NEW F \in Nat, NEW m \in Nat,
         Positions(S, Y, D, H, T, C, F, m), Contents(D, H, F, m),
         on, NapiRead
  PROVE  Positions(S, Y, D, H, T, C, F, m)' /\ Contents(D, H, F, m)'
<1>1. /\ UNCHANGED <<noClose, cur, dirty, seen, own, addr, skb, on, linking, hw, clo, tail, pc, tx>>
      /\ npc = "idle" /\ npc' = "free" /\ d' = dirty
  <2>1. /\ UNCHANGED <<noClose, cur, dirty, seen, ring, stopped, xmit, hw, clo, tail, poll, work>>
        /\ npc = "idle" /\ npc' = "free" /\ d' = dirty
    BY Zenon DEF NapiRead
  <2>. QED BY <2>1 DEF ring, xmit, work
<1>2. S <= Y /\ Y <= D /\ D <= H /\ D <= C /\ C <= F /\ H <= F /\ F <= S + NumDesc
  BY InOrder
<1>3. D = Y /\ left = 0 /\ dirty = Count(D) /\ cur = Count(C) /\ d' = Count(D) /\ npc' = "free"
  BY <1>1 DEF Positions, Polling, Agree
<1>4. Distance(dirty, cur) = C - D
  <2>1. D <= C /\ C - D <= NumDesc
    BY <1>2, <1>3, Sizes
  <2>. QED BY <1>3, <2>1, Measuring
<1>5. noClose => /\ Closed = H - D /\ H <= T /\ T <= C /\ begin = Count(D)
                 /\ clo = H % CloMod /\ tail = T % CloMod
  <2>. SUFFICES ASSUME noClose
                PROVE  /\ Closed = H - D /\ H <= T /\ T <= C /\ begin = Count(D)
                       /\ clo = H % CloMod /\ tail = T % CloMod
    OBVIOUS
  <2>1. H <= T /\ T <= C /\ begin = Count(D + left) /\ clo = H % CloMod /\ tail = T % CloMod
    BY DEF Positions, Reported
  <2>2. D + left = D
    BY <1>3
  <2>3. D <= H /\ H - D <= NumDesc
    BY <1>2, <1>3, Sizes
  <2>4. ((H % CloMod) - Count(D)) % CloMod = H - D
    BY <2>3, Measuring
  <2>. QED BY <2>1, <2>2, <2>4 DEF Closed
<1>. DEFINE n == IF noClose THEN H - D ELSE C - D
<1>6. left' = n
  <2>1. left' = IF noClose /\ Closed < Distance(dirty, cur) THEN Closed ELSE Distance(dirty, cur)
    BY Zenon DEF NapiRead
  <2>. QED BY <1>2, <1>4, <1>5, <2>1
<1>7. n \in Nat /\ (noClose => D + n = H) /\ (~noClose => D + n = C)
  BY <1>2
<1>8. noClose => begin' = Count(D + n)
  <2>1. noClose => begin' = Add(begin, left')
    BY Zenon DEF NapiRead
  <2>. HIDE DEF n
  <2>2. Add(Count(D), n) = Count(D + n)
    BY <1>7, Counting
  <2>. QED BY <1>5, <1>6, <2>1, <2>2
<1>. HIDE DEF n
<1>9. Extent(C, F, m)' /\ Filling(S, C)' /\ Polling(Y, D)' /\ Ordered(S, Y, D, H, C, F)'
  BY <1>1, <1>3 DEF Positions, Extent, Ahead, Mapped, Filling, Polling, Ordered
<1>10. Agree(S, Y, H, C)'
  BY <1>1, <1>3 DEF Positions, Agree
<1>11. Reported(D, H, T, C)'
  BY <1>1, <1>5, <1>6, <1>7, <1>8 DEF Reported
<1>12. Contents(D, H, F, m)'
  BY <1>1, SameContents
<1>. QED BY <1>9, <1>10, <1>11, <1>12 DEF Positions

\* The poll publishes where it is.
LEMMA PublishStep ==
  ASSUME TypeOK, NEW S \in Nat, NEW Y \in Nat, NEW D \in Nat, NEW H \in Nat, NEW T \in Nat,
         NEW C \in Nat, NEW F \in Nat, NEW m \in Nat,
         Positions(S, Y, D, H, T, C, F, m), Contents(D, H, F, m),
         NapiPublish
  PROVE  Positions(S, D, D, H, T, C, F, m)' /\ Contents(D, H, F, m)'
<1>1. /\ UNCHANGED <<noClose, cur, own, addr, skb, d, begin, on, linking, hw, clo, tail, pc, tx>>
      /\ ~Reapable /\ dirty' = d /\ left' = 0 /\ npc = "free" /\ npc' # "free"
      /\ seen' = seen
  <2>1. /\ UNCHANGED <<noClose, cur, seen, ring, stopped, xmit, d, begin, chip, work>>
        /\ ~Reapable /\ dirty' = d /\ left' = 0 /\ npc = "free"
        /\ npc' = IF d # dirty THEN "wake" ELSE "idle"
    BY Zenon DEF NapiPublish
  <2>. QED BY <2>1 DEF ring, xmit, chip, work
<1>2. S <= Y /\ Y <= D /\ D <= H /\ D <= C /\ C <= F /\ H <= F /\ F <= S + NumDesc
  BY InOrder
<1>3. noClose => left = 0
  BY <1>1, Ranges DEF Reapable
<1>4. seen' = Count(S) /\ dirty' = Count(D)
  BY <1>1 DEF Positions, Polling, Agree
<1>5. /\ Extent(C, F, m)' /\ Filling(S, C)' /\ Polling(D, D)'
      /\ Ordered(S, D, D, H, C, F)' /\ Agree(S, D, H, C)'
  <2>1. Extent(C, F, m)' /\ Polling(D, D)'
    BY <1>1, <1>3 DEF Positions, Extent, Ahead, Mapped, Polling
  <2>2. Filling(S, C)'
    BY <1>1, <1>4, Ranges, Sizes DEF Positions, Filling
  <2>3. Ordered(S, D, D, H, C, F)'
    BY <1>2 DEF Ordered
  <2>4. Agree(S, D, H, C)'
    BY <1>1, <1>4 DEF Positions, Agree
  <2>. QED BY <2>1, <2>2, <2>3, <2>4
<1>6. Reported(D, H, T, C)'
  BY <1>1, <1>2, <1>3 DEF Positions, Reported
<1>7. Contents(D, H, F, m)'
  BY <1>1, SameContents
<1>. QED BY <1>4, <1>5, <1>6, <1>7 DEF Positions

\* The transmitter comes to see what was published.
LEMMA SeenStep ==
  ASSUME TypeOK, NEW S \in Nat, NEW Y \in Nat, NEW D \in Nat, NEW H \in Nat, NEW T \in Nat,
         NEW C \in Nat, NEW F \in Nat, NEW m \in Nat,
         Positions(S, Y, D, H, T, C, F, m), Contents(D, H, F, m),
         UNCHANGED <<noClose, cur, dirty, own, addr, skb, d, left, begin, on, linking, hw, clo, tail, pc, tx>>,
         seen' = dirty, npc' = "free" <=> npc = "free"
  PROVE  Positions(Y, Y, D, H, T, C, F, m)' /\ Contents(D, H, F, m)'
<1>1. S <= Y /\ Y <= D /\ D <= H /\ D <= C /\ C <= F /\ H <= F /\ F <= S + NumDesc
  BY InOrder
<1>2. Extent(C, F, m)' /\ Polling(Y, D)' /\ Reported(D, H, T, C)'
  BY DEF Positions, Extent, Ahead, Mapped, Polling, Reported
<1>3. Filling(Y, C)'
  BY <1>1, Ranges, Sizes DEF Positions, Filling
<1>4. F <= Y + NumDesc
  BY <1>1, Sizes
<1>5. Ordered(Y, Y, D, H, C, F)' /\ Agree(Y, Y, H, C)'
  BY <1>1, <1>4 DEF Positions, Ordered, Agree
<1>6. Contents(D, H, F, m)'
  BY SameContents
<1>. QED BY <1>2, <1>3, <1>5, <1>6 DEF Positions

\* The chip does not own the descriptor behind the filled ones, unless all
\* of them are filled.
LEMMA EndIsFree ==
  ASSUME TypeOK, NEW S \in Nat, NEW Y \in Nat, NEW D \in Nat, NEW H \in Nat, NEW T \in Nat,
         NEW C \in Nat, NEW F \in Nat, NEW m \in Nat,
         Positions(S, Y, D, H, T, C, F, m), Contents(D, H, F, m),
         ~noClose, F < H + NumDesc
  PROVE  ~own[EntryOf(F)]
<1>1. S <= Y /\ Y <= D /\ D <= H /\ D <= C /\ C <= F /\ H <= F /\ F <= S + NumDesc
  BY InOrder
<1>2. F <= D + NumDesc /\ (m > 0 => F + m < D + NumDesc)
  BY Room
<1>3. CASE F < D + NumDesc
  <2>1. F \in D .. D + NumDesc - 1
    BY <1>1, <1>3, Sizes
  <2>2. F \notin H .. F - 1 /\ F \notin F + 1 .. F + m
    OBVIOUS
  <2>. QED BY <2>1, <2>2 DEF Contents, Owned
<1>4. CASE F = D + NumDesc
  <2>1. EntryOf(F) = EntryOf(D) /\ D \in D .. D + NumDesc - 1
    BY <1>4, EntryRound, Sizes
  <2>2. D \notin H .. F - 1 /\ D \notin F + 1 .. F + m
    BY <1>1, <1>4, Sizes
  <2>. QED BY <2>1, <2>2 DEF Contents, Owned
<1>. QED BY <1>1, <1>2, <1>3, <1>4, Sizes

LEMMA SendStep ==
  ASSUME TypeOK, NEW S \in Nat, NEW Y \in Nat, NEW D \in Nat, NEW H \in Nat, NEW T \in Nat,
         NEW C \in Nat, NEW F \in Nat, NEW m \in Nat,
         Positions(S, Y, D, H, T, C, F, m), Contents(D, H, F, m),
         HwSend
  PROVE  Positions(S, Y, D, H + 1, T, C, F, m)' /\ Contents(D, H + 1, F, m)'
<1>. DEFINE G == H + 1
<1>1. /\ UNCHANGED <<noClose, cur, dirty, seen, addr, skb, d, left, begin, on, linking, npc, tail, pc, tx>>
      /\ hw' = After(hw, 1)
      /\ noClose => clo # tail /\ clo' = (clo + 1) % CloMod
      /\ ~noClose => own[hw] /\ own' = [own EXCEPT ![hw] = FALSE] /\ UNCHANGED clo
  <2>1. UNCHANGED <<noClose, cur, dirty, seen, addr, skb, stopped, xmit, napi, tail, poll, work>>
    BY Zenon DEF HwSend
  <2>2. /\ hw' = After(hw, 1)
        /\ noClose => clo # tail /\ clo' = (clo + 1) % CloMod
        /\ ~noClose => own[hw] /\ own' = [own EXCEPT ![hw] = FALSE] /\ UNCHANGED clo
    BY DEF HwSend, HwMaySend
  <2>. QED BY <2>1, <2>2 DEF xmit, napi, work
<1>2. S <= Y /\ Y <= D /\ D <= H /\ D <= C /\ C <= F /\ H <= F /\ F <= S + NumDesc
  BY InOrder
<1>3. hw = EntryOf(H) /\ hw' = EntryOf(G)
  <2>1. After(EntryOf(H), 1) = EntryOf(H + 1)
    BY EntryAfter
  <2>. QED BY <1>1, <2>1 DEF Positions, Agree
<1>4. noClose => /\ G <= T /\ clo' = G % CloMod
                 /\ tail = T % CloMod /\ T <= C /\ D + left <= G
                 /\ (on \/ linking => begin = Count(D + left))
  <2>. SUFFICES ASSUME noClose
                PROVE  /\ G <= T /\ clo' = G % CloMod
                       /\ tail = T % CloMod /\ T <= C /\ D + left <= G
                       /\ (on \/ linking => begin = Count(D + left))
    OBVIOUS
  <2>1. /\ clo = H % CloMod /\ tail = T % CloMod /\ H <= T /\ T <= C
        /\ D + left <= H /\ (on \/ linking => begin = Count(D + left))
    BY DEF Positions, Reported
  <2>2. H # T
    BY <1>1, <2>1
  <2>3. clo' = G % CloMod
    <3>1. CloMod \in Nat \ {0}
      BY Sizes
    <3>. DEFINE j == 1
    <3>2. j \in Int /\ H \in Int
      OBVIOUS
    <3>. HIDE DEF j
    <3>3. ((H % CloMod) + j) % CloMod = (H + j) % CloMod
      BY <3>1, <3>2, SameNested
    <3>. QED BY <1>1, <2>1, <3>3 DEF j
  <2>. QED BY <2>1, <2>2, <2>3, Ranges
<1>5. G <= F
  <2>1. CASE noClose
    BY <1>2, <1>4, <2>1
  <2>2. CASE ~noClose
    <3>1. ASSUME H = F PROVE FALSE
      <4>1. F < H + NumDesc
        BY <3>1, Sizes
      <4>2. ~own[EntryOf(F)]
        BY <2>2, <4>1, EndIsFree
      <4>. QED BY <1>1, <1>3, <2>2, <3>1, <4>2
    <3>. QED BY <1>2, <3>1
  <2>. QED BY <2>1, <2>2
<1>6. Extent(C, F, m)' /\ Filling(S, C)' /\ Polling(Y, D)'
  BY <1>1 DEF Positions, Extent, Ahead, Mapped, Filling, Polling
<1>7. Ordered(S, Y, D, G, C, F)' /\ Agree(S, Y, G, C)'
  BY <1>1, <1>2, <1>3, <1>5 DEF Positions, Ordered, Agree
<1>8. Reported(D, G, T, C)'
  <2>1. ~noClose => D + left <= C
    BY DEF Positions, Reported
  <2>. HIDE DEF G
  <2>. QED BY <1>1, <1>4, <2>1 DEF Reported
<1>9. Lives(D, F)' /\ Empties(D, F, m)'
  BY <1>1 DEF Contents, Lives, Empties
<1>10. Owned(D, G, F, m)'
  <2>. SUFFICES ASSUME ~noClose', NEW p \in D .. D + NumDesc - 1
                PROVE  own'[EntryOf(p)] <=> p \in G .. F - 1 \/ p \in F + 1 .. F + m
    BY DEF Owned
  <2>1. H \in D .. D + NumDesc - 1
    BY <1>2, <1>5, Sizes
  <2>2. EntryOf(p) \in Entry /\ (EntryOf(p) = EntryOf(H) <=> p = H)
    BY <2>1, OneEntry
  <2>3. own'[EntryOf(p)] <=> own[EntryOf(p)] /\ p # H
    BY <1>1, <1>3, <2>2, RingDomains
  <2>4. own[EntryOf(p)] <=> p \in H .. F - 1 \/ p \in F + 1 .. F + m
    BY <1>1 DEF Contents, Owned
  <2>5. p \in G .. F - 1 \/ p \in F + 1 .. F + m <=> (p \in H .. F - 1 \/ p \in F + 1 .. F + m) /\ p # H
    BY <1>5
  <2>. QED BY <2>3, <2>4, <2>5
<1>. QED BY <1>6, <1>7, <1>8, <1>9, <1>10 DEF Positions, Contents

\* What takes the rings down leaves them empty, wherever the pointers were.
LEMMA TakeDownStep ==
  ASSUME TypeOK, NEW S \in Nat, NEW Y \in Nat, NEW D \in Nat, NEW H \in Nat, NEW T \in Nat,
         NEW C \in Nat, NEW F \in Nat, NEW m \in Nat,
         Positions(S, Y, D, H, T, C, F, m), Contents(D, H, F, m),
         Fits, npc = "idle", TakeDown, linking' => begin' = 0
  PROVE  Positions(0, 0, 0, 0, 0, 0, 0, 0)' /\ Contents(0, 0, 0, 0)'
<1>1. /\ pc = "idle" /\ npc = "idle" /\ UNCHANGED <<noClose, pc, tx, npc, left>>
      /\ cur' = 0 /\ dirty' = 0 /\ seen' = 0 /\ ~on'
      /\ hw' = 0 /\ clo' = 0 /\ tail' = 0
      /\ TxClearRange(dirty, NumDesc)
  BY Zenon DEF TakeDown, ChipReset
<1>2. D = Y /\ left = 0 /\ dirty = Count(D) /\ m = 0 /\ F = C
  BY <1>1 DEF Positions, Polling, Agree, Extent, Mapped, Ahead
<1>3. Cleared(D, D, NumDesc)
  <2>1. TxClearRange(Count(D), NumDesc)
    BY <1>1, <1>2
  <2>2. NumDesc \in Nat /\ D + NumDesc <= D + NumDesc
    BY Sizes
  <2>. QED BY <2>1, <2>2, ClearRange
<1>4. D <= F /\ F <= D + NumDesc /\ H <= F
  <2>1. D <= C /\ C <= F /\ H <= F
    BY InOrder
  <2>2. F <= D + NumDesc
    BY Room
  <2>. QED BY <2>1, <2>2
<1>5. \A e \in Entry : addr'[e] = None /\ skb'[e] = None /\ (~noClose => ~own'[e])
  <2>. SUFFICES ASSUME NEW e \in Entry
                PROVE  addr'[e] = None /\ skb'[e] = None /\ (~noClose => ~own'[e])
    OBVIOUS
  <2>1. PICK p \in D .. D + NumDesc - 1 : EntryOf(p) = e
    BY EntryCovers
  <2>2. /\ addr'[e] = IF Hit(p, D, NumDesc) THEN None ELSE addr[e]
        /\ skb'[e] = IF Hit(p, D, NumDesc) THEN None ELSE skb[e]
        /\ own'[e] <=> own[e] /\ ~Hit(p, D, NumDesc)
    BY <1>3, <2>1 DEF Cleared
  <2>3. Hit(p, D, NumDesc) <=> addr[e] # None
    BY <2>1 DEF Hit
  <2>4. CASE p < F
    <3>1. p \in D .. F - 1
      BY <2>4
    <3>2. addr[e] # None
      BY <2>1, <3>1 DEF Contents, Lives
    <3>. QED BY <2>2, <2>3, <3>2
  <2>5. CASE p >= F
    <3>1. p \in F .. D + NumDesc - 1
      BY <2>5
    <3>2. skb[e] = None
      BY <2>1, <3>1 DEF Contents, Empties
    <3>3. ~noClose => ~own[e]
      <4>1. p \notin H .. F - 1 /\ p \notin F + 1 .. F + m
        BY <1>2, <2>5
      <4>. QED BY <2>1, <4>1 DEF Contents, Owned
    <3>. QED BY <2>2, <2>3, <3>2, <3>3
  <2>. QED BY <2>4, <2>5
<1>6. Count(0) = 0 /\ EntryOf(0) = 0 /\ 0 % CloMod = 0 /\ 0 + 0 = 0
  BY SmallRemainder, Sizes DEF Count, EntryOf
<1>7. Extent(0, 0, 0)' /\ Filling(0, 0)' /\ Polling(0, 0)'
  BY <1>1, <1>2 DEF Extent, Ahead, Mapped, Filling, Polling
<1>8. Ordered(0, 0, 0, 0, 0, 0)' /\ Agree(0, 0, 0, 0)'
  BY <1>1, <1>6, Sizes DEF Ordered, Agree
<1>9. Reported(0, 0, 0, 0)'
  <2>1. linking' => begin' = Count(0)
    BY <1>6
  <2>. QED BY <1>1, <1>2, <1>6, <2>1 DEF Reported
<1>10. Lives(0, 0)'
  BY DEF Lives
<1>11. \A p \in 0 .. 0 + NumDesc - 1 : EntryOf(p) \in Entry
  BY EntryType, Sizes
<1>12. Empties(0, 0, 0)'
  BY <1>5, <1>11 DEF Empties
<1>13. Owned(0, 0, 0, 0)'
  <2>1. \A p \in 0 .. 0 + NumDesc - 1 : p \notin 0 .. 0 - 1 /\ p \notin 0 + 1 .. 0 + 0
    BY Sizes
  <2>. QED BY <1>1, <1>5, <1>11, <2>1 DEF Owned
<1>. QED BY <1>7, <1>8, <1>9, <1>10, <1>12, <1>13 DEF Positions, Contents

-----------------------------------------------------------------------------
(* The invariant, and what it gives *)

LEMMA PlacedNext ==
  ASSUME Fits, ~Bounce, ~Drop, TypeOK, Dark, NEW S \in Nat, NEW Y \in Nat, NEW D \in Nat, NEW H \in Nat, NEW T \in Nat,
         NEW C \in Nat, NEW F \in Nat, NEW m \in Nat,
         Positions(S, Y, D, H, T, C, F, m), Contents(D, H, F, m),
         [Next]_vars
  PROVE  Placed'
<1>1. CASE \E s \in Skbs : Enqueue(s)
  <2>1. /\ UNCHANGED <<noClose, cur, dirty, seen, own, addr, skb, d, left, begin, on, linking, hw, clo, tail, pc, tx>>
        /\ UNCHANGED npc
    <3>1. UNCHANGED <<noClose, cur, dirty, seen, ring, stopped, pc, tx, napi, chip, work>>
      BY <1>1 DEF Enqueue
    <3>. QED BY <3>1 DEF ring, napi, chip, work
  <2>2. Positions(S, Y, D, H, T, C, F, m)' /\ Contents(D, H, F, m)'
    BY <2>1, StillStep
  <2>. QED BY <2>2 DEF Placed
<1>2. CASE QdiscEnd \/ XmitBusy \/ XmitStop \/ XmitRecheck \/ XmitStart
  <2>1. /\ UNCHANGED <<noClose, cur, dirty, seen, own, addr, skb, d, left, begin, on, linking, hw, clo, tail, npc>>
        /\ pc \notin {"frags", "advance"} /\ pc' \notin {"frags", "advance"}
    <3>1. UNCHANGED <<noClose, cur, dirty, seen, ring, napi, chip, work>>
      BY <1>2 DEF QdiscEnd, XmitBusy, XmitStop, XmitRecheck, XmitStart
    <3>2. pc \notin {"frags", "advance"} /\ pc' \notin {"frags", "advance"}
      BY <1>2 DEF QdiscEnd, XmitBusy, XmitStop, XmitRecheck, XmitStart, Return
    <3>. QED BY <3>1, <3>2 DEF ring, napi, chip, work
  <2>2. Positions(S, Y, D, H, T, C, F, m)' /\ Contents(D, H, F, m)'
    BY <2>1, StillStep
  <2>. QED BY <2>2 DEF Placed
<1>3. CASE XmitBegin
  <2>1. Positions(S, Y, D, H, T, C, F, m)' /\ Contents(D, H, F, m)'
    BY <1>3, BeginStep DEF Fits
  <2>. QED BY <2>1 DEF Placed
<1>4. CASE XmitFrag
  <2>1. Positions(S, Y, D, H, T, C, F, m + 1)' /\ Contents(D, H, F, m + 1)'
    BY <1>4, FragStep
  <2>2. m + 1 \in Nat
    OBVIOUS
  <2>. QED BY <2>1, <2>2 DEF Placed
<1>5. CASE XmitDrop
  <2>1. Positions(S, Y, D, H, T, C, F, 0)' /\ Contents(D, H, F, 0)'
    BY <1>5, DropStep
  <2>2. 0 \in Nat
    OBVIOUS
  <2>. QED BY <2>1, <2>2 DEF Placed
<1>6. CASE XmitFirst
  <2>1. Positions(S, Y, D, H, T, C, F + m + 1, 0)' /\ Contents(D, H, F + m + 1, 0)'
    BY <1>6, FirstStep
  <2>2. F + m + 1 \in Nat /\ 0 \in Nat
    OBVIOUS
  <2>. QED BY <2>1, <2>2 DEF Placed
<1>7. CASE XmitAdvance
  <2>1. Positions(S, Y, D, H, T, F, F, m)' /\ Contents(D, H, F, m)'
    BY <1>7, AdvanceStep
  <2>. QED BY <2>1 DEF Placed
<1>8. CASE XmitKick
  <2>1. PICK t \in Nat : Positions(S, Y, D, H, t, C, F, m)' /\ Contents(D, H, F, m)'
    BY <1>8, KickStep
  <2>. QED BY <2>1 DEF Placed
<1>9. CASE NapiRead
  <2>1. on
    BY <1>9, Zenon DEF NapiRead, Dark
  <2>2. Positions(S, Y, D, H, T, C, F, m)' /\ Contents(D, H, F, m)'
    BY <1>9, <2>1, ReadStep
  <2>. QED BY <2>2 DEF Placed
<1>10. CASE NapiFree
  <2>1. Positions(S, Y, D + 1, H, T, C, F, m)' /\ Contents(D + 1, H, F, m)'
    BY <1>10, FreeStep
  <2>2. D + 1 \in Nat
    OBVIOUS
  <2>. QED BY <2>1, <2>2 DEF Placed
<1>11. CASE NapiPublish
  <2>1. Positions(S, D, D, H, T, C, F, m)' /\ Contents(D, H, F, m)'
    BY <1>11, PublishStep
  <2>. QED BY <2>1 DEF Placed
<1>12. CASE NapiWake \/ NapiPoll
  <2>1. /\ UNCHANGED <<noClose, cur, dirty, seen, own, addr, skb, d, left, begin, on, linking, hw, clo, tail, pc, tx>>
        /\ npc # "free" /\ npc' # "free"
    <3>1. UNCHANGED <<noClose, cur, dirty, seen, ring, xmit, d, left, begin, on, linking, hw, clo, tail>>
      BY <1>12 DEF NapiWake, NapiPoll, chip, work
    <3>2. npc # "free" /\ npc' # "free"
      BY <1>12 DEF NapiWake, NapiPoll
    <3>. QED BY <3>1, <3>2 DEF ring, xmit, work
  <2>2. Positions(S, Y, D, H, T, C, F, m)' /\ Contents(D, H, F, m)'
    BY <2>1, StillStep
  <2>. QED BY <2>2 DEF Placed
<1>13. CASE NapiStart \/ DirtyVisible
  <2>1. /\ UNCHANGED <<noClose, cur, dirty, own, addr, skb, d, left, begin, on, linking, hw, clo, tail, pc, tx>>
        /\ seen' = dirty /\ (npc' = "free" <=> npc = "free")
    <3>1. UNCHANGED <<noClose, cur, dirty, ring, xmit, d, left, begin, chip, work>> /\ seen' = dirty
      BY <1>13 DEF NapiStart, DirtyVisible, napi
    <3>2. npc' = "free" <=> npc = "free"
      BY <1>13 DEF NapiStart, DirtyVisible, napi
    <3>. QED BY <3>1, <3>2 DEF ring, xmit, chip, work
  <2>2. Positions(Y, Y, D, H, T, C, F, m)' /\ Contents(D, H, F, m)'
    BY <2>1, SeenStep
  <2>. QED BY <2>2 DEF Placed
<1>14. CASE HwSend
  <2>1. Positions(S, Y, D, H + 1, T, C, F, m)' /\ Contents(D, H + 1, F, m)'
    BY <1>14, SendStep
  <2>2. H + 1 \in Nat
    OBVIOUS
  <2>. QED BY <2>1, <2>2 DEF Placed
<1>15. CASE HwIdle \/ TxTimeout \/ UNCHANGED vars
  <2>1. /\ UNCHANGED <<noClose, cur, dirty, seen, own, addr, skb, d, left, begin, on, linking, hw, clo, tail, pc, tx>>
        /\ UNCHANGED npc
    <3>1. UNCHANGED <<noClose, cur, dirty, seen, ring, xmit, napi, hw, clo, tail, on, linking>>
      BY <1>15 DEF HwIdle, TxTimeout, vars, chip, work
    <3>. QED BY <3>1 DEF ring, xmit, napi, work
  <2>2. Positions(S, Y, D, H, T, C, F, m)' /\ Contents(D, H, F, m)'
    BY <2>1, StillStep
  <2>. QED BY <2>2 DEF Placed
<1>16. CASE Reinit \/ Shortage \/ LinkDown
  <2>1. npc = "idle" /\ TakeDown /\ (linking' => begin' = 0)
    BY <1>16 DEF Reinit, Shortage, LinkDown
  <2>2. Positions(0, 0, 0, 0, 0, 0, 0, 0)' /\ Contents(0, 0, 0, 0)'
    BY <2>1, TakeDownStep
  <2>3. 0 \in Nat
    OBVIOUS
  <2>. QED BY <2>2, <2>3 DEF Placed
<1>17. CASE LinkOn
  <2>1. linking /\ ~on /\ hw = 0 /\ clo = 0 /\ tail = 0
    BY <1>17 DEF LinkOn, Dark
  <2>2. /\ UNCHANGED <<noClose, cur, dirty, seen, own, addr, skb, d, left, begin, hw, clo, tail, pc, tx>>
        /\ UNCHANGED npc
    BY <1>17, <2>1 DEF LinkOn, ChipReset, ring, napi
  <2>3. Positions(S, Y, D, H, T, C, F, m)' /\ Contents(D, H, F, m)'
    BY <2>1, <2>2, StillStep
  <2>. QED BY <2>3 DEF Placed
<1>. QED
  BY <1>1, <1>2, <1>3, <1>4, <1>5, <1>6, <1>7, <1>8, <1>9, <1>10, <1>11, <1>12, <1>13, <1>14,
     <1>15, <1>16, <1>17
  DEF Next, Transmit, Napi, Chip, ResetTask

\* The chip goes off with the queue stopped, and on with the link.
LEMMA DarkNext == ASSUME ~Drop PROVE Dark /\ [Next]_vars => Dark'
<1>. SUFFICES ASSUME Dark, [Next]_vars PROVE Dark'
  OBVIOUS
<1>1. CASE Reinit \/ Shortage \/ LinkDown
  <2>1. npc = "idle" /\ TakeDown
    BY <1>1 DEF Reinit, Shortage, LinkDown
  <2>. QED BY <2>1 DEF TakeDown, ChipReset, Dark
<1>2. CASE LinkOn
  BY <1>2 DEF LinkOn, Dark
<1>3. CASE /\ UNCHANGED <<hw, clo, tail, irq, stopped, pc, npc, on, linking>>
  BY <1>3 DEF Dark
<1>4. CASE on /\ UNCHANGED <<on, linking>>
  BY <1>4 DEF Dark
<1>5. CASE (\E s \in Skbs : Enqueue(s)) \/ DirtyVisible \/ HwIdle \/ TxTimeout \/ UNCHANGED vars
  <2>1. UNCHANGED <<hw, clo, tail, irq, stopped, pc, npc, on, linking>>
    BY <1>5 DEF Enqueue, DirtyVisible, HwIdle, TxTimeout, vars, chip, xmit, napi, work
  <2>. QED BY <1>3, <2>1
<1>6. CASE QdiscEnd
  <2>1. UNCHANGED <<hw, clo, tail, irq, stopped, npc, on, linking>> /\ pc' = "idle"
    BY <1>6 DEF QdiscEnd, chip, napi, work
  <2>. QED BY <2>1 DEF Dark
<1>7. CASE \/ XmitBegin \/ XmitBusy \/ XmitFrag \/ XmitDrop \/ XmitFirst \/ XmitAdvance
           \/ XmitStop \/ XmitKick \/ XmitRecheck \/ XmitStart
  <2>1. ~stopped \/ pc # "idle"
    BY <1>7, Zenon DEF XmitBegin, XmitBusy, XmitFrag, XmitDrop, XmitFirst, XmitAdvance, XmitStop,
         XmitKick, XmitRecheck, XmitStart
  <2>2. UNCHANGED work
    BY <1>7, Zenon DEF XmitBegin, XmitBusy, XmitFrag, XmitDrop, XmitFirst, XmitAdvance, XmitStop,
         XmitKick, XmitRecheck, XmitStart
  <2>3. on
    BY <2>1 DEF Dark
  <2>. QED BY <1>4, <2>2, <2>3 DEF work
<1>8. CASE Napi \/ HwSend
  <2>1. irq \/ npc # "idle" \/ on
    BY <1>8, Zenon DEF Napi, NapiRead, NapiFree, NapiPublish, NapiWake, NapiStart, NapiPoll, HwSend,
         HwMaySend
  <2>2. UNCHANGED work
    BY <1>8, Zenon DEF Napi, NapiRead, NapiFree, NapiPublish, NapiWake, NapiStart, NapiPoll, HwSend
  <2>3. on
    BY <2>1 DEF Dark
  <2>. QED BY <1>4, <2>2, <2>3 DEF work
<1>. QED BY <1>1, <1>2, <1>5, <1>6, <1>7, <1>8 DEF Next, Transmit, Chip, ResetTask

LEMMA TxInvInit == Init => TxInv
<1>. SUFFICES ASSUME Init PROVE TxInv
  OBVIOUS
<1>1. 0 \in Nat /\ Dark
  BY DEF Init, Dark
<1>. QED BY <1>1, TypeInit, PositionsInit, Zenon DEF TxInv, Placed

LEMMA TxInvNext == ASSUME Fits, ~Bounce, ~Drop PROVE TxInv /\ [Next]_vars => TxInv'
<1>. SUFFICES ASSUME TxInv, [Next]_vars PROVE TxInv'
  OBVIOUS
<1>1. TypeOK /\ TypeOK' /\ Dark /\ Dark'
  BY TypeNext, DarkNext DEF TxInv
<1>2. PICK S \in Nat, Y \in Nat, D \in Nat, H \in Nat, T \in Nat, C \in Nat, F \in Nat, m \in Nat :
        Positions(S, Y, D, H, T, C, F, m) /\ Contents(D, H, F, m)
  BY DEF TxInv, Placed
<1>3. Placed'
  BY <1>1, <1>2, PlacedNext
<1>. QED BY <1>1, <1>3 DEF TxInv

\* The descriptors the chip may read are between it and the end of what is
\* filled.
AmongFilled(e, D, F) == \E p \in D .. F - 1 : e = EntryOf(p)

LEMMA ReadsFilled ==
  ASSUME TypeOK, NEW S \in Nat, NEW Y \in Nat, NEW D \in Nat, NEW H \in Nat, NEW T \in Nat,
         NEW C \in Nat, NEW F \in Nat, NEW m \in Nat,
         Positions(S, Y, D, H, T, C, F, m), Contents(D, H, F, m),
         NEW e \in Entry, ChipMayRead(e)
  PROVE  AmongFilled(e, D, F)
<1>. SUFFICES \E p \in D .. F - 1 : e = EntryOf(p)
  BY DEF AmongFilled
<1>1. S <= Y /\ Y <= D /\ D <= H /\ D <= C /\ C <= F /\ H <= F /\ F <= S + NumDesc
  BY InOrder
<1>2. hw = EntryOf(H)
  BY DEF Positions, Agree
<1>3. CASE noClose
  <2>1. PICK i \in 0 .. NumDesc - 1 : i < (tail - clo) % CloMod /\ e = After(hw, i)
    BY <1>3, Zenon DEF ChipMayRead
  <2>2. clo = H % CloMod /\ tail = T % CloMod /\ H <= T /\ T <= C
    BY <1>3 DEF Positions, Reported
  <2>3. H <= T /\ T - H <= NumDesc
    BY <1>1, <2>2, Sizes
  <2>4. ((T % CloMod) - (H % CloMod)) % CloMod = T - H
    BY <2>3, Measuring
  <2>5. i < T - H
    BY <2>1, <2>2, <2>4
  <2>6. e = EntryOf(H + i)
    BY <1>2, <2>1, EntryAfter, Sizes
  <2>7. H + i \in D .. F - 1
    BY <1>1, <2>2, <2>5, Sizes
  <2>. QED BY <2>6, <2>7
<1>4. CASE ~noClose
  <2>1. PICK n \in 0 .. NumDesc - 1 : e = After(hw, n) /\ \A i \in 0 .. n : own[After(hw, i)]
    BY <1>4, Zenon DEF ChipMayRead
  <2>2. n \in Nat /\ n < NumDesc
    BY Sizes
  <2>3. \A i \in 0 .. n : own[EntryOf(H + i)]
    <3>. SUFFICES ASSUME NEW i \in 0 .. n PROVE own[EntryOf(H + i)]
      OBVIOUS
    <3>1. After(EntryOf(H), i) = EntryOf(H + i)
      BY <2>2, EntryAfter
    <3>. QED BY <1>2, <2>1, <3>1
  <2>4. H + n < F
    <3>1. ASSUME F <= H + n PROVE FALSE
      <4>. DEFINE i == F - H
      <4>1. i \in 0 .. n /\ H + i = F /\ F < H + NumDesc
        BY <1>1, <2>2, <3>1, Sizes
      <4>. HIDE DEF i
      <4>2. own[EntryOf(F)]
        BY <2>3, <4>1
      <4>3. ~own[EntryOf(F)]
        BY <1>4, <4>1, EndIsFree
      <4>. QED BY <4>2, <4>3
    <3>. QED BY <2>2, <3>1
  <2>5. e = EntryOf(H + n)
    BY <1>2, <2>1, <2>2, EntryAfter
  <2>6. H + n \in D .. F - 1
    BY <1>1, <2>2, <2>4
  <2>. QED BY <2>5, <2>6
<1>. QED BY <1>3, <1>4

LEMMA TxInvReads == TxInv => ChipReadsLive
<1>. SUFFICES ASSUME TxInv, NEW e \in Entry, ChipMayRead(e)
              PROVE  addr[e] # None /\ Held(addr[e])
  BY DEF ChipReadsLive
<1>1. TypeOK
  BY DEF TxInv
<1>2. PICK S \in Nat, Y \in Nat, D \in Nat, H \in Nat, T \in Nat, C \in Nat, F \in Nat, m \in Nat :
        Positions(S, Y, D, H, T, C, F, m) /\ Contents(D, H, F, m)
  BY DEF TxInv, Placed
<1>3. AmongFilled(e, D, F)
  BY <1>1, <1>2, ReadsFilled
<1>4. PICK p \in D .. F - 1 : e = EntryOf(p)
  BY <1>3 DEF AmongFilled
<1>5. addr[e] # None /\ \E q \in p .. F - 1 : skb[EntryOf(q)] = addr[e]
  BY <1>2, <1>4 DEF Contents, Lives
<1>6. PICK q \in p .. F - 1 : skb[EntryOf(q)] = addr[e]
  BY <1>5
<1>7. EntryOf(q) \in Entry
  BY EntryType
<1>. QED BY <1>5, <1>6, <1>7 DEF Held, InRing

\* What a step may do to the descriptors.
Gentle ==
  \A e \in Entry :
    /\ addr'[e] # addr[e] => addr[e] = None \/ addr'[e] = None
    /\ skb'[e] # skb[e] => skb[e] = None \/ skb'[e] = None

LEMMA TxInvGentle == ASSUME Fits PROVE TxInv /\ [Next]_vars => Gentle
<1>. SUFFICES ASSUME TxInv, [Next]_vars PROVE Gentle
  OBVIOUS
<1>1. TypeOK
  BY DEF TxInv
<1>2. PICK S \in Nat, Y \in Nat, D \in Nat, H \in Nat, T \in Nat, C \in Nat, F \in Nat, m \in Nat :
        Positions(S, Y, D, H, T, C, F, m) /\ Contents(D, H, F, m)
  BY DEF TxInv, Placed
<1>3. cur = Count(C)
  BY <1>2 DEF Positions, Agree
<1>4. CASE UNCHANGED <<addr, skb>>
  BY <1>4 DEF Gentle
<1>5. ASSUME NEW start, NEW n, TxClearRange(start, n) PROVE Gentle
  BY <1>5 DEF TxClearRange, Unmap, Gentle
<1>6. CASE XmitFrag
  <2>1. /\ pc = "frags" /\ tx.done < tx.frags /\ UNCHANGED skb
        /\ addr' = [addr EXCEPT ![After(EntryOf(Add(cur, 1)), tx.done)] = tx.skb]
    BY <1>6 DEF XmitFrag
  <2>2. FragsFit(D, C, F, m)
    BY <1>1, <1>2, <2>1, FragRoom
  <2>. DEFINE w == F + m + 1
  <2>3. w \in F .. D + NumDesc - 1 /\ w \notin F + 1 .. F + m /\ w = C + 1 + m /\ m = tx.done
    BY <1>1, <2>1, <2>2, Ranges, Sizes DEF FragsFit
  <2>4. addr[EntryOf(w)] = None
    <3>. HIDE DEF w
    <3>. QED BY <1>2, <2>3 DEF Contents, Empties
  <2>5. After(EntryOf(Add(cur, 1)), tx.done) = EntryOf(w)
    <3>1. After(EntryOf(Add(Count(C), 1)), m) = EntryOf(C + 1 + m)
      BY FragEntry
    <3>. HIDE DEF w
    <3>. QED BY <1>3, <2>3, <3>1
  <2>. HIDE DEF w
  <2>. QED BY <1>1, <2>1, <2>4, <2>5, RingDomains DEF Gentle
<1>7. CASE XmitFirst
  <2>1. /\ pc = "frags" /\ tx.done = tx.frags
        /\ addr' = [addr EXCEPT ![EntryOf(cur)] = tx.skb]
        /\ skb' = [skb EXCEPT ![After(EntryOf(cur), tx.frags)] = tx.skb]
    BY <1>7 DEF XmitFirst
  <2>2. FragsFit(D, C, F, m)
    BY <1>1, <1>2, <2>1, FragRoom
  <2>. DEFINE w == F + m
  <2>3. /\ F \in F .. D + NumDesc - 1 /\ w \in F .. D + NumDesc - 1 /\ F \notin F + 1 .. F + m
        /\ F = C /\ w = C + m /\ m = tx.frags
    BY <1>1, <2>1, <2>2, Ranges, Sizes DEF FragsFit
  <2>4. addr[EntryOf(F)] = None /\ skb[EntryOf(w)] = None
    <3>. HIDE DEF w
    <3>. QED BY <1>2, <2>3 DEF Contents, Empties
  <2>5. EntryOf(cur) = EntryOf(F) /\ After(EntryOf(cur), tx.frags) = EntryOf(w)
    <3>1. After(EntryOf(Count(C)), m) = EntryOf(C + m) /\ EntryOf(Count(C)) = EntryOf(C)
      BY FragEntry
    <3>. HIDE DEF w
    <3>. QED BY <1>3, <2>3, <3>1
  <2>. HIDE DEF w
  <2>. QED BY <1>1, <2>1, <2>4, <2>5, RingDomains DEF Gentle
<1>8. CASE NapiFree
  <2>1. /\ addr' = [e \in Entry |-> IF e \in {EntryOf(d)} THEN None ELSE addr[e]]
        /\ skb' = [skb EXCEPT ![EntryOf(d)] = None]
    BY <1>8 DEF NapiFree, Unmap
  <2>. QED BY <1>1, <2>1, RingDomains DEF Gentle
<1>9. CASE XmitDrop \/ Reinit \/ Shortage \/ LinkDown
  BY <1>5, <1>9, Zenon DEF XmitDrop, Reinit, Shortage, LinkDown, TakeDown
<1>10. CASE \E s \in Skbs : Enqueue(s)
  <2>1. UNCHANGED ring
    BY <1>10 DEF Enqueue
  <2>. QED BY <1>4, <2>1 DEF ring
<1>11. CASE \/ QdiscEnd \/ XmitBegin \/ XmitBusy \/ XmitStop \/ XmitRecheck \/ XmitStart
            \/ XmitAdvance \/ XmitKick
  <2>1. UNCHANGED ring
    BY <1>11, Zenon DEF QdiscEnd, XmitBegin, XmitBusy, XmitStop, XmitRecheck, XmitStart, XmitAdvance, XmitKick
  <2>. QED BY <1>4, <2>1 DEF ring
<1>12. CASE NapiRead \/ NapiPublish \/ NapiWake \/ NapiStart \/ NapiPoll \/ DirtyVisible
  <2>1. UNCHANGED ring
    BY <1>12, Zenon DEF NapiRead, NapiPublish, NapiWake, NapiStart, NapiPoll, DirtyVisible
  <2>. QED BY <1>4, <2>1 DEF ring
<1>13. CASE HwSend
  BY <1>4, <1>13 DEF HwSend
<1>14. CASE HwIdle \/ TxTimeout \/ LinkOn \/ UNCHANGED vars
  <2>1. UNCHANGED ring
    BY <1>14 DEF HwIdle, TxTimeout, LinkOn, vars
  <2>. QED BY <1>4, <2>1 DEF ring
<1>. QED
  BY <1>6, <1>7, <1>8, <1>9, <1>10, <1>11, <1>12, <1>13, <1>14
  DEF Next, Transmit, Napi, Chip, ResetTask

(***************************************************************************)
(* Every buffer the chip may still read belongs to a packet that start_xmit *)
(* or the ring holds: whatever the interleaving of transmitter, poll, chip, *)
(* resets and the link, the descriptors from the chip on are filled and    *)
(* not yet emptied.  Work that finds the link up a second time restarts    *)
(* the chip on a ring in use, and one that finds it down does not wait for *)
(* the poll; both are left out.                                            *)
(***************************************************************************)
THEOREM ReadsLive == Fits /\ ~Bounce /\ ~Drop => (Spec => []ChipReadsLive)
<1>. SUFFICES ASSUME Fits, ~Bounce, ~Drop PROVE Spec => []ChipReadsLive
  OBVIOUS
<1>1. TxInv /\ [Next]_vars => TxInv'
  BY TxInvNext
<1>. QED BY TxInvInit, <1>1, TxInvReads, PTL DEF Spec

(***************************************************************************)
(* start_xmit fills only what the poll, the error path or a reset has      *)
(* emptied: with MAX_SKB_FRAGS + 1 descriptors free by what it saw of      *)
(* dirty_tx, a packet stays ahead of the poll by less than a round.        *)
(***************************************************************************)
THEOREM FillsEmpty == Fits /\ ~Bounce /\ ~Drop => (Spec => NeverOverwrites)
<1>. SUFFICES ASSUME Fits, ~Bounce, ~Drop PROVE Spec => NeverOverwrites
  OBVIOUS
<1>1. TxInv /\ [Next]_vars => TxInv'
  BY TxInvNext
<1>2. TxInv /\ [Next]_vars => [Gentle]_vars
  BY TxInvGentle
<1>3. Spec => [][Gentle]_vars
  BY TxInvInit, <1>1, <1>2, PTL DEF Spec
<1>4. NeverOverwrites <=> [][Gentle]_vars
  BY DEF NeverOverwrites, Gentle
<1>. QED BY <1>3, <1>4

=============================================================================
