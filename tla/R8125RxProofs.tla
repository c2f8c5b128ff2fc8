--------------------------- MODULE R8125RxProofs ---------------------------
(***************************************************************************)
(* Theorems about the receive ring of R8125Rx, for rings of any size and   *)
(* any amount of memory.                                                   *)
(***************************************************************************)
EXTENDS R8125Rx, FiniteSetTheorems, TLAPS

-----------------------------------------------------------------------------
(* Arithmetic of the counters *)

LEMMA SmallProduct ==
  ASSUME NEW n \in Nat \ {0}, NEW z \in Int, -n < n * z, n * z < n
  PROVE  z = 0
<1>1. z >= 1 => n * z >= n
  <2>1. ASSUME z >= 1 PROVE n * z >= n
    <3>1. n * (z - 1) >= 0
      BY <2>1
    <3>2. n * z = n * (z - 1) + n
      OBVIOUS
    <3>. QED BY <3>1, <3>2
  <2>. QED BY <2>1
<1>2. z <= -1 => n * z <= -n
  <2>1. ASSUME z <= -1 PROVE n * z <= -n
    <3>1. n * (-1 - z) >= 0
      BY <2>1
    <3>2. n * z = -n - n * (-1 - z)
      OBVIOUS
    <3>. QED BY <3>1, <3>2
  <2>. QED BY <2>1
<1>. QED BY <1>1, <1>2

\* A remainder is unique.
LEMMA Remainder ==
  ASSUME NEW n \in Nat \ {0}, NEW q \in Int, NEW r \in 0 .. n - 1
  PROVE  (n * q + r) % n = r
<1>. DEFINE x == n * q + r  d == x \div n  m == x % n
<1>1. x \in Int /\ d \in Int /\ m \in 0 .. n - 1 /\ x = n * d + m
  OBVIOUS
<1>2. n * (q - d) = m - r
  BY <1>1
<1>3. q - d = 0
  <2>1. -n < n * (q - d) /\ n * (q - d) < n
    BY <1>1, <1>2
  <2>. QED BY <1>1, <2>1, SmallProduct
<1>. QED BY <1>1, <1>2, <1>3

LEMMA Divided ==
  ASSUME NEW n \in Nat \ {0}, NEW x \in Int
  PROVE  \E q \in Int : x = n * q + (x % n) /\ x % n \in 0 .. n - 1
<1>1. x \div n \in Int /\ x = n * (x \div n) + (x % n) /\ x % n \in 0 .. n - 1
  OBVIOUS
<1>. QED BY <1>1

\* A multiple of the divisor makes no difference.
LEMMA Shift ==
  ASSUME NEW n \in Nat \ {0}, NEW x \in Int, NEW k \in Int
  PROVE  (x + n * k) % n = x % n
<1>1. PICK q \in Int : x = n * q + (x % n) /\ x % n \in 0 .. n - 1
  BY Divided
<1>2. x + n * k = n * (q + k) + (x % n)
  BY <1>1
<1>3. (n * (q + k) + (x % n)) % n = x % n
  <2>1. q + k \in Int
    BY <1>1
  <2>. QED BY <1>1, <2>1, Remainder
<1>. QED BY <1>2, <1>3

\* Numbers less than the divisor apart have different remainders.
LEMMA Apart ==
  ASSUME NEW n \in Nat \ {0}, NEW x \in Int, NEW k \in 1 .. n - 1
  PROVE  (x + k) % n # x % n
<1>1. PICK q \in Int : x = n * q + (x % n) /\ x % n \in 0 .. n - 1
  BY Divided
<1>. DEFINE r == x % n
<1>2. CASE r + k < n
  <2>1. x + k = n * q + (r + k)
    BY <1>1
  <2>2. r + k \in 0 .. n - 1
    BY <1>1, <1>2
  <2>3. (n * q + (r + k)) % n = r + k
    BY <1>1, <2>2, Remainder
  <2>. QED BY <1>1, <2>1, <2>3
<1>3. CASE r + k >= n
  <2>1. x + k = n * (q + 1) + (r + k - n)
    <3>1. n * (q + 1) = n * q + n
      OBVIOUS
    <3>2. x = n * q + r /\ r \in Int
      BY <1>1
    <3>3. n * q \in Int /\ n * (q + 1) \in Int
      OBVIOUS
    <3>. HIDE DEF r
    <3>. QED BY <3>1, <3>2, <3>3
  <2>2. r + k - n \in 0 .. n - 1 /\ q + 1 \in Int
    BY <1>1, <1>3
  <2>3. (n * (q + 1) + (r + k - n)) % n = r + k - n
    BY <2>2, Remainder
  <2>. QED BY <1>1, <2>1, <2>3
<1>. QED BY <1>1, <1>2, <1>3

LEMMA ShiftOnce ==
  ASSUME NEW n \in Nat \ {0}, NEW x \in Int
  PROVE  (x + n) % n = x % n
<1>1. PICK k \in Int : k = 1
  OBVIOUS
<1>2. (x + n * k) % n = x % n
  BY Shift
<1>. QED BY <1>1, <1>2

LEMMA SmallRemainder ==
  ASSUME NEW n \in Nat \ {0}, NEW r \in 0 .. n - 1
  PROVE  r % n = r
<1>1. (n * 0 + r) % n = r
  BY Remainder
<1>. QED BY <1>1

LEMMA Sizes ==
  /\ NumDesc \in Nat \ {0} /\ PtrMod \in Nat \ {0} /\ NumDesc < PtrMod
  /\ \E k \in Int : PtrMod = NumDesc * k
<1>1. NumDesc \in Nat \ {0} /\ PtrMod \in Nat \ {0} /\ NumDesc < PtrMod
  BY RingAssumption
<1>2. /\ PtrMod \div NumDesc \in Int
      /\ PtrMod = NumDesc * (PtrMod \div NumDesc) + (PtrMod % NumDesc)
  BY <1>1
<1>3. PtrMod = NumDesc * (PtrMod \div NumDesc)
  BY <1>1, <1>2, RingAssumption
<1>. QED BY <1>1, <1>2, <1>3

Pointer == 0 .. PtrMod - 1

LEMMA EntryType ==
  ASSUME NEW x \in Int
  PROVE  x % NumDesc \in Entry
BY Sizes DEF Entry

LEMMA StepIs ==
  ASSUME NEW p \in Pointer
  PROVE  Step(p) = IF p = PtrMod - 1 THEN 0 ELSE p + 1
<1>1. CASE p = PtrMod - 1
  <2>1. (0 + PtrMod) % PtrMod = 0 % PtrMod
    BY Sizes, ShiftOnce
  <2>2. 0 % PtrMod = 0
    BY Sizes, SmallRemainder
  <2>3. p + 1 = 0 + PtrMod
    BY Sizes, <1>1
  <2>. QED BY <1>1, <2>1, <2>2, <2>3 DEF Step
<1>2. CASE p # PtrMod - 1
  <2>1. p + 1 \in 0 .. PtrMod - 1
    BY Sizes, <1>2 DEF Pointer
  <2>. QED BY Sizes, <1>2, <2>1, SmallRemainder DEF Step
<1>. QED BY <1>1, <1>2

LEMMA DistanceIs ==
  ASSUME NEW f \in Pointer, NEW t \in Pointer
  PROVE  Distance(f, t) = IF t >= f THEN t - f ELSE t - f + PtrMod
<1>1. CASE t >= f
  <2>1. t - f \in 0 .. PtrMod - 1
    BY Sizes, <1>1 DEF Pointer
  <2>. QED BY Sizes, <1>1, <2>1, SmallRemainder DEF Distance
<1>2. CASE t < f
  <2>1. t - f + PtrMod \in 0 .. PtrMod - 1 /\ t - f \in Int
    BY Sizes, <1>2 DEF Pointer
  <2>2. ((t - f) + PtrMod) % PtrMod = (t - f) % PtrMod
    BY Sizes, <2>1, ShiftOnce
  <2>3. (t - f + PtrMod) % PtrMod = t - f + PtrMod
    BY Sizes, <2>1, SmallRemainder
  <2>4. (t - f) % PtrMod = t - f + PtrMod
    BY <2>2, <2>3
  <2>. QED BY <1>2, <2>4 DEF Distance, Pointer
<1>. QED BY <1>1, <1>2 DEF Pointer

\* A counter that wraps stays at its entry.
LEMMA EntryWraps ==
  ASSUME NEW x \in Int
  PROVE  (x + PtrMod) % NumDesc = x % NumDesc
<1>1. PICK k \in Int : PtrMod = NumDesc * k
  BY Sizes
<1>2. (x + NumDesc * k) % NumDesc = x % NumDesc
  BY Sizes, Shift
<1>. QED BY <1>1, <1>2

LEMMA EntryAfterStep ==
  ASSUME NEW p \in Pointer, NEW j \in Int
  PROVE  (Step(p) + j) % NumDesc = (p + (1 + j)) % NumDesc
<1>1. CASE p = PtrMod - 1
  <2>1. (j + PtrMod) % NumDesc = j % NumDesc
    BY EntryWraps
  <2>2. Step(p) + j = j /\ p + (1 + j) = j + PtrMod
    BY <1>1, StepIs, Sizes
  <2>. QED BY <2>1, <2>2
<1>2. CASE p # PtrMod - 1
  <2>1. Step(p) + j = p + (1 + j)
    BY <1>2, StepIs, Sizes DEF Pointer
  <2>. QED BY <2>1
<1>. QED BY <1>1, <1>2

LEMMA EntryAtDistance ==
  ASSUME NEW f \in Pointer, NEW t \in Pointer
  PROVE  (f + Distance(f, t)) % NumDesc = EntryOf(t)
<1>1. CASE t >= f
  <2>1. f + Distance(f, t) = t
    BY <1>1, DistanceIs DEF Pointer
  <2>. QED BY <2>1 DEF EntryOf
<1>2. CASE t < f
  <2>1. f + Distance(f, t) = t + PtrMod
    BY <1>2, DistanceIs, Sizes DEF Pointer
  <2>2. (t + PtrMod) % NumDesc = t % NumDesc
    BY EntryWraps DEF Pointer
  <2>. QED BY <2>1, <2>2 DEF EntryOf
<1>. QED BY <1>1, <1>2 DEF Pointer

\* How the distance of two counters changes when one of them, or both, step.
LEMMA Distances ==
  ASSUME NEW f \in Pointer, NEW t \in Pointer
  PROVE  /\ Step(f) \in Pointer /\ Distance(f, t) \in 0 .. PtrMod - 1
         /\ Distance(f, t) = 0 <=> f = t
         /\ f # t => Distance(Step(f), t) = Distance(f, t) - 1
         /\ Distance(f, t) < PtrMod - 1 => Distance(f, Step(t)) = Distance(f, t) + 1
         /\ Distance(Step(f), Step(t)) = Distance(f, t)
<1>1. Step(f) \in Pointer /\ Step(t) \in Pointer
  BY StepIs, Sizes DEF Pointer
<1>2. /\ Distance(f, t) = IF t >= f THEN t - f ELSE t - f + PtrMod
      /\ Distance(Step(f), t) = IF t >= Step(f) THEN t - Step(f) ELSE t - Step(f) + PtrMod
      /\ Distance(f, Step(t)) = IF Step(t) >= f THEN Step(t) - f ELSE Step(t) - f + PtrMod
      /\ Distance(Step(f), Step(t)) =
           IF Step(t) >= Step(f) THEN Step(t) - Step(f) ELSE Step(t) - Step(f) + PtrMod
  BY <1>1, DistanceIs
<1>3. Step(f) = (IF f = PtrMod - 1 THEN 0 ELSE f + 1) /\ Step(t) = (IF t = PtrMod - 1 THEN 0 ELSE t + 1)
  BY StepIs
<1>. QED BY <1>1, <1>2, <1>3, Sizes DEF Pointer

-----------------------------------------------------------------------------
(* The inductive invariant *)

\* In the build that shares pages no frame is damaged and an skb is always had,
\* and the reset task finds memory for its ring.
Undamaged == "reuse" \notin Trouble /\ ~FailInit

\* Where the loop is, or was when it ended.
Position == IF pc = "loop" THEN c ELSE cur
Gap == Distance(dirty, Position)

\* The loop ends before it comes round to the first descriptor without a buffer.
Room == Gap + (IF pc = "loop" THEN left ELSE 0) <= NumDesc

\* The descriptors from dirty_rx to the loop have no buffer.
GapEmpty ==
  mode = "reuse" => \A i \in 0 .. Gap - 1 : slot[(dirty + i) % NumDesc] = None

\* All the others are the chip's, or hold a frame.
RestFilled ==
  mode = "reuse" =>
    \A i \in Gap .. NumDesc - 1 :
      own[(dirty + i) % NumDesc] # None \/ st[(dirty + i) % NumDesc] = "good"

\* A buffer that is copied from stays.
AllFilled == mode = "copy" => \A e \in Entry : slot[e] # None

OwnsSlot == \A e \in Entry : own[e] # None => own[e] = slot[e]
WritesOwned == dma # None => dma = own[hw]
FrameHasSlot == \A e \in Entry : st[e] # "none" => slot[e] # None

OnePage ==
  \A e, f \in Entry :
    e # f /\ slot[e] # None /\ slot[f] # None => slot[e][1] # slot[f][1]
HeldApart == \A e \in Entry : slot[e] # None => slot[e] \notin held

\* The references of a page, as a sum of its three possible users.
Users(b) ==
  (IF \E e \in Entry : In(slot[e], b) THEN 1 ELSE 0)
    + (IF <<b, 0>> \in held THEN 1 ELSE 0) + (IF <<b, 1>> \in held THEN 1 ELSE 0)
Counted == \A b \in Buffers : refs[b] = Users(b)

RingInv ==
  /\ TypeOK
  /\ Room /\ GapEmpty /\ RestFilled /\ AllFilled
  /\ OwnsSlot /\ WritesOwned /\ FrameHasSlot
  /\ OnePage /\ HeldApart /\ Counted

-----------------------------------------------------------------------------
(* Facts about single states *)

LEMMA GapType == RingInv => Gap \in Nat
<1>1. RingInv => Position \in Pointer /\ dirty \in Pointer
  BY DEF RingInv, TypeOK, Position, Pointer
<1>. QED BY <1>1, Distances, Sizes DEF Gap

LEMMA Beginning ==
  ASSUME RingInv, pc # "loop", NEW quota \in Nat
  PROVE  /\ Least(NumDesc - Distance(dirty, cur), quota) \in Nat
         /\ Distance(dirty, cur) + Least(NumDesc - Distance(dirty, cur), quota) <= NumDesc
<1>1. cur \in Pointer /\ dirty \in Pointer
  BY DEF RingInv, TypeOK, Pointer
<1>2. Distance(dirty, cur) \in Nat /\ Distance(dirty, cur) <= NumDesc
  <2>1. Distance(dirty, cur) \in Nat
    BY <1>1, Distances, Sizes
  <2>2. Gap = Distance(dirty, cur)
    BY DEF Gap, Position
  <2>. QED BY <2>1, <2>2 DEF RingInv, Room
<1>. QED BY <1>2, Sizes DEF Least

\* The frame at c has a buffer.
LEMMA TakenFrame ==
  ASSUME RingInv, Taken
  PROVE  /\ EntryOf(c) \in Entry /\ Step(c) \in Pointer /\ left - 1 \in Nat
         /\ st[EntryOf(c)] # "none" => slot[EntryOf(c)] \in Halves
         /\ Gap = Distance(dirty, c) /\ Gap \in Nat /\ Gap + left <= NumDesc
<1>1. c \in Pointer /\ dirty \in Pointer /\ left \in Nat /\ left > 0 /\ pc = "loop"
  BY DEF RingInv, TypeOK, Pointer, Taken
<1>2. EntryOf(c) \in Entry /\ Step(c) \in Pointer
  BY <1>1, EntryType, Distances DEF EntryOf, Pointer
<1>3. st[EntryOf(c)] # "none" => slot[EntryOf(c)] \in Halves
  BY <1>2 DEF RingInv, FrameHasSlot, TypeOK
<1>4. Gap = Distance(dirty, c) /\ Gap \in Nat
  BY <1>1, Distances, Sizes DEF Gap, Position
<1>. QED BY <1>1, <1>2, <1>3, <1>4 DEF RingInv, Room

\* The buffers of a ring that is filled anew.
LEMMA FreshPages ==
  ASSUME NEW S \in SUBSET Buffers, Cardinality(S) >= NumDesc
  PROVE  /\ Fresh(S) \in [Entry -> S \X {0}]
         /\ \A e, f \in Entry : e # f => Fresh(S)[e] # Fresh(S)[f]
<1>1. IsFiniteSet(S)
  <2>1. IsFiniteSet(Buffers)
    BY FS_Interval, RingAssumption DEF Buffers
  <2>. QED BY <2>1, FS_Subset
<1>2. PICK f \in Bijection(1 .. Cardinality(S), S) : TRUE
  BY <1>1, FS_CardinalityType DEF ExistsBijection
<1>. DEFINE g == [e \in Entry |-> f[e + 1]]
<1>3. g \in Injection(Entry, S)
  <2>1. Cardinality(S) \in Nat
    BY <1>1, FS_CardinalityType
  <2>2. \A e \in Entry : e \in Int /\ e + 1 \in 1 .. Cardinality(S)
    BY <2>1, Sizes DEF Entry
  <2>3. f \in [1 .. Cardinality(S) -> S] /\ IsInjective(f)
    BY <1>2 DEF Bijection, Injection
  <2>4. g \in [Entry -> S]
    BY <2>2, <2>3
  <2>5. ASSUME NEW a \in Entry, NEW b \in Entry, g[a] = g[b] PROVE a = b
    <3>1. f[a + 1] = f[b + 1]
      BY <2>5
    <3>2. a + 1 = b + 1
      BY <2>2, <2>3, <3>1 DEF IsInjective
    <3>. QED BY <2>2, <3>2
  <2>. QED BY <2>4, <2>5 DEF Injection, IsInjective
<1>. DEFINE page == CHOOSE h \in Injection(Entry, S) : TRUE
<1>4. page \in Injection(Entry, S)
  BY <1>3
<1>5. page \in [Entry -> S] /\ IsInjective(page)
  BY <1>4 DEF Injection
<1>6. Fresh(S) = [e \in Entry |-> <<page[e], 0>>]
  BY DEF Fresh
<1>. HIDE DEF page
<1>. QED BY <1>5, <1>6 DEF IsInjective

\* With at most one slot to a page, the slots of a page are one or none.
LEMMA OneSlot ==
  ASSUME RingInv, NEW b \in Buffers
  PROVE  Cardinality({e \in Entry : In(slot[e], b)})
           = IF \E e \in Entry : In(slot[e], b) THEN 1 ELSE 0
<1>1. CASE \E e \in Entry : In(slot[e], b)
  <2>1. PICK e \in Entry : In(slot[e], b)
    BY <1>1
  <2>2. {f \in Entry : In(slot[f], b)} = {e}
    BY <2>1 DEF RingInv, OnePage, In
  <2>. QED BY <1>1, <2>2, FS_Singleton
<1>2. CASE ~\E e \in Entry : In(slot[e], b)
  <2>1. {f \in Entry : In(slot[f], b)} = {}
    BY <1>2
  <2>. QED BY <1>2, <2>1, FS_EmptySet
<1>. QED BY <1>1, <1>2

LEMMA HeldHalves ==
  ASSUME RingInv, NEW b \in Buffers
  PROVE  Cardinality({h \in held : In(h, b)})
           = (IF <<b, 0>> \in held THEN 1 ELSE 0) + (IF <<b, 1>> \in held THEN 1 ELSE 0)
<1>. DEFINE H == {h \in held : In(h, b)}
<1>. SUFFICES Cardinality(H) = (IF <<b, 0>> \in held THEN 1 ELSE 0)
                                 + (IF <<b, 1>> \in held THEN 1 ELSE 0)
  BY Zenon
<1>1. held \subseteq Halves
  BY DEF RingInv, TypeOK
<1>2. \A h \in Halves : h # None
  BY NoneAssumption
<1>3. <<b, 0>> # <<b, 1>> /\ <<b, 0>> \in Halves /\ <<b, 1>> \in Halves
  BY DEF Halves
<1>4. \A h \in H : h = <<b, 0>> \/ h = <<b, 1>>
  BY <1>1 DEF In, Halves
<1>5. <<b, 0>> \in held => <<b, 0>> \in H
  BY <1>2, <1>3 DEF In
<1>6. <<b, 1>> \in held => <<b, 1>> \in H
  BY <1>2, <1>3 DEF In
<1>7. H \subseteq held
  OBVIOUS
<1>. HIDE DEF H
<1>8. CASE <<b, 0>> \in held /\ <<b, 1>> \in held
  <2>1. H = {<<b, 0>>} \cup {<<b, 1>>}
    BY <1>4, <1>5, <1>6, <1>8
  <2>2. Cardinality({<<b, 0>>} \cup {<<b, 1>>}) = 2
    <3>1. IsFiniteSet({<<b, 0>>}) /\ Cardinality({<<b, 0>>}) = 1 /\ <<b, 1>> \notin {<<b, 0>>}
      BY <1>3, FS_Singleton
    <3>2. Cardinality({<<b, 0>>} \cup {<<b, 1>>})
            = IF <<b, 1>> \in {<<b, 0>>} THEN Cardinality({<<b, 0>>})
              ELSE Cardinality({<<b, 0>>}) + 1
      BY <3>1, FS_AddElement, Zenon
    <3>. QED BY <3>1, <3>2
  <2>3. Cardinality(H) = 2
    BY <2>1, <2>2
  <2>. QED BY <1>8, <2>3
<1>9. CASE <<b, 0>> \in held /\ <<b, 1>> \notin held
  <2>1. H = {<<b, 0>>}
    BY <1>4, <1>5, <1>7, <1>9
  <2>. QED BY <1>9, <2>1, FS_Singleton
<1>10. CASE <<b, 0>> \notin held /\ <<b, 1>> \in held
  <2>1. H = {<<b, 1>>}
    BY <1>4, <1>6, <1>7, <1>10
  <2>. QED BY <1>10, <2>1, FS_Singleton
<1>11. CASE <<b, 0>> \notin held /\ <<b, 1>> \notin held
  <2>1. H = {}
    BY <1>4, <1>7, <1>11
  <2>. QED BY <1>11, <2>1, FS_EmptySet
<1>. QED BY <1>8, <1>9, <1>10, <1>11

\* The reset task finds a page free of the ring free of the stack too, or not free.
LEMMA AfterClear ==
  ASSUME RingInv, NEW b \in Buffers
  PROVE  Cleared[b] = (IF <<b, 0>> \in held THEN 1 ELSE 0) + (IF <<b, 1>> \in held THEN 1 ELSE 0)
<1>1. refs[b] = Users(b)
  BY DEF RingInv, Counted
<1>. QED BY <1>1, OneSlot DEF Cleared, Users

\* The two forms of the count.
LEMMA CountsAgree == RingInv => RefsExact
<1>. SUFFICES ASSUME RingInv, NEW b \in Buffers
              PROVE  refs[b] = Cardinality({e \in Entry : In(slot[e], b)})
                                 + Cardinality({h \in held : In(h, b)})
  BY DEF RefsExact
<1>1. refs[b] = Users(b)
  BY DEF RingInv, Counted
<1>. QED BY <1>1, OneSlot, HeldHalves DEF Users

-----------------------------------------------------------------------------
(* Steps that leave the buffers alone *)

LEMMA BuffersKept ==
  ASSUME RingInv, UNCHANGED <<mode, memory>>
  PROVE  AllFilled' /\ OnePage' /\ HeldApart' /\ Counted'
<1>1. mode' = mode /\ slot' = slot /\ refs' = refs /\ held' = held
  BY DEF memory
<1>2. AllFilled' /\ OnePage' /\ HeldApart'
  BY <1>1 DEF RingInv, AllFilled, OnePage, HeldApart
<1>3. Counted'
  BY <1>1 DEF RingInv, Counted, Users
<1>. QED BY <1>2, <1>3

LEMMA GapKept ==
  ASSUME RingInv, UNCHANGED <<mode, own, st, slot, dirty>>, Position' = Position
  PROVE  GapEmpty' /\ RestFilled' /\ Gap' = Gap
<1>1. Gap' = Gap
  BY DEF Gap, Distance
<1>. QED BY <1>1 DEF RingInv, GapEmpty, RestFilled

LEMMA SlotsKept ==
  ASSUME RingInv, UNCHANGED <<own, st, slot>>
  PROVE  OwnsSlot' /\ FrameHasSlot'
BY DEF RingInv, OwnsSlot, FrameHasSlot

LEMMA BeginKeeps ==
  ASSUME RingInv, NEW caller \in {"poll", "reset"}, NEW quota \in Nat,
         Begin(caller, quota), pc # "loop", UNCHANGED <<cur, dirty>>
  PROVE  /\ pc' \in {"idle", "loop", "fill", "end"} /\ who' \in {"poll", "reset"}
         /\ {cur, dirty, c}' \subseteq 0 .. PtrMod - 1 /\ {left, got}' \subseteq Nat
         /\ spent' \in BOOLEAN
         /\ Position' = Position /\ (Gap' = Gap => Room')
<1>1. /\ pc' = "loop" /\ who' = caller /\ c' = cur /\ got' = 0 /\ spent' = FALSE
      /\ left' = Least(NumDesc - Distance(dirty, cur), quota)
  BY DEF Begin
<1>2. left' \in Nat /\ Distance(dirty, cur) + left' <= NumDesc
  BY <1>1, Beginning
<1>3. {cur, dirty} \subseteq 0 .. PtrMod - 1
  BY DEF RingInv, TypeOK
<1>4. Position' = Position
  BY <1>1 DEF Position
<1>5. Gap = Distance(dirty, cur)
  BY DEF Gap, Position
<1>6. Gap' = Gap => Room'
  BY <1>1, <1>2, <1>5 DEF Room
<1>7. {cur, dirty, c}' \subseteq 0 .. PtrMod - 1 /\ {left, got}' \subseteq Nat
  BY <1>1, <1>2, <1>3
<1>. QED BY <1>1, <1>4, <1>6, <1>7

LEMMA ReturnKeeps ==
  ASSUME RingInv, Return, pc # "loop", UNCHANGED <<cur, dirty>>
  PROVE  /\ pc' \in {"idle", "loop", "fill", "end"} /\ who' \in {"poll", "reset"}
         /\ {cur, dirty, c}' \subseteq 0 .. PtrMod - 1 /\ {left, got}' \subseteq Nat
         /\ Position' = Position /\ (Gap' = Gap => Room')
<1>1. Position' = Position
  BY DEF Return, Position
<1>. QED BY <1>1, Sizes DEF RingInv, TypeOK, Return, Room

\* Steps of the chip, the calls of a poll and the reset up to the rebuilding.
LEMMA QuietSteps ==
  ASSUME RingInv, Fetch \/ FrameMissed \/ Interrupt \/ LoopEnd \/ PollEnd
                    \/ ResetBegin \/ Shortage \/ LinkOn
  PROVE  RingInv'
<1>0. UNCHANGED <<mode, own, st, slot, dirty>> /\ UNCHANGED <<mode, memory>> /\ UNCHANGED <<own, st, slot>>
  BY DEF Fetch, FrameMissed, Interrupt, LoopEnd, PollEnd, ResetBegin, Shortage, LinkOn,
         pointers, desc, memory
<1>1. AllFilled' /\ OnePage' /\ HeldApart' /\ Counted'
  BY <1>0, BuffersKept
<1>2. OwnsSlot' /\ FrameHasSlot'
  BY <1>0, SlotsKept
<1>3. /\ mode' \in Modes
      /\ own' \in [Entry -> Halves \cup {Nowhere, None}] /\ st' \in [Entry -> {"none", "good", "bad"}]
      /\ slot' \in [Entry -> Halves \cup {None}]
      /\ refs' \in [Buffers -> Nat] /\ held' \subseteq Halves
  BY <1>0 DEF RingInv, TypeOK, memory
<1>4. ASSUME Position' = Position PROVE GapEmpty' /\ RestFilled' /\ Gap' = Gap
  BY <1>0, <1>4, GapKept
<1>. DEFINE PollType ==
       /\ pc' \in {"idle", "loop", "fill", "end"} /\ who' \in {"poll", "reset"}
       /\ {cur, dirty, c}' \subseteq 0 .. PtrMod - 1 /\ {left, got}' \subseteq Nat
     ChipType ==
       /\ hw' \in Entry /\ dma' \in Halves \cup {Nowhere, None}
       /\ {on, linking, isr, imr, spent, reset}' \subseteq BOOLEAN
<1>5. ASSUME WritesOwned', Position' = Position, Gap' = Gap => Room', PollType, ChipType
      PROVE  RingInv'
  BY <1>1, <1>2, <1>3, <1>4, <1>5 DEF RingInv, TypeOK
<1>6. ASSUME UNCHANGED <<pc, who, cur, dirty, c, left, got>>
      PROVE  Position' = Position /\ (Gap' = Gap => Room') /\ PollType
  BY <1>6 DEF RingInv, TypeOK, Position, Room
<1>7. ASSUME UNCHANGED <<own, hw>>, dma' \in {dma, None} PROVE WritesOwned'
  BY <1>7 DEF RingInv, WritesOwned
<1>8. CASE Fetch
  <2>1. UNCHANGED <<pc, who, cur, dirty, c, left, got>>
    BY <1>8 DEF Fetch, pointers, driver
  <2>2. WritesOwned'
    BY <1>8 DEF Fetch, WritesOwned, desc
  <2>3. ChipType
    BY <1>8 DEF Fetch, RingInv, TypeOK, driver
  <2>. QED BY <1>5, <1>6, <2>1, <2>2, <2>3
<1>9. CASE FrameMissed
  <2>1. UNCHANGED <<pc, who, cur, dirty, c, left, got>>
    BY <1>9 DEF FrameMissed, pointers, driver
  <2>2. ChipType
    BY <1>9 DEF FrameMissed, RingInv, TypeOK, chip, driver
  <2>3. WritesOwned'
    BY <1>7, <1>9 DEF FrameMissed, chip, desc
  <2>. QED BY <1>5, <1>6, <2>1, <2>2, <2>3
<1>10. CASE Interrupt
  <2>1. Begin("poll", Budget) /\ pc # "loop" /\ UNCHANGED <<cur, dirty>>
    BY <1>10 DEF Interrupt, pointers
  <2>2. Position' = Position /\ (Gap' = Gap => Room') /\ PollType /\ spent' \in BOOLEAN
    BY <2>1, BeginKeeps, RingAssumption
  <2>3. ChipType
    BY <1>10, <2>2 DEF Interrupt, RingInv, TypeOK, chip
  <2>4. WritesOwned'
    BY <1>7, <1>10 DEF Interrupt, chip, desc
  <2>. QED BY <1>5, <2>2, <2>3, <2>4
<1>11. CASE LoopEnd
  <2>1. Position' = Position /\ pc = "loop" /\ pc' = "fill"
    BY <1>11 DEF LoopEnd, Position
  <2>2. Gap' = Gap => Room'
    <3>1. Gap + left <= NumDesc /\ left \in Nat
      BY <2>1 DEF RingInv, Room, TypeOK
    <3>. QED BY <2>1, <3>1, GapType, Sizes DEF Room
  <2>3. PollType /\ ChipType
    BY <1>11 DEF LoopEnd, RingInv, TypeOK, chip
  <2>4. WritesOwned'
    BY <1>7, <1>11 DEF LoopEnd, chip, desc
  <2>. QED BY <1>5, <2>1, <2>2, <2>3, <2>4
<1>12. CASE PollEnd
  <2>1. pc # "loop" /\ UNCHANGED <<cur, dirty>>
    BY <1>12 DEF PollEnd, Filled, pointers
  <2>2. WritesOwned'
    BY <1>7, <1>12 DEF PollEnd, chip, desc
  <2>3. CASE Return /\ imr' = TRUE /\ spent' = (left = 0)
    <3>1. Position' = Position /\ (Gap' = Gap => Room') /\ PollType
      BY <2>1, <2>3, ReturnKeeps
    <3>2. ChipType
      BY <1>12, <2>3 DEF PollEnd, RingInv, TypeOK, chip
    <3>. QED BY <1>5, <2>2, <3>1, <3>2
  <2>4. CASE Begin("poll", Budget) /\ UNCHANGED imr
    <3>1. Position' = Position /\ (Gap' = Gap => Room') /\ PollType /\ spent' \in BOOLEAN
      BY <2>1, <2>4, BeginKeeps, RingAssumption
    <3>2. ChipType
      BY <1>12, <2>4, <3>1 DEF PollEnd, RingInv, TypeOK, chip
    <3>. QED BY <1>5, <2>2, <3>1, <3>2
  <2>. QED BY <1>12, <2>3, <2>4 DEF PollEnd
<1>13. CASE ResetBegin
  <2>1. Begin("reset", NumDesc) /\ pc # "loop" /\ UNCHANGED <<cur, dirty>>
    BY <1>13 DEF ResetBegin, pointers
  <2>2. Position' = Position /\ (Gap' = Gap => Room') /\ PollType /\ spent' \in BOOLEAN
    BY <2>1, BeginKeeps, RingAssumption
  <2>3. ChipType
    BY <1>13, <2>2 DEF ResetBegin, RingInv, TypeOK, chip
  <2>4. WritesOwned'
    BY <1>7, <1>13 DEF ResetBegin, chip, desc
  <2>. QED BY <1>5, <2>2, <2>3, <2>4
<1>14. CASE Shortage
  <2>1. Return /\ pc # "loop" /\ UNCHANGED <<cur, dirty>>
    BY <1>14 DEF Shortage, ResetEnding, Filled, pointers
  <2>2. Position' = Position /\ (Gap' = Gap => Room') /\ PollType
    BY <2>1, ReturnKeeps
  <2>3. ChipType
    BY <1>14 DEF Shortage, ChipOff, RingInv, TypeOK
  <2>4. WritesOwned'
    BY <1>14 DEF Shortage, ChipOff, WritesOwned
  <2>. QED BY <1>5, <2>2, <2>3, <2>4
<1>15. CASE LinkOn
  <2>1. UNCHANGED <<pc, who, cur, dirty, c, left, got>>
    BY <1>15 DEF LinkOn, pointers, driver
  <2>2. ChipType
    <3>1. 0 \in Entry
      BY Sizes DEF Entry
    <3>2. spent' = spent /\ reset' = reset
      BY <1>15 DEF LinkOn, driver
    <3>. QED BY <1>15, <3>1, <3>2 DEF LinkOn, RingInv, TypeOK
  <2>3. WritesOwned'
    BY <1>15 DEF LinkOn, WritesOwned
  <2>. QED BY <1>5, <1>6, <2>1, <2>2, <2>3
<1>. QED BY <1>8, <1>9, <1>10, <1>11, <1>12, <1>13, <1>14, <1>15

-----------------------------------------------------------------------------
(* Steps that change a descriptor, or what the stack holds *)

LEMMA WriteBackStep ==
  ASSUME RingInv, Undamaged, WriteBack
  PROVE  RingInv'
<1>1. /\ UNCHANGED <<mode, cur, dirty, memory>> /\ UNCHANGED <<pc, who, c, left, got, spent, reset>>
      /\ UNCHANGED <<on, linking, imr>> /\ isr' = TRUE
      /\ dma # None /\ own[hw] = dma /\ dma' = None
      /\ own' = [own EXCEPT ![hw] = None] /\ hw' = (hw + 1) % NumDesc
  BY DEF WriteBack, RingInv, WritesOwned, pointers, driver
<1>2. PICK result \in {"good"} \cup (IF mode \in Trouble THEN {"bad"} ELSE {}) :
        st' = [st EXCEPT ![hw] = result]
  BY DEF WriteBack
<1>3. hw \in Entry /\ hw' \in Entry
  BY <1>1, EntryType DEF RingInv, TypeOK, Entry
<1>4. slot[hw] # None /\ own[hw] # None
  BY <1>1, <1>3 DEF RingInv, OwnsSlot
<1>5. TypeOK'
  BY <1>1, <1>2, <1>3 DEF RingInv, TypeOK, memory
<1>6. AllFilled' /\ OnePage' /\ HeldApart' /\ Counted'
  BY <1>1, BuffersKept
<1>7. Position' = Position /\ Gap' = Gap
  BY <1>1 DEF Position, Gap, Distance
<1>8. Room' /\ GapEmpty'
  BY <1>1, <1>7 DEF RingInv, Room, GapEmpty, memory
<1>9. RestFilled'
  <2>1. mode = "reuse" => result = "good"
    BY DEF Undamaged
  <2>2. \A e \in Entry : mode = "reuse" /\ (own[e] # None \/ st[e] = "good")
                           => own'[e] # None \/ st'[e] = "good"
    BY <1>1, <1>2, <1>3, <2>1 DEF RingInv, TypeOK
  <2>3. \A i \in Gap .. NumDesc - 1 : (dirty + i) % NumDesc \in Entry
    BY EntryType, GapType, Sizes DEF RingInv, TypeOK
  <2>. QED BY <1>1, <1>7, <2>2, <2>3 DEF RingInv, RestFilled
<1>10. OwnsSlot' /\ WritesOwned' /\ FrameHasSlot'
  BY <1>1, <1>2, <1>3, <1>4 DEF RingInv, TypeOK, OwnsSlot, WritesOwned, FrameHasSlot, memory
<1>. QED BY <1>5, <1>6, <1>8, <1>9, <1>10 DEF RingInv

LEMMA StackFreeStep ==
  ASSUME RingInv, StackFree
  PROVE  RingInv'
<1>1. PICK half \in held : /\ held' = held \ {half}
                           /\ refs' = [refs EXCEPT ![half[1]] = @ - 1]
  BY DEF StackFree
<1>2. /\ UNCHANGED <<mode, cur, dirty, own, st, slot>> /\ UNCHANGED <<on, linking, hw, dma>>
      /\ UNCHANGED <<isr, imr, reset>> /\ UNCHANGED <<pc, who, c, left, got, spent>>
  BY DEF StackFree, pointers, desc, chip, driver
<1>3. half \in Halves /\ half[1] \in Buffers /\ (half = <<half[1], 0>> \/ half = <<half[1], 1>>)
  BY <1>1 DEF RingInv, TypeOK, Halves
<1>4. ASSUME NEW b \in Buffers
      PROVE  /\ b # half[1] => Users(b)' = Users(b)
             /\ b = half[1] => Users(b)' = Users(b) - 1 /\ Users(b) >= 1
  <2>1. b # half[1] => (<<b, 0>> \in held' <=> <<b, 0>> \in held)
                         /\ (<<b, 1>> \in held' <=> <<b, 1>> \in held)
    BY <1>1, <1>3
  <2>2. b = half[1] =>
          \/ <<b, 0>> \in held /\ <<b, 0>> \notin held' /\ (<<b, 1>> \in held' <=> <<b, 1>> \in held)
          \/ <<b, 1>> \in held /\ <<b, 1>> \notin held' /\ (<<b, 0>> \in held' <=> <<b, 0>> \in held)
    BY <1>1, <1>3
  <2>. QED BY <1>2, <2>1, <2>2 DEF Users
<1>5. Counted' /\ refs' \in [Buffers -> Nat]
  <2>1. refs \in [Buffers -> Nat] /\ \A b \in Buffers : refs[b] = Users(b)
    BY DEF RingInv, TypeOK, Counted
  <2>2. \A b \in Buffers : refs'[b] = Users(b)' /\ refs'[b] \in Nat
    BY <1>1, <1>4, <2>1
  <2>. QED BY <1>1, <2>1, <2>2 DEF Counted
<1>6. TypeOK'
  BY <1>1, <1>2, <1>5 DEF RingInv, TypeOK
<1>7. Position' = Position
  BY <1>2 DEF Position
<1>8. GapEmpty' /\ RestFilled' /\ Gap' = Gap
  BY <1>2, <1>7, GapKept
<1>9. Room' /\ AllFilled'
  BY <1>2, <1>8 DEF RingInv, Room, AllFilled
<1>10. OwnsSlot' /\ WritesOwned' /\ FrameHasSlot' /\ OnePage' /\ HeldApart'
  BY <1>1, <1>2 DEF RingInv, OwnsSlot, WritesOwned, FrameHasSlot, OnePage, HeldApart
<1>. QED BY <1>5, <1>6, <1>8, <1>9, <1>10 DEF RingInv

-----------------------------------------------------------------------------
(* Steps that move a counter *)

\* The entry i descriptors after dirty_rx.
At(i) == (dirty + i) % NumDesc

LEMMA AtDistinct ==
  ASSUME RingInv, NEW i \in 0 .. NumDesc - 1, NEW j \in 0 .. NumDesc - 1, i # j
  PROVE  At(i) # At(j) /\ At(i) \in Entry
<1>1. dirty \in Int
  BY DEF RingInv, TypeOK
<1>2. ASSUME NEW a \in 0 .. NumDesc - 1, NEW b \in 0 .. NumDesc - 1, a < b
      PROVE  At(a) # At(b)
  <2>1. ((dirty + a) + (b - a)) % NumDesc # (dirty + a) % NumDesc
    <3>1. dirty + a \in Int /\ b - a \in 1 .. NumDesc - 1
      BY <1>1, <1>2, Sizes
    <3>. QED BY <3>1, Apart, Sizes
  <2>2. (dirty + a) + (b - a) = dirty + b
    BY <1>1
  <2>. QED BY <2>1, <2>2 DEF At
<1>3. At(i) \in Entry
  BY <1>1, EntryType DEF At
<1>. QED BY <1>2, <1>3, Sizes

LEMMA AtEnds ==
  ASSUME RingInv
  PROVE  /\ At(0) = EntryOf(dirty) /\ At(NumDesc) = EntryOf(dirty)
         /\ At(Gap) = EntryOf(Position)
         /\ EntryOf(dirty) \in Entry /\ EntryOf(Position) \in Entry
<1>1. dirty \in Pointer /\ Position \in Pointer
  BY DEF RingInv, TypeOK, Position, Pointer
<1>2. At(0) = EntryOf(dirty)
  BY <1>1 DEF At, EntryOf, Pointer
<1>3. At(NumDesc) = EntryOf(dirty)
  <2>1. dirty \in Int
    BY <1>1 DEF Pointer
  <2>2. (dirty + NumDesc) % NumDesc = dirty % NumDesc
    BY <2>1, ShiftOnce, Sizes
  <2>. QED BY <2>2 DEF At, EntryOf
<1>4. At(Gap) = EntryOf(Position)
  BY <1>1, EntryAtDistance DEF At, Gap
<1>. QED BY <1>1, <1>2, <1>3, <1>4, EntryType DEF EntryOf, Pointer

\* A frame that is taken in the build that shares pages is a good one, and lies
\* behind the gap.
LEMMA TakenGood ==
  ASSUME RingInv, Taken, mode = "reuse"
  PROVE  st[EntryOf(c)] = "good" /\ Gap < NumDesc
<1>1. Gap \in Nat /\ Gap + left <= NumDesc /\ left \in Nat /\ left > 0
  BY TakenFrame DEF RingInv, TypeOK, Taken
<1>2. Gap \in Gap .. NumDesc - 1
  BY <1>1, Sizes
<1>3. At(Gap) = EntryOf(c)
  BY AtEnds DEF Taken, Position
<1>4. own[At(Gap)] # None \/ st[At(Gap)] = "good"
  BY <1>2 DEF RingInv, RestFilled, At
<1>. QED BY <1>1, <1>2, <1>3, <1>4, Sizes DEF Taken

\* The loop goes on: the gap grows by a descriptor, or has done so at both ends.
LEMMA LoopOn ==
  ASSUME RingInv, Taken, NEW n \in Nat, Proceed(n), UNCHANGED <<cur, pc, who, spent>>,
         dirty' \in {dirty, Step(dirty)}
  PROVE  /\ pc' \in {"idle", "loop", "fill", "end"} /\ who' \in {"poll", "reset"}
         /\ {cur, dirty, c}' \subseteq 0 .. PtrMod - 1 /\ {left, got}' \subseteq Nat
         /\ dirty' = dirty => Gap' = Gap + 1
         /\ dirty' = Step(dirty) => Gap' = Gap
         /\ Room'
<1>1. c' = Step(c) /\ left' = left - 1 /\ got' = got + n /\ pc = "loop" /\ left > 0
  BY DEF Proceed, Taken
<1>2. c \in Pointer /\ dirty \in Pointer /\ left \in Nat /\ got \in Nat
  BY DEF RingInv, TypeOK, Pointer
<1>3. Step(c) \in Pointer /\ Step(dirty) \in Pointer
  BY <1>2, Distances
<1>4. Gap = Distance(dirty, c) /\ Gap \in Nat /\ Gap + left <= NumDesc
  BY TakenFrame
<1>5. Gap' = Distance(dirty', Step(c))
  BY <1>1 DEF Gap, Position, Distance
<1>6. Gap < PtrMod - 1
  BY <1>1, <1>2, <1>4, Sizes
<1>7. /\ dirty' = dirty => Gap' = Gap + 1
      /\ dirty' = Step(dirty) => Gap' = Gap
  BY <1>2, <1>4, <1>5, <1>6, Distances
<1>8. Room'
  BY <1>1, <1>2, <1>4, <1>7, Sizes DEF Room
<1>9. {cur, dirty, c}' \subseteq 0 .. PtrMod - 1 /\ {left, got}' \subseteq Nat
  BY <1>1, <1>2, <1>3 DEF RingInv, TypeOK, Pointer
<1>. QED BY <1>7, <1>8, <1>9 DEF RingInv, TypeOK

\* A descriptor goes back as it is; in the build that shares pages none does.
LEMMA GiveBackStep ==
  ASSUME RingInv, Undamaged, Release \/ Copy
  PROVE  RingInv'
<1>. DEFINE e == EntryOf(c)
<1>1. /\ Taken /\ st' = [st EXCEPT ![e] = "none"] /\ own' = [own EXCEPT ![e] = AddressOf(e)]
      /\ UNCHANGED <<mode, memory>> /\ UNCHANGED <<cur, dirty, slot>> /\ UNCHANGED <<pc, who, spent>>
      /\ UNCHANGED <<on, linking, hw, dma, isr, imr, reset>>
  BY DEF Release, Copy, pointers, chip, memory
<1>2. PICK n \in {0, 1} : Proceed(n)
  BY DEF Release, Copy
<1>3. mode = "copy"
  <2>1. ASSUME mode = "reuse" PROVE FALSE
    BY <1>1, <2>1, TakenGood DEF Release, Copy, Undamaged
  <2>. QED BY <2>1, BuildAssumption DEF RingInv, TypeOK
<1>4. e \in Entry /\ slot[e] # None /\ AddressOf(e) = slot[e]
  BY <1>1, <1>3, TakenFrame DEF RingInv, AllFilled, AddressOf
<1>5. /\ pc' \in {"idle", "loop", "fill", "end"} /\ who' \in {"poll", "reset"}
      /\ {cur, dirty, c}' \subseteq 0 .. PtrMod - 1 /\ {left, got}' \subseteq Nat
      /\ Room'
  BY <1>1, <1>2, LoopOn
<1>6. slot[e] \in Halves
  BY <1>4 DEF RingInv, TypeOK
<1>. HIDE DEF e
<1>7. TypeOK'
  BY <1>1, <1>4, <1>5, <1>6 DEF RingInv, TypeOK, memory
<1>8. AllFilled' /\ OnePage' /\ HeldApart' /\ Counted'
  BY <1>1, BuffersKept
<1>9. GapEmpty' /\ RestFilled'
  BY <1>1, <1>3 DEF GapEmpty, RestFilled
<1>10. own[e] = None
  BY <1>1 DEF Taken, e
<1>11. OwnsSlot' /\ WritesOwned' /\ FrameHasSlot'
  BY <1>1, <1>4, <1>10 DEF RingInv, TypeOK, OwnsSlot, WritesOwned, FrameHasSlot
<1>. QED BY <1>5, <1>7, <1>8, <1>9, <1>11 DEF RingInv

\* A descriptor without a buffer is neither the chip's nor written to.
LEMMA EmptySlot ==
  ASSUME RingInv, NEW e \in Entry, slot[e] = None
  PROVE  own[e] = None /\ (dma # None => hw # e)
<1>1. own[e] = None
  BY DEF RingInv, OwnsSlot
<1>. QED BY <1>1 DEF RingInv, WritesOwned

LEMMA AtAfterStep ==
  ASSUME RingInv, dirty' = Step(dirty), NEW i \in Int
  PROVE  At(i)' = At(i + 1)
<1>1. dirty \in Pointer
  BY DEF RingInv, TypeOK, Pointer
<1>2. (Step(dirty) + i) % NumDesc = (dirty + (1 + i)) % NumDesc
  BY <1>1, EntryAfterStep
<1>3. dirty + (1 + i) = dirty + (i + 1)
  BY <1>1 DEF Pointer
<1>. QED BY <1>2, <1>3 DEF At

LEMMA ReuseStep ==
  ASSUME RingInv, Reuse
  PROVE  RingInv'
<1>. DEFINE e == EntryOf(c)  d == EntryOf(dirty)  b == slot[e][1]  other == <<b, 1 - slot[e][2]>>
<1>1. /\ mode = "reuse" /\ Taken /\ st[e] = "good" /\ refs[b] = 1
      /\ refs' = [refs EXCEPT ![b] = @ + 1]
      /\ held' = held \cup {slot[e]}
      /\ slot' = [slot EXCEPT ![e] = None, ![d] = other]
      /\ own' = [own EXCEPT ![d] = other]
      /\ st' = [st EXCEPT ![e] = "none"]
      /\ dirty' = Step(dirty) /\ Proceed(1)
      /\ UNCHANGED <<mode, cur, on, linking, hw, dma, isr, imr>> /\ UNCHANGED <<pc, who, spent, reset>>
  BY DEF Reuse, Reusable, chip
<1>2. e \in Entry /\ d \in Entry /\ e = At(Gap) /\ d = At(0) /\ d = At(NumDesc)
  BY <1>1, AtEnds DEF Position, Taken
<1>3. slot[e] \in Halves /\ Gap \in Nat /\ Gap < NumDesc
  BY <1>1, TakenFrame, TakenGood
<1>4. own[e] = None
  BY <1>1 DEF Taken
<1>5. d = e \/ slot[d] = None
  <2>1. CASE Gap = 0
    BY <1>2, <2>1
  <2>2. CASE Gap > 0
    <3>1. 0 \in 0 .. Gap - 1
      BY <1>3, <2>2
    <3>. QED BY <1>1, <1>2, <3>1 DEF RingInv, GapEmpty, At
  <2>. QED BY <1>3, <2>1, <2>2
<1>6. /\ pc' \in {"idle", "loop", "fill", "end"} /\ who' \in {"poll", "reset"}
      /\ {cur, dirty, c}' \subseteq 0 .. PtrMod - 1 /\ {left, got}' \subseteq Nat
      /\ Room' /\ Gap' = Gap
  BY <1>1, LoopOn
<1>7. /\ slot \in [Entry -> Halves \cup {None}] /\ refs \in [Buffers -> Nat] /\ held \subseteq Halves
      /\ own \in [Entry -> Halves \cup {Nowhere, None}] /\ st \in [Entry -> {"none", "good", "bad"}]
  BY DEF RingInv, TypeOK
<1>8. /\ b \in Buffers /\ other \in Halves /\ other # slot[e] /\ other # None /\ other[1] = b
      /\ \/ slot[e] = <<b, 0>> /\ other = <<b, 1>>
         \/ slot[e] = <<b, 1>> /\ other = <<b, 0>>
  BY <1>3, NoneAssumption DEF Halves
<1>9. In(slot[e], b) /\ slot[e] # None
  BY <1>3, NoneAssumption DEF In
<1>10. <<b, 0>> \notin held /\ <<b, 1>> \notin held
  <2>1. Users(b) = 1
    BY <1>1, <1>8 DEF RingInv, Counted
  <2>. QED BY <1>2, <1>9, <2>1 DEF Users
<1>11. \A x \in Entry : x # e => ~In(slot[x], b)
  BY <1>2, <1>9 DEF RingInv, OnePage, In
<1>. HIDE DEF e, d, b, other
<1>12. \A x \in Entry : slot'[x] = IF x = d THEN other ELSE IF x = e THEN None ELSE slot[x]
  BY <1>1, <1>2, <1>7
<1>13. \A x \in Entry : /\ own'[x] = IF x = d THEN other ELSE own[x]
                       /\ st'[x] = IF x = e THEN "none" ELSE st[x]
  BY <1>1, <1>2, <1>7
<1>14. TypeOK'
  <2>1. /\ own' \in [Entry -> Halves \cup {Nowhere, None}] /\ st' \in [Entry -> {"none", "good", "bad"}]
        /\ slot' \in [Entry -> Halves \cup {None}]
    BY <1>1, <1>2, <1>7, <1>8
  <2>2. refs' \in [Buffers -> Nat] /\ held' \subseteq Halves
    BY <1>1, <1>3, <1>7, <1>8
  <2>. QED BY <1>1, <1>6, <2>1, <2>2 DEF RingInv, TypeOK
<1>15. GapEmpty'
  <2>1. SUFFICES ASSUME NEW i \in 0 .. Gap - 1 PROVE slot'[At(i)'] = None
    BY <1>6 DEF GapEmpty, At
  <2>2. At(i)' = At(i + 1)
    BY <1>1, <1>3, AtAfterStep
  <2>3. i + 1 \in 0 .. NumDesc - 1 /\ i + 1 # 0
    BY <1>3, Sizes
  <2>4. At(i + 1) # d /\ At(i + 1) \in Entry
    BY <1>2, <2>3, AtDistinct, Sizes
  <2>5. CASE i + 1 = Gap
    BY <1>2, <1>12, <2>2, <2>4, <2>5
  <2>6. CASE i + 1 # Gap
    <3>1. i + 1 \in 0 .. Gap - 1
      BY <1>3, <2>6
    <3>2. slot[At(i + 1)] = None
      BY <1>1, <3>1 DEF RingInv, GapEmpty, At
    <3>. QED BY <1>12, <2>2, <2>4, <3>2
  <2>. QED BY <2>5, <2>6
<1>16. RestFilled'
  <2>1. SUFFICES ASSUME NEW i \in Gap .. NumDesc - 1
                 PROVE  own'[At(i)'] # None \/ st'[At(i)'] = "good"
    BY <1>6 DEF RestFilled, At
  <2>2. At(i)' = At(i + 1)
    BY <1>1, <1>3, AtAfterStep
  <2>3. CASE i + 1 = NumDesc
    BY <1>2, <1>8, <1>13, <2>2, <2>3
  <2>4. CASE i + 1 # NumDesc
    <3>1. i + 1 \in 0 .. NumDesc - 1 /\ i + 1 # 0 /\ i + 1 # Gap /\ i + 1 \in Gap .. NumDesc - 1
      BY <1>3, <2>4, Sizes
    <3>2. 0 \in 0 .. NumDesc - 1 /\ Gap \in 0 .. NumDesc - 1
      BY <1>3, Sizes
    <3>3. At(i + 1) # d /\ At(i + 1) # e /\ At(i + 1) \in Entry
      BY <1>2, <3>1, <3>2, AtDistinct
    <3>4. own[At(i + 1)] # None \/ st[At(i + 1)] = "good"
      BY <1>1, <3>1 DEF RingInv, RestFilled, At
    <3>. QED BY <1>13, <2>2, <3>3, <3>4
  <2>. QED BY <2>3, <2>4
<1>17. AllFilled'
  BY <1>1 DEF AllFilled
<1>18. OwnsSlot' /\ FrameHasSlot'
  BY <1>4, <1>8, <1>12, <1>13 DEF RingInv, OwnsSlot, FrameHasSlot
<1>19. WritesOwned'
  <2>1. dma # None => hw # d
    BY <1>2, <1>4, <1>5, EmptySlot DEF RingInv, WritesOwned
  <2>2. hw \in Entry
    BY DEF RingInv, TypeOK
  <2>. QED BY <1>1, <1>13, <2>1, <2>2 DEF RingInv, WritesOwned
<1>20. OnePage'
  <2>1. SUFFICES ASSUME NEW x \in Entry, NEW y \in Entry, x # y, slot'[x] # None, slot'[y] # None
                 PROVE  slot'[x][1] # slot'[y][1]
    BY DEF OnePage
  <2>2. CASE x # d /\ y # d
    BY <1>12, <2>1, <2>2 DEF RingInv, OnePage
  <2>3. CASE x = d
    BY <1>8, <1>11, <1>12, <2>1, <2>3 DEF In
  <2>4. CASE y = d
    BY <1>8, <1>11, <1>12, <2>1, <2>4 DEF In
  <2>. QED BY <2>2, <2>3, <2>4
<1>21. HeldApart'
  <2>1. other \notin held'
    BY <1>1, <1>8, <1>10
  <2>2. \A x \in Entry : x # e /\ slot[x] # None => slot[x] \notin held'
    BY <1>1, <1>9, <1>11 DEF RingInv, HeldApart, In
  <2>. QED BY <1>12, <2>1, <2>2 DEF HeldApart
<1>22. Counted'
  <2>1. SUFFICES ASSUME NEW k \in Buffers PROVE refs'[k] = Users(k)'
    BY DEF Counted
  <2>2. CASE k = b
    <3>1. \E x \in Entry : In(slot'[x], k)
      <4>1. In(slot'[d], k)
        BY <1>2, <1>8, <1>12, <2>2 DEF In
      <4>. QED BY <1>2, <4>1
    <3>2. \/ <<k, 0>> \in held' /\ <<k, 1>> \notin held'
          \/ <<k, 1>> \in held' /\ <<k, 0>> \notin held'
      BY <1>1, <1>8, <1>10, <2>2
    <3>3. Users(k)' = 2
      BY <3>1, <3>2 DEF Users, In
    <3>4. refs'[k] = 2
      BY <1>1, <1>7, <2>2
    <3>. QED BY <3>3, <3>4
  <2>3. CASE k # b
    <3>1. (\E x \in Entry : In(slot'[x], k)) <=> (\E x \in Entry : In(slot[x], k))
      BY <1>2, <1>5, <1>8, <1>9, <1>12, <2>3 DEF In
    <3>2. /\ <<k, 0>> \in held' <=> <<k, 0>> \in held
          /\ <<k, 1>> \in held' <=> <<k, 1>> \in held
      BY <1>1, <1>8, <2>3
    <3>3. Users(k)' = Users(k)
      BY <3>1, <3>2 DEF Users, In
    <3>4. refs'[k] = refs[k]
      BY <1>1, <1>7, <2>3
    <3>. QED BY <3>3, <3>4 DEF RingInv, Counted
  <2>. QED BY <2>2, <2>3
<1>. QED BY <1>6, <1>14, <1>15, <1>16, <1>17, <1>18, <1>19, <1>20, <1>21, <1>22 DEF RingInv

LEMMA GiveAwayStep ==
  ASSUME RingInv, GiveAway
  PROVE  RingInv'
<1>. DEFINE e == EntryOf(c)  b == slot[e][1]
<1>1. /\ mode = "reuse" /\ Taken /\ st[e] = "good"
      /\ held' = held \cup {slot[e]}
      /\ slot' = [slot EXCEPT ![e] = None]
      /\ st' = [st EXCEPT ![e] = "none"]
      /\ Proceed(1)
      /\ UNCHANGED <<mode, cur, dirty, own, refs>> /\ UNCHANGED <<on, linking, hw, dma, isr, imr>>
      /\ UNCHANGED <<pc, who, spent, reset>>
  BY DEF GiveAway, chip, pointers
<1>2. e \in Entry /\ e = At(Gap)
  BY <1>1, AtEnds DEF Position, Taken
<1>3. slot[e] \in Halves /\ slot[e] # None /\ Gap \in Nat /\ Gap < NumDesc
  BY <1>1, TakenFrame, TakenGood, NoneAssumption
<1>4. own[e] = None
  BY <1>1 DEF Taken
<1>5. /\ pc' \in {"idle", "loop", "fill", "end"} /\ who' \in {"poll", "reset"}
      /\ {cur, dirty, c}' \subseteq 0 .. PtrMod - 1 /\ {left, got}' \subseteq Nat
      /\ Room' /\ Gap' = Gap + 1
  BY <1>1, LoopOn
<1>6. /\ slot \in [Entry -> Halves \cup {None}] /\ refs \in [Buffers -> Nat] /\ held \subseteq Halves
      /\ st \in [Entry -> {"none", "good", "bad"}]
  BY DEF RingInv, TypeOK
<1>7. b \in Buffers /\ (slot[e] = <<b, 0>> \/ slot[e] = <<b, 1>>)
  BY <1>3 DEF Halves
<1>8. \A x \in Entry : x # e => ~In(slot[x], b)
  BY <1>2, <1>3 DEF RingInv, OnePage, In
<1>9. slot[e] \notin held
  BY <1>2, <1>3 DEF RingInv, HeldApart
<1>. HIDE DEF e, b
<1>10. \A x \in Entry : /\ slot'[x] = IF x = e THEN None ELSE slot[x]
                        /\ st'[x] = IF x = e THEN "none" ELSE st[x]
  BY <1>1, <1>2, <1>6
<1>11. TypeOK'
  <2>1. slot' \in [Entry -> Halves \cup {None}] /\ st' \in [Entry -> {"none", "good", "bad"}]
    BY <1>1, <1>2, <1>6
  <2>2. held' \subseteq Halves
    BY <1>1, <1>3, <1>6
  <2>. QED BY <1>1, <1>5, <2>1, <2>2 DEF RingInv, TypeOK
<1>12. \A i \in Int : At(i)' = At(i)
  BY <1>1 DEF At
<1>13. GapEmpty'
  <2>1. SUFFICES ASSUME NEW i \in 0 .. Gap PROVE slot'[At(i)] = None
    BY <1>3, <1>5, <1>12 DEF GapEmpty, At
  <2>2. CASE i = Gap
    BY <1>2, <1>10, <2>2
  <2>3. CASE i # Gap
    <3>1. i \in 0 .. Gap - 1 /\ i \in 0 .. NumDesc - 1
      BY <1>3, <2>3, Sizes
    <3>2. slot[At(i)] = None /\ At(i) \in Entry
      BY <1>1, <3>1, EntryType DEF RingInv, TypeOK, GapEmpty, At
    <3>. QED BY <1>10, <3>2
  <2>. QED BY <2>2, <2>3
<1>14. RestFilled'
  <2>1. SUFFICES ASSUME NEW i \in Gap + 1 .. NumDesc - 1
                 PROVE  own[At(i)] # None \/ st'[At(i)] = "good"
    BY <1>1, <1>5, <1>12 DEF RestFilled, At
  <2>2. i \in Gap .. NumDesc - 1 /\ i \in 0 .. NumDesc - 1 /\ Gap \in 0 .. NumDesc - 1 /\ i # Gap
    BY <1>3, Sizes
  <2>3. At(i) # e /\ At(i) \in Entry
    BY <1>2, <2>2, AtDistinct
  <2>4. own[At(i)] # None \/ st[At(i)] = "good"
    BY <1>1, <2>2 DEF RingInv, RestFilled, At
  <2>. QED BY <1>10, <2>3, <2>4
<1>15. AllFilled'
  BY <1>1 DEF AllFilled
<1>16. OwnsSlot' /\ WritesOwned' /\ FrameHasSlot'
  BY <1>1, <1>4, <1>10 DEF RingInv, OwnsSlot, WritesOwned, FrameHasSlot
<1>17. OnePage'
  BY <1>10 DEF RingInv, OnePage
<1>18. HeldApart'
  BY <1>1, <1>3, <1>7, <1>8, <1>10 DEF RingInv, HeldApart, In
<1>19. Counted'
  <2>1. SUFFICES ASSUME NEW k \in Buffers PROVE Users(k)' = Users(k)
    BY <1>1 DEF RingInv, Counted
  <2>2. CASE k = b
    <3>1. \E x \in Entry : In(slot[x], k)
      <4>1. In(slot[e], k)
        BY <1>3, <1>7, <2>2 DEF In
      <4>. QED BY <1>2, <4>1
    <3>2. ~ \E x \in Entry : In(slot'[x], k)
      BY <1>8, <1>10, <2>2 DEF In
    <3>3. \/ /\ <<k, 0>> \in held' /\ <<k, 0>> \notin held
             /\ <<k, 1>> \in held' <=> <<k, 1>> \in held
          \/ /\ <<k, 1>> \in held' /\ <<k, 1>> \notin held
             /\ <<k, 0>> \in held' <=> <<k, 0>> \in held
      BY <1>1, <1>7, <1>9, <2>2
    <3>. QED BY <3>1, <3>2, <3>3 DEF Users, In
  <2>3. CASE k # b
    <3>1. (\E x \in Entry : In(slot'[x], k)) <=> (\E x \in Entry : In(slot[x], k))
      BY <1>2, <1>7, <1>10, <2>3 DEF In
    <3>2. /\ <<k, 0>> \in held' <=> <<k, 0>> \in held
          /\ <<k, 1>> \in held' <=> <<k, 1>> \in held
      BY <1>1, <1>7, <2>3
    <3>. QED BY <3>1, <3>2 DEF Users, In
  <2>. QED BY <2>2, <2>3
<1>. QED BY <1>5, <1>11, <1>13, <1>14, <1>15, <1>16, <1>17, <1>18, <1>19 DEF RingInv

-----------------------------------------------------------------------------
(* The fill *)

\* A step of the fill: the gap shrinks by a descriptor.
LEMMA FillOn ==
  ASSUME RingInv, pc = "fill", dirty # cur, dirty' = Step(dirty),
         UNCHANGED <<cur, pc, who, c, left, got>>
  PROVE  /\ {cur, dirty, c}' \subseteq 0 .. PtrMod - 1
         /\ Gap \in Nat \ {0} /\ Gap <= NumDesc /\ Gap' = Gap - 1 /\ Room'
<1>1. cur \in Pointer /\ dirty \in Pointer
  BY DEF RingInv, TypeOK, Pointer
<1>2. Gap = Distance(dirty, cur) /\ Gap' = Distance(Step(dirty), cur)
  BY DEF Gap, Position, Distance
<1>3. Gap \in Nat \ {0} /\ Gap' = Gap - 1 /\ Step(dirty) \in Pointer
  BY <1>1, <1>2, Distances, Sizes
<1>4. Gap <= NumDesc /\ Room'
  BY <1>3, Sizes DEF RingInv, Room
<1>. QED BY <1>1, <1>3, <1>4 DEF RingInv, TypeOK, Pointer

\* A filled slot is passed only where frames are copied.
LEMMA FillSkipStep ==
  ASSUME RingInv, FillSkip
  PROVE  RingInv'
<1>1. /\ pc = "fill" /\ dirty # cur /\ slot[EntryOf(dirty)] # None /\ dirty' = Step(dirty)
      /\ UNCHANGED <<mode, memory>> /\ UNCHANGED <<own, st, slot>>
      /\ UNCHANGED <<cur, pc, who, c, left, got>> /\ UNCHANGED <<on, linking, hw, dma>>
      /\ UNCHANGED <<isr, imr, spent, reset>>
  BY DEF FillSkip, FillAt, desc, memory, chip, driver
<1>2. {cur, dirty, c}' \subseteq 0 .. PtrMod - 1 /\ Gap \in Nat \ {0} /\ Room'
  BY <1>1, FillOn
<1>3. mode # "reuse"
  <2>1. 0 \in 0 .. Gap - 1 /\ At(0) = EntryOf(dirty)
    BY <1>2, AtEnds
  <2>. QED BY <1>1, <2>1 DEF RingInv, GapEmpty, At
<1>4. TypeOK'
  BY <1>1, <1>2 DEF RingInv, TypeOK, memory
<1>5. AllFilled' /\ OnePage' /\ HeldApart' /\ Counted'
  BY <1>1, BuffersKept
<1>6. OwnsSlot' /\ FrameHasSlot'
  BY <1>1, SlotsKept
<1>7. WritesOwned'
  BY <1>1 DEF RingInv, WritesOwned
<1>8. GapEmpty' /\ RestFilled'
  BY <1>1, <1>3 DEF GapEmpty, RestFilled
<1>. QED BY <1>2, <1>4, <1>5, <1>6, <1>7, <1>8 DEF RingInv

\* A page that nobody uses goes to the first descriptor without one.
LEMMA FillAllocStep ==
  ASSUME RingInv, FillAlloc
  PROVE  RingInv'
<1>. DEFINE e == EntryOf(dirty)  b == CHOOSE b \in Free : TRUE
<1>1. /\ pc = "fill" /\ dirty # cur /\ slot[e] = None /\ dirty' = Step(dirty) /\ Free # {}
      /\ refs' = [refs EXCEPT ![b] = 1]
      /\ slot' = [slot EXCEPT ![e] = <<b, 0>>]
      /\ own' = [own EXCEPT ![e] = <<b, 0>>]
      /\ UNCHANGED <<mode, cur, st, held>> /\ UNCHANGED <<cur, pc, who, c, left, got>>
      /\ UNCHANGED <<on, linking, hw, dma>> /\ UNCHANGED <<isr, imr, spent, reset>>
  BY DEF FillAlloc, FillAt, chip, driver
<1>2. b \in Free /\ b \in Buffers /\ refs[b] = 0
  BY <1>1 DEF Free
<1>3. e \in Entry /\ e = At(0) /\ e = At(NumDesc)
  BY AtEnds
<1>4. {cur, dirty, c}' \subseteq 0 .. PtrMod - 1 /\ Gap \in Nat \ {0} /\ Gap <= NumDesc
      /\ Gap' = Gap - 1 /\ Room'
  BY <1>1, FillOn
<1>5. /\ slot \in [Entry -> Halves \cup {None}] /\ refs \in [Buffers -> Nat] /\ held \subseteq Halves
      /\ own \in [Entry -> Halves \cup {Nowhere, None}]
  BY DEF RingInv, TypeOK
<1>6. own[e] = None /\ (dma # None => hw # e)
  BY <1>1, <1>3, EmptySlot
<1>. HIDE DEF e, b
<1>7. /\ \A x \in Entry : ~In(slot[x], b)
      /\ <<b, 0>> \notin held /\ <<b, 1>> \notin held
  <2>1. Users(b) = 0
    BY <1>2 DEF RingInv, Counted
  <2>. QED BY <2>1 DEF Users
<1>8. <<b, 0>> \in Halves /\ <<b, 0>> # None
  BY <1>2, NoneAssumption DEF Halves
<1>9. \A x \in Entry : /\ slot'[x] = IF x = e THEN <<b, 0>> ELSE slot[x]
                       /\ own'[x] = IF x = e THEN <<b, 0>> ELSE own[x]
  BY <1>1, <1>3, <1>5
<1>10. TypeOK'
  <2>1. slot' \in [Entry -> Halves \cup {None}] /\ own' \in [Entry -> Halves \cup {Nowhere, None}]
    BY <1>1, <1>3, <1>5, <1>8
  <2>2. refs' \in [Buffers -> Nat]
    BY <1>1, <1>2, <1>5
  <2>. QED BY <1>1, <1>4, <2>1, <2>2 DEF RingInv, TypeOK
<1>11. GapEmpty'
  <2>1. SUFFICES ASSUME mode = "reuse", NEW i \in 0 .. Gap - 2 PROVE slot'[At(i)'] = None
    BY <1>1, <1>4 DEF GapEmpty, At
  <2>2. At(i)' = At(i + 1)
    BY <1>1, AtAfterStep
  <2>3. i + 1 \in 0 .. Gap - 1 /\ i + 1 \in 0 .. NumDesc - 1 /\ 0 \in 0 .. NumDesc - 1 /\ i + 1 # 0
    BY <1>4, Sizes
  <2>4. At(i + 1) # e /\ At(i + 1) \in Entry
    BY <1>3, <2>3, AtDistinct
  <2>5. slot[At(i + 1)] = None
    BY <2>1, <2>3 DEF RingInv, GapEmpty, At
  <2>. QED BY <1>9, <2>2, <2>4, <2>5
<1>12. RestFilled'
  <2>1. SUFFICES ASSUME mode = "reuse", NEW i \in Gap - 1 .. NumDesc - 1
                 PROVE  own'[At(i)'] # None \/ st[At(i)'] = "good"
    BY <1>1, <1>4 DEF RestFilled, At
  <2>2. At(i)' = At(i + 1)
    BY <1>1, <1>4, AtAfterStep
  <2>3. CASE i + 1 = NumDesc
    BY <1>3, <1>8, <1>9, <2>2, <2>3
  <2>4. CASE i + 1 # NumDesc
    <3>1. /\ i + 1 \in Gap .. NumDesc - 1 /\ i + 1 \in 0 .. NumDesc - 1
          /\ 0 \in 0 .. NumDesc - 1 /\ i + 1 # 0
      BY <1>4, <2>4, Sizes
    <3>2. At(i + 1) # e /\ At(i + 1) \in Entry
      BY <1>3, <3>1, AtDistinct
    <3>3. own[At(i + 1)] # None \/ st[At(i + 1)] = "good"
      BY <2>1, <3>1 DEF RingInv, RestFilled, At
    <3>. QED BY <1>9, <2>2, <3>2, <3>3
  <2>. QED BY <2>3, <2>4
<1>13. AllFilled' /\ FrameHasSlot' /\ OwnsSlot'
  BY <1>1, <1>8, <1>9 DEF RingInv, AllFilled, FrameHasSlot, OwnsSlot
<1>14. WritesOwned'
  <2>1. hw \in Entry
    BY DEF RingInv, TypeOK
  <2>. QED BY <1>1, <1>6, <1>9, <2>1 DEF RingInv, WritesOwned
<1>15. OnePage'
  <2>1. SUFFICES ASSUME NEW x \in Entry, NEW y \in Entry, x # y, slot'[x] # None, slot'[y] # None
                 PROVE  slot'[x][1] # slot'[y][1]
    BY DEF OnePage
  <2>2. CASE x # e /\ y # e
    BY <1>9, <2>1, <2>2 DEF RingInv, OnePage
  <2>3. CASE x = e
    BY <1>7, <1>9, <2>1, <2>3 DEF In
  <2>4. CASE y = e
    BY <1>7, <1>9, <2>1, <2>4 DEF In
  <2>. QED BY <2>2, <2>3, <2>4
<1>16. HeldApart'
  BY <1>1, <1>7, <1>9 DEF RingInv, HeldApart
<1>17. Counted'
  <2>1. SUFFICES ASSUME NEW k \in Buffers PROVE refs'[k] = Users(k)'
    BY DEF Counted
  <2>2. CASE k = b
    <3>1. \E x \in Entry : In(slot'[x], k)
      <4>1. In(slot'[e], k)
        BY <1>3, <1>8, <1>9, <2>2 DEF In
      <4>. QED BY <1>3, <4>1
    <3>2. <<k, 0>> \notin held' /\ <<k, 1>> \notin held'
      BY <1>1, <1>7, <2>2
    <3>3. Users(k)' = 1
      BY <3>1, <3>2 DEF Users, In
    <3>4. refs'[k] = 1
      BY <1>1, <1>5, <2>2
    <3>. QED BY <3>3, <3>4
  <2>3. CASE k # b
    <3>1. (\E x \in Entry : In(slot'[x], k)) <=> (\E x \in Entry : In(slot[x], k))
      BY <1>1, <1>3, <1>9, <2>3 DEF In
    <3>2. Users(k)' = Users(k)
      BY <1>1, <3>1 DEF Users, In
    <3>3. refs'[k] = refs[k]
      BY <1>1, <1>5, <2>3
    <3>. QED BY <3>2, <3>3 DEF RingInv, Counted
  <2>. QED BY <2>2, <2>3
<1>. QED BY <1>4, <1>10, <1>11, <1>12, <1>13, <1>14, <1>15, <1>16, <1>17 DEF RingInv

\* A fill comes to an end without memory only where pages are shared.
LEMMA FillShortStep ==
  ASSUME RingInv, FillShort
  PROVE  RingInv'
<1>1. PICK e \in Entry : slot[e] = None /\ own' = IF mode = "copy" THEN [own EXCEPT ![e] = None] ELSE own
  BY DEF FillShort
<1>2. mode # "copy"
  BY <1>1 DEF RingInv, AllFilled
<1>3. /\ UNCHANGED <<mode, own, st, slot, dirty>> /\ UNCHANGED <<mode, memory>>
      /\ UNCHANGED <<own, st, slot>> /\ UNCHANGED <<cur, who, c, left, got>>
      /\ UNCHANGED <<on, linking, hw, dma>> /\ UNCHANGED <<isr, imr, spent, reset>>
      /\ pc = "fill" /\ pc' = "end"
  BY <1>1, <1>2 DEF FillShort, FillAt, pointers, memory, chip
<1>4. Position' = Position
  BY <1>3 DEF Position
<1>5. GapEmpty' /\ RestFilled' /\ Gap' = Gap
  BY <1>3, <1>4, GapKept
<1>6. AllFilled' /\ OnePage' /\ HeldApart' /\ Counted'
  BY <1>3, BuffersKept
<1>7. OwnsSlot' /\ FrameHasSlot'
  BY <1>3, SlotsKept
<1>8. Room' /\ WritesOwned'
  BY <1>3, <1>5 DEF RingInv, Room, WritesOwned
<1>9. TypeOK'
  BY <1>3 DEF RingInv, TypeOK, memory
<1>. QED BY <1>5, <1>6, <1>7, <1>8, <1>9 DEF RingInv

-----------------------------------------------------------------------------
(* The ring filled anew *)

\* A full ring with both counters at its first descriptor.
LEMMA NewRing ==
  ASSUME NEW S \in SUBSET Buffers, Cardinality(S) >= NumDesc,
         NEW new, new = Fresh(S)
  PROVE  /\ new \in [Entry -> Halves]
         /\ \A e \in Entry : new[e] # None /\ new[e][2] = 0 /\ new[e][1] \in S
         /\ \A e, f \in Entry : e # f => new[e][1] # new[f][1]
         /\ \A b \in Buffers : (\E e \in Entry : In(new[e], b)) <=> <<b, 0>> \in Range(new)
<1>1. new \in [Entry -> S \X {0}] /\ \A e, f \in Entry : e # f => new[e] # new[f]
  BY FreshPages
<1>2. S \X {0} \subseteq Halves
  BY DEF Halves
<1>3. new \in [Entry -> Halves]
  BY <1>1, <1>2
<1>4. \A e \in Entry : new[e] # None /\ new[e][2] = 0 /\ new[e][1] \in S /\ new[e] = <<new[e][1], 0>>
  BY <1>1, <1>3, NoneAssumption
<1>5. \A e, f \in Entry : e # f => new[e][1] # new[f][1]
  BY <1>1, <1>4
<1>6. ASSUME NEW b \in Buffers
      PROVE  (\E e \in Entry : In(new[e], b)) <=> <<b, 0>> \in Range(new)
  <2>1. Range(new) = {new[e] : e \in Entry}
    BY <1>1 DEF Range
  <2>. QED BY <1>4, <2>1 DEF In
<1>. QED BY <1>3, <1>4, <1>5, <1>6

\* No descriptor of a full ring lies between counters that are equal.
Full ==
  /\ cur = 0 /\ dirty = 0 /\ pc = "idle" /\ own = slot /\ dma = None
  /\ \A e \in Entry : slot[e] # None /\ st[e] = "none"

LEMMA FullRing ==
  Full => Room /\ GapEmpty /\ RestFilled /\ AllFilled /\ OwnsSlot /\ WritesOwned /\ FrameHasSlot
<1>. SUFFICES ASSUME Full
              PROVE  /\ Room /\ GapEmpty /\ RestFilled
                     /\ AllFilled /\ OwnsSlot /\ WritesOwned /\ FrameHasSlot
  OBVIOUS
<1>1. Gap = 0
  <2>1. 0 \in Pointer
    BY Sizes DEF Pointer
  <2>. QED BY <2>1, Distances DEF Full, Gap, Position
<1>2. \A i \in 0 .. NumDesc - 1 : (dirty + i) % NumDesc \in Entry
  BY EntryType DEF Full
<1>3. Room /\ GapEmpty
  BY <1>1, Sizes DEF Full, Room, GapEmpty
<1>4. RestFilled
  BY <1>1, <1>2 DEF Full, RestFilled
<1>. QED BY <1>3, <1>4 DEF Full, AllFilled, OwnsSlot, WritesOwned, FrameHasSlot

LEMMA ReinitStep ==
  ASSUME RingInv, Undamaged, Reinit
  PROVE  RingInv'
<1>1. /\ Cardinality(Cleanable) >= NumDesc
      /\ slot' = Fresh(Cleanable) /\ own' = slot' /\ st' = [e \in Entry |-> "none"]
      /\ refs' = [b \in Buffers |-> IF <<b, 0>> \in Range(slot') THEN 1 ELSE Cleared[b]]
      /\ cur' = 0 /\ dirty' = 0
      /\ on' = FALSE /\ linking' = TRUE /\ dma' = None /\ isr' = FALSE
      /\ pc' = "idle" /\ who' = "poll" /\ c' = 0 /\ left' = 0 /\ got' = 0
      /\ UNCHANGED <<mode, held, hw, imr, spent, reset>>
  BY DEF Reinit, Fillings, Undamaged, ChipOff, Return
<1>2. Cleanable \in SUBSET Buffers
  BY DEF Cleanable
<1>3. /\ slot' \in [Entry -> Halves]
      /\ \A e \in Entry : slot'[e] # None /\ slot'[e][2] = 0 /\ slot'[e][1] \in Cleanable
      /\ \A e, f \in Entry : e # f => slot'[e][1] # slot'[f][1]
      /\ \A b \in Buffers : (\E e \in Entry : In(slot'[e], b)) <=> <<b, 0>> \in Range(slot')
  BY <1>1, <1>2, NewRing
<1>4. ASSUME NEW b \in Buffers
      PROVE  /\ Cleared[b] \in Nat
             /\ Cleared[b] = 0 => <<b, 0>> \notin held /\ <<b, 1>> \notin held
  <2>1. Cleared[b] = (IF <<b, 0>> \in held THEN 1 ELSE 0) + (IF <<b, 1>> \in held THEN 1 ELSE 0)
    BY AfterClear
  <2>. QED BY <2>1
<1>5. \A b \in Cleanable : <<b, 0>> \notin held /\ <<b, 1>> \notin held
  BY <1>4 DEF Cleanable
<1>6. TypeOK'
  <2>1. refs' \in [Buffers -> Nat]
    BY <1>1, <1>4
  <2>2. 0 \in 0 .. PtrMod - 1 /\ 0 \in Nat
    BY Sizes
  <2>3. /\ slot' \in [Entry -> Halves \cup {None}]
        /\ own' \in [Entry -> Halves \cup {Nowhere, None}]
        /\ st' \in [Entry -> {"none", "good", "bad"}]
    BY <1>1, <1>3
  <2>. QED BY <1>1, <2>1, <2>2, <2>3 DEF RingInv, TypeOK
<1>7. Room' /\ GapEmpty' /\ RestFilled' /\ AllFilled' /\ OwnsSlot' /\ WritesOwned' /\ FrameHasSlot'
  <2>1. Full'
    BY <1>1, <1>3 DEF Full
  <2>. QED BY <2>1, FullRing, PTL
<1>8. OnePage' /\ HeldApart'
  <2>1. \A e \in Entry : slot'[e] = <<slot'[e][1], 0>>
    BY <1>3 DEF Halves
  <2>. QED BY <1>1, <1>3, <1>5, <2>1 DEF OnePage, HeldApart
<1>9. Counted'
  <2>1. SUFFICES ASSUME NEW b \in Buffers PROVE refs'[b] = Users(b)'
    BY DEF Counted
  <2>2. CASE <<b, 0>> \in Range(slot')
    <3>1. \E e \in Entry : In(slot'[e], b)
      BY <1>3, <2>2
    <3>2. b \in Cleanable
      BY <1>3, <3>1 DEF In
    <3>3. <<b, 0>> \notin held' /\ <<b, 1>> \notin held'
      BY <1>1, <1>5, <3>2
    <3>4. Users(b)' = 1
      BY <3>1, <3>3 DEF Users, In
    <3>. QED BY <1>1, <2>2, <3>4
  <2>3. CASE <<b, 0>> \notin Range(slot')
    <3>1. ~ \E e \in Entry : In(slot'[e], b)
      BY <1>3, <2>3
    <3>2. Users(b)' = (IF <<b, 0>> \in held THEN 1 ELSE 0) + (IF <<b, 1>> \in held THEN 1 ELSE 0)
      BY <1>1, <3>1 DEF Users, In
    <3>3. refs'[b] = Cleared[b]
      BY <1>1, <2>3
    <3>. QED BY <3>2, <3>3, AfterClear
  <2>. QED BY <2>2, <2>3
<1>. QED BY <1>6, <1>7, <1>8, <1>9 DEF RingInv

LEMMA InitRing == Init => RingInv
<1>. SUFFICES ASSUME Init PROVE RingInv
  OBVIOUS
<1>1. Buffers \in SUBSET Buffers /\ Cardinality(Buffers) >= NumDesc
  BY FS_Interval, RingAssumption DEF Buffers
<1>2. /\ slot \in [Entry -> Halves]
      /\ \A e \in Entry : slot[e] # None /\ slot[e][2] = 0 /\ slot[e][1] \in Buffers
      /\ \A e, f \in Entry : e # f => slot[e][1] # slot[f][1]
      /\ \A b \in Buffers : (\E e \in Entry : In(slot[e], b)) <=> <<b, 0>> \in Range(slot)
  BY <1>1, NewRing DEF Init
<1>3. TypeOK
  <2>1. 0 \in 0 .. PtrMod - 1 /\ 0 \in Entry
    BY Sizes DEF Entry
  <2>2. /\ slot \in [Entry -> Halves \cup {None}]
        /\ own \in [Entry -> Halves \cup {Nowhere, None}]
        /\ st \in [Entry -> {"none", "good", "bad"}]
    BY <1>2 DEF Init
  <2>3. refs \in [Buffers -> Nat] /\ held \subseteq Halves
    BY DEF Init
  <2>4. {on, linking, isr, imr, spent, reset} \subseteq BOOLEAN
    BY DEF Init
  <2>5. /\ mode \in Modes /\ who \in {"poll", "reset"} /\ pc \in {"idle", "loop", "fill", "end"}
        /\ hw \in Entry /\ dma \in Halves \cup {Nowhere, None}
    BY <2>1 DEF Init
  <2>6. {cur, dirty, c} \subseteq 0 .. PtrMod - 1 /\ {left, got} \subseteq Nat
    BY <2>1 DEF Init
  <2>. QED BY <2>2, <2>3, <2>4, <2>5, <2>6 DEF TypeOK
<1>4. Room /\ GapEmpty /\ RestFilled /\ AllFilled /\ OwnsSlot /\ WritesOwned /\ FrameHasSlot
  <2>1. Full
    BY <1>2 DEF Init, Full
  <2>. QED BY <2>1, FullRing
<1>5. OnePage /\ HeldApart
  BY <1>2 DEF Init, OnePage, HeldApart
<1>6. Counted
  <2>1. SUFFICES ASSUME NEW b \in Buffers PROVE refs[b] = Users(b)
    BY DEF Counted
  <2>2. refs[b] = IF <<b, 0>> \in Range(slot) THEN 1 ELSE 0
    BY DEF Init
  <2>3. Users(b) = IF \E e \in Entry : In(slot[e], b) THEN 1 ELSE 0
    BY DEF Init, Users
  <2>. QED BY <1>2, <2>2, <2>3
<1>. QED BY <1>3, <1>4, <1>5, <1>6 DEF RingInv

-----------------------------------------------------------------------------
(* The invariant holds *)

LEMMA RingStep ==
  ASSUME RingInv, Undamaged, [Next]_vars
  PROVE  RingInv'
<1>1. CASE Fetch \/ FrameMissed \/ Interrupt \/ LoopEnd \/ PollEnd \/ ResetBegin \/ Shortage \/ LinkOn
  BY <1>1, QuietSteps
<1>2. CASE WriteBack \/ StackFree
  BY <1>2, WriteBackStep, StackFreeStep
<1>3. CASE Release \/ Copy \/ Reuse \/ GiveAway
  BY <1>3, GiveBackStep, ReuseStep, GiveAwayStep
<1>4. CASE FillSkip \/ FillAlloc \/ FillShort
  BY <1>4, FillSkipStep, FillAllocStep, FillShortStep
<1>5. CASE Reinit
  BY <1>5, ReinitStep
<1>6. CASE UNCHANGED vars
  <2>1. /\ UNCHANGED <<mode, own, st, slot, dirty>> /\ UNCHANGED <<mode, memory>>
        /\ UNCHANGED <<own, st, slot>> /\ UNCHANGED <<cur, dirty, pc, who, c, left, got>>
        /\ UNCHANGED <<on, linking, hw, dma, isr, imr, spent, reset>>
    BY <1>6 DEF vars, pointers, desc, memory, chip, driver
  <2>2. Position' = Position
    BY <2>1 DEF Position
  <2>3. GapEmpty' /\ RestFilled' /\ Gap' = Gap
    BY <2>1, <2>2, GapKept
  <2>4. AllFilled' /\ OnePage' /\ HeldApart' /\ Counted' /\ OwnsSlot' /\ FrameHasSlot'
    BY <2>1, BuffersKept, SlotsKept
  <2>5. Room' /\ WritesOwned' /\ TypeOK'
    BY <2>1, <2>3 DEF RingInv, Room, WritesOwned, TypeOK, memory
  <2>. QED BY <2>3, <2>4, <2>5 DEF RingInv
<1>. QED BY <1>1, <1>2, <1>3, <1>4, <1>5, <1>6 DEF Next, Poll, ResetTask

-----------------------------------------------------------------------------
(* The order of the frames *)

\* A descriptor is the chip's or has a frame, not both, and in the build that
\* copies not neither.
OneState == \A e \in Entry : own[e] # None => st[e] = "none"
Covered == mode = "copy" => \A e \in Entry : own[e] # None \/ st[e] # "none"

\* From rtl8125_init_ring to the link nothing happens to the new ring.
Waits ==
  /\ dma # None => on
  /\ who = "reset" => ~imr /\ ~reset
  /\ linking => /\ ~on /\ ~reset /\ ~imr /\ pc = "idle" /\ who = "poll" /\ cur = 0
                /\ \A e \in Entry : st[e] = "none"

\* The frames lie in the n descriptors from the loop on, and the chip is at the
\* one behind them.
Ahead(i) == (Position + i) % NumDesc
Frames(n) ==
  /\ \A i \in 0 .. NumDesc - 1 : st[Ahead(i)] # "none" <=> i < n
  /\ on => hw = Ahead(n)

OrderInv == OneState /\ Covered /\ Waits /\ \E n \in 0 .. NumDesc : Frames(n)

LEMMA AheadEntries ==
  ASSUME RingInv
  PROVE  /\ \A i \in Int : Ahead(i) \in Entry
         /\ Ahead(0) = EntryOf(Position) /\ Ahead(NumDesc) = Ahead(0)
         /\ \A i, j \in 0 .. NumDesc - 1 : i # j => Ahead(i) # Ahead(j)
<1>1. Position \in Int
  BY DEF RingInv, TypeOK, Position
<1>2. \A i \in Int : Ahead(i) \in Entry
  BY <1>1, EntryType DEF Ahead
<1>3. Ahead(0) = EntryOf(Position) /\ Ahead(NumDesc) = Ahead(0)
  <2>1. (Position + NumDesc) % NumDesc = Position % NumDesc
    BY <1>1, ShiftOnce, Sizes
  <2>2. Position + 0 = Position
    BY <1>1
  <2>. QED BY <2>1, <2>2 DEF Ahead, EntryOf
<1>4. ASSUME NEW i \in 0 .. NumDesc - 1, NEW j \in 0 .. NumDesc - 1, i < j
      PROVE  Ahead(i) # Ahead(j)
  <2>1. Position + i \in Int /\ j - i \in 1 .. NumDesc - 1 /\ (Position + i) + (j - i) = Position + j
    BY <1>1, <1>4, Sizes
  <2>2. ((Position + i) + (j - i)) % NumDesc # (Position + i) % NumDesc
    BY <2>1, Apart, Sizes
  <2>. QED BY <2>1, <2>2 DEF Ahead
<1>5. \A i, j \in 0 .. NumDesc - 1 : i # j => Ahead(i) # Ahead(j)
  BY <1>4, Sizes
<1>. QED BY <1>2, <1>3, <1>5

\* Every descriptor is ahead of the loop.
LEMMA AheadCovers ==
  ASSUME RingInv, NEW e \in Entry
  PROVE  \E i \in 0 .. NumDesc - 1 : Ahead(i) = e
<1>1. Position \in Int /\ e \in Int
  BY Sizes DEF RingInv, TypeOK, Position, Entry
<1>2. PICK q \in Int : /\ e - Position = NumDesc * q + ((e - Position) % NumDesc)
                       /\ (e - Position) % NumDesc \in 0 .. NumDesc - 1
  <2>1. e - Position \in Int
    BY <1>1
  <2>. QED BY <2>1, Sizes, Divided
<1>. DEFINE i == (e - Position) % NumDesc
<1>3. Position + i = e + NumDesc * (-q)
  <2>1. i \in Int /\ e - Position = NumDesc * q + i
    BY <1>2, Sizes
  <2>2. NumDesc * (-q) = -(NumDesc * q) /\ NumDesc * q \in Int
    BY Sizes
  <2>. HIDE DEF i
  <2>. QED BY <1>1, <2>1, <2>2
<1>4. (e + NumDesc * (-q)) % NumDesc = e % NumDesc
  <2>1. -q \in Int
    BY <1>2
  <2>. QED BY <1>1, <2>1, Shift, Sizes
<1>5. e % NumDesc = e
  BY SmallRemainder, Sizes DEF Entry
<1>. QED BY <1>2, <1>3, <1>4, <1>5 DEF Ahead

\* The descriptor after one that is ahead.
LEMMA AheadNext ==
  ASSUME RingInv, NEW n \in Int
  PROVE  (Ahead(n) + 1) % NumDesc = Ahead(n + 1)
<1>1. Position + n \in Int
  BY DEF RingInv, TypeOK, Position
<1>2. PICK q \in Int : /\ Position + n = NumDesc * q + Ahead(n)
                       /\ Ahead(n) \in 0 .. NumDesc - 1
  BY <1>1, Sizes, Divided DEF Ahead
<1>3. Position + (n + 1) = (Ahead(n) + 1) + NumDesc * q
  <2>1. Position + (n + 1) = (Position + n) + 1
    BY DEF RingInv, TypeOK, Position
  <2>2. NumDesc * q \in Int /\ Ahead(n) \in Int
    BY <1>2, Sizes
  <2>. QED BY <1>1, <1>2, <2>1, <2>2
<1>4. ((Ahead(n) + 1) + NumDesc * q) % NumDesc = (Ahead(n) + 1) % NumDesc
  <2>1. Ahead(n) + 1 \in Int
    BY <1>2, Sizes
  <2>. QED BY <1>2, <2>1, Shift, Sizes
<1>. QED BY <1>3, <1>4 DEF Ahead

\* Steps that take no frame and bring none.
LEMMA OrderKept ==
  ASSUME OrderInv, UNCHANGED <<st, hw>>, Position' = Position, on' => on
  PROVE  \E n \in 0 .. NumDesc : Frames(n)'
<1>1. PICK n \in 0 .. NumDesc : Frames(n)
  BY DEF OrderInv
<1>2. Frames(n)'
  BY <1>1 DEF Frames, Ahead
<1>. QED BY <1>2

LEMMA BeginIs ==
  ASSUME NEW caller, NEW quota, Begin(caller, quota), pc # "loop", cur' = cur
  PROVE  Position' = Position /\ who' = caller
BY DEF Begin, Position

LEMMA ReturnIs ==
  ASSUME Return, pc # "loop", cur' = cur
  PROVE  Position' = Position /\ who' = "poll"
BY DEF Return, Position

LEMMA OrderQuiet ==
  ASSUME OrderInv, Fetch \/ FrameMissed \/ StackFree \/ Interrupt \/ LoopEnd \/ FillSkip
                     \/ PollEnd \/ ResetBegin \/ Shortage \/ UNCHANGED vars
  PROVE  OrderInv'
<1>1. UNCHANGED <<mode, own, st, hw>>
  BY DEF Fetch, FrameMissed, StackFree, Interrupt, LoopEnd, FillSkip, PollEnd, ResetBegin,
         Shortage, ChipOff, desc, chip, vars
<1>2. OneState' /\ Covered'
  BY <1>1 DEF OrderInv, OneState, Covered
<1>3. ASSUME Position' = Position, on' => on, Waits' PROVE OrderInv'
  BY <1>1, <1>2, <1>3, OrderKept DEF OrderInv
<1>4. CASE Fetch \/ FrameMissed \/ StackFree \/ FillSkip \/ UNCHANGED vars
  <2>1. UNCHANGED <<cur, pc, c, who, on, linking, reset, imr, st>> /\ (dma' = dma \/ on)
    BY <1>4 DEF Fetch, FrameMissed, StackFree, FillSkip, vars, pointers, desc, driver, chip
  <2>2. Position' = Position /\ Waits'
    BY <2>1 DEF OrderInv, Waits, Position
  <2>. QED BY <1>3, <2>1, <2>2
<1>5. CASE LoopEnd
  <2>1. Position' = Position
    BY <1>5 DEF LoopEnd, Position
  <2>2. Waits' /\ on' = on
    BY <1>5 DEF LoopEnd, OrderInv, Waits, chip
  <2>. QED BY <1>3, <2>1, <2>2
<1>6. CASE Interrupt
  <2>1. /\ pc # "loop" /\ cur' = cur /\ Begin("poll", Budget)
        /\ UNCHANGED <<on, linking, dma, reset>> /\ imr
    BY <1>6 DEF Interrupt, pointers, chip
  <2>2. Position' = Position /\ who' = "poll"
    BY <2>1, BeginIs
  <2>3. ~linking /\ (dma # None => on)
    BY <2>1 DEF OrderInv, Waits
  <2>. QED BY <1>3, <2>1, <2>2, <2>3 DEF Waits
<1>7. CASE PollEnd
  <2>1. /\ pc \notin {"loop", "idle"} /\ cur' = cur /\ (Return \/ Begin("poll", Budget))
        /\ UNCHANGED <<on, linking, dma, reset>>
    BY <1>7 DEF PollEnd, Filled, pointers, chip
  <2>2. Position' = Position /\ who' = "poll"
    BY <2>1, BeginIs, ReturnIs
  <2>3. ~linking /\ (dma # None => on)
    BY <2>1 DEF OrderInv, Waits
  <2>. QED BY <1>3, <2>1, <2>2, <2>3 DEF Waits
<1>8. CASE ResetBegin
  <2>1. /\ pc # "loop" /\ cur' = cur /\ Begin("reset", NumDesc)
        /\ UNCHANGED <<on, linking, dma>> /\ imr' = FALSE /\ reset' = FALSE /\ (on \/ reset)
    BY <1>8 DEF ResetBegin, pointers, chip
  <2>2. Position' = Position /\ who' = "reset"
    BY <2>1, BeginIs
  <2>3. ~linking /\ (dma # None => on)
    BY <2>1 DEF OrderInv, Waits
  <2>. QED BY <1>3, <2>1, <2>2, <2>3 DEF Waits
<1>9. CASE Shortage
  <2>1. /\ pc # "loop" /\ cur' = cur /\ Return
        /\ on' = FALSE /\ linking' = FALSE /\ dma' = None
    BY <1>9 DEF Shortage, ResetEnding, Filled, ChipOff, pointers
  <2>2. Position' = Position /\ who' = "poll"
    BY <2>1, ReturnIs
  <2>. QED BY <1>3, <2>1, <2>2 DEF Waits
<1>. QED BY <1>4, <1>5, <1>6, <1>7, <1>8, <1>9

\* A buffer is had for an empty descriptor, or is not.
LEMMA OrderFill ==
  ASSUME RingInv, OrderInv, FillAlloc \/ FillShort
  PROVE  OrderInv'
<1>1. PICK e \in Entry : /\ slot[e] = None
                         /\ \/ \E h : own' = [own EXCEPT ![e] = h]
                            \/ own' = own
  BY DEF FillAlloc, FillShort, FillAt
<1>2. /\ UNCHANGED <<mode, st, cur, c, who, on, linking, hw, dma, imr, reset>>
      /\ pc = "fill" /\ pc' \in {"fill", "end"}
  BY DEF FillAlloc, FillShort, FillAt, pointers, chip, driver
<1>3. st[e] = "none" /\ mode # "copy"
  BY <1>1 DEF RingInv, FrameHasSlot, AllFilled
<1>4. OneState' /\ Covered'
  BY <1>1, <1>2, <1>3 DEF RingInv, TypeOK, OrderInv, OneState, Covered
<1>5. Position' = Position
  BY <1>2 DEF Position
<1>6. Waits'
  BY <1>2 DEF OrderInv, Waits
<1>. QED BY <1>2, <1>4, <1>5, <1>6, OrderKept DEF OrderInv

\* The chip's frame is the next one.
LEMMA OrderWriteBack ==
  ASSUME RingInv, OrderInv, WriteBack
  PROVE  OrderInv'
<1>1. PICK n \in 0 .. NumDesc : Frames(n)
  BY DEF OrderInv
<1>2. /\ dma # None /\ own[hw] = dma /\ dma' = None /\ on
      /\ own' = [own EXCEPT ![hw] = None] /\ hw' = (hw + 1) % NumDesc
      /\ UNCHANGED <<mode, cur, c, pc, who, on, linking, imr, reset>>
  BY DEF WriteBack, RingInv, WritesOwned, OrderInv, Waits, pointers, driver
<1>3. PICK result \in {"good", "bad"} : st' = [st EXCEPT ![hw] = result]
  BY DEF WriteBack
<1>4. hw \in Entry /\ hw = Ahead(n) /\ st[hw] = "none"
  BY <1>1, <1>2 DEF RingInv, TypeOK, Frames, OrderInv, OneState
<1>5. n < NumDesc
  <2>1. CASE n = NumDesc
    <3>1. st[Ahead(0)] # "none"
      BY <1>1, <2>1, Sizes DEF Frames
    <3>. QED BY <1>4, <2>1, <3>1, AheadEntries
  <2>. QED BY <2>1, Sizes
<1>6. Position' = Position
  BY <1>2 DEF Position
<1>7. Frames(n + 1)'
  <2>1. Ahead(n + 1)' = Ahead(n + 1) /\ hw' = Ahead(n + 1)
    BY <1>2, <1>4, <1>6, AheadNext DEF Ahead
  <2>2. ASSUME NEW i \in 0 .. NumDesc - 1 PROVE st'[Ahead(i)] # "none" <=> i < n + 1
    <3>1. Ahead(i) \in Entry /\ (i # n => Ahead(i) # hw) /\ n \in 0 .. NumDesc - 1
      BY <1>4, <1>5, AheadEntries, Sizes
    <3>2. st'[Ahead(i)] = IF i = n THEN result ELSE st[Ahead(i)]
      BY <1>3, <1>4, <3>1 DEF RingInv, TypeOK
    <3>. QED BY <1>1, <1>3, <3>2, Sizes DEF Frames
  <2>. QED BY <1>6, <2>1, <2>2 DEF Frames, Ahead
<1>8. OneState' /\ Covered'
  BY <1>2, <1>3, <1>4 DEF RingInv, TypeOK, OrderInv, OneState, Covered
<1>9. Waits'
  BY <1>2 DEF OrderInv, Waits
<1>10. n + 1 \in 0 .. NumDesc
  BY <1>5, Sizes
<1>. QED BY <1>7, <1>8, <1>9, <1>10 DEF OrderInv

\* The frame at c is the first one.
LEMMA TakenFirst ==
  ASSUME RingInv, OrderInv, Taken
  PROVE  st[EntryOf(c)] # "none"
<1>1. CASE mode = "copy"
  BY <1>1, TakenFrame DEF OrderInv, Covered, Taken
<1>2. CASE mode = "reuse"
  BY <1>2, TakenGood
<1>. QED BY <1>1, <1>2, BuildAssumption DEF RingInv, TypeOK

LEMMA OrderTaken ==
  ASSUME RingInv, OrderInv, Taken, c' = Step(c), st' = [st EXCEPT ![EntryOf(c)] = "none"],
         UNCHANGED <<pc, cur, who, on, linking, hw, dma, imr, reset>>
  PROVE  Waits' /\ \E n \in 0 .. NumDesc : Frames(n)'
<1>1. PICK n \in 0 .. NumDesc : Frames(n)
  BY DEF OrderInv
<1>2. Position = c /\ Position' = Step(c) /\ c \in Pointer /\ pc = "loop"
  BY DEF Taken, Position, RingInv, TypeOK, Pointer
<1>3. Ahead(0) = EntryOf(c) /\ EntryOf(c) \in Entry
  BY <1>2, AheadEntries
<1>4. n > 0
  <2>1. st[Ahead(0)] # "none" /\ 0 \in 0 .. NumDesc - 1
    BY <1>3, TakenFirst, Sizes
  <2>. QED BY <1>1, <2>1 DEF Frames
<1>5. \A i \in Int : Ahead(i)' = Ahead(i + 1)
  <2>1. ASSUME NEW i \in Int PROVE (Step(c) + i) % NumDesc = (c + (i + 1)) % NumDesc
    <3>1. (Step(c) + i) % NumDesc = (c + (1 + i)) % NumDesc
      BY <1>2, EntryAfterStep
    <3>2. c + (1 + i) = c + (i + 1)
      BY <1>2 DEF Pointer
    <3>. QED BY <3>1, <3>2
  <2>. QED BY <1>2, <2>1 DEF Ahead
<1>6. Frames(n - 1)'
  <2>1. on' => hw' = Ahead(n - 1)'
    <3>1. (n - 1) + 1 = n /\ n - 1 \in Int
      BY Sizes
    <3>. QED BY <1>1, <1>5, <3>1 DEF Frames
  <2>2. ASSUME NEW i \in 0 .. NumDesc - 1 PROVE st'[Ahead(i)'] # "none" <=> i < n - 1
    <3>1. Ahead(i)' = Ahead(i + 1)
      BY <1>5, Sizes
    <3>2. CASE i + 1 < NumDesc
      <4>1. i + 1 \in 0 .. NumDesc - 1 /\ 0 \in 0 .. NumDesc - 1 /\ i + 1 # 0 /\ i + 1 \in Int
        BY <3>2, Sizes
      <4>2. Ahead(i + 1) # EntryOf(c) /\ Ahead(i + 1) \in Entry
        BY <1>3, <4>1, AheadEntries
      <4>3. st'[Ahead(i + 1)] = st[Ahead(i + 1)]
        BY <4>2 DEF RingInv, TypeOK
      <4>. QED BY <1>1, <3>1, <4>1, <4>3, Sizes DEF Frames
    <3>3. CASE i + 1 = NumDesc
      <4>1. st'[Ahead(i + 1)] = "none"
        BY <1>3, <3>3, AheadEntries DEF RingInv, TypeOK
      <4>. QED BY <3>1, <3>3, <4>1, Sizes
    <3>. QED BY <3>2, <3>3, Sizes
  <2>. QED BY <2>1, <2>2 DEF Frames
<1>7. n - 1 \in 0 .. NumDesc
  BY <1>4, Sizes
<1>8. Waits'
  BY <1>2 DEF OrderInv, Waits
<1>. QED BY <1>6, <1>7, <1>8

\* A frame is taken, and its descriptor or another empty one goes to the chip.
LEMMA OrderTakes ==
  ASSUME RingInv, OrderInv, Release \/ Copy \/ Reuse \/ GiveAway
  PROVE  OrderInv'
<1>. DEFINE e == EntryOf(c)
<1>1. /\ Taken /\ c' = Step(c) /\ st' = [st EXCEPT ![e] = "none"]
      /\ UNCHANGED <<mode, pc, cur, who, on, linking, hw, dma, imr, reset>>
  BY DEF Release, Copy, Reuse, GiveAway, Proceed, chip, pointers
<1>2. Waits' /\ \E n \in 0 .. NumDesc : Frames(n)'
  BY <1>1, OrderTaken
<1>3. e \in Entry /\ (st[e] # "none" => slot[e] \in Halves)
  BY <1>1, TakenFrame
<1>4. CASE Release \/ Copy
  <2>1. own' = [own EXCEPT ![e] = AddressOf(e)] /\ slot[e] # None
    BY <1>1, <1>3, <1>4, TakenFirst, NoneAssumption DEF Release, Copy
  <2>2. own'[e] # None
    BY <1>3, <2>1 DEF RingInv, TypeOK, AddressOf
  <2>. QED BY <1>1, <1>2, <1>3, <2>1, <2>2 DEF RingInv, TypeOK, OrderInv, OneState, Covered
<1>5. CASE Reuse
  <2>. DEFINE d == EntryOf(dirty)
  <2>1. mode = "reuse" /\ \E h : own' = [own EXCEPT ![d] = h]
    BY <1>5 DEF Reuse
  <2>2. d \in Entry /\ (d = e \/ st[d] = "none")
    <3>1. CASE Gap = 0
      <4>1. d = e
        BY <1>1, <3>1, AtEnds DEF Taken, Position
      <4>. QED BY <1>3, <4>1
    <3>2. CASE Gap # 0
      <4>1. Gap \in Nat /\ 0 \in 0 .. Gap - 1
        BY <3>2, GapType
      <4>2. slot[At(0)] = None
        BY <2>1, <4>1 DEF RingInv, GapEmpty, At
      <4>. QED BY <4>2, AtEnds DEF RingInv, FrameHasSlot
    <3>. QED BY <3>1, <3>2
  <2>3. OneState' /\ Covered'
    BY <1>1, <1>3, <2>1, <2>2 DEF RingInv, TypeOK, OrderInv, OneState, Covered
  <2>. QED BY <1>2, <2>3 DEF OrderInv
<1>6. CASE GiveAway
  <2>1. mode = "reuse" /\ own' = own
    BY <1>6 DEF GiveAway
  <2>2. OneState' /\ Covered'
    BY <1>1, <1>3, <2>1 DEF RingInv, TypeOK, OrderInv, OneState, Covered
  <2>. QED BY <1>2, <2>2 DEF OrderInv
<1>. QED BY <1>4, <1>5, <1>6

\* Driver and chip begin the new ring at its first descriptor.
LEMMA OrderNew ==
  ASSUME RingInv, RingInv', \A e \in Entry : st'[e] = "none", Position' = 0, on' => hw' = 0
  PROVE  \E n \in 0 .. NumDesc : Frames(n)'
<1>1. Frames(0)'
  <2>1. \A i \in 0 .. NumDesc - 1 : Ahead(i)' \in Entry
    <3>1. (\A i \in Int : Ahead(i) \in Entry)'
      BY AheadEntries, PTL
    <3>. QED BY <3>1, Sizes
  <2>2. Ahead(0)' = 0
    <3>1. 0 % NumDesc = 0
      BY SmallRemainder, Sizes
    <3>. QED BY <3>1 DEF Ahead
  <2>. QED BY <2>1, <2>2, Sizes DEF Frames
<1>. QED BY <1>1, Sizes

LEMMA OrderReinit ==
  ASSUME RingInv, RingInv', OrderInv, Undamaged, Reinit
  PROVE  OrderInv'
<1>1. /\ Cardinality(Cleanable) >= NumDesc /\ slot' = Fresh(Cleanable) /\ own' = slot'
      /\ st' = [e \in Entry |-> "none"] /\ cur' = 0 /\ on' = FALSE /\ dma' = None
      /\ pc' = "idle" /\ who' = "poll" /\ who = "reset" /\ UNCHANGED <<imr, reset>>
  BY DEF Reinit, ResetEnding, Fillings, Undamaged, ChipOff, Return
<1>2. \A e \in Entry : slot'[e] # None
  BY <1>1, NewRing DEF Cleanable
<1>3. OneState' /\ Covered'
  BY <1>1, <1>2 DEF OneState, Covered
<1>4. Waits'
  BY <1>1 DEF OrderInv, Waits
<1>5. \E n \in 0 .. NumDesc : Frames(n)'
  BY <1>1, OrderNew DEF Position
<1>. QED BY <1>3, <1>4, <1>5 DEF OrderInv

LEMMA OrderLink ==
  ASSUME RingInv, RingInv', OrderInv, ~Bounce, LinkOn
  PROVE  OrderInv'
<1>1. /\ linking /\ hw' = 0 /\ dma' = None /\ linking' = FALSE
      /\ UNCHANGED <<mode, own, st, cur, pc, who, reset>>
  BY BuildAssumption DEF LinkOn, pointers, desc, driver, OrderInv, Waits
<1>2. pc = "idle" /\ who = "poll" /\ cur = 0 /\ \A e \in Entry : st[e] = "none"
  BY <1>1 DEF OrderInv, Waits
<1>3. OneState' /\ Covered'
  BY <1>1 DEF OrderInv, OneState, Covered
<1>4. Waits'
  BY <1>1, <1>2 DEF OrderInv, Waits
<1>5. \E n \in 0 .. NumDesc : Frames(n)'
  BY <1>1, <1>2, OrderNew DEF Position
<1>. QED BY <1>3, <1>4, <1>5 DEF OrderInv

LEMMA OrderInit == Init => OrderInv
<1>. SUFFICES ASSUME Init PROVE OrderInv
  OBVIOUS
<1>1. RingInv
  BY InitRing
<1>2. \A e \in Entry : own[e] # None /\ st[e] = "none"
  <2>1. Buffers \in SUBSET Buffers /\ Cardinality(Buffers) >= NumDesc
    BY FS_Interval, RingAssumption DEF Buffers
  <2>. QED BY <2>1, NewRing DEF Init
<1>3. Frames(0)
  <2>1. \A i \in 0 .. NumDesc - 1 : Ahead(i) \in Entry
    BY <1>1, AheadEntries, Sizes
  <2>2. Ahead(0) = 0
    <3>1. 0 % NumDesc = 0
      BY SmallRemainder, Sizes
    <3>. QED BY <1>1, <3>1, AheadEntries DEF Init, Position, EntryOf
  <2>. QED BY <1>2, <2>1, <2>2, Sizes DEF Frames, Init
<1>4. 0 \in 0 .. NumDesc
  BY Sizes
<1>. QED BY <1>2, <1>3, <1>4 DEF OrderInv, OneState, Covered, Waits, Init

LEMMA OrderStep ==
  ASSUME RingInv, RingInv', OrderInv, Undamaged, ~Bounce, [Next]_vars
  PROVE  OrderInv'
<1>1. CASE Fetch \/ FrameMissed \/ StackFree \/ Interrupt \/ LoopEnd \/ FillSkip
             \/ PollEnd \/ ResetBegin \/ Shortage \/ UNCHANGED vars
  BY <1>1, OrderQuiet
<1>2. CASE WriteBack
  BY <1>2, OrderWriteBack
<1>3. CASE Release \/ Copy \/ Reuse \/ GiveAway
  BY <1>3, OrderTakes
<1>4. CASE FillAlloc \/ FillShort
  BY <1>4, OrderFill
<1>5. CASE Reinit \/ LinkOn
  BY <1>5, OrderReinit, OrderLink
<1>. QED BY <1>1, <1>2, <1>3, <1>4, <1>5 DEF Next, Poll, ResetTask

-----------------------------------------------------------------------------
(* The theorems *)

LEMMA RingAlways == Undamaged => (Spec => []RingInv)
<1>. SUFFICES ASSUME Undamaged PROVE Spec => []RingInv
  OBVIOUS
<1>1. Init => RingInv
  BY InitRing
<1>2. RingInv /\ [Next]_vars => RingInv'
  BY RingStep
<1>. QED BY <1>1, <1>2, PTL DEF Spec

LEMMA WritesLive == RingInv => ChipWritesLive
<1>. SUFFICES ASSUME RingInv PROVE ChipWritesLive
  OBVIOUS
<1>1. ASSUME NEW e \in Entry, own[e] # None
      PROVE  /\ own[e] = slot[e] /\ own[e] \notin held
             /\ \A f \in Entry \ {e} : ~In(slot[f], own[e][1])
  <2>1. own[e] = slot[e] /\ slot[e] # None
    BY <1>1 DEF RingInv, OwnsSlot
  <2>. QED BY <2>1 DEF RingInv, HeldApart, OnePage, In
<1>. QED BY <1>1 DEF ChipWritesLive, RingInv, WritesOwned

(***************************************************************************)
(* With any number of descriptors and pages, and whatever the stack and    *)
(* the reset task do in between, the chip writes only into halves that are *)
(* the ring's own and that nobody reads (rtl8125_reuse_rx_ok, 20040).      *)
(***************************************************************************)
THEOREM ChipSafe == Undamaged => (Spec => []ChipWritesLive)
<1>1. Undamaged => (Spec => []RingInv)
  BY RingAlways
<1>2. RingInv => ChipWritesLive
  BY WritesLive
<1>. QED BY <1>1, <1>2, PTL

(***************************************************************************)
(* Under the same conditions the references of each page are those of its  *)
(* users: none is freed under the ring or the stack, and none leaks        *)
(* (rtl8125_reuse_rx_buffer, 20056; rtl8125_put_rx_buffer, 20084;          *)
(* _rtl8125_rx_clear, 18499).                                              *)
(***************************************************************************)
THEOREM ReferencesExact == Undamaged => (Spec => []RefsExact)
<1>1. Undamaged => (Spec => []RingInv)
  BY RingAlways
<1>2. RingInv => RefsExact
  BY CountsAgree
<1>. QED BY <1>1, <1>2, PTL

(***************************************************************************)
(* Under the same conditions, and where the link's work finds a new ring   *)
(* whenever it starts the chip anew, the driver waits at the oldest frame: *)
(* the counters of driver and chip stay in step over any number of         *)
(* wrap-arounds, shortages and resets (rtl8125_rx_interrupt, 20169;        *)
(* rtl8125_link_on_patch, 4607).                                           *)
(***************************************************************************)
THEOREM FramesInOrder == Undamaged /\ ~Bounce => (Spec => []InStep)
<1>. SUFFICES ASSUME Undamaged, ~Bounce PROVE Spec => []InStep
  OBVIOUS
<1>1. Init => RingInv /\ OrderInv
  BY InitRing, OrderInit
<1>2. RingInv /\ OrderInv /\ [Next]_vars => (RingInv /\ OrderInv)'
  <2>1. RingInv /\ [Next]_vars => RingInv'
    BY RingStep
  <2>. QED BY <2>1, OrderStep
<1>3. RingInv /\ OrderInv => InStep
  <2>1. SUFFICES ASSUME RingInv, OrderInv, pc = "idle", st[EntryOf(cur)] = "none",
                        NEW e \in Entry
                 PROVE  st[e] = "none"
    BY DEF InStep
  <2>2. PICK n \in 0 .. NumDesc : Frames(n)
    BY <2>1 DEF OrderInv
  <2>3. Ahead(0) = EntryOf(cur)
    BY <2>1, AheadEntries DEF Position
  <2>4. n = 0
    BY <2>1, <2>2, <2>3, Sizes DEF Frames
  <2>5. PICK i \in 0 .. NumDesc - 1 : Ahead(i) = e
    BY <2>1, AheadCovers
  <2>. QED BY <2>2, <2>4, <2>5 DEF Frames
<1>. QED BY <1>1, <1>2, <1>3, PTL DEF Spec
=============================================================================
