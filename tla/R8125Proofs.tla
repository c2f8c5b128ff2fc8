---------------------------- MODULE R8125Proofs ----------------------------
(***************************************************************************)
(* Theorems of the life of an r8125 interface, for any number of           *)
(* operations and any allocation that fails but one of set_ringparam.      *)
(*                                                                         *)
(* An operation is safe when each of its calls finds what it needs, and    *)
(* what it needs was either true when the operation began or brought about *)
(* by an earlier call, and undone by none in between.  The inductive       *)
(* invariant says so of the calls that are left.                           *)
(***************************************************************************)
EXTENDS R8125, SequenceTheorems, TLAPS

\* A set_ringparam that fails leaves the interface running without rings.
KeepsRings == "ring" \notin MayFail

-----------------------------------------------------------------------------
(***************************************************************************)
(* The j-th of the calls s finds P: it holds and no call before undoes it, *)
(* or one of the calls "by" before establishes it for good.                *)
(***************************************************************************)
Before(s, j, P, by, undo) ==
  \/ P /\ \A i \in 1 .. j - 1 : s[i] \notin undo
  \/ \E i \in 1 .. j - 1 : s[i] \in by /\ \A k \in i + 1 .. j - 1 : s[k] \notin undo

\* Every call of "use" finds P.
Ensured(s, P, by, undo, use) ==
  \A j \in 1 .. Len(s) : s[j] \in use => Before(s, j, P, by, undo)

RingUsers == {"txClear", "rxClear", "initRing", "refill", "rxStuck"}
RingMakers == {"freeRings", "allocRings", "allocIrq"}
Choices == {"checkLink", "speedOrLink"}

\* What the calls s of operation o find.
Safe(o, s) ==
  /\ Ensured(s, ~carrier, {"carrierOff"}, {"carrierOn"}, {"txDisable"})
  /\ Ensured(s, ~sending /\ ~carrier, {"txDisable"}, {"carrierOn"}, RingUsers \cup RingMakers)
  /\ o \notin {"link", "esd"} =>
       Ensured(s, ~polling /\ ~dataIntr, {"napiOff"}, {"hwStart"},
               RingUsers \cup RingMakers \cup Choices)
  /\ Ensured(s, ~napi, {"napiOff"}, {"napiOn"}, RingMakers \cup {"initRing"})
  /\ Ensured(s, ~irq, {"freeIrq"}, {"allocIrq"}, RingMakers)
  /\ o # "mtu" => Ensured(s, ~irq, {"freeIrq"}, {"allocIrq"}, {"initRing"})
  /\ Ensured(s, rings, {"allocRings"}, {"freeRings"},
             RingUsers \cup Choices \cup {"allocIrq", "hwStart", "carrierOn", "napiOn"})
  /\ Ensured(s, ~attached, {"detach"}, {"attach"}, {"sleep"})
  /\ Ensured(s, ~asleep, {}, {"sleep"}, {"attach"})
  /\ o = "ring" => Before(s, Len(s) + 1, ~running \/ rings, {"allocRings"}, {"freeRings"})
  /\ o # "ring" => Before(s, Len(s) + 1, ~running \/ rings, {"allocRings"}, {})

\* Which calls an operation has, and where.
Shape(o, s) ==
  /\ \A j \in 1 .. Len(s) :
       /\ s[j] = "checkLink" => j = Len(s)
       /\ s[j] = "rxStuck" => j = Len(s) /\ o = "reset"
       /\ s[j] = "speedOrLink" =>
            j = Len(s) - 2 /\ s[j + 1] = "scheduleEsd" /\ s[j + 2] = "linkIntrOn"
       /\ s[j] = "freeRings" => o = "ring" \/ (o \in {"open", "close"} /\ j = Len(s))
       /\ s[j] \in {"detach", "sleep"} => o = "suspend"
       /\ s[j] \in {"allocRings", "allocIrq"} => o \in {"open", "ring"}
       /\ s[j] = "initRing" => o \in {"open", "ring", "mtu"}
  /\ o = "close" => s[Len(s)] = "freeRings"

\* What may go on beside the lock needs the rings; an interface that sleeps is
\* detached, and one that is detached is neither opened nor closed.
Attached ==
  /\ polling => napi
  /\ napi \/ carrier \/ sending => rings
  /\ asleep => ~attached
  /\ ~running => op \in {"none", "close"} /\ attached
  /\ op \in {"open", "close"} => attached
  /\ op = "close" => ~running

Quiet == ~running /\ op = "none" => ~irq /\ ~napi /\ ~rings /\ ~dataIntr

LifeInv == Safe(op, todo) /\ Shape(op, todo) /\ Attached /\ Quiet

-----------------------------------------------------------------------------
(* Before and Ensured                                                      *)

LEMMA BeforeStep ==
  ASSUME NEW s \in Seq(CallNames), s # <<>>, NEW by, NEW undo, NEW P, NEW Q,
         Head(s) \in by => Q, P /\ Head(s) \notin undo => Q,
         NEW j \in 1 .. Len(s), Before(s, j + 1, P, by, undo)
  PROVE  Before(Tail(s), j, Q, by, undo)
  <1>1. /\ Tail(s) \in Seq(CallNames) /\ Len(Tail(s)) = Len(s) - 1
        /\ Head(s) = s[1] /\ Len(s) \in Nat \ {0}
    BY HeadTailProperties, EmptySeq
  <1>2. \A i \in 1 .. Len(s) - 1 : Tail(s)[i] = s[i + 1]
    BY HeadTailProperties, <1>1
  <1>3. CASE P /\ \A i \in 1 .. j : s[i] \notin undo
    <2>1. Q
      BY <1>1, <1>3
    <2>2. \A i \in 1 .. j - 1 : Tail(s)[i] \notin undo
      BY <1>1, <1>2, <1>3
    <2>3. QED
      BY <2>1, <2>2 DEF Before
  <1>4. CASE \E i \in 1 .. j : s[i] \in by /\ \A k \in i + 1 .. j : s[k] \notin undo
    <2>1. PICK i \in 1 .. j : s[i] \in by /\ \A k \in i + 1 .. j : s[k] \notin undo
      BY <1>4
    <2>2. CASE i = 1
      <3>1. Q
        BY <2>1, <2>2, <1>1
      <3>2. \A k \in 1 .. j - 1 : Tail(s)[k] \notin undo
        BY <2>1, <2>2, <1>1, <1>2
      <3>3. QED
        BY <3>1, <3>2 DEF Before
    <2>3. CASE i > 1
      <3>1. i - 1 \in 1 .. j - 1 /\ Tail(s)[i - 1] \in by
        BY <2>1, <2>3, <1>1, <1>2
      <3>2. \A k \in (i - 1) + 1 .. j - 1 : Tail(s)[k] \notin undo
        BY <2>1, <2>3, <1>1, <1>2
      <3>3. QED
        BY <3>1, <3>2 DEF Before
    <2>4. QED
      BY <2>2, <2>3
  <1>5. QED
    BY <1>3, <1>4 DEF Before

LEMMA EnsuredStep ==
  ASSUME NEW s \in Seq(CallNames), s # <<>>, NEW by, NEW undo, NEW use,
         NEW P, NEW Q,
         Head(s) \in by => Q, P /\ Head(s) \notin undo => Q,
         Ensured(s, P, by, undo, use)
  PROVE  Ensured(Tail(s), Q, by, undo, use)
  <1>1. Len(Tail(s)) = Len(s) - 1 /\ Len(s) \in Nat \ {0}
    BY HeadTailProperties, EmptySeq
  <1>2. \A j \in 1 .. Len(s) - 1 : Tail(s)[j] = s[j + 1]
    BY HeadTailProperties, <1>1
  <1>3. ASSUME NEW j \in 1 .. Len(s) - 1, Tail(s)[j] \in use
        PROVE  Before(Tail(s), j, Q, by, undo)
    <2>1. j \in 1 .. Len(s) /\ j + 1 \in 1 .. Len(s) /\ s[j + 1] \in use
      BY <1>1, <1>2, <1>3
    <2>2. Before(s, j + 1, P, by, undo)
      BY <2>1 DEF Ensured
    <2>3. QED
      BY <2>1, <2>2, BeforeStep
  <1>4. QED
    BY <1>1, <1>3 DEF Ensured

LEMMA EnsuredHead ==
  ASSUME NEW s \in Seq(CallNames), s # <<>>, NEW by, NEW undo, NEW use, NEW P,
         Ensured(s, P, by, undo, use), Head(s) \in use
  PROVE  P
  BY EmptySeq, HeadTailProperties DEF Ensured, Before

LEMMA EnsuredWeaker ==
  ASSUME NEW s \in Seq(CallNames), NEW by, NEW undo, NEW use, NEW P, NEW Q,
         Ensured(s, P, by, undo, use), P => Q
  PROVE  Ensured(s, Q, by, undo, use)
  BY DEF Ensured, Before

-----------------------------------------------------------------------------
(* Types                                                                   *)

Booleans == {running, down, rings, filled, irq, napi, polling, queue, carrier, attached,
             sending, on, dataIntr, linkIntr, event, asleep, cable, link, keep, missed}

\* Every operation is a sequence of names.
LEMMA PlansType ==
  /\ Open \in Seq(CallNames) /\ Down \in Seq(CallNames) /\ Close \in Seq(CallNames)
  /\ RingCalls \in Seq(CallNames) /\ MtuCalls \in Seq(CallNames) /\ Rebuild \in Seq(CallNames)
  /\ ResetCalls \in Seq(CallNames) /\ EsdCalls \in Seq(CallNames)
  /\ SuspendCalls \in Seq(CallNames) /\ ResumeCalls \in Seq(CallNames)
  /\ LinkOn \in Seq(CallNames) /\ LinkDown \in Seq(CallNames) /\ Fails \in Seq(CallNames)
  <1>1. Open \in Seq(CallNames) /\ Down \in Seq(CallNames) /\ Rebuild \in Seq(CallNames)
    BY DEF Open, Down, Rebuild, CallNames
  <1>2. Close \in Seq(CallNames)
    <2>1. <<"flagDown">> \in Seq(CallNames) /\ <<"freeIrq", "freeRings">> \in Seq(CallNames)
      BY DEF CallNames
    <2>2. <<"flagDown">> \o Down \in Seq(CallNames)
      BY <1>1, <2>1, ConcatProperties
    <2>3. (<<"flagDown">> \o Down) \o <<"freeIrq", "freeRings">> \in Seq(CallNames)
      BY <2>1, <2>2, ConcatProperties
    <2>4. QED
      BY <2>3 DEF Close
  <1>3. RingCalls \in Seq(CallNames)
    <2>1. <<"napiOff", "napiOn">> \in Seq(CallNames)
      BY DEF CallNames
    <2>2. <<"napiOff", "napiOn">> \o Close \in Seq(CallNames)
      BY <1>2, <2>1, ConcatProperties
    <2>3. QED
      BY <1>1, <2>2, ConcatProperties DEF RingCalls
  <1>4. MtuCalls \in Seq(CallNames)
    <2>1. <<"initRing", "napiOn", "checkLink">> \in Seq(CallNames)
      BY DEF CallNames
    <2>2. QED
      BY <1>1, <2>1, ConcatProperties DEF MtuCalls
  <1>5. EsdCalls \in Seq(CallNames)
    <2>1. <<"carrierOff", "txDisable", "hwReset", "txClear">> \in Seq(CallNames)
          /\ <<"hwReset", "linkIntrOn", "setSpeed", "scheduleEsd">> \in Seq(CallNames)
      BY DEF CallNames
    <2>2. <<"carrierOff", "txDisable", "hwReset", "txClear">> \o Rebuild \in Seq(CallNames)
      BY <1>1, <2>1, ConcatProperties
    <2>3. QED
      BY <2>1, <2>2, ConcatProperties DEF EsdCalls
  <1>6. ResetCalls \in Seq(CallNames)
    BY DEF ResetCalls, CallNames
  <1>7. SuspendCalls \in Seq(CallNames) /\ ResumeCalls \in Seq(CallNames)
    BY DEF SuspendCalls, ResumeCalls, CallNames
  <1>8. LinkOn \in Seq(CallNames) /\ LinkDown \in Seq(CallNames)
    BY DEF LinkOn, LinkDown, CallNames
  <1>9. Fails \in Seq(CallNames)
    BY DEF Fails, CallNames
  <1>10. QED
    BY <1>1, <1>2, <1>3, <1>4, <1>5, <1>6, <1>7, <1>8, <1>9

LEMMA TypeInit == Init => TypeOK
  <1>. SUFFICES ASSUME Init PROVE TypeOK
    OBVIOUS
  <1>1. Booleans \subseteq BOOLEAN
    BY DEF Init, Booleans
  <1>2. QED
    BY <1>1, BoundAssumption DEF Init, TypeOK, Booleans, CallNames, Operations

\* The lock is held exactly as long as calls are left.
LEMMA BeginType ==
  ASSUME NEW o \in Operations, NEW calls \in Seq(CallNames), TypeOK, Begin(o, calls)
  PROVE  /\ op' \in Operations \cup {"none"} /\ todo' \in Seq(CallNames)
         /\ op' = "none" <=> todo' = <<>>
  BY DEF Begin, TypeOK, Operations, Tasks

LEMMA ContinueType ==
  ASSUME NEW calls \in Seq(CallNames), TypeOK, todo # <<>>, Continue(calls)
  PROVE  /\ op' \in Operations \cup {"none"} /\ todo' \in Seq(CallNames)
         /\ op' = "none" <=> todo' = <<>>
  BY DEF Continue, TypeOK, Operations, Tasks

LEMMA LockType ==
  ASSUME TypeOK, [Next]_vars
  PROVE  /\ op' \in Operations \cup {"none"} /\ todo' \in Seq(CallNames)
         /\ op' = "none" <=> todo' = <<>>
  <1>1. CASE \E o \in Operations : \E calls \in Seq(CallNames) : Begin(o, calls)
    BY <1>1, BeginType
  <1>2. CASE todo # <<>> /\ \E calls \in Seq(CallNames) : Continue(calls)
    BY <1>2, ContinueType
  <1>3. CASE UNCHANGED lock
    BY <1>3 DEF lock, TypeOK
  <1>. USE PlansType
  <1>4. CASE IfUp \/ IfDown \/ SetRingparam \/ ChangeMtu \/ Suspend
    BY <1>1, <1>4 DEF IfUp, IfDown, SetRingparam, ChangeMtu, Suspend, Administer, Operations
  <1>5. CASE Resume
    <2>1. ResumeCalls # <<>>
      BY DEF ResumeCalls
    <2>2. QED
      BY <1>5, <2>1 DEF Resume, Operations
  <1>6. ASSUME NEW t \in Tasks, Task(t)
        PROVE  \/ UNCHANGED lock
               \/ \E o \in Operations : \E calls \in Seq(CallNames) : Begin(o, calls)
    <2>1. <<"scheduleEsd">> \in Seq(CallNames) /\ <<"checkLink">> \in Seq(CallNames)
      BY DEF CallNames
    <2>2. t \in Operations
      BY DEF Operations
    <2>3. QED
      BY <1>6, <2>1, <2>2 DEF Task
  <1>7. CASE Calls
    <2>1. CASE Done /\ todo # <<>>
      BY <1>2, <2>1, HeadTailProperties DEF Done, TypeOK
    <2>2. CASE AllocRings \/ InitRing \/ AllocIrq
      BY <1>2, <2>1, <2>2 DEF AllocRings, InitRing, AllocIrq, Call
    <2>3. CASE RxNoStuck
      <3>1. <<"checkLink">> \in Seq(CallNames) /\ <<"linkIntrOn", "setSpeed">> \in Seq(CallNames)
        BY DEF CallNames
      <3>2. Rebuild \o (IF keep THEN <<"checkLink">> ELSE <<"linkIntrOn", "setSpeed">>)
              \in Seq(CallNames)
        BY <3>1, ConcatProperties
      <3>3. QED
        BY <1>2, <2>3, <3>2 DEF RxNoStuck, Call
    <2>4. CASE RxShortage
      <3>1. <<"scheduleReset">> \in Seq(CallNames)
        BY DEF CallNames
      <3>2. QED
        BY <1>2, <2>4, <3>1 DEF RxShortage, Call
    <2>5. CASE CheckLink
      <3>1. Tail(todo) \in Seq(CallNames) /\ todo # <<>>
        BY <2>5, HeadTailProperties DEF CheckLink, Call, TypeOK
      <3>2. (IF link THEN LinkOn ELSE LinkDown) \o Tail(todo) \in Seq(CallNames)
        BY <3>1, ConcatProperties
      <3>3. QED
        BY <1>2, <2>5, <3>1, <3>2 DEF CheckLink
    <2>6. QED
      BY <1>7, <2>1, <2>2, <2>3, <2>4, <2>5
         DEF Calls, SetFlag, ScheduleWork, StackCall, NapiOff, NapiOn, HwReset, HwStart, Sleep,
             Refill, FreeIrq, FreeRings, Clear, SetSpeed, Call
  <1>8. CASE \/ DataInterrupt \/ PollEnd \/ LinkInterrupt \/ XmitBegin \/ XmitEnd \/ TxTimeout
             \/ Flap \/ PhyUp \/ UNCHANGED vars
    BY <1>3, <1>8 DEF DataInterrupt, PollEnd, LinkInterrupt, XmitBegin, XmitEnd, TxTimeout, Flap,
                      PhyUp, vars
  <1>9. QED
    BY <1>1, <1>3, <1>4, <1>5, <1>6, <1>7, <1>8 DEF Next

LEMMA BoundsType ==
  ASSUME TypeOK, [Next]_vars
  PROVE  admin' \in 0 .. MaxAdmin /\ flaps' \in 0 .. MaxFlaps
  <1>1. CASE IfUp \/ IfDown \/ SetRingparam \/ ChangeMtu \/ Suspend
    BY <1>1, BoundAssumption
       DEF TypeOK, IfUp, IfDown, SetRingparam, ChangeMtu, Suspend, Administer
  <1>2. CASE Flap
    BY <1>2, BoundAssumption DEF TypeOK, Flap
  <1>3. CASE UNCHANGED bounds
    BY <1>3 DEF TypeOK, bounds
  <1>4. QED
    BY <1>1, <1>2, <1>3
       DEF Next, vars, Resume, Task, DataInterrupt, PollEnd, LinkInterrupt, XmitBegin, XmitEnd,
           TxTimeout, PhyUp, Calls, SetFlag, ScheduleWork, StackCall, NapiOff, NapiOn, HwReset,
           HwStart, Sleep, AllocRings, InitRing, Refill, AllocIrq, FreeIrq, FreeRings, Clear,
           RxNoStuck, RxShortage, CheckLink, SetSpeed

LEMMA WorkType ==
  ASSUME TypeOK, [Next]_vars
  PROVE  pending' \subseteq Tasks /\ work' \subseteq Tasks
  BY DEF TypeOK, Tasks, Next, vars, flags, IfUp, IfDown, SetRingparam, ChangeMtu, Suspend,
         Resume, Task, DataInterrupt, PollEnd, LinkInterrupt, XmitBegin, XmitEnd, TxTimeout, Flap,
         PhyUp, Calls, SetFlag, ScheduleWork, StackCall, NapiOff, NapiOn, HwReset, HwStart, Sleep,
         AllocRings, InitRing, Refill, AllocIrq, FreeIrq, FreeRings, Clear, RxNoStuck, RxShortage,
         CheckLink, SetSpeed

LEMMA BooleansType ==
  ASSUME Booleans \subseteq BOOLEAN, [Next]_vars
  PROVE  (Booleans \subseteq BOOLEAN)'
  BY DEF Booleans, Next, vars, flags, memory, intr, stack, chip, wire, IfUp, IfDown, SetRingparam,
         ChangeMtu, Suspend,
         Resume, Task, DataInterrupt, PollEnd, LinkInterrupt, XmitBegin, XmitEnd, TxTimeout, Flap,
         PhyUp, Calls, SetFlag, ScheduleWork, StackCall, NapiOff, NapiOn, HwReset, HwStart, Sleep,
         AllocRings, InitRing, Refill, AllocIrq, FreeIrq, FreeRings, Clear, RxNoStuck, RxShortage,
         CheckLink, SetSpeed

LEMMA TypeNext == TypeOK /\ [Next]_vars => TypeOK'
  <1>1. TypeOK => Booleans \subseteq BOOLEAN
    BY DEF TypeOK, Booleans
  <1>2. (Booleans \subseteq BOOLEAN)' => {running, down, rings, filled, irq, napi, polling, queue,
          carrier, attached, sending, on, dataIntr, linkIntr, event, asleep, cable, link, keep,
          missed}' \subseteq BOOLEAN
    BY DEF Booleans
  <1>3. QED
    BY <1>1, <1>2, LockType, BoundsType, WorkType, BooleansType DEF TypeOK

\* The lock is held exactly as long as an operation has calls to make, and
\* every call is one of the driver's (rtl8125_open and the rest).
THEOREM TypeCorrect == Spec => []TypeOK
  BY TypeInit, TypeNext, PTL DEF Spec

-----------------------------------------------------------------------------
(* The plans                                                               *)

LEMMA CloseIs ==
  ASSUME rings
  PROVE  /\ Len(Close) = 9
         /\ Close[1] = "flagDown" /\ Close[2] = "carrierOff" /\ Close[3] = "txDisable"
         /\ Close[4] = "napiOff" /\ Close[5] = "hwReset" /\ Close[6] = "txClear"
         /\ Close[7] = "rxClear" /\ Close[8] = "freeIrq" /\ Close[9] = "freeRings"
  BY DEF Close, Down

LEMMA OpenIs ==
  /\ Len(Open) = 9
  /\ Open[1] = "allocRings" /\ Open[2] = "initRing" /\ Open[3] = "allocIrq"
  /\ Open[4] = "napiOn" /\ Open[5] = "hwReset" /\ Open[6] = "flagUp"
  /\ Open[7] = "speedOrLink" /\ Open[8] = "scheduleEsd" /\ Open[9] = "linkIntrOn"
  BY DEF Open

LEMMA RingIs ==
  ASSUME rings
  PROVE  /\ Len(RingCalls) = 20
         /\ RingCalls[1] = "napiOff" /\ RingCalls[2] = "napiOn" /\ RingCalls[3] = "flagDown"
         /\ RingCalls[4] = "carrierOff" /\ RingCalls[5] = "txDisable" /\ RingCalls[6] = "napiOff"
         /\ RingCalls[7] = "hwReset" /\ RingCalls[8] = "txClear" /\ RingCalls[9] = "rxClear"
         /\ RingCalls[10] = "freeIrq" /\ RingCalls[11] = "freeRings" /\ RingCalls[12] = "allocRings"
         /\ RingCalls[13] = "initRing" /\ RingCalls[14] = "allocIrq" /\ RingCalls[15] = "napiOn"
         /\ RingCalls[16] = "hwReset" /\ RingCalls[17] = "flagUp" /\ RingCalls[18] = "speedOrLink"
         /\ RingCalls[19] = "scheduleEsd" /\ RingCalls[20] = "linkIntrOn"
  BY DEF RingCalls, Close, Down, Open

LEMMA MtuIs ==
  /\ Len(MtuCalls) = 9
  /\ MtuCalls[1] = "carrierOff" /\ MtuCalls[2] = "txDisable" /\ MtuCalls[3] = "napiOff"
  /\ MtuCalls[4] = "hwReset" /\ MtuCalls[5] = "txClear" /\ MtuCalls[6] = "rxClear"
  /\ MtuCalls[7] = "initRing" /\ MtuCalls[8] = "napiOn" /\ MtuCalls[9] = "checkLink"
  BY DEF MtuCalls, Down

LEMMA EsdIs ==
  /\ Len(EsdCalls) = 10
  /\ EsdCalls[1] = "carrierOff" /\ EsdCalls[2] = "txDisable" /\ EsdCalls[3] = "hwReset"
  /\ EsdCalls[4] = "txClear" /\ EsdCalls[5] = "rxClear" /\ EsdCalls[6] = "refill"
  /\ EsdCalls[7] = "hwReset" /\ EsdCalls[8] = "linkIntrOn" /\ EsdCalls[9] = "setSpeed"
  /\ EsdCalls[10] = "scheduleEsd"
  BY DEF EsdCalls, Rebuild

LEMMA PlansBegin ==
  /\ Open # <<>> /\ MtuCalls # <<>> /\ SuspendCalls # <<>> /\ ResetCalls # <<>> /\ EsdCalls # <<>>
  /\ rings => Close # <<>> /\ RingCalls # <<>>
  <1>1. Len(<<>>) = 0
    OBVIOUS
  <1>2. QED
    BY <1>1, OpenIs, MtuIs, EsdIs, CloseIs, RingIs DEF SuspendCalls, ResetCalls

LEMMA OpenSafe ==
  ASSUME ~carrier, ~sending, ~polling, ~dataIntr, ~irq, ~napi, ~running
  PROVE  /\ Safe("open", Open) /\ Shape("open", Open)
         /\ Before(Open, Len(Open) + 1, FALSE, {"allocRings"}, {})
  <1>1. Before(Open, Len(Open) + 1, FALSE, {"allocRings"}, {})
    BY OpenIs DEF Before
  <1>2. Before(Open, Len(Open) + 1, ~running \/ rings, {"allocRings"}, {})
    BY OpenIs DEF Before
  <1>3. Safe("open", Open)
    BY <1>2, OpenIs DEF Safe, Ensured, Before, RingUsers, RingMakers, Choices
  <1>4. Shape("open", Open)
    BY OpenIs DEF Shape
  <1>5. QED
    BY <1>1, <1>3, <1>4

LEMMA CloseSafe ==
  ASSUME rings
  PROVE  Safe("close", Close) /\ Shape("close", Close)
  <1>1. Len(Close) = 9
    BY CloseIs
  <1>2. Ensured(Close, ~carrier, {"carrierOff"}, {"carrierOn"}, {"txDisable"})
    <2>1. \A j \in 1 .. 9 : Close[j] \in {"txDisable"} => j = 3
      BY CloseIs
    <2>2. Before(Close, 3, ~carrier, {"carrierOff"}, {"carrierOn"})
      BY CloseIs DEF Before
    <2>3. QED
      BY <1>1, <2>1, <2>2 DEF Ensured
  <1>3. \A j \in 1 .. 9 : Close[j] \in RingUsers \cup RingMakers \cup Choices => j \in {6, 7, 9}
    BY CloseIs DEF RingUsers, RingMakers, Choices
  <1>4. Ensured(Close, ~sending /\ ~carrier, {"txDisable"}, {"carrierOn"},
                RingUsers \cup RingMakers)
    <2>1. \A j \in {6, 7, 9} : Before(Close, j, ~sending /\ ~carrier, {"txDisable"}, {"carrierOn"})
      BY CloseIs DEF Before
    <2>2. QED
      BY <1>1, <1>3, <2>1 DEF Ensured
  <1>5. Ensured(Close, ~polling /\ ~dataIntr, {"napiOff"}, {"hwStart"},
               RingUsers \cup RingMakers \cup Choices)
    <2>1. \A j \in {6, 7, 9} : Before(Close, j, ~polling /\ ~dataIntr, {"napiOff"}, {"hwStart"})
      BY CloseIs DEF Before
    <2>2. QED
      BY <1>1, <1>3, <2>1 DEF Ensured
  <1>6. /\ Ensured(Close, ~napi, {"napiOff"}, {"napiOn"}, RingMakers \cup {"initRing"})
        /\ Ensured(Close, ~irq, {"freeIrq"}, {"allocIrq"}, RingMakers)
        /\ Ensured(Close, ~irq, {"freeIrq"}, {"allocIrq"}, {"initRing"})
    <2>1. \A j \in 1 .. 9 : Close[j] \in RingMakers \cup {"initRing"} => j = 9
      BY CloseIs DEF RingMakers
    <2>2. /\ Before(Close, 9, ~napi, {"napiOff"}, {"napiOn"})
          /\ Before(Close, 9, ~irq, {"freeIrq"}, {"allocIrq"})
      BY CloseIs DEF Before
    <2>3. QED
      BY <1>1, <2>1, <2>2 DEF Ensured
  <1>7. Ensured(Close, rings, {"allocRings"}, {"freeRings"},
               RingUsers \cup Choices \cup {"allocIrq", "hwStart", "carrierOn", "napiOn"})
    <2>1. \A j \in 1 .. 9 :
            Close[j] \in RingUsers \cup Choices \cup {"allocIrq", "hwStart", "carrierOn", "napiOn"}
              => j \in {6, 7}
      BY CloseIs DEF RingUsers, Choices
    <2>2. \A j \in {6, 7} : Before(Close, j, rings, {"allocRings"}, {"freeRings"})
      BY CloseIs DEF Before
    <2>3. QED
      BY <1>1, <2>1, <2>2 DEF Ensured
  <1>8. /\ Ensured(Close, ~attached, {"detach"}, {"attach"}, {"sleep"})
        /\ Ensured(Close, ~asleep, {}, {"sleep"}, {"attach"})
    <2>1. \A j \in 1 .. 9 : Close[j] \notin {"sleep", "attach"}
      BY CloseIs
    <2>2. QED
      BY <1>1, <2>1 DEF Ensured
  <1>9. Before(Close, Len(Close) + 1, ~running \/ rings, {"allocRings"}, {})
    BY CloseIs DEF Before
  <1>10. Safe("close", Close)
    BY <1>2, <1>4, <1>5, <1>6, <1>7, <1>8, <1>9 DEF Safe
  <1>11. \A j \in 1 .. 9 :
           /\ Close[j] \notin {"checkLink", "rxStuck", "speedOrLink", "detach", "sleep",
                              "allocRings", "allocIrq", "initRing"}
           /\ Close[j] = "freeRings" => j = 9
    BY CloseIs
  <1>12. Shape("close", Close)
    BY <1>1, <1>11, CloseIs DEF Shape
  <1>13. QED
    BY <1>10, <1>12

LEMMA RingSafe ==
  ASSUME rings
  PROVE  Safe("ring", RingCalls) /\ Shape("ring", RingCalls)
  <1>1. /\ \A j \in 1 .. 20 : RingCalls[j] \in {"txDisable"} => j = 5
        /\ Before(RingCalls, 5, ~carrier, {"carrierOff"}, {"carrierOn"})
    BY RingIs DEF Before
  <1>2. Ensured(RingCalls, ~carrier, {"carrierOff"}, {"carrierOn"}, {"txDisable"})
    BY <1>1, RingIs DEF Ensured
  <1>3. \A j \in 1 .. 20 :
          RingCalls[j] \in RingUsers \cup RingMakers => j \in {8, 9, 11, 12, 13, 14}
    BY RingIs DEF RingUsers, RingMakers
  <1>4. \A j \in {8, 9, 11, 12, 13, 14} :
          Before(RingCalls, j, ~sending /\ ~carrier, {"txDisable"}, {"carrierOn"})
    BY RingIs DEF Before
  <1>5. Ensured(RingCalls, ~sending /\ ~carrier, {"txDisable"}, {"carrierOn"},
               RingUsers \cup RingMakers)
    BY <1>3, <1>4, RingIs DEF Ensured
  <1>6. \A j \in 1 .. 20 : RingCalls[j] \in Choices => j = 18
    BY RingIs DEF Choices
  <1>7. \A j \in {8, 9, 11, 12, 13, 14, 18} :
          Before(RingCalls, j, ~polling /\ ~dataIntr, {"napiOff"}, {"hwStart"})
    BY RingIs DEF Before
  <1>8. Ensured(RingCalls, ~polling /\ ~dataIntr, {"napiOff"}, {"hwStart"},
               RingUsers \cup RingMakers \cup Choices)
    BY <1>3, <1>6, <1>7, RingIs DEF Ensured
  <1>9. \A j \in 1 .. 20 : RingCalls[j] \in RingMakers \cup {"initRing"} => j \in {11, 12, 13, 14}
    BY RingIs DEF RingMakers
  <1>10. \A j \in {11, 12, 13, 14} :
           /\ Before(RingCalls, j, ~napi, {"napiOff"}, {"napiOn"})
           /\ Before(RingCalls, j, ~irq, {"freeIrq"}, {"allocIrq"})
    BY RingIs DEF Before
  <1>11. /\ Ensured(RingCalls, ~napi, {"napiOff"}, {"napiOn"}, RingMakers \cup {"initRing"})
         /\ Ensured(RingCalls, ~irq, {"freeIrq"}, {"allocIrq"}, RingMakers)
         /\ Ensured(RingCalls, ~irq, {"freeIrq"}, {"allocIrq"}, {"initRing"})
    BY <1>9, <1>10, RingIs DEF Ensured
  <1> DEFINE use == RingUsers \cup Choices \cup {"allocIrq", "hwStart", "carrierOn", "napiOn"}
  <1>12. \A j \in 1 .. 20 : RingCalls[j] \in use => j \in {2, 8, 9, 13, 14, 15, 18}
    BY RingIs DEF RingUsers, Choices
  <1>13. \A j \in {2, 8, 9} : Before(RingCalls, j, rings, {"allocRings"}, {"freeRings"})
    BY RingIs DEF Before
  <1>14. \A j \in {13, 14, 15, 18} : Before(RingCalls, j, rings, {"allocRings"}, {"freeRings"})
    BY RingIs DEF Before
  <1>15. Ensured(RingCalls, rings, {"allocRings"}, {"freeRings"}, use)
    BY <1>12, <1>13, <1>14, RingIs DEF Ensured
  <1>16. \A j \in 1 .. 20 : RingCalls[j] \notin {"detach", "attach", "sleep"}
    BY RingIs
  <1>17. /\ Ensured(RingCalls, ~attached, {"detach"}, {"attach"}, {"sleep"})
         /\ Ensured(RingCalls, ~asleep, {}, {"sleep"}, {"attach"})
    BY <1>16, RingIs DEF Ensured
  <1>18. Before(RingCalls, Len(RingCalls) + 1, ~running \/ rings, {"allocRings"}, {"freeRings"})
    <2>1. Before(RingCalls, 21, ~running \/ rings, {"allocRings"}, {"freeRings"})
      BY RingIs DEF Before
    <2>2. Len(RingCalls) = 20
      BY RingIs
    <2>3. Len(RingCalls) + 1 = 21
      BY <2>2
    <2>4. QED
      BY <2>1, <2>3
  <1>19. Len(RingCalls) = 20
    BY RingIs
  <1>20. Safe("ring", RingCalls)
    BY <1>2, <1>5, <1>8, <1>11, <1>15, <1>17, <1>18 DEF Safe
  <1>21. \A j \in 1 .. 20 :
           /\ RingCalls[j] \notin {"checkLink", "rxStuck", "detach", "sleep"}
           /\ RingCalls[j] = "speedOrLink" =>
                j = 20 - 2 /\ RingCalls[j + 1] = "scheduleEsd" /\ RingCalls[j + 2] = "linkIntrOn"
    BY RingIs
  <1>22. Shape("ring", RingCalls)
    BY <1>21, <1>19 DEF Shape
  <1>23. QED
    BY <1>20, <1>22

LEMMA MtuSafe ==
  ASSUME rings
  PROVE  Safe("mtu", MtuCalls) /\ Shape("mtu", MtuCalls)
  <1>1. Safe("mtu", MtuCalls)
    BY MtuIs DEF Safe, Ensured, Before, RingUsers, RingMakers, Choices
  <1>2. Shape("mtu", MtuCalls)
    BY MtuIs DEF Shape
  <1>3. QED
    BY <1>1, <1>2

LEMMA SuspendSafe ==
  ASSUME rings
  PROVE  Safe("suspend", SuspendCalls) /\ Shape("suspend", SuspendCalls)
  <1>1. Safe("suspend", SuspendCalls)
    BY DEF SuspendCalls, Safe, Ensured, Before, RingUsers, RingMakers, Choices
  <1>2. Shape("suspend", SuspendCalls)
    BY DEF SuspendCalls, Shape
  <1>3. QED
    BY <1>1, <1>2

LEMMA ResumeSafe ==
  ASSUME op' = "resume", todo' = ResumeCalls, rings', ~asleep'
  PROVE  Safe(op, todo)' /\ Shape(op, todo)'
  <1>1. Safe("resume", ResumeCalls)'
    BY DEF ResumeCalls, Safe, Ensured, Before, RingUsers, RingMakers, Choices
  <1>2. Shape("resume", ResumeCalls)
    BY DEF ResumeCalls, Shape
  <1>3. QED
    BY <1>1, <1>2 DEF Safe, Shape, ResumeCalls

LEMMA ResetSafe ==
  ASSUME rings
  PROVE  Safe("reset", ResetCalls) /\ Shape("reset", ResetCalls)
  <1>1. Safe("reset", ResetCalls)
    BY DEF ResetCalls, Safe, Ensured, Before, RingUsers, RingMakers, Choices
  <1>2. Shape("reset", ResetCalls)
    BY DEF ResetCalls, Shape
  <1>3. QED
    BY <1>1, <1>2

LEMMA EsdSafe ==
  ASSUME rings
  PROVE  /\ Safe("esd", EsdCalls) /\ Shape("esd", EsdCalls)
         /\ Safe("esd", <<"scheduleEsd">>) /\ Shape("esd", <<"scheduleEsd">>)
  <1>1. Safe("esd", EsdCalls)
    BY EsdIs DEF Safe, Ensured, Before, RingUsers, RingMakers, Choices
  <1>2. Shape("esd", EsdCalls)
    BY EsdIs DEF Shape
  <1>3. Safe("esd", <<"scheduleEsd">>) /\ Shape("esd", <<"scheduleEsd">>)
    BY DEF Safe, Ensured, Before, RingUsers, RingMakers, Choices, Shape
  <1>4. QED
    BY <1>1, <1>2, <1>3

LEMMA LinkSafe ==
  ASSUME rings
  PROVE  Safe("link", <<"checkLink">>) /\ Shape("link", <<"checkLink">>)
  BY DEF Safe, Ensured, Before, RingUsers, RingMakers, Choices, Shape

-----------------------------------------------------------------------------
(* The rtnl lock is taken                                                  *)

LEMMA SafeKept ==
  ASSUME NEW o, NEW s \in Seq(CallNames), Safe(o, s), op' = o, todo' = s,
         UNCHANGED <<carrier, napi, irq, rings, attached>>,
         ~sending /\ ~carrier => ~sending',
         ~polling /\ ~dataIntr => ~polling' /\ ~dataIntr',
         ~asleep => ~asleep',
         \/ ~running \/ rings => ~running' \/ rings'
         \/ o # "ring" /\ Before(s, Len(s) + 1, FALSE, {"allocRings"}, {})
  PROVE  Safe(op, todo)'
  <1>1. Ensured(s, ~carrier', {"carrierOff"}, {"carrierOn"}, {"txDisable"})
    BY DEF Safe
  <1>2. Ensured(s, ~sending' /\ ~carrier', {"txDisable"}, {"carrierOn"}, RingUsers \cup RingMakers)
    <2>1. ~sending /\ ~carrier => ~sending' /\ ~carrier'
      OBVIOUS
    <2>2. Ensured(s, ~sending /\ ~carrier, {"txDisable"}, {"carrierOn"}, RingUsers \cup RingMakers)
      BY DEF Safe
    <2>3. QED
      BY <2>1, <2>2, EnsuredWeaker
  <1>3. o \notin {"link", "esd"} =>
          Ensured(s, ~polling' /\ ~dataIntr', {"napiOff"}, {"hwStart"},
                  RingUsers \cup RingMakers \cup Choices)
    <2>1. o \notin {"link", "esd"} =>
            Ensured(s, ~polling /\ ~dataIntr, {"napiOff"}, {"hwStart"},
                    RingUsers \cup RingMakers \cup Choices)
      BY DEF Safe
    <2>2. QED
      BY <2>1, EnsuredWeaker
  <1>4. Ensured(s, ~napi', {"napiOff"}, {"napiOn"}, RingMakers \cup {"initRing"})
    BY DEF Safe
  <1>5. /\ Ensured(s, ~irq', {"freeIrq"}, {"allocIrq"}, RingMakers)
        /\ o # "mtu" => Ensured(s, ~irq', {"freeIrq"}, {"allocIrq"}, {"initRing"})
    BY DEF Safe
  <1>6. Ensured(s, rings', {"allocRings"}, {"freeRings"},
               RingUsers \cup Choices \cup {"allocIrq", "hwStart", "carrierOn", "napiOn"})
    BY DEF Safe
  <1>7. Ensured(s, ~attached', {"detach"}, {"attach"}, {"sleep"})
    BY DEF Safe
  <1>8. Ensured(s, ~asleep', {}, {"sleep"}, {"attach"})
    <2>1. Ensured(s, ~asleep, {}, {"sleep"}, {"attach"})
      BY DEF Safe
    <2>2. QED
      BY <2>1, EnsuredWeaker
  <1>9. /\ o = "ring" => Before(s, Len(s) + 1, ~running' \/ rings', {"allocRings"}, {"freeRings"})
        /\ o # "ring" => Before(s, Len(s) + 1, ~running' \/ rings', {"allocRings"}, {})
    BY DEF Safe, Before
  <1>10. QED
    BY <1>1, <1>2, <1>3, <1>4, <1>5, <1>6, <1>7, <1>8, <1>9 DEF Safe

\* Between two operations an interface that runs has its rings.
LEMMA IdleRings ==
  ASSUME TypeOK, LifeInv, op = "none", running
  PROVE  rings
  <1>1. todo = <<>> /\ Len(<<>>) = 0
    BY DEF TypeOK
  <1>2. Before(<<>>, 1, ~running \/ rings, {"allocRings"}, {})
    BY <1>1 DEF LifeInv, Safe
  <1>3. QED
    BY <1>2 DEF Before

\* A plan that is safe when its operation takes the lock keeps the invariant.
LEMMA BeginKeeps ==
  ASSUME TypeOK, LifeInv, op = "none",
         NEW o, NEW s \in Seq(CallNames), Safe(o, s), Shape(o, s), o # "none", op' = o, todo' = s,
         UNCHANGED <<memory, intr, stack, on, dataIntr>>,
         asleep' => asleep,
         \/ running' => running
         \/ o = "open" /\ Before(s, Len(s) + 1, FALSE, {"allocRings"}, {}),
         Attached'
  PROVE  LifeInv'
  <1>1. Safe(op, todo)'
    BY SafeKept DEF memory, intr, stack
  <1>2. Shape(op, todo)'
    BY DEF Shape
  <1>3. QED
    BY <1>1, <1>2 DEF LifeInv, Quiet

\* Every operation begins with what its calls need.
LEMMA BeginStep ==
  ASSUME TypeOK, LifeInv,
         \/ IfUp \/ IfDown \/ SetRingparam \/ ChangeMtu \/ Suspend \/ Resume
         \/ \E t \in Tasks : Task(t) /\ ~UNCHANGED lock
  PROVE  LifeInv'
  <1>0. op = "none" /\ Attached /\ Quiet
    BY DEF IfUp, IfDown, SetRingparam, ChangeMtu, Suspend, Resume, Task, Administer, Begin, LifeInv
  <1>1. CASE IfUp
    <2>1. ~running /\ attached
      BY <1>1 DEF IfUp
    <2>2. ~carrier /\ ~sending /\ ~polling /\ ~dataIntr /\ ~irq /\ ~napi
      BY <1>0, <2>1 DEF Quiet, Attached
    <2>3. /\ Safe("open", Open) /\ Shape("open", Open)
          /\ Before(Open, Len(Open) + 1, FALSE, {"allocRings"}, {})
      BY <2>1, <2>2, OpenSafe
    <2>4. Open # <<>> /\ Open \in Seq(CallNames)
      BY PlansBegin, PlansType
    <2>5. op' = "open" /\ todo' = Open
      BY <1>1, <2>4 DEF IfUp, Administer, Begin
    <2>6. Attached'
      BY <1>0, <1>1, <2>1, <2>5 DEF IfUp, Attached, memory, intr, stack, chip
    <2>7. UNCHANGED <<memory, intr, stack, on, dataIntr, asleep>>
      BY <1>1 DEF IfUp, chip
    <2>8. QED
      BY <1>0, <2>3, <2>4, <2>5, <2>6, <2>7, BeginKeeps
  <1>2. CASE IfDown
    <2>1. rings
      BY <1>0, <1>2, IdleRings DEF IfDown
    <2>2. Close # <<>> /\ Close \in Seq(CallNames) /\ Safe("close", Close) /\ Shape("close", Close)
      BY <2>1, PlansBegin, PlansType, CloseSafe
    <2>3. op' = "close" /\ todo' = Close
      BY <1>2, <2>2 DEF IfDown, Administer, Begin
    <2>4. Attached'
      BY <1>0, <1>2, <2>3 DEF IfDown, Attached, memory, intr, stack, chip
    <2>5. UNCHANGED <<memory, intr, stack, on, dataIntr, asleep>> /\ ~running'
      BY <1>2 DEF IfDown, chip
    <2>6. QED
      BY <1>0, <2>2, <2>3, <2>4, <2>5, BeginKeeps
  <1>3. ASSUME NEW o \in {"ring", "mtu", "suspend", "reset", "esd", "link"},
               NEW s \in Seq(CallNames), s # <<>>, rings => Safe(o, s) /\ Shape(o, s),
               Begin(o, s), running, UNCHANGED <<running, memory, intr, stack, chip>>
        PROVE  LifeInv'
    <2>1. rings
      BY <1>0, <1>3, IdleRings
    <2>2. op' = o /\ todo' = s
      BY <1>3 DEF Begin
    <2>3. Attached'
      BY <1>0, <1>3, <2>2 DEF Attached, memory, intr, stack, chip
    <2>4. QED
      BY <1>0, <1>3, <2>1, <2>2, <2>3, BeginKeeps DEF memory, intr, stack, chip
  <1>4. CASE SetRingparam
    <2>1. rings => RingCalls # <<>> /\ Safe("ring", RingCalls) /\ Shape("ring", RingCalls)
      BY PlansBegin, RingSafe
    <2>2. rings
      BY <1>0, <1>4, IdleRings DEF SetRingparam
    <2>3. QED
      BY <1>3, <1>4, <2>1, <2>2, PlansType DEF SetRingparam, Administer, flags
  <1>5. CASE ChangeMtu
    BY <1>3, <1>5, PlansBegin, MtuSafe, PlansType DEF ChangeMtu, Administer, flags
  <1>6. CASE Suspend
    BY <1>3, <1>6, PlansBegin, SuspendSafe, PlansType DEF Suspend, Administer, flags
  <1>7. CASE Resume
    <2>1. running
      BY <1>0, <1>7 DEF Resume, Attached
    <2>2. rings
      BY <1>0, <2>1, IdleRings
    <2>3. Safe(op, todo)' /\ Shape(op, todo)'
      BY <1>7, <2>2, ResumeSafe DEF Resume, memory
    <2>4. Attached'
      BY <1>0, <1>7, <2>1 DEF Resume, Attached, memory, intr, stack
    <2>5. QED
      BY <1>7, <2>1, <2>3, <2>4 DEF Resume, LifeInv, Quiet
  <1>8. ASSUME NEW t \in Tasks, Task(t), ~UNCHANGED lock
        PROVE  LifeInv'
    <2>1. running /\ UNCHANGED <<running, memory, intr, stack, chip>>
      BY <1>8 DEF Task
    <2>2. \/ Begin("reset", ResetCalls)
          \/ Begin("esd", <<"scheduleEsd">>)
          \/ Begin("esd", EsdCalls)
          \/ Begin("link", <<"checkLink">>)
      BY <1>8 DEF Task
    <2>3. /\ <<"scheduleEsd">> # <<>> /\ <<"scheduleEsd">> \in Seq(CallNames)
          /\ <<"checkLink">> # <<>> /\ <<"checkLink">> \in Seq(CallNames)
      BY DEF CallNames
    <2>4. QED
      BY <1>3, <2>1, <2>2, <2>3, ResetSafe, EsdSafe, LinkSafe, PlansType, PlansBegin
  <1>9. QED
    BY <1>1, <1>2, <1>4, <1>5, <1>6, <1>7, <1>8

-----------------------------------------------------------------------------
(* A call is made                                                          *)

\* What the call c changes, of what the calls behind it need.
Effect(c) ==
  /\ carrier' => c = "carrierOn" \/ (carrier /\ c # "carrierOff")
  /\ UNCHANGED <<sending, polling>>
  /\ c = "txDisable" => ~sending
  /\ c = "napiOff" => ~polling
  /\ dataIntr' => c = "hwStart" \/ (dataIntr /\ c # "napiOff")
  /\ napi' => c = "napiOn" \/ (napi /\ c # "napiOff")
  /\ napi /\ c # "napiOff" => napi'
  /\ irq' => c = "allocIrq" \/ (irq /\ c # "freeIrq")
  /\ rings' <=> c = "allocRings" \/ (rings /\ c # "freeRings")
  /\ attached' <=> c = "attach" \/ (attached /\ c # "detach")
  /\ asleep' => asleep \/ c = "sleep"
  /\ running' <=> running /\ ~(c = "freeRings" /\ op = "open")

\* An allocation fails.
Failing ==
  /\ Head(todo) \in {"allocRings", "initRing", "allocIrq"}
  /\ op \in MayFail
  /\ Continue(Fails)
  /\ rings' <=> rings \/ Head(todo) = "allocRings"
  /\ irq' => irq
  /\ UNCHANGED <<running, napi, polling, dataIntr, stack, asleep>>

LEMMA CallEffect ==
  ASSUME TypeOK, Calls
  PROVE  /\ todo # <<>>
         /\ (Done /\ Effect(Head(todo))) \/ Failing \/ RxNoStuck \/ RxShortage \/ CheckLink
  <1>. USE DEF Effect, Call, flags, memory, intr, stack, chip, wire
  <1>1. CASE SetFlag \/ ScheduleWork
    BY <1>1 DEF SetFlag, ScheduleWork
  <1>2. CASE StackCall
    BY <1>2 DEF StackCall
  <1>3. CASE NapiOff \/ NapiOn
    BY <1>3 DEF NapiOff, NapiOn
  <1>4. CASE HwReset \/ HwStart \/ Sleep
    BY <1>4 DEF HwReset, HwStart, Sleep
  <1>5. CASE AllocRings
    BY <1>5 DEF AllocRings, Failing
  <1>6. CASE InitRing
    BY <1>6 DEF InitRing, Failing
  <1>7. CASE AllocIrq
    BY <1>7 DEF AllocIrq, Failing
  <1>8. CASE FreeIrq
    BY <1>8 DEF FreeIrq
  <1>9. CASE FreeRings
    BY <1>9 DEF FreeRings
  <1>10. CASE Refill
    BY <1>10 DEF Refill
  <1>11. CASE Clear \/ SetSpeed
    BY <1>11 DEF Clear, SetSpeed
  <1>12. CASE RxNoStuck \/ RxShortage \/ CheckLink
    BY <1>12, EmptySeq DEF RxNoStuck, RxShortage, CheckLink
  <1>13. QED
    BY <1>1, <1>2, <1>3, <1>4, <1>5, <1>6, <1>7, <1>8, <1>9, <1>10, <1>11, <1>12 DEF Calls

\* What the next call finds.
LEMMA HeadFinds ==
  ASSUME TypeOK, LifeInv, todo # <<>>, NEW c, c = Head(todo)
  PROVE  /\ c = "txDisable" => ~carrier
         /\ c \in RingUsers \cup RingMakers => ~sending /\ ~carrier
         /\ op \notin {"link", "esd"} /\ c \in RingUsers \cup RingMakers \cup Choices =>
              ~polling /\ ~dataIntr
         /\ c \in RingMakers \cup {"initRing"} => ~napi
         /\ c \in RingMakers => ~irq
         /\ c = "initRing" /\ op # "mtu" => ~irq
         /\ c \in RingUsers \cup Choices \cup {"allocIrq", "hwStart", "carrierOn", "napiOn"} => rings
         /\ c = "sleep" => ~attached
         /\ c = "attach" => ~asleep
  <1>1. todo \in Seq(CallNames)
    BY DEF TypeOK
  <1>2. Safe(op, todo)
    BY DEF LifeInv
  <1>3. c \in {"txDisable"} => ~carrier
    BY <1>1, <1>2, EnsuredHead DEF Safe
  <1>4. c \in RingUsers \cup RingMakers => ~sending /\ ~carrier
    BY <1>1, <1>2, EnsuredHead DEF Safe
  <1>5. op \notin {"link", "esd"} /\ c \in RingUsers \cup RingMakers \cup Choices =>
          ~polling /\ ~dataIntr
    BY <1>1, <1>2, EnsuredHead DEF Safe
  <1>6. c \in RingMakers \cup {"initRing"} => ~napi
    BY <1>1, <1>2, EnsuredHead DEF Safe
  <1>7. /\ c \in RingMakers => ~irq
        /\ c \in {"initRing"} /\ op # "mtu" => ~irq
    BY <1>1, <1>2, EnsuredHead DEF Safe
  <1>8. c \in RingUsers \cup Choices \cup {"allocIrq", "hwStart", "carrierOn", "napiOn"} => rings
    BY <1>1, <1>2, EnsuredHead DEF Safe
  <1>9. /\ c \in {"sleep"} => ~attached
        /\ c \in {"attach"} => ~asleep
    BY <1>1, <1>2, EnsuredHead DEF Safe
  <1>10. QED
    BY <1>3, <1>4, <1>5, <1>6, <1>7, <1>8, <1>9

\* Where the next call is among those of its operation.
LEMMA HeadShape ==
  ASSUME TypeOK, LifeInv, todo # <<>>, NEW c, c = Head(todo)
  PROVE  /\ c \in {"checkLink", "rxStuck"} => Tail(todo) = <<>>
         /\ c = "rxStuck" => op = "reset"
         /\ c = "speedOrLink" =>
              Len(Tail(todo)) = 2 /\ Tail(todo)[1] = "scheduleEsd" /\ Tail(todo)[2] = "linkIntrOn"
         /\ c \in Choices => op # "close"
         /\ c = "freeRings" => op = "ring" \/ (op \in {"open", "close"} /\ Tail(todo) = <<>>)
         /\ c \in {"detach", "sleep"} => op = "suspend"
         /\ c \in {"allocRings", "allocIrq"} => op \in {"open", "ring"}
         /\ c = "initRing" => op \in {"open", "ring", "mtu"}
         /\ op = "close" => c = "freeRings" \/ Tail(todo) # <<>>
  <1>1. /\ todo \in Seq(CallNames) /\ Len(todo) \in Nat \ {0} /\ c = todo[1]
        /\ Tail(todo) \in Seq(CallNames) /\ Len(Tail(todo)) = Len(todo) - 1
        /\ \A i \in 1 .. Len(todo) - 1 : Tail(todo)[i] = todo[i + 1]
    BY HeadTailProperties, EmptySeq DEF TypeOK
  <1>2. Len(todo) = 1 <=> Tail(todo) = <<>>
    BY <1>1, EmptySeq
  <1>3. Shape(op, todo)
    BY DEF LifeInv
  <1>4. ASSUME c = "speedOrLink"
        PROVE  /\ Len(Tail(todo)) = 2
               /\ Tail(todo)[1] = "scheduleEsd" /\ Tail(todo)[2] = "linkIntrOn"
               /\ todo[Len(todo)] = "linkIntrOn"
    <2>1. 1 \in 1 .. Len(todo) /\ todo[1] = "speedOrLink"
      BY <1>1, <1>4
    <2>2. /\ 1 = Len(todo) - 2
          /\ todo[1 + 1] = "scheduleEsd" /\ todo[1 + 2] = "linkIntrOn"
      BY <1>3, <2>1 DEF Shape
    <2>3. Len(todo) \in Nat
      BY <1>1
    <2>4. Len(todo) = 3
      BY <2>2, <2>3
    <2>5. 1 \in 1 .. Len(todo) - 1 /\ 2 \in 1 .. Len(todo) - 1
      BY <2>4
    <2>6. QED
      BY <1>1, <2>2, <2>4, <2>5
  <1>5. 1 \in 1 .. Len(todo)
    BY <1>1
  <1>6. /\ c \in {"checkLink", "rxStuck"} => 1 = Len(todo)
        /\ c = "rxStuck" => op = "reset"
        /\ c = "freeRings" => op = "ring" \/ (op \in {"open", "close"} /\ 1 = Len(todo))
        /\ c \in {"detach", "sleep"} => op = "suspend"
        /\ c \in {"allocRings", "allocIrq"} => op \in {"open", "ring"}
        /\ c = "initRing" => op \in {"open", "ring", "mtu"}
        /\ op = "close" => todo[Len(todo)] = "freeRings"
    BY <1>1, <1>3, <1>5 DEF Shape
  <1>7. op = "close" => c = "freeRings" \/ Tail(todo) # <<>>
    BY <1>1, <1>2, <1>6
  <1>8. c \in Choices => op # "close"
    BY <1>1, <1>4, <1>6 DEF Choices
  <1>9. QED
    BY <1>2, <1>4, <1>6, <1>7, <1>8

LEMMA DoneSafe ==
  ASSUME TypeOK, LifeInv, todo # <<>>, Done, Effect(Head(todo)), Tail(todo) # <<>>
  PROVE  Safe(op, todo)'
  <1> DEFINE c == Head(todo)
             t == Tail(todo)
  <1>1. /\ todo \in Seq(CallNames) /\ t \in Seq(CallNames)
        /\ Len(todo) \in Nat \ {0} /\ Len(t) = Len(todo) - 1
    BY HeadTailProperties, EmptySeq DEF TypeOK
  <1>2. op' = op /\ todo' = t
    BY DEF Done, Continue
  <1>3. Effect(c) /\ Safe(op, todo)
    BY DEF LifeInv
  <1> HIDE DEF t
  <1>4. Ensured(t, ~carrier', {"carrierOff"}, {"carrierOn"}, {"txDisable"})
    <2>1. Ensured(todo, ~carrier, {"carrierOff"}, {"carrierOn"}, {"txDisable"})
      BY <1>3 DEF Safe
    <2>2. /\ c \in {"carrierOff"} => ~carrier'
          /\ ~carrier /\ c \notin {"carrierOn"} => ~carrier'
      BY <1>3 DEF Effect
    <2>3. QED
      BY <1>1, <2>1, <2>2, EnsuredStep DEF t
  <1>5. Ensured(t, ~sending' /\ ~carrier', {"txDisable"}, {"carrierOn"}, RingUsers \cup RingMakers)
    <2>1. Ensured(todo, ~sending /\ ~carrier, {"txDisable"}, {"carrierOn"},
                  RingUsers \cup RingMakers)
      BY <1>3 DEF Safe
    <2>2. /\ c \in {"txDisable"} => ~sending' /\ ~carrier'
          /\ (~sending /\ ~carrier) /\ c \notin {"carrierOn"} => ~sending' /\ ~carrier'
      BY <1>3, HeadFinds DEF Effect
    <2>3. QED
      BY <1>1, <2>1, <2>2, EnsuredStep DEF t
  <1>6. op \notin {"link", "esd"} =>
          Ensured(t, ~polling' /\ ~dataIntr', {"napiOff"}, {"hwStart"},
                  RingUsers \cup RingMakers \cup Choices)
    <2>1. op \notin {"link", "esd"} =>
            Ensured(todo, ~polling /\ ~dataIntr, {"napiOff"}, {"hwStart"},
                    RingUsers \cup RingMakers \cup Choices)
      BY <1>3 DEF Safe
    <2>2. /\ c \in {"napiOff"} => ~polling' /\ ~dataIntr'
          /\ (~polling /\ ~dataIntr) /\ c \notin {"hwStart"} => ~polling' /\ ~dataIntr'
      BY <1>3 DEF Effect
    <2>3. QED
      BY <1>1, <2>1, <2>2, EnsuredStep DEF t
  <1>7. Ensured(t, ~napi', {"napiOff"}, {"napiOn"}, RingMakers \cup {"initRing"})
    <2>1. Ensured(todo, ~napi, {"napiOff"}, {"napiOn"}, RingMakers \cup {"initRing"})
      BY <1>3 DEF Safe
    <2>2. /\ c \in {"napiOff"} => ~napi'
          /\ ~napi /\ c \notin {"napiOn"} => ~napi'
      BY <1>3 DEF Effect
    <2>3. QED
      BY <1>1, <2>1, <2>2, EnsuredStep DEF t
  <1>8. /\ Ensured(t, ~irq', {"freeIrq"}, {"allocIrq"}, RingMakers)
        /\ op # "mtu" => Ensured(t, ~irq', {"freeIrq"}, {"allocIrq"}, {"initRing"})
    <2>1. /\ Ensured(todo, ~irq, {"freeIrq"}, {"allocIrq"}, RingMakers)
          /\ op # "mtu" => Ensured(todo, ~irq, {"freeIrq"}, {"allocIrq"}, {"initRing"})
      BY <1>3 DEF Safe
    <2>2. /\ c \in {"freeIrq"} => ~irq'
          /\ ~irq /\ c \notin {"allocIrq"} => ~irq'
      BY <1>3 DEF Effect
    <2>3. QED
      BY <1>1, <2>1, <2>2, EnsuredStep DEF t
  <1>9. Ensured(t, rings', {"allocRings"}, {"freeRings"},
               RingUsers \cup Choices \cup {"allocIrq", "hwStart", "carrierOn", "napiOn"})
    <2>1. Ensured(todo, rings, {"allocRings"}, {"freeRings"},
                 RingUsers \cup Choices \cup {"allocIrq", "hwStart", "carrierOn", "napiOn"})
      BY <1>3 DEF Safe
    <2>2. /\ c \in {"allocRings"} => rings'
          /\ rings /\ c \notin {"freeRings"} => rings'
      BY <1>3 DEF Effect
    <2>3. QED
      BY <1>1, <2>1, <2>2, EnsuredStep DEF t
  <1>10. Ensured(t, ~attached', {"detach"}, {"attach"}, {"sleep"})
    <2>1. Ensured(todo, ~attached, {"detach"}, {"attach"}, {"sleep"})
      BY <1>3 DEF Safe
    <2>2. /\ c \in {"detach"} => ~attached'
          /\ ~attached /\ c \notin {"attach"} => ~attached'
      BY <1>3 DEF Effect
    <2>3. QED
      BY <1>1, <2>1, <2>2, EnsuredStep DEF t
  <1>11. Ensured(t, ~asleep', {}, {"sleep"}, {"attach"})
    <2>1. Ensured(todo, ~asleep, {}, {"sleep"}, {"attach"})
      BY <1>3 DEF Safe
    <2>2. /\ c \in {} => ~asleep'
          /\ ~asleep /\ c \notin {"sleep"} => ~asleep'
      BY <1>3 DEF Effect
    <2>3. QED
      BY <1>1, <2>1, <2>2, EnsuredStep DEF t
  <1>12. /\ op = "ring" => Before(t, Len(t) + 1, ~running' \/ rings', {"allocRings"}, {"freeRings"})
         /\ op # "ring" => Before(t, Len(t) + 1, ~running' \/ rings', {"allocRings"}, {})
    <2>1. Len(t) + 1 \in 1 .. Len(todo) /\ (Len(t) + 1) + 1 = Len(todo) + 1
      BY <1>1
    <2>2. c \in {"allocRings"} => ~running' \/ rings'
      BY <1>3 DEF Effect
    <2>3. (~running \/ rings) /\ c # "freeRings" => ~running' \/ rings'
      BY <1>3 DEF Effect
    <2>4. c = "freeRings" /\ op # "ring" => ~running' \/ rings'
      BY <1>3, HeadShape DEF Effect, LifeInv, Attached
    <2>5. op = "ring" => Before(t, Len(t) + 1, ~running' \/ rings', {"allocRings"}, {"freeRings"})
      BY <1>1, <1>3, <2>1, <2>2, <2>3, BeforeStep DEF Safe, t
    <2>6. op # "ring" => Before(t, Len(t) + 1, ~running' \/ rings', {"allocRings"}, {})
      BY <1>1, <1>3, <2>1, <2>2, <2>3, <2>4, BeforeStep DEF Safe, t
    <2>7. QED
      BY <2>5, <2>6
  <1>13. QED
    BY <1>2, <1>4, <1>5, <1>6, <1>7, <1>8, <1>9, <1>10, <1>11, <1>12 DEF Safe

LEMMA DoneShape ==
  ASSUME TypeOK, LifeInv, todo # <<>>, Done, Tail(todo) # <<>>
  PROVE  Shape(op, todo)'
  <1> DEFINE t == Tail(todo)
  <1>1. /\ todo \in Seq(CallNames) /\ t \in Seq(CallNames)
        /\ Len(todo) \in Nat \ {0} /\ Len(t) = Len(todo) - 1 /\ Len(t) \in Nat \ {0}
        /\ \A i \in 1 .. Len(todo) - 1 : t[i] = todo[i + 1]
    BY HeadTailProperties, EmptySeq DEF TypeOK
  <1>2. op' = op /\ todo' = t
    BY DEF Done, Continue
  <1>3. Shape(op, todo)
    BY DEF LifeInv
  <1> HIDE DEF t
  <1>4. ASSUME NEW j \in 1 .. Len(t)
        PROVE  /\ t[j] = "checkLink" => j = Len(t)
               /\ t[j] = "rxStuck" => j = Len(t) /\ op = "reset"
               /\ t[j] = "speedOrLink" =>
                    j = Len(t) - 2 /\ t[j + 1] = "scheduleEsd" /\ t[j + 2] = "linkIntrOn"
               /\ t[j] = "freeRings" => op = "ring" \/ (op \in {"open", "close"} /\ j = Len(t))
               /\ t[j] \in {"detach", "sleep"} => op = "suspend"
               /\ t[j] \in {"allocRings", "allocIrq"} => op \in {"open", "ring"}
               /\ t[j] = "initRing" => op \in {"open", "ring", "mtu"}
    <2>1. j + 1 \in 1 .. Len(todo) /\ t[j] = todo[j + 1]
      BY <1>1
    <2>2. t[j] = "speedOrLink" =>
            j = Len(t) - 2 /\ t[j + 1] = "scheduleEsd" /\ t[j + 2] = "linkIntrOn"
      <3>1. SUFFICES ASSUME t[j] = "speedOrLink"
                     PROVE  j = Len(t) - 2 /\ t[j + 1] = "scheduleEsd" /\ t[j + 2] = "linkIntrOn"
        OBVIOUS
      <3>2. /\ j + 1 = Len(todo) - 2
            /\ todo[(j + 1) + 1] = "scheduleEsd" /\ todo[(j + 1) + 2] = "linkIntrOn"
        BY <1>3, <2>1, <3>1 DEF Shape
      <3>3. /\ j = Len(t) - 2 /\ j + 1 \in 1 .. Len(todo) - 1 /\ j + 2 \in 1 .. Len(todo) - 1
            /\ (j + 2) + 1 = (j + 1) + 2
        BY <1>1, <3>2
      <3>4. QED
        BY <1>1, <3>2, <3>3
    <2>3. QED
      BY <1>1, <1>3, <2>1, <2>2 DEF Shape
  <1>5. op = "close" => t[Len(t)] = "freeRings"
    BY <1>1, <1>3 DEF Shape
  <1>6. QED
    BY <1>2, <1>4, <1>5 DEF Shape

LEMMA DoneAttached ==
  ASSUME TypeOK, LifeInv, todo # <<>>, Done, Effect(Head(todo))
  PROVE  Attached' /\ Quiet'
  <1> DEFINE c == Head(todo)
  <1>1. Effect(c) /\ Attached /\ op # "none"
    BY DEF LifeInv, TypeOK
  <1>2. op' = (IF Tail(todo) = <<>> THEN "none" ELSE op)
    BY DEF Done, Continue
  <1> HIDE DEF c
  <1>3. polling' => napi'
    BY <1>1 DEF Effect, Attached
  <1>4. napi' \/ carrier' \/ sending' => rings'
    <2>1. c \in {"napiOn", "carrierOn"} => rings
      BY HeadFinds DEF c
    <2>2. c = "freeRings" => ~napi /\ ~carrier /\ ~sending
      BY HeadFinds DEF c, RingMakers
    <2>3. QED
      BY <1>1, <2>1, <2>2 DEF Effect, Attached
  <1>5. asleep' => ~attached'
    <2>1. /\ c = "sleep" => ~attached
          /\ c = "attach" => ~asleep
      BY HeadFinds DEF c
    <2>2. QED
      BY <1>1, <2>1 DEF Effect, Attached
  <1>6. /\ c = "freeRings" => op = "ring" \/ (op \in {"open", "close"} /\ Tail(todo) = <<>>)
        /\ c \in {"detach", "sleep"} => op = "suspend"
        /\ op = "close" => c = "freeRings" \/ Tail(todo) # <<>>
    BY HeadShape DEF c
  <1>7. /\ ~running' => op' \in {"none", "close"} /\ attached'
        /\ op' \in {"open", "close"} => attached'
        /\ op' = "close" => ~running'
    BY <1>1, <1>2, <1>6 DEF Effect, Attached
  <1>8. ~running' /\ op' = "none" => ~irq' /\ ~napi' /\ ~rings' /\ ~dataIntr'
    <2>1. ~running' /\ op' = "none" => c = "freeRings"
      BY <1>1, <1>2, <1>6 DEF Effect, Attached
    <2>2. c = "freeRings" => op \notin {"link", "esd"}
      BY <1>6
    <2>3. c = "freeRings" => ~irq /\ ~napi /\ ~dataIntr
      BY <2>2, HeadFinds DEF c, RingMakers
    <2>4. QED
      BY <1>1, <2>1, <2>3 DEF Effect
  <1>9. QED
    BY <1>3, <1>4, <1>5, <1>7, <1>8 DEF Attached, Quiet

\* The last call of an operation leaves the rings of a running interface.
LEMMA EndSafe ==
  ASSUME TypeOK, LifeInv, todo # <<>>, Done, Effect(Head(todo)), Tail(todo) = <<>>
  PROVE  Safe(op, todo)' /\ Shape(op, todo)'
  <1>1. op' = "none" /\ todo' = <<>> /\ Len(<<>>) = 0
    BY DEF Done, Continue
  <1>2. /\ todo \in Seq(CallNames) /\ Len(todo) = 1 /\ 1 \in 1 .. Len(todo)
    <2>1. todo \in Seq(CallNames) /\ Len(todo) \in Nat /\ Len(Tail(todo)) = Len(todo) - 1
      BY HeadTailProperties DEF TypeOK
    <2>2. 0 = Len(todo) - 1
      BY <1>1, <2>1
    <2>3. Len(todo) = 1
      BY <2>1, <2>2
    <2>4. QED
      BY <2>1, <2>3
  <1>3. ~running' \/ rings'
    <2>1. Effect(Head(todo)) /\ Safe(op, todo) /\ Attached
      BY DEF LifeInv
    <2>2. Head(todo) = "freeRings" => ~running' \/ op = "ring"
      BY <2>1, HeadShape DEF Effect, Attached
    <2>3. op = "ring" => \/ Head(todo) \in {"allocRings"}
                         \/ Head(todo) # "freeRings" /\ (~running \/ rings)
      BY <1>2, <2>1, HeadTailProperties DEF Safe, Before
    <2>4. op # "ring" => Head(todo) \in {"allocRings"} \/ ~running \/ rings
      BY <1>2, <2>1, HeadTailProperties DEF Safe, Before
    <2>5. QED
      BY <2>1, <2>2, <2>3, <2>4 DEF Effect
  <1>4. Safe(op, todo)'
    BY <1>1, <1>3 DEF Safe, Ensured, Before
  <1>5. Shape(op, todo)'
    BY <1>1 DEF Shape
  <1>6. QED
    BY <1>4, <1>5

LEMMA DoneStep ==
  ASSUME TypeOK, LifeInv, todo # <<>>, Done, Effect(Head(todo))
  PROVE  LifeInv'
  BY DoneSafe, DoneShape, DoneAttached, EndSafe DEF LifeInv

\* An allocation that fails: open gives back what it has, change_mtu leaves
\* the interface as it is.
LEMMA FailStep ==
  ASSUME KeepsRings, TypeOK, LifeInv, todo # <<>>, Failing
  PROVE  LifeInv'
  <1> DEFINE c == Head(todo)
  <1>1. op \in {"open", "mtu"} /\ c \in {"allocRings", "initRing", "allocIrq"}
        /\ (op = "mtu" => c = "initRing")
    BY HeadShape DEF Failing, KeepsRings
  <1>2. /\ rings' /\ ~sending' /\ ~carrier' /\ ~polling' /\ ~dataIntr' /\ ~napi'
        /\ op = "open" => ~irq'
    BY <1>1, HeadFinds DEF Failing, RingUsers, RingMakers, stack
  <1>3. /\ UNCHANGED <<running, attached, asleep>>
        /\ op = "open" => todo' = <<"freeRings">> /\ op' = "open"
        /\ op = "mtu" => todo' = <<>> /\ op' = "none"
    BY <1>1 DEF Failing, Continue, Fails, stack
  <1>4. Attached'
    BY <1>1, <1>2, <1>3 DEF LifeInv, Attached
  <1>5. CASE op = "open"
    <2>1. op' = "open" /\ todo' = <<"freeRings">>
      BY <1>3, <1>5
    <2>2. Safe(op, todo)'
      BY <1>2, <1>5, <2>1 DEF Safe, Ensured, Before, RingUsers, RingMakers, Choices
    <2>3. Shape(op, todo)'
      BY <2>1 DEF Shape
    <2>4. QED
      BY <1>4, <2>1, <2>2, <2>3 DEF LifeInv, Quiet
  <1>6. CASE op = "mtu"
    <2>1. op' = "none" /\ todo' = <<>> /\ Len(<<>>) = 0
      BY <1>3, <1>6
    <2>2. Safe(op, todo)'
      BY <1>2, <2>1 DEF Safe, Ensured, Before
    <2>3. Shape(op, todo)'
      BY <2>1 DEF Shape
    <2>4. Quiet'
      BY <1>3, <1>6 DEF LifeInv, Attached, Quiet
    <2>5. QED
      BY <1>4, <2>2, <2>3, <2>4 DEF LifeInv
  <1>7. QED
    BY <1>1, <1>5, <1>6

\* The reset task and the link's work go on in one of two ways.
LEMMA ChoiceStep ==
  ASSUME TypeOK, LifeInv, RxNoStuck \/ RxShortage \/ CheckLink
  PROVE  LifeInv'
  <1> DEFINE c == Head(todo)
  <1>. USE DEF flags, memory, intr, stack, chip
  <1>0. todo # <<>>
    BY EmptySeq DEF RxNoStuck, RxShortage, CheckLink, Call
  <1>1. UNCHANGED <<running, memory, intr, stack, chip>>
    BY DEF RxNoStuck, RxShortage, CheckLink
  <1>2. todo' # <<>> => op' = op
    <2>1. ASSUME NEW s, Continue(s), todo' # <<>>
          PROVE  op' = op
      BY <2>1 DEF Continue
    <2>2. QED
      BY <2>1 DEF RxNoStuck, RxShortage, CheckLink
  <1>3. c \in {"rxStuck", "checkLink", "speedOrLink"}
    BY DEF RxNoStuck, RxShortage, CheckLink, Call
  <1>4. /\ rings /\ op # "none" /\ Attached
        /\ op \notin {"link", "esd"} => ~polling /\ ~dataIntr
        /\ c = "rxStuck" => ~sending /\ ~carrier /\ op = "reset" /\ ~polling /\ ~dataIntr
    BY <1>0, <1>3, HeadFinds, HeadShape DEF RingUsers, Choices, TypeOK, LifeInv
  <1>5. ASSUME NEW s \in Seq(CallNames), s # <<>>, todo' = s, Safe(op, s), Shape(op, s)
        PROVE  LifeInv'
    <2>1. op' = op
      BY <1>2, <1>5
    <2>2. Safe(op, todo)'
      BY <1>1, <1>5, <2>1, SafeKept
    <2>3. Shape(op, todo)'
      BY <1>5, <2>1 DEF Shape
    <2>4. QED
      BY <1>1, <1>4, <2>1, <2>2, <2>3 DEF LifeInv, Attached, Quiet
  <1>6. CASE RxShortage
    <2>1. op = "reset" /\ todo' = <<"scheduleReset">> /\ <<"scheduleReset">> \in Seq(CallNames)
      BY <1>4, <1>6 DEF RxShortage, Call, Continue, CallNames
    <2>2. Safe("reset", <<"scheduleReset">>) /\ Shape("reset", <<"scheduleReset">>)
      BY <1>4 DEF Safe, Ensured, Before, Shape, RingUsers, RingMakers, Choices
    <2>3. QED
      BY <1>5, <2>1, <2>2
  <1>7. CASE RxNoStuck
    <2>1. op = "reset"
      BY <1>4, <1>7 DEF RxNoStuck, Call
    <2>2. PICK s : s = todo'
      OBVIOUS
    <2>3. /\ s \in Seq(CallNames) /\ s # <<>>
          /\ s[1] = "rxClear" /\ s[2] = "refill"
          /\ \/ Len(s) = 3 /\ s[3] = "checkLink"
             \/ Len(s) = 4 /\ s[3] = "linkIntrOn" /\ s[4] = "setSpeed"
      <3>1. CASE keep
        <4>1. s = <<"rxClear", "refill">> \o <<"checkLink">>
          BY <1>7, <2>2, <3>1 DEF RxNoStuck, Continue, Rebuild
        <4>2. /\ <<"rxClear", "refill">> \in Seq(CallNames) /\ <<"checkLink">> \in Seq(CallNames)
          BY DEF CallNames
        <4>3. Len(s) = 3 /\ s[1] = "rxClear" /\ s[2] = "refill" /\ s[3] = "checkLink"
          BY <4>1
        <4>4. QED
          BY <4>1, <4>2, <4>3, ConcatProperties, EmptySeq
      <3>2. CASE ~keep
        <4>1. s = <<"rxClear", "refill">> \o <<"linkIntrOn", "setSpeed">>
          BY <1>7, <2>2, <3>2 DEF RxNoStuck, Continue, Rebuild
        <4>2. /\ <<"rxClear", "refill">> \in Seq(CallNames)
              /\ <<"linkIntrOn", "setSpeed">> \in Seq(CallNames)
          BY DEF CallNames
        <4>3. /\ Len(s) = 4 /\ s[1] = "rxClear" /\ s[2] = "refill"
              /\ s[3] = "linkIntrOn" /\ s[4] = "setSpeed"
          BY <4>1
        <4>4. QED
          BY <4>1, <4>2, <4>3, ConcatProperties, EmptySeq
      <3>3. QED
        BY <3>1, <3>2
    <2>4. Safe("reset", s)
      <3>1. \A j \in 1 .. Len(s) :
              s[j] \in {"rxClear", "refill", "checkLink", "linkIntrOn", "setSpeed"}
        BY <2>3
      <3>2. rings /\ ~sending /\ ~carrier /\ ~polling /\ ~dataIntr
        BY <1>4, <1>7 DEF RxNoStuck, Call
      <3>3. /\ Before(s, Len(s) + 1, ~running \/ rings, {"allocRings"}, {})
            /\ "reset" # "ring"
        BY <3>2 DEF Before
      <3>4. QED
        BY <3>1, <3>2, <3>3 DEF Safe, Ensured, Before, RingUsers, RingMakers, Choices
    <2>5. Shape("reset", s)
      <3>1. \A j \in 1 .. Len(s) :
              /\ s[j] \in {"rxClear", "refill", "checkLink", "linkIntrOn", "setSpeed"}
              /\ s[j] = "checkLink" => j = Len(s)
        <4>1. CASE Len(s) = 3
          BY <2>3, <4>1
        <4>2. CASE Len(s) = 4
          BY <2>3, <4>2
        <4>3. QED
          BY <2>3, <4>1, <4>2
      <3>2. QED
        BY <3>1 DEF Shape
    <2>6. QED
      BY <1>5, <2>1, <2>2, <2>3, <2>4, <2>5
  <1>8. CASE CheckLink
    <2>1. c \in Choices
      BY <1>8 DEF CheckLink, Call, Choices
    <2>2. op # "close"
      BY <1>0, <2>1, HeadShape
    <2>3. PICK t : t = Tail(todo)
      OBVIOUS
    <2>4. /\ t \in Seq(CallNames)
          /\ Len(t) = 0 \/ (Len(t) = 2 /\ t[1] = "scheduleEsd" /\ t[2] = "linkIntrOn")
      BY <1>0, <2>1, <2>3, HeadShape, HeadTailProperties, EmptySeq DEF TypeOK, Choices
    <2>5. CASE link
      <3>1. PICK s : s = LinkOn \o t
        OBVIOUS
      <3>2. s \in Seq(CallNames) /\ todo' = s
        BY <1>8, <2>3, <2>4, <2>5, <3>1, PlansType, ConcatProperties DEF CheckLink, Continue
      <3>3. /\ LinkOn \in Seq(CallNames) /\ Len(LinkOn) = 4 /\ LinkOn[1] = "hwReset"
            /\ LinkOn[2] = "hwStart" /\ LinkOn[3] = "carrierOn" /\ LinkOn[4] = "wake"
        BY PlansType DEF LinkOn
      <3>4. /\ Len(s) = 4 + Len(t)
            /\ \A i \in 1 .. 4 : s[i] = LinkOn[i]
            /\ Len(t) = 2 => s[5] = t[1] /\ s[6] = t[2]
        <4>1. /\ Len(s) = Len(LinkOn) + Len(t)
              /\ \A i \in 1 .. Len(LinkOn) + Len(t) :
                   s[i] = IF i <= Len(LinkOn) THEN LinkOn[i] ELSE t[i - Len(LinkOn)]
          BY <2>4, <3>1, <3>3, ConcatProperties
        <4>2. QED
          BY <2>4, <3>3, <4>1
      <3>5. s[1] = "hwReset" /\ s[2] = "hwStart" /\ s[3] = "carrierOn" /\ s[4] = "wake"
        BY <3>3, <3>4
      <3>6. Len(s) = 4 \/ (Len(s) = 6 /\ s[5] = "scheduleEsd" /\ s[6] = "linkIntrOn")
        <4>1. CASE Len(t) = 0
          BY <3>4, <4>1
        <4>2. CASE Len(t) = 2
          BY <2>4, <3>4, <4>2
        <4>3. QED
          BY <2>4, <4>1, <4>2
      <3>7. Safe(op, s)
        <4>1. \A j \in 1 .. Len(s) :
                s[j] \in {"hwReset", "hwStart", "carrierOn", "wake", "scheduleEsd", "linkIntrOn"}
          BY <3>5, <3>6
        <4>2. Before(s, Len(s) + 1, ~running \/ rings, {"allocRings"}, {})
              /\ Before(s, Len(s) + 1, ~running \/ rings, {"allocRings"}, {"freeRings"})
          BY <1>4, <4>1, <3>6 DEF Before
        <4>3. QED
          BY <1>4, <4>1, <4>2 DEF Safe, Ensured, Before, RingUsers, RingMakers, Choices
      <3>8. Shape(op, s) /\ s # <<>>
        <4>1. \A j \in 1 .. Len(s) :
                s[j] \in {"hwReset", "hwStart", "carrierOn", "wake", "scheduleEsd", "linkIntrOn"}
          BY <3>5, <3>6
        <4>2. s # <<>>
          BY <3>6, EmptySeq
        <4>3. QED
          BY <2>2, <4>1, <4>2 DEF Shape
      <3>9. QED
        BY <1>5, <3>2, <3>7, <3>8
    <2>6. CASE ~link
      <3>1. PICK s : s = LinkDown \o t
        OBVIOUS
      <3>2. s \in Seq(CallNames) /\ todo' = s
        BY <1>8, <2>3, <2>4, <2>6, <3>1, PlansType, ConcatProperties DEF CheckLink, Continue
      <3>3. /\ LinkDown \in Seq(CallNames) /\ Len(LinkDown) = 7
            /\ LinkDown[1] = "carrierOff" /\ LinkDown[2] = "txDisable" /\ LinkDown[3] = "linkReset"
            /\ LinkDown[4] = "txClear" /\ LinkDown[5] = "rxClear" /\ LinkDown[6] = "refill"
            /\ LinkDown[7] = "linkIntrOn"
        BY PlansType DEF LinkDown
      <3>4. /\ Len(s) = 7 + Len(t)
            /\ \A i \in 1 .. 7 : s[i] = LinkDown[i]
            /\ Len(t) = 2 => s[8] = t[1] /\ s[9] = t[2]
        <4>1. /\ Len(s) = Len(LinkDown) + Len(t)
              /\ \A i \in 1 .. Len(LinkDown) + Len(t) :
                   s[i] = IF i <= Len(LinkDown) THEN LinkDown[i] ELSE t[i - Len(LinkDown)]
          BY <2>4, <3>1, <3>3, ConcatProperties
        <4>2. QED
          BY <2>4, <3>3, <4>1
      <3>5. /\ s[1] = "carrierOff" /\ s[2] = "txDisable" /\ s[3] = "linkReset"
            /\ s[4] = "txClear" /\ s[5] = "rxClear" /\ s[6] = "refill"
            /\ s[7] = "linkIntrOn"
        BY <3>3, <3>4
      <3>6. Len(s) = 7 \/ (Len(s) = 9 /\ s[8] = "scheduleEsd" /\ s[9] = "linkIntrOn")
        <4>1. CASE Len(t) = 0
          BY <3>4, <4>1
        <4>2. CASE Len(t) = 2
          BY <2>4, <3>4, <4>2
        <4>3. QED
          BY <2>4, <4>1, <4>2
      <3>7. Safe(op, s)
        <4>1. \A j \in 1 .. Len(s) :
                /\ s[j] \in {"carrierOff", "txDisable", "linkReset", "txClear", "rxClear", "refill",
                            "linkIntrOn", "scheduleEsd"}
                /\ s[j] = "txDisable" => j = 2
                /\ s[j] \in {"txClear", "rxClear", "refill"} => j \in {4, 5, 6}
          BY <3>5, <3>6
        <4>2. Before(s, Len(s) + 1, ~running \/ rings, {"allocRings"}, {})
              /\ Before(s, Len(s) + 1, ~running \/ rings, {"allocRings"}, {"freeRings"})
          BY <1>4, <4>1, <3>6 DEF Before
        <4>3. Before(s, 2, ~carrier, {"carrierOff"}, {"carrierOn"})
          BY <3>5 DEF Before
        <4>4. \A j \in {4, 5, 6} : Before(s, j, ~sending /\ ~carrier, {"txDisable"}, {"carrierOn"})
          BY <3>5 DEF Before
        <4>5. Ensured(s, ~carrier, {"carrierOff"}, {"carrierOn"}, {"txDisable"})
          BY <4>1, <4>3 DEF Ensured
        <4>6. Ensured(s, ~sending /\ ~carrier, {"txDisable"}, {"carrierOn"},
                      RingUsers \cup RingMakers)
          BY <4>1, <4>4 DEF Ensured, RingUsers, RingMakers
        <4>7. op \notin {"link", "esd"} =>
                Ensured(s, ~polling /\ ~dataIntr, {"napiOff"}, {"hwStart"},
                        RingUsers \cup RingMakers \cup Choices)
          BY <1>4, <4>1 DEF Ensured, Before
        <4>8. /\ Ensured(s, ~napi, {"napiOff"}, {"napiOn"}, RingMakers \cup {"initRing"})
              /\ Ensured(s, ~irq, {"freeIrq"}, {"allocIrq"}, RingMakers)
              /\ Ensured(s, ~irq, {"freeIrq"}, {"allocIrq"}, {"initRing"})
              /\ Ensured(s, ~attached, {"detach"}, {"attach"}, {"sleep"})
              /\ Ensured(s, ~asleep, {}, {"sleep"}, {"attach"})
          BY <4>1 DEF Ensured, RingMakers
        <4>9. Ensured(s, rings, {"allocRings"}, {"freeRings"},
                     RingUsers \cup Choices \cup {"allocIrq", "hwStart", "carrierOn", "napiOn"})
          BY <1>4, <4>1 DEF Ensured, Before
        <4>10. QED
          BY <4>2, <4>5, <4>6, <4>7, <4>8, <4>9 DEF Safe
      <3>8. Shape(op, s) /\ s # <<>>
        <4>1. \A j \in 1 .. Len(s) :
                s[j] \in {"carrierOff", "txDisable", "linkReset", "txClear", "rxClear", "refill",
                         "linkIntrOn", "scheduleEsd"}
          BY <3>5, <3>6
        <4>2. s # <<>>
          BY <3>6, EmptySeq
        <4>3. QED
          BY <2>2, <4>1, <4>2 DEF Shape
      <3>9. QED
        BY <1>5, <3>2, <3>7, <3>8
    <2>7. QED
      BY <2>5, <2>6
  <1>9. QED
    BY <1>6, <1>7, <1>8

-----------------------------------------------------------------------------
(* What goes on beside the lock                                            *)

\* Interrupts, polls and transmissions take nothing from the operation that
\* holds the lock.
LEMMA BesideStep ==
  ASSUME TypeOK, LifeInv, UNCHANGED lock,
         UNCHANGED <<running, rings, irq, napi, carrier, attached, asleep>>,
         ~sending /\ ~carrier => ~sending',
         ~polling /\ ~dataIntr => ~polling' /\ ~dataIntr',
         polling' => polling \/ napi,
         sending' => sending \/ carrier
  PROVE  LifeInv'
  <1>1. op' = op /\ todo' = todo /\ todo \in Seq(CallNames)
    BY DEF lock, TypeOK
  <1>2. Safe(op, todo)'
    BY <1>1, SafeKept DEF LifeInv
  <1>3. Shape(op, todo)'
    BY <1>1 DEF LifeInv, Shape
  <1>4. Attached'
    BY <1>1 DEF LifeInv, Attached
  <1>5. Quiet'
    BY <1>1 DEF LifeInv, Attached, Quiet
  <1>6. QED
    BY <1>2, <1>3, <1>4, <1>5 DEF LifeInv

LEMMA LifeInit == Init => LifeInv
  <1>. SUFFICES ASSUME Init PROVE LifeInv
    OBVIOUS
  <1>1. op = "none" /\ todo = <<>> /\ Len(<<>>) = 0
    BY DEF Init
  <1>2. Safe(op, todo) /\ Shape(op, todo)
    BY <1>1 DEF Init, Safe, Shape, Ensured, Before
  <1>3. Attached /\ Quiet
    BY DEF Init, Attached, Quiet
  <1>4. QED
    BY <1>2, <1>3 DEF LifeInv

LEMMA LifeNext == KeepsRings /\ TypeOK /\ LifeInv /\ [Next]_vars => LifeInv'
  <1>. SUFFICES ASSUME KeepsRings, TypeOK, LifeInv, [Next]_vars PROVE LifeInv'
    OBVIOUS
  <1>1. CASE IfUp \/ IfDown \/ SetRingparam \/ ChangeMtu \/ Suspend \/ Resume
    BY <1>1, BeginStep
  <1>2. ASSUME NEW t \in Tasks, Task(t)
        PROVE  LifeInv'
    <2>1. CASE UNCHANGED lock
      BY <1>2, <2>1, BesideStep DEF Task, memory, intr, stack, chip
    <2>2. CASE ~UNCHANGED lock
      BY <1>2, <2>2, BeginStep
    <2>3. QED
      BY <2>1, <2>2
  <1>3. CASE Calls
    BY <1>3, CallEffect, DoneStep, FailStep, ChoiceStep
  <1>4. CASE DataInterrupt \/ PollEnd
    BY <1>4, BesideStep DEF DataInterrupt, PollEnd, flags, memory, stack
  <1>5. CASE LinkInterrupt
    BY <1>5, BesideStep DEF LinkInterrupt, memory, intr, stack
  <1>6. CASE XmitBegin \/ XmitEnd
    BY <1>6, BesideStep DEF XmitBegin, XmitEnd, flags, memory, intr, chip
  <1>7. CASE TxTimeout
    BY <1>7, BesideStep DEF TxTimeout, memory, intr, stack, chip
  <1>8. CASE Flap \/ PhyUp
    BY <1>8, BesideStep DEF Flap, PhyUp, flags, memory, intr, stack
  <1>9. CASE UNCHANGED vars
    BY <1>9, BesideStep DEF vars, flags, memory, intr, stack, chip
  <1>10. QED
    BY <1>1, <1>2, <1>3, <1>4, <1>5, <1>6, <1>7, <1>8, <1>9 DEF Next

LEMMA LifeAlways ==
  ASSUME KeepsRings
  PROVE  Spec => [](TypeOK /\ LifeInv)
  <1>1. Init => TypeOK /\ LifeInv
    BY TypeInit, LifeInit
  <1>2. (TypeOK /\ LifeInv) /\ [Next]_vars => (TypeOK /\ LifeInv)'
    BY TypeNext, LifeNext
  <1>3. QED
    BY <1>1, <1>2, PTL DEF Spec

-----------------------------------------------------------------------------
(***************************************************************************)
(* Neither a poll, nor start_xmit, nor a work, nor a call of any operation *)
(* of the driver touches descriptor rings that are not there, however the  *)
(* interrupts, the works and the administrator interleave and whichever    *)
(* allocation fails but one of rtl8125_set_ringparam.                      *)
(***************************************************************************)
THEOREM RingsOutliveUse ==
  ASSUME KeepsRings
  PROVE  Spec => []NoUseAfterFree
  <1>1. TypeOK /\ LifeInv => NoUseAfterFree
    <2>1. SUFFICES ASSUME TypeOK, LifeInv PROVE NoUseAfterFree
      OBVIOUS
    <2>2. polling \/ sending => rings
      BY <2>1 DEF LifeInv, Attached
    <2>3. RingCall => rings
      BY <2>1, HeadFinds DEF RingCall, RingUsers
    <2>4. QED
      BY <2>2, <2>3 DEF NoUseAfterFree
  <1>2. QED
    BY <1>1, LifeAlways, PTL

(***************************************************************************)
(* No packet is in start_xmit while descriptors are cleared or rebuilt,    *)
(* and no poll runs either, but in the link's work and the ESD check:      *)
(* netif_tx_disable and rtl8125_wait_for_quiescence come early enough in   *)
(* every operation, and nothing the other parts do starts them again.      *)
(***************************************************************************)
THEOREM RebuildsQuietly ==
  ASSUME KeepsRings
  PROVE  Spec => []QuietRings
  <1>1. TypeOK /\ LifeInv => QuietRings
    <2>1. SUFFICES ASSUME TypeOK, LifeInv, RingCall, Head(todo) # "hwStart"
                   PROVE  ~sending /\ (polling => op \in {"link", "esd"})
      BY DEF QuietRings
    <2>2. todo # <<>> /\ Head(todo) \in RingUsers
      BY <2>1 DEF RingCall, RingUsers
    <2>3. QED
      BY <2>1, <2>2, HeadFinds
  <1>2. QED
    BY <1>1, LifeAlways, PTL

(***************************************************************************)
(* An interface that is down holds no vector and no memory, and no poll    *)
(* runs: rtl8125_close and the failures of rtl8125_open take everything    *)
(* back, and no delayed work brings any of it up again.                    *)
(***************************************************************************)
THEOREM DownStaysQuiet ==
  ASSUME KeepsRings
  PROVE  Spec => []DownIsQuiet
  <1>1. LifeInv => DownIsQuiet
    BY DEF LifeInv, Quiet, Attached, DownIsQuiet
  <1>2. QED
    BY <1>1, LifeAlways, PTL
=============================================================================
