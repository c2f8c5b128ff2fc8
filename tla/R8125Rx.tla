------------------------------ MODULE R8125Rx ------------------------------
(***************************************************************************)
(* One receive ring of the Realtek r8125 driver (r8125_n.c): the chip that *)
(* writes frames, the NAPI poll that takes them and refills the ring, the  *)
(* network stack that gives the pages back, and the reset task.  Both      *)
(* builds are here: a frame is copied and its buffer stays ("copy"), or    *)
(* the frame goes up in its half of a page, whose other half goes back to  *)
(* the chip if the stack is done with it ("reuse", ENABLE_PAGE_REUSE).     *)
(*                                                                         *)
(* The chip takes an address when it begins a frame and writes to it until *)
(* it ends the frame, whatever the descriptor says by then.                *)
(***************************************************************************)
EXTENDS Integers, FiniteSets, Functions

CONSTANTS
  NumDesc,     \* ring->num_rx_desc
  PtrMod,      \* cur_rx and dirty_rx count modulo this: 2^32
  Budget,      \* of a poll
  NumBuffers,  \* buffers or pages the memory has for this ring
  Modes,       \* builds
  Trouble,     \* builds in which a frame may be damaged, or no skb be had
  FailInit,    \* init_ring may fail in the reset task
  Rdu,         \* intr_mask has RxDescUnavail (set_intr_mask: HwCurrIsrVer 1)
  Bounce,      \* link work may find the link up again
  None

ASSUME RingAssumption ==
  /\ NumDesc \in Nat \ {0} /\ Budget \in Nat \ {0}
  /\ PtrMod \in Nat /\ PtrMod > NumDesc /\ PtrMod % NumDesc = 0
  /\ NumBuffers \in Nat /\ NumBuffers >= NumDesc
ASSUME BuildAssumption ==
  /\ Modes \subseteq {"copy", "reuse"} /\ Trouble \subseteq Modes
  /\ {FailInit, Rdu, Bounce} \subseteq BOOLEAN

VARIABLES
  mode,             \* the build; never changes
  cur, dirty,       \* cur_rx, dirty_rx
  own, st,          \* per descriptor: its address while DescOwn is set; the frame
                    \* the chip wrote
  slot,             \* Rx_skbuff, or page and page_offset of rx_buffer
  refs, held,       \* references to a buffer; the halves the stack holds
  on, linking,      \* chip: enabled; the link has been restarted and will come
  hw, dma, isr,     \* its next descriptor, the frame it writes, the interrupt
  imr,              \* the vector is not masked
  pc, who,          \* rtl8125_rx_interrupt; its caller
  c, left, got,     \* its cur_rx, rx_left, total_rx_packets
  spent,            \* the last poll used up its budget and returned less
  reset             \* R8125_FLAG_TASK_RESET_PENDING

pointers == <<cur, dirty>>
desc == <<own, st>>
memory == <<slot, refs, held>>
chip == <<on, linking, hw, dma>>
driver == <<pc, who, c, left, got, spent>>
vars == <<mode, pointers, desc, memory, chip, isr, imr, driver, reset>>

Entry == 0 .. NumDesc - 1
Buffers == 0 .. NumBuffers - 1
Halves == Buffers \X {0, 1}
Nowhere == <<None, 0>>

ASSUME NoneAssumption == None \notin Buffers /\ None \notin Halves

\* A descriptor given back as it is has the address of its buffer, or none of ours.
AddressOf(e) == IF slot[e] = None THEN Nowhere ELSE slot[e]
In(h, b) == h # None /\ h[1] = b

EntryOf(p) == p % NumDesc
Step(p) == (p + 1) % PtrMod
Distance(from, to) == (to - from) % PtrMod
Least(a, b) == IF a < b THEN a ELSE b
Free == {b \in Buffers : refs[b] = 0}

TypeOK ==
  /\ mode \in Modes /\ who \in {"poll", "reset"}
  /\ pc \in {"idle", "loop", "fill", "end"}
  /\ {cur, dirty, c} \subseteq 0 .. PtrMod - 1
  /\ {left, got} \subseteq Nat
  /\ own \in [Entry -> Halves \cup {Nowhere, None}] /\ st \in [Entry -> {"none", "good", "bad"}]
  /\ slot \in [Entry -> Halves \cup {None}]
  /\ refs \in [Buffers -> Nat] /\ held \subseteq Halves
  /\ hw \in Entry /\ dma \in Halves \cup {Nowhere, None}
  /\ {on, linking, isr, imr, spent, reset} \subseteq BOOLEAN

\* A ring that rtl8125_init_ring has filled with n buffers of a set.  Which
\* buffers these are makes no difference.
Fresh(S) ==
  LET page == CHOOSE f \in Injection(Entry, S) : TRUE
  IN [e \in Entry |-> <<page[e], 0>>]

\* Open, and the link is up.
Init ==
  /\ mode \in Modes
  /\ cur = 0 /\ dirty = 0
  /\ slot = Fresh(Buffers) /\ own = slot
  /\ st = [e \in Entry |-> "none"]
  /\ refs = [b \in Buffers |-> IF <<b, 0>> \in Range(slot) THEN 1 ELSE 0] /\ held = {}
  /\ on = TRUE /\ linking = FALSE /\ hw = 0 /\ dma = None /\ isr = FALSE /\ imr = TRUE
  /\ pc = "idle" /\ who = "poll" /\ c = 0 /\ left = 0 /\ got = 0 /\ spent = FALSE
  /\ reset = FALSE

-----------------------------------------------------------------------------
(* The chip and the stack                                                  *)

Fetch ==
  /\ on /\ dma = None /\ own[hw] # None
  /\ dma' = own[hw]
  /\ UNCHANGED <<mode, pointers, desc, memory, on, linking, hw, isr, imr, driver, reset>>

WriteBack ==
  /\ dma # None
  /\ \E result \in {"good"} \cup (IF mode \in Trouble THEN {"bad"} ELSE {}) :
       st' = [st EXCEPT ![hw] = result]
  /\ own' = [own EXCEPT ![hw] = None]
  /\ hw' = (hw + 1) % NumDesc
  /\ dma' = None
  /\ isr' = TRUE
  /\ UNCHANGED <<mode, pointers, memory, on, linking, imr, driver, reset>>

\* A frame finds no descriptor and is lost.
FrameMissed ==
  /\ on /\ dma = None /\ own[hw] = None /\ Rdu /\ ~isr
  /\ isr' = TRUE
  /\ UNCHANGED <<mode, pointers, desc, memory, chip, imr, driver, reset>>

\* The stack has done with a frame; the page goes with the last reference.
StackFree ==
  \E half \in held :
    /\ held' = held \ {half}
    /\ refs' = [refs EXCEPT ![half[1]] = @ - 1]
    /\ UNCHANGED <<mode, pointers, desc, slot, chip, isr, imr, driver, reset>>

-----------------------------------------------------------------------------
(* rtl8125_rx_interrupt                                                    *)

Begin(caller, quota) ==
  /\ pc' = "loop" /\ who' = caller
  /\ c' = cur
  /\ left' = Least(NumDesc - Distance(dirty, cur), quota)
  /\ got' = 0 /\ spent' = FALSE

\* rtl8125_rx_interrupt has returned; its locals are gone.
Return == pc' = "idle" /\ who' = "poll" /\ c' = 0 /\ left' = 0 /\ got' = 0

\* The vector is masked and acknowledged, and the poll runs.  The interrupt may
\* be one of the transmitter.
Interrupt ==
  /\ imr /\ pc = "idle"
  /\ isr' = FALSE /\ imr' = FALSE
  /\ Begin("poll", Budget)
  /\ UNCHANGED <<mode, pointers, desc, memory, chip, reset>>

\* The frame at c, which the chip has given back.
Taken == pc = "loop" /\ left > 0 /\ own[EntryOf(c)] = None
Proceed(n) == c' = Step(c) /\ left' = left - 1 /\ got' = got + n

\* release_descriptor: a damaged frame, one without a first or last fragment, or
\* one no skb is had for; the descriptor goes back to the chip as it is.
Release ==
  /\ Taken /\ (st[EntryOf(c)] # "good" \/ mode \in Trouble)
  /\ st' = [st EXCEPT ![EntryOf(c)] = "none"]
  /\ own' = [own EXCEPT ![EntryOf(c)] = AddressOf(EntryOf(c))]
  /\ Proceed(0)
  /\ UNCHANGED <<mode, pointers, memory, chip, isr, imr, pc, who, spent, reset>>

\* The frame is copied, and its descriptor goes back to the chip.
Copy ==
  /\ mode = "copy" /\ Taken /\ st[EntryOf(c)] = "good"
  /\ st' = [st EXCEPT ![EntryOf(c)] = "none"]
  /\ own' = [own EXCEPT ![EntryOf(c)] = AddressOf(EntryOf(c))]
  /\ Proceed(1)
  /\ UNCHANGED <<mode, pointers, memory, chip, isr, imr, pc, who, spent, reset>>

\* Mutant of Reusable: the stack may still have the other half.
ReusableAlways(b) == refs[b] >= 1

\* rtl8125_reuse_rx_ok
Reusable(b) == refs[b] = 1

\* Mutant of Reuse: the buffer is not taken from its old slot.
ReuseTwice ==
  LET e == EntryOf(c)  d == EntryOf(dirty)  b == slot[e][1]  other == <<b, 1 - slot[e][2]>>
  IN /\ mode = "reuse" /\ Taken /\ st[e] = "good" /\ Reusable(b)
     /\ refs' = [refs EXCEPT ![b] = @ + 1]
     /\ held' = held \cup {slot[e]}
     /\ slot' = [slot EXCEPT ![d] = other]
     /\ own' = [own EXCEPT ![d] = other]
     /\ st' = [st EXCEPT ![e] = "none"]
     /\ dirty' = Step(dirty)
     /\ Proceed(1)
     /\ UNCHANGED <<mode, cur, chip, isr, imr, pc, who, spent, reset>>

\* The half goes up; the other half goes to the first descriptor without a buffer.
Reuse ==
  LET e == EntryOf(c)  d == EntryOf(dirty)  b == slot[e][1]  other == <<b, 1 - slot[e][2]>>
  IN /\ mode = "reuse" /\ Taken /\ st[e] = "good" /\ Reusable(b)
     /\ refs' = [refs EXCEPT ![b] = @ + 1]
     /\ held' = held \cup {slot[e]}
     /\ slot' = [slot EXCEPT ![e] = None, ![d] = other]
     /\ own' = [own EXCEPT ![d] = other]
     /\ st' = [st EXCEPT ![e] = "none"]
     /\ dirty' = Step(dirty)
     /\ Proceed(1)
     /\ UNCHANGED <<mode, cur, chip, isr, imr, pc, who, spent, reset>>

\* The page goes up with the driver's reference.
GiveAway ==
  LET e == EntryOf(c)
  IN /\ mode = "reuse" /\ Taken /\ st[e] = "good" /\ ~Reusable(slot[e][1])
     /\ held' = held \cup {slot[e]}
     /\ slot' = [slot EXCEPT ![e] = None]
     /\ st' = [st EXCEPT ![e] = "none"]
     /\ Proceed(1)
     /\ UNCHANGED <<mode, pointers, own, refs, chip, isr, imr, pc, who, spent, reset>>

LoopEnd ==
  /\ pc = "loop" /\ (left = 0 \/ own[EntryOf(c)] # None)
  /\ pc' = "fill"
  /\ cur' = c
  /\ UNCHANGED <<mode, dirty, desc, memory, chip, isr, imr, who, c, left, got, spent, reset>>

(* rtl8125_rx_fill from dirty_rx to cur_rx *)
FillAt(e) == pc = "fill" /\ dirty # cur /\ e = EntryOf(dirty)

FillSkip ==
  \E e \in Entry :
    /\ FillAt(e) /\ slot[e] # None
    /\ dirty' = Step(dirty)
    /\ UNCHANGED <<mode, cur, desc, memory, chip, isr, imr, driver, reset>>

FillAlloc ==
  \E e \in Entry :
    /\ FillAt(e) /\ slot[e] = None /\ Free # {}
    /\ LET b == CHOOSE b \in Free : TRUE
       IN /\ refs' = [refs EXCEPT ![b] = 1]
          /\ slot' = [slot EXCEPT ![e] = <<b, 0>>]
          /\ own' = [own EXCEPT ![e] = <<b, 0>>]
    /\ dirty' = Step(dirty)
    /\ UNCHANGED <<mode, cur, st, held, chip, isr, imr, driver, reset>>

\* Without memory the fill ends; rtl8125_alloc_rx_skb takes the descriptor back.
FillShort ==
  \E e \in Entry :
    /\ FillAt(e) /\ slot[e] = None
    /\ own' = IF mode = "copy" THEN [own EXCEPT ![e] = None] ELSE own
    /\ pc' = "end"
    /\ UNCHANGED <<mode, pointers, st, memory, chip, isr, imr, who, c, left, got, spent, reset>>

\* The fill has come to cur_rx, or to the end of the memory.
Filled == pc = "end" \/ (pc = "fill" /\ dirty = cur)

\* Mutant of PollEnd: napi_complete_done also when the budget is used up, with
\* the vector left masked.
PollEndMasked ==
  /\ Filled /\ who = "poll"
  /\ Return /\ imr' = (got < Budget) /\ spent' = FALSE
  /\ UNCHANGED <<mode, pointers, desc, memory, chip, isr, reset>>

\* A poll that has used up its budget is called again.
PollEnd ==
  /\ Filled /\ who = "poll"
  /\ \/ got < Budget /\ Return /\ imr' = TRUE /\ spent' = (left = 0)
     \/ got >= Budget /\ Begin("poll", Budget) /\ UNCHANGED imr
  /\ UNCHANGED <<mode, pointers, desc, memory, chip, isr, reset>>

-----------------------------------------------------------------------------
(* rtl8125_reset_task                                                      *)

\* The watchdog of the transmitter asks for a reset at any time, or the last one
\* did not come to its end.  No poll runs any more and interrupts are masked;
\* frames are taken to the end of the ring.
ResetBegin ==
  /\ on \/ reset
  /\ pc = "idle"
  /\ reset' = FALSE
  /\ imr' = FALSE /\ isr' = FALSE
  /\ Begin("reset", NumDesc)
  /\ UNCHANGED <<mode, pointers, desc, memory, chip>>

ResetEnding == Filled /\ who = "reset"
ChipOff(restarted) == on' = FALSE /\ linking' = restarted /\ dma' = None /\ isr' = FALSE

\* The references left when rtl8125_rx_clear has emptied the slots.
Cleared == [b \in Buffers |-> refs[b] - Cardinality({e \in Entry : In(slot[e], b)})]
Cleanable == {b \in Buffers : Cleared[b] = 0}

\* Whether init_ring finds memory for every descriptor.
Fillings == {TRUE} \cup (IF FailInit THEN {FALSE} ELSE {})

\* Mutant of Reinit: the counters keep their values.
ReinitStale ==
  \E filled \in Fillings :
    /\ ResetEnding /\ dirty = cur /\ (filled => Cardinality(Cleanable) >= NumDesc)
    /\ slot' = IF filled THEN Fresh(Cleanable) ELSE [e \in Entry |-> None]
    /\ own' = slot' /\ st' = [e \in Entry |-> "none"]
    /\ refs' = [b \in Buffers |-> IF <<b, 0>> \in Range(slot') THEN 1 ELSE Cleared[b]]
    /\ ChipOff(TRUE) /\ Return
    /\ UNCHANGED <<mode, pointers, held, hw, imr, spent, reset>>

\* rtl8125_rx_nostuck, rtl8125_rx_clear, rtl8125_init_ring.  Without memory for
\* every descriptor init_ring keeps none, and the reset task does not look at
\* what it returns.
Reinit ==
  \E filled \in Fillings :
    /\ ResetEnding /\ dirty = cur /\ (filled => Cardinality(Cleanable) >= NumDesc)
    /\ slot' = IF filled THEN Fresh(Cleanable) ELSE [e \in Entry |-> None]
    /\ own' = slot' /\ st' = [e \in Entry |-> "none"]
    /\ refs' = [b \in Buffers |-> IF <<b, 0>> \in Range(slot') THEN 1 ELSE Cleared[b]]
    /\ cur' = 0 /\ dirty' = 0
    /\ ChipOff(TRUE) /\ Return
    /\ UNCHANGED <<mode, held, hw, imr, spent, reset>>

\* Mutant of Shortage: the task is not scheduled again.
ShortageForgotten ==
  /\ ResetEnding /\ dirty # cur
  /\ ChipOff(FALSE) /\ Return
  /\ UNCHANGED <<mode, pointers, desc, memory, hw, imr, spent, reset>>

\* "Rx buffers shortage": the chip is off, and the task is scheduled again.
Shortage ==
  /\ ResetEnding /\ dirty # cur
  /\ reset' = TRUE
  /\ ChipOff(FALSE) /\ Return
  /\ UNCHANGED <<mode, pointers, desc, memory, hw, imr, spent>>

\* rtl8125_link_on_patch: hw_config resets the chip, which begins at its first
\* descriptor.  The link comes back after rtl8125_set_speed.
LinkOn ==
  /\ IF on THEN Bounce ELSE linking
  /\ on' = TRUE /\ linking' = FALSE /\ hw' = 0 /\ dma' = None
  /\ isr' = FALSE /\ imr' = TRUE
  /\ UNCHANGED <<mode, pointers, desc, memory, driver, reset>>

Poll ==
  \/ Release \/ Copy \/ Reuse \/ GiveAway \/ LoopEnd
  \/ FillSkip \/ FillAlloc \/ FillShort \/ PollEnd
ResetTask == ResetBegin \/ Reinit \/ Shortage

Next ==
  \/ Fetch \/ WriteBack \/ FrameMissed \/ StackFree
  \/ Interrupt \/ Poll
  \/ ResetTask \/ LinkOn

(***************************************************************************)
(* A frame that is begun is ended, frames keep coming, an interrupt is     *)
(* delivered, a poll goes on, the reset task gets the lock and the link    *)
(* comes back; the stack gives its pages back and a shortage of memory     *)
(* ends.  The watchdog may bark at any time.                               *)
(***************************************************************************)
Fairness ==
  /\ WF_vars(WriteBack) /\ WF_vars(FrameMissed) /\ WF_vars(StackFree)
  /\ WF_vars(isr /\ Interrupt) /\ WF_vars(Poll) /\ SF_vars(FillAlloc)
  /\ WF_vars(reset /\ ResetBegin) /\ WF_vars(Reinit) /\ WF_vars(Shortage) /\ WF_vars(LinkOn)

Spec == Init /\ [][Next]_vars /\ Fairness

-----------------------------------------------------------------------------
(***************************************************************************)
(* The chip writes only into buffers that are the ring's: a descriptor it  *)
(* owns has the buffer of its slot, no other slot has that half, and the   *)
(* stack does not read it; the frame it is at is the one of the descriptor *)
(* it is at (rtl8125_map_to_asic, 18435; rtl8125_reuse_rx_ok, 20040).      *)
(***************************************************************************)
ChipWritesLive ==
  /\ \A e \in Entry : own[e] # None =>
       /\ own[e] = slot[e] /\ own[e] \notin held
       /\ \A f \in Entry \ {e} : ~In(slot[f], own[e][1])
  /\ dma # None => dma = own[hw]

(***************************************************************************)
(* A page is given back when its last user is done, and not before: the    *)
(* references are those of the ring and of the stack.                      *)
(***************************************************************************)
RefsExact ==
  \A b \in Buffers :
    refs[b] = Cardinality({e \in Entry : In(slot[e], b)}) + Cardinality({h \in held : In(h, b)})

(***************************************************************************)
(* The driver waits at the oldest frame: no frame lies in the ring beyond  *)
(* a descriptor the chip has still to write, so none is late or overtaken. *)
(***************************************************************************)
InStep ==
  pc = "idle" /\ st[EntryOf(cur)] = "none" => \A e \in Entry : st[e] = "none"

(***************************************************************************)
(* Every frame the chip has written is taken (or dropped with its ring),   *)
(* unless damaged frames have used up the quota of a poll: they count      *)
(* against rx_left and not as work done (20159, 20418), so that the poll   *)
(* is over, and the frames behind them wait for the next interrupt.        *)
(***************************************************************************)
EveryFrameTaken ==
  \A e \in Entry : st[e] # "none" ~> st[e] = "none" \/ spent

(***************************************************************************)
(* A ring that has lost all its buffers gets new ones.  The comment at     *)
(* 20403 fears that it does not; with RxDescUnavail in the mask, a frame   *)
(* that finds no descriptor has the poll try again.                        *)
(***************************************************************************)
Exhausted == \A e \in Entry : own[e] = None /\ st[e] = "none"
Refilled == Exhausted ~> ~Exhausted
=============================================================================
