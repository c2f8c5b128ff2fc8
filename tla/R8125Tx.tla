------------------------------ MODULE R8125Tx ------------------------------
(***************************************************************************)
(* One transmit ring of the Realtek r8125 driver (r8125_n.c): start_xmit,  *)
(* which the network stack calls under the lock of the queue, the recycle  *)
(* loop of the NAPI poll, the chip, and the works that reset the ring and  *)
(* follow the link.  Transmitter, poll and chip run at the same time:      *)
(* every access to a word another of them writes is a step of its own.     *)
(* The NAPI side publishes dirty_tx with smp_wmb only, so the transmitter  *)
(* may see the old value for a while (seen).                               *)
(*                                                                         *)
(* The queue discipline above the driver and the chip below it are         *)
(* modelled from what the driver expects of them.                          *)
(***************************************************************************)
EXTENDS Integers, Sequences

CONSTANTS
  NumDesc,      \* ring->num_tx_desc: 1024, or what ethtool -G was given
  MaxFrags,     \* MAX_SKB_FRAGS
  PtrMod,       \* cur_tx and dirty_tx count modulo this: 2^32
  CloMod,       \* the chip's tail and close pointers: MaxTxDescPtrMask + 1
  Skbs,         \* the packets; one that was freed may be sent again
  NoCloseModes, \* values of EnableTxNoClose
  LsoPatch,     \* tp->RequireLSOPatch
  Bounce,       \* link work may find the link up on a ring in use
  Drop,         \* ... or down beside a running poll
  None

ASSUME RingAssumption ==
  /\ MaxFrags \in Nat
  /\ NumDesc \in Nat /\ NumDesc > MaxFrags + 1
  /\ CloMod \in Nat /\ CloMod > NumDesc
  /\ PtrMod \in Nat /\ PtrMod % CloMod = 0 /\ PtrMod > 0
ASSUME ModeAssumption ==
  /\ NoCloseModes \subseteq BOOLEAN /\ {LsoPatch, Bounce, Drop} \subseteq BOOLEAN
  /\ None \notin Skbs

VARIABLES
  noClose,             \* EnableTxNoClose; never changes
  cur, dirty, begin,   \* cur_tx, dirty_tx, BeginHwDesCloPtr
  seen,                \* dirty_tx as the transmitting CPU sees it
  own, addr, skb,      \* per descriptor: DescOwn, its buffer, tx_skb[].skb
  stopped,             \* __QUEUE_STATE_DRV_XOFF
  qdisc, running,      \* packets that wait; the stack is set to dequeue them
  pc, tx,              \* start_xmit and its locals
  npc, d, left,        \* tx_interrupt, its dirty_tx and tx_left
  irq,                 \* a transmit interrupt is latched
  hw, clo, tail, poll, \* chip: next descriptor, close pointer, tail, TPPOLL
  on, linking,         \* chip enabled and carrier on; the rings wait for the link
  reset                \* R8125_FLAG_TASK_RESET_PENDING

ring == <<own, addr, skb>>
xmit == <<pc, tx, qdisc, running>>
napi == <<npc, d, left, begin>>
chip == <<hw, clo, tail, poll, irq>>
work == <<on, linking, reset>>
vars == <<noClose, cur, dirty, seen, ring, stopped, xmit, napi, chip, work>>

Entry == 0 .. NumDesc - 1
Pointer == 0 .. PtrMod - 1
Idle == [skb |-> None, frags |-> 0, done |-> 0, more |-> FALSE, stop |-> FALSE]

EntryOf(p) == p % NumDesc
After(e, n) == (e + n) % NumDesc
Add(p, n) == (p + n) % PtrMod
Distance(from, to) == (to - from) % PtrMod

\* Mutant of SlotsAvail: the first descriptor of a packet is not counted.
SlotsAvailForFrags(dirtyTx, curTx) ==
  (dirtyTx + NumDesc - curTx) % PtrMod >= MaxFrags

(***************************************************************************)
(* rtl8125_tx_slots_avail, by what the caller sees of dirty_tx.            *)
(***************************************************************************)
SlotsAvail(dirtyTx, curTx) ==
  (dirtyTx + NumDesc - curTx) % PtrMod > MaxFrags

\* rtl8125_unmap_tx_skb for the descriptors in S
Unmap(S) ==
  /\ own' = [e \in Entry |-> own[e] /\ e \notin S]
  /\ addr' = [e \in Entry |-> IF e \in S THEN None ELSE addr[e]]

\* rtl8125_tx_clear_range: descriptors without a length are passed over.
TxClearRange(start, n) ==
  LET S == {e \in {EntryOf(Add(start, i)) : i \in 0 .. n - 1} : addr[e] # None}
  IN  /\ Unmap(S)
      /\ skb' = [e \in Entry |-> IF e \in S THEN None ELSE skb[e]]

\* Descriptors beside the first that a packet with nr fragments may take:
\* the LSO patch of rtl8125_xmit_frags splits the last fragment in two.
FragsOf(nr) == IF LsoPatch /\ nr > 0 THEN {nr, nr + 1} ELSE {nr}

TypeOK ==
  /\ noClose \in NoCloseModes
  /\ cur \in Pointer /\ dirty \in Pointer /\ seen \in Pointer /\ begin \in Pointer
  /\ own \in [Entry -> BOOLEAN]
  /\ addr \in [Entry -> Skbs \cup {None}]
  /\ skb \in [Entry -> Skbs \cup {None}]
  /\ stopped \in BOOLEAN /\ running \in BOOLEAN /\ reset \in BOOLEAN
  /\ qdisc \in Seq(Skbs)
  /\ pc \in {"idle", "next", "busy", "frags", "advance", "stop", "kick", "recheck", "start"}
  /\ tx \in [skb : Skbs \cup {None}, frags : 0 .. MaxFrags + 1,
             done : 0 .. MaxFrags + 1, more : BOOLEAN, stop : BOOLEAN]
  /\ npc \in {"idle", "free", "wake", "start", "poll"}
  /\ d \in Pointer /\ left \in Nat
  /\ hw \in Entry /\ clo \in 0 .. CloMod - 1 /\ tail \in 0 .. CloMod - 1
  /\ poll \in BOOLEAN /\ irq \in BOOLEAN
  /\ on \in BOOLEAN /\ linking \in BOOLEAN

\* Empty rings, the link up and the queue awake
Init ==
  /\ noClose \in NoCloseModes
  /\ cur = 0 /\ dirty = 0 /\ seen = 0 /\ begin = 0
  /\ own = [e \in Entry |-> FALSE]
  /\ addr = [e \in Entry |-> None]
  /\ skb = [e \in Entry |-> None]
  /\ stopped = FALSE /\ running = FALSE /\ qdisc = <<>>
  /\ pc = "idle" /\ tx = Idle
  /\ npc = "idle" /\ d = 0 /\ left = 0
  /\ hw = 0 /\ clo = 0 /\ tail = 0 /\ poll = FALSE /\ irq = FALSE
  /\ on = TRUE /\ linking = FALSE /\ reset = FALSE

\* Where a packet is; a packet that is nowhere has been freed.
Waiting(s) == \E i \in 1 .. Len(qdisc) : qdisc[i] = s
InRing(s) == \E e \in Entry : skb[e] = s
Held(s) == InRing(s) \/ tx.skb = s

-----------------------------------------------------------------------------
(* The network stack                                                       *)

\* A packet arrives: it is queued, and the queue is run.
Enqueue(s) ==
  /\ ~Waiting(s) /\ ~Held(s)
  /\ qdisc' = Append(qdisc, s)
  /\ running' = TRUE
  /\ UNCHANGED <<noClose, cur, dirty, seen, ring, stopped, pc, tx, napi, chip, work>>

\* The run of the queue ends, with nothing to send or the queue stopped.
QdiscEnd ==
  /\ pc \in {"idle", "next"} /\ (running \/ pc = "next")
  /\ qdisc = <<>> \/ stopped
  /\ pc' = "idle"
  /\ running' = FALSE
  /\ UNCHANGED <<noClose, cur, dirty, seen, ring, stopped, tx, qdisc, napi, chip, work>>

-----------------------------------------------------------------------------
(* rtl8125_start_xmit                                                      *)

\* The packet leaves start_xmit; the stack has the next of the batch ready
\* or goes back to the queue.
Return ==
  /\ pc' = IF tx.more THEN "next" ELSE "idle"
  /\ tx' = Idle

\* Called for a packet, with netdev_xmit_more when the stack has another
\* one.  A full ring or a descriptor of the chip's leads to err_stop.
XmitBegin ==
  /\ pc \in {"idle", "next"} /\ (running \/ pc = "next")
  /\ qdisc # <<>> /\ ~stopped
  /\ IF SlotsAvail(seen, cur) /\ (noClose \/ ~own[EntryOf(cur)])
     THEN \E more \in BOOLEAN, nr \in 0 .. MaxFrags : \E frags \in FragsOf(nr) :
            /\ more => Len(qdisc) > 1
            /\ pc' = "frags"
            /\ tx' = [Idle EXCEPT !.skb = Head(qdisc), !.frags = frags, !.more = more]
            /\ qdisc' = Tail(qdisc)
     ELSE /\ pc' = "busy"
          /\ UNCHANGED <<tx, qdisc>>
  /\ UNCHANGED <<noClose, cur, dirty, seen, ring, stopped, running, napi, chip, work>>

\* err_stop: NETDEV_TX_BUSY; the stack keeps the packet and tries again.
XmitBusy ==
  /\ pc = "busy"
  /\ stopped' = TRUE
  /\ pc' = "idle"
  /\ running' = TRUE
  /\ UNCHANGED <<noClose, cur, dirty, seen, ring, tx, qdisc, napi, chip, work>>

\* rtl8125_xmit_frags: one fragment is mapped and handed to the chip.
XmitFrag ==
  /\ pc = "frags" /\ tx.done < tx.frags
  /\ LET e == After(EntryOf(Add(cur, 1)), tx.done)
     IN  /\ own' = [own EXCEPT ![e] = TRUE]
         /\ addr' = [addr EXCEPT ![e] = tx.skb]
  /\ tx' = [tx EXCEPT !.done = @ + 1]
  /\ UNCHANGED <<noClose, cur, dirty, seen, skb, stopped, pc, qdisc, running, napi, chip, work>>

\* A buffer cannot be mapped (or the checksum not prepared): what was mapped
\* is cleared and the packet dropped, without a word to the chip.
XmitDrop ==
  /\ pc = "frags"
  /\ TxClearRange(Add(cur, 1), tx.done)
  /\ Return
  /\ UNCHANGED <<noClose, cur, dirty, seen, stopped, qdisc, running, napi, chip, work>>

\* The first descriptor, last of all: from here the chip may send.
XmitFirst ==
  /\ pc = "frags" /\ tx.done = tx.frags
  /\ skb' = [skb EXCEPT ![After(EntryOf(cur), tx.frags)] = tx.skb]
  /\ addr' = [addr EXCEPT ![EntryOf(cur)] = tx.skb]
  /\ own' = [own EXCEPT ![EntryOf(cur)] = TRUE]
  /\ pc' = "advance"
  /\ UNCHANGED <<noClose, cur, dirty, seen, stopped, tx, qdisc, running, napi, chip, work>>

XmitAdvance ==
  /\ pc = "advance"
  /\ cur' = Add(cur, tx.frags + 1)
  /\ tx' = [tx EXCEPT !.stop = ~SlotsAvail(seen, cur')]
  /\ pc' = IF tx'.stop THEN "stop" ELSE "kick"
  /\ UNCHANGED <<noClose, dirty, seen, ring, stopped, qdisc, running, napi, chip, work>>

XmitStop ==
  /\ pc = "stop"
  /\ stopped' = TRUE
  /\ pc' = "kick"
  /\ UNCHANGED <<noClose, cur, dirty, seen, ring, tx, qdisc, running, napi, chip, work>>

\* The doorbell, unless another packet follows: the tail pointer or TPPOLL.
XmitKick ==
  /\ pc = "kick"
  /\ IF stopped \/ ~tx.more
     THEN IF noClose THEN tail' = cur % CloMod /\ UNCHANGED poll
                     ELSE poll' = TRUE /\ UNCHANGED tail
     ELSE UNCHANGED <<tail, poll>>
  /\ IF tx.stop THEN pc' = "recheck" /\ UNCHANGED tx ELSE Return
  /\ UNCHANGED <<noClose, cur, dirty, seen, ring, stopped, qdisc, running, napi, hw, clo, irq, work>>

\* Mutant of XmitRecheck: no second look.
XmitNoRecheck ==
  /\ pc = "recheck"
  /\ Return
  /\ UNCHANGED <<noClose, cur, dirty, seen, ring, stopped, qdisc, running, napi, chip, work>>

\* Behind smp_mb: has the poll made room since the queue was stopped?
XmitRecheck ==
  /\ pc = "recheck"
  /\ IF SlotsAvail(seen, cur) THEN pc' = "start" /\ UNCHANGED tx ELSE Return
  /\ UNCHANGED <<noClose, cur, dirty, seen, ring, stopped, qdisc, running, napi, chip, work>>

XmitStart ==
  /\ pc = "start"
  /\ stopped' = FALSE
  /\ Return
  /\ UNCHANGED <<noClose, cur, dirty, seen, ring, qdisc, running, napi, chip, work>>

-----------------------------------------------------------------------------
(* rtl8125_tx_interrupt, called by the NAPI poll                           *)

\* Mutant of Closed: the close pointer is taken for the last closed descriptor.
ClosedBefore == (clo - begin - 1) % CloMod

\* Mutant of Closed: the descriptor the pointer is at counts as closed.
ClosedAndNext == (clo - begin + 1) % CloMod

\* Descriptors the chip has closed since the last interrupt was served.
Closed == (clo - begin) % CloMod

NapiRead ==
  /\ npc = "idle" /\ irq
  /\ irq' = FALSE
  /\ npc' = "free"
  /\ d' = dirty
  /\ LET inFlight == Distance(dirty, cur)
         txLeft == IF noClose /\ Closed < inFlight THEN Closed ELSE inFlight
     IN  /\ left' = txLeft
         /\ begin' = IF noClose THEN Add(begin, txLeft) ELSE begin
  /\ UNCHANGED <<noClose, cur, dirty, seen, ring, stopped, xmit, hw, clo, tail, poll, work>>

\* The loop may go on: something is left and, unless the chip keeps the
\* closed descriptors apart, the next one is not the chip's.
Reapable == left > 0 /\ (noClose \/ ~own[EntryOf(d)])

NapiFree ==
  /\ npc = "free" /\ Reapable
  /\ Unmap({EntryOf(d)})
  /\ skb' = [skb EXCEPT ![EntryOf(d)] = None]
  /\ d' = Add(d, 1)
  /\ left' = left - 1
  /\ UNCHANGED <<noClose, cur, dirty, seen, stopped, xmit, npc, begin, chip, work>>

\* The loop is over: dirty_tx is published, if it has moved.
NapiPublish ==
  /\ npc = "free" /\ ~Reapable
  /\ dirty' = d
  /\ npc' = IF d # dirty THEN "wake" ELSE "idle"
  /\ left' = 0
  /\ UNCHANGED <<noClose, cur, seen, ring, stopped, xmit, d, begin, chip, work>>

\* The transmitting CPU comes to see it.
DirtyVisible ==
  /\ seen # dirty
  /\ seen' = dirty
  /\ UNCHANGED <<noClose, cur, dirty, ring, stopped, xmit, napi, chip, work>>

NapiWake ==
  /\ npc = "wake"
  /\ npc' = IF stopped /\ SlotsAvail(dirty, cur) THEN "start" ELSE "poll"
  /\ UNCHANGED <<noClose, cur, dirty, seen, ring, stopped, xmit, d, left, begin, chip, work>>

\* netif_start_subqueue: an atomic operation, so the store before it is out.
NapiStart ==
  /\ npc = "start"
  /\ stopped' = FALSE
  /\ seen' = dirty
  /\ npc' = "poll"
  /\ UNCHANGED <<noClose, cur, dirty, ring, xmit, d, left, begin, chip, work>>

\* With closed descriptors in the ring the chip is told to look again.
NapiPoll ==
  /\ npc = "poll"
  /\ poll' = (poll \/ (~noClose /\ cur # d))
  /\ npc' = "idle"
  /\ UNCHANGED <<noClose, cur, dirty, seen, ring, stopped, xmit, d, left, begin, hw, clo, tail, irq, work>>

-----------------------------------------------------------------------------
(* The chip                                                                *)

\* It takes the descriptors in the order of the ring, up to the tail pointer
\* or to one it does not own, and interrupts at the end of a packet.
HwMaySend == on /\ IF noClose THEN clo # tail ELSE poll /\ own[hw]

HwSend ==
  /\ HwMaySend
  /\ hw' = After(hw, 1)
  /\ irq' = (irq \/ skb[hw] # None)
  /\ IF noClose
     THEN clo' = (clo + 1) % CloMod /\ UNCHANGED own
     ELSE own' = [own EXCEPT ![hw] = FALSE] /\ UNCHANGED clo
  /\ UNCHANGED <<noClose, cur, dirty, seen, addr, skb, stopped, xmit, napi, tail, poll, work>>

HwIdle ==
  /\ poll /\ ~own[hw]
  /\ poll' = FALSE
  /\ UNCHANGED <<noClose, cur, dirty, seen, ring, stopped, xmit, napi, hw, clo, tail, irq, work>>

-----------------------------------------------------------------------------
(* The watchdog, the reset task and the link                               *)

\* The stack's watchdog finds a stopped queue that has not moved in time; it
\* does not look while the carrier is off.
TxTimeout ==
  /\ on /\ stopped /\ ~reset
  /\ reset' = TRUE
  /\ UNCHANGED <<noClose, cur, dirty, seen, ring, stopped, xmit, napi, chip, on, linking>>

ChipReset == hw' = 0 /\ clo' = 0 /\ tail' = 0 /\ poll' = FALSE /\ irq' = FALSE

\* netif_carrier_off, netif_tx_disable (which waits for start_xmit),
\* rtl8125_hw_reset, rtl8125_tx_clear
TakeDown ==
  /\ pc = "idle"
  /\ on' = FALSE /\ stopped' = TRUE
  /\ ChipReset
  /\ TxClearRange(dirty, NumDesc)
  /\ cur' = 0 /\ dirty' = 0 /\ seen' = 0
  /\ UNCHANGED <<noClose, pc, tx, qdisc, running, npc, d, left>>

\* rtl8125_reset_task once transmitter and poll are at rest: the rings are
\* built anew, and rtl8125_set_speed restarts the link.
Reinit ==
  /\ reset /\ npc = "idle"
  /\ TakeDown
  /\ begin' = 0 /\ linking' = TRUE /\ reset' = FALSE

\* "Rx buffers shortage": rtl8125_init_ring is left out, the queue stays stopped
\* and the chip off, and the task is scheduled again.
Shortage ==
  /\ reset /\ npc = "idle"
  /\ TakeDown
  /\ linking' = FALSE /\ reset' = TRUE
  /\ UNCHANGED begin

\* rtl8125_link_down_patch does the same without waiting for the poll.
LinkDown ==
  /\ on /\ (npc = "idle" \/ Drop)
  /\ TakeDown
  /\ begin' = 0 /\ linking' = TRUE
  /\ UNCHANGED reset

\* Mutant of LinkOn: netif_tx_wake_all_queues is left out.
LinkOnAsleep ==
  /\ linking \/ Bounce
  /\ on' = TRUE /\ linking' = FALSE
  /\ ChipReset
  /\ UNCHANGED <<noClose, cur, dirty, seen, ring, stopped, xmit, napi, reset>>

\* rtl8125_link_on_patch: rtl8125_hw_config resets the chip, which starts at its
\* first descriptor, and leaves the driver's pointers alone; the queue is woken.
LinkOn ==
  /\ linking \/ Bounce
  /\ on' = TRUE /\ linking' = FALSE
  /\ ChipReset
  /\ stopped' = FALSE /\ running' = TRUE
  /\ UNCHANGED <<noClose, cur, dirty, seen, ring, pc, tx, qdisc, napi, reset>>

-----------------------------------------------------------------------------
Transmit ==
  \/ XmitBegin \/ XmitBusy \/ XmitFrag \/ XmitFirst \/ XmitAdvance
  \/ XmitStop \/ XmitKick \/ XmitRecheck \/ XmitStart \/ QdiscEnd
Napi ==
  NapiRead \/ NapiFree \/ NapiPublish \/ NapiWake \/ NapiStart \/ NapiPoll
Chip == HwSend \/ HwIdle
ResetTask == Reinit \/ Shortage

Next ==
  \/ \E s \in Skbs : Enqueue(s)
  \/ Transmit \/ XmitDrop
  \/ Napi \/ DirtyVisible
  \/ Chip
  \/ TxTimeout \/ ResetTask
  \/ LinkDown \/ LinkOn

(***************************************************************************)
(* A CPU that is in the driver goes on, a softirq that is raised runs, the *)
(* chip serves the ring, a store becomes visible and a work that is        *)
(* scheduled runs.  Nothing is assumed of packets, of the memory a reset   *)
(* needs, or of the link; of the watchdog only what a property says.       *)
(***************************************************************************)
Fairness ==
  /\ WF_vars(Transmit) /\ WF_vars(Napi) /\ WF_vars(DirtyVisible)
  /\ WF_vars(Chip) /\ SF_vars(ResetTask)

Spec == Init /\ [][Next]_vars /\ Fairness

-----------------------------------------------------------------------------
(***************************************************************************)
(* No descriptor is overwritten while a packet is behind it, and no packet *)
(* is put over another one: what start_xmit fills is what the poll or a    *)
(* reset has emptied ("A skbuff with nr_frags needs nr_frags+1 entries in  *)
(* the tx queue", r8125_n.c:19552).                                        *)
(***************************************************************************)
NeverOverwrites ==
  [][\A e \in Entry :
       /\ addr'[e] # addr[e] => addr[e] = None \/ addr'[e] = None
       /\ skb'[e] # skb[e] => skb[e] = None \/ skb'[e] = None]_vars

(***************************************************************************)
(* Every buffer the chip may still read belongs to a packet that has not   *)
(* been freed: neither the poll nor the error path frees a packet whose    *)
(* descriptors the chip has yet to fetch.                                  *)
(***************************************************************************)
ChipMayRead(e) ==
  IF noClose
  THEN \E i \in 0 .. NumDesc - 1 :
         i < (tail - clo) % CloMod /\ e = After(hw, i)
  ELSE \E n \in 0 .. NumDesc - 1 :
         /\ e = After(hw, n)
         /\ \A i \in 0 .. n : own[After(hw, i)]
ChipReadsLive ==
  \A e \in Entry : ChipMayRead(e) => addr[e] # None /\ Held(addr[e])

(***************************************************************************)
(* A queue that is stopped is started again, as long as the stack watches  *)
(* it and the carrier does not stay off: by the poll, by the transmitter's *)
(* second look, by the link, or at the latest by the watchdog and the      *)
(* reset it asks for, however often that finds no memory for the receiver. *)
(***************************************************************************)
QueueRestarts == WF_vars(TxTimeout) /\ []<>on => (stopped ~> ~stopped)

(***************************************************************************)
(* "May the current thread have a pessimistic view of the ring status and  *)
(* forget to wake up queue, a racing rtl_tx thread can't" (r8125_n.c:19705 *)
(* - 19707): a queue that start_xmit has stopped is started by its second  *)
(* look or by the poll, and it takes no reset.  Two things are left out: a *)
(* start_xmit that met a full ring (err_stop), which takes no second look, *)
(* and a packet that the chip sends before cur_tx counts it, which waits   *)
(* for a later interrupt (see EventuallyFreed).                            *)
(***************************************************************************)
Counted == pc = "advance" /\ ~noClose => own[EntryOf(cur)]
Unaided == []<>on /\ []~reset /\ [](pc # "busy") /\ []Counted
SecondLook == Unaided => (stopped ~> ~stopped)

(***************************************************************************)
(* smp_wmb (19798, 19855) does not order the poll's store of dirty_tx      *)
(* before its load of the queue's state, and SecondLook does not hold.  It *)
(* does where the store is seen first: the poll and the transmitter then   *)
(* never miss each other.                                                  *)
(***************************************************************************)
StoreSeen == npc \in {"start", "poll"} => seen = dirty
NoWakeupLost == Unaided /\ []StoreSeen => (stopped ~> ~stopped)

(***************************************************************************)
(* Each packet in the ring is sent and freed: the counters of driver and   *)
(* chip stay in step over their wrap around, and no interrupt is answered  *)
(* with less than it reported.  It takes no more than that no doorbell is  *)
(* owed for ever.  Where chip and driver share DescOwn the chip can send a *)
(* packet before cur_tx counts it; the interrupt then finds nothing to     *)
(* free and the packet waits for a later one, so this is left out.         *)
(***************************************************************************)
Told == tail = cur % CloMod
EventuallyFreed ==
  noClose /\ []<>Told => \A s \in Skbs : InRing(s) ~> ~InRing(s)
=============================================================================
