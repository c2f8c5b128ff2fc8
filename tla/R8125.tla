------------------------------- MODULE R8125 -------------------------------
(***************************************************************************)
(* The life of a Realtek r8125 interface (r8125_n.c): open and close, the  *)
(* ethtool and MTU operations that take it down and up again, suspend and  *)
(* resume, and the three delayed works (reset, ESD check, link change).    *)
(* All of them run under the rtnl lock; interrupts, the NAPI poll,         *)
(* start_xmit and the link run beside them.                                *)
(*                                                                         *)
(* An operation is the sequence of the calls it makes, in the order of the *)
(* code; the lock is held while calls are left (todo).  One vector stands  *)
(* for those of receive and transmit, another is the link's.               *)
(***************************************************************************)
EXTENDS Integers, Sequences

CONSTANTS
  MayFail,      \* the operations in which an allocation may fail
  MaxAdmin,     \* administrator's operations
  MaxFlaps      \* times the cable is pulled or plugged

Tasks == {"reset", "esd", "link"}
Operations == {"open", "close", "ring", "mtu", "suspend", "resume"} \cup Tasks
ASSUME FailAssumption == MayFail \subseteq Operations
ASSUME BoundAssumption == MaxAdmin \in Nat /\ MaxFlaps \in Nat

VARIABLES
  op, todo,            \* holder of the rtnl lock, the calls it has yet to make
  running,             \* netif_running
  down,                \* R8125_FLAG_DOWN
  pending, work,       \* the PENDING bits; the works that are scheduled
  rings, filled,       \* descriptor rings exist; the rx ring has its buffers
  irq, napi, polling,  \* vectors requested, NAPI enabled, poll running
  queue, carrier, attached, sending,  \* the stack's view; start_xmit running
  on, dataIntr, linkIntr, event,      \* chip: Tx/Rx enabled, masks, latched LinkChg
  asleep,              \* PCI device in D3
  cable, link,         \* the wire, and what PHYstatus says
  keep,                \* tp->resume_not_chg_speed
  missed,              \* an event of the link was acknowledged unread
  admin, flaps

lock == <<op, todo>>
flags == <<running, down, pending, work, keep>>
memory == <<rings, filled>>
intr == <<irq, napi, polling>>
stack == <<queue, carrier, attached, sending>>
chip == <<on, dataIntr, linkIntr, event, asleep>>
wire == <<cable, link>>
bounds == <<admin, flaps>>
vars == <<lock, flags, memory, intr, stack, chip, wire, missed, bounds>>

-----------------------------------------------------------------------------
(* What the operations call, in order                                      *)

\* Mutant of Down: the poll is not waited for.
DownPolling == <<"carrierOff", "txDisable", "hwReset", "txClear", "rxClear">>

\* rtl8125_down
Down == <<"carrierOff", "txDisable", "napiOff", "hwReset", "txClear", "rxClear">>

\* Mutant of Close: the vectors are kept.
CloseWithIrq == IF rings THEN <<"flagDown">> \o Down \o <<"freeRings">> ELSE <<>>

\* rtl8125_close, with and without resources to free
Close == IF rings THEN <<"flagDown">> \o Down \o <<"freeIrq", "freeRings">> ELSE <<>>

\* rtl8125_open; what follows a failed allocation is in Fails.
Open == <<"allocRings", "initRing", "allocIrq", "napiOn", "hwReset", "flagUp",
          "speedOrLink", "scheduleEsd", "linkIntrOn">>

\* Mutant of LinkDown: the interrupt of the link stays masked after the reset.
LinkDownMasked == <<"carrierOff", "txDisable", "linkReset", "txClear", "rxClear", "refill">>

\* rtl8125_link_on_patch, which resets the chip in rtl8125_hw_config, and
\* rtl8125_link_down_patch
LinkOn == <<"hwReset", "hwStart", "carrierOn", "wake">>
LinkDown == <<"carrierOff", "txDisable", "linkReset", "txClear", "rxClear",
              "refill", "linkIntrOn">>

\* The chip is reset and its rings rebuilt: reset_task and esd_checker.
Rebuild == <<"rxClear", "refill">>

\* Mutant of ResetCalls: NAPI is not enabled again.
ResetCallsNapiOff == <<"napiOff", "carrierOff", "txDisable", "hwReset", "txClear", "rxStuck">>

ResetCalls == <<"napiOff", "napiOn", "carrierOff", "txDisable", "hwReset",
                "txClear", "rxStuck">>

EsdCalls == <<"carrierOff", "txDisable", "hwReset", "txClear">> \o Rebuild
            \o <<"hwReset", "linkIntrOn", "setSpeed", "scheduleEsd">>

\* rtl8125_set_ringparam, rtl8125_change_mtu
RingCalls == <<"napiOff", "napiOn">> \o Close \o Open
MtuCalls == Down \o <<"initRing", "napiOn", "checkLink">>

SuspendCalls == <<"flagDown", "carrierOff", "txDisable", "detach", "hwReset", "sleep">>
ResumeCalls == <<"hwReset", "flagUp", "scheduleReset", "scheduleEsd", "attach">>

\* An allocation that fails ends open with free_alloc_resources and change_mtu
\* with an error.
Fails == IF op = "mtu" THEN <<>> ELSE <<"freeRings">>

-----------------------------------------------------------------------------
CallNames ==
  {"flagDown", "flagUp", "carrierOff", "carrierOn", "txDisable", "wake", "detach", "attach",
   "napiOff", "napiOn", "hwReset", "linkReset", "hwStart", "linkIntrOn", "sleep", "txClear",
   "rxClear", "rxStuck", "allocRings", "freeRings", "initRing", "refill", "allocIrq", "freeIrq",
   "checkLink", "speedOrLink", "setSpeed", "scheduleReset", "scheduleEsd"}

\* The lock is held as long as calls are left.
TypeOK ==
  /\ op \in Operations \cup {"none"}
  /\ todo \in Seq(CallNames)
  /\ op = "none" <=> todo = <<>>
  /\ pending \subseteq Tasks /\ work \subseteq Tasks
  /\ {running, down, rings, filled, irq, napi, polling, queue, carrier, attached, sending, on,
      dataIntr, linkIntr, event, asleep, cable, link, keep, missed} \subseteq BOOLEAN
  /\ admin \in 0 .. MaxAdmin /\ flaps \in 0 .. MaxFlaps

\* After rtl8125_init_one: registered and never opened.
Init ==
  /\ op = "none" /\ todo = <<>>
  /\ running = FALSE /\ down = FALSE /\ pending = {} /\ work = {} /\ keep = FALSE
  /\ rings = FALSE /\ filled = FALSE
  /\ irq = FALSE /\ napi = FALSE /\ polling = FALSE
  /\ queue = TRUE /\ carrier = FALSE /\ attached = TRUE /\ sending = FALSE
  /\ on = FALSE /\ dataIntr = FALSE /\ linkIntr = FALSE /\ event = FALSE
  /\ asleep = FALSE
  /\ cable \in BOOLEAN /\ link = FALSE
  /\ missed = FALSE
  /\ admin = 0 /\ flaps = 0

\* An operation takes the rtnl lock.
Begin(o, calls) ==
  /\ op = "none"
  /\ op' = IF calls = <<>> THEN "none" ELSE o
  /\ todo' = calls

Administer(o, calls) ==
  /\ admin < MaxAdmin
  /\ admin' = admin + 1
  /\ Begin(o, calls)

\* dev_open sets netif_running before ndo_open, dev_close clears it before
\* ndo_stop; both only for a device that is present.
IfUp ==
  /\ ~running /\ attached
  /\ Administer("open", Open)
  /\ running' = TRUE
  /\ UNCHANGED <<down, pending, work, keep, memory, intr, stack, chip, wire, missed, flaps>>

IfDown ==
  /\ running /\ attached
  /\ Administer("close", Close)
  /\ running' = FALSE
  /\ UNCHANGED <<down, pending, work, keep, memory, intr, stack, chip, wire, missed, flaps>>

SetRingparam ==
  /\ running /\ attached
  /\ Administer("ring", RingCalls)
  /\ UNCHANGED <<flags, memory, intr, stack, chip, wire, missed, flaps>>

ChangeMtu ==
  /\ running /\ attached
  /\ Administer("mtu", MtuCalls)
  /\ UNCHANGED <<flags, memory, intr, stack, chip, wire, missed, flaps>>

Suspend ==
  /\ running /\ attached
  /\ Administer("suspend", SuspendCalls)
  /\ UNCHANGED <<flags, memory, intr, stack, chip, wire, missed, flaps>>

\* Whether the speed is kept is a matter of the PHY's firmware and the link.  A
\* device that cannot be enabled again (20814-20818) is out of reach of the driver
\* from there on, and is left out.
Resume ==
  /\ asleep /\ op = "none"
  /\ op' = "resume"
  /\ todo' = ResumeCalls
  /\ asleep' = FALSE
  /\ keep' \in BOOLEAN
  /\ UNCHANGED <<running, down, pending, work, memory, intr, stack, on, dataIntr, linkIntr, event,
                 wire, missed, bounds>>

\* Mutant of Task: the work looks at its bit only.
TaskOnDown(t) ==
  /\ t \in work
  /\ op = "none"
  /\ work' = work \ {t}
  /\ IF t \in pending
     THEN /\ pending' = pending \ {t}
          /\ \/ t = "reset" /\ Begin(t, ResetCalls)
             \/ t = "esd" /\ Begin(t, <<"scheduleEsd">>)
             \/ t = "esd" /\ Begin(t, EsdCalls)
             \/ t = "link" /\ Begin(t, <<"checkLink">>)
     ELSE UNCHANGED <<pending, lock>>
  /\ UNCHANGED <<running, down, keep, memory, intr, stack, chip, wire, missed, bounds>>

\* A work that has the lock: it leaves at once for an interface that is not
\* running or going down, and when its bit is clear.
Task(t) ==
  /\ t \in work
  /\ op = "none"
  /\ work' = work \ {t}
  /\ IF running /\ ~down /\ t \in pending
     THEN /\ pending' = pending \ {t}
          /\ \/ t = "reset" /\ Begin(t, ResetCalls)
             \/ t = "esd" /\ Begin(t, <<"scheduleEsd">>)
             \/ t = "esd" /\ Begin(t, EsdCalls)
             \/ t = "link" /\ Begin(t, <<"checkLink">>)
     ELSE UNCHANGED <<pending, lock>>
  /\ UNCHANGED <<running, down, keep, memory, intr, stack, chip, wire, missed, bounds>>

-----------------------------------------------------------------------------
(* The calls                                                               *)

Call(c) == todo # <<>> /\ Head(todo) = c
Continue(calls) ==
  /\ todo' = calls
  /\ op' = IF calls = <<>> THEN "none" ELSE op
Done == Continue(Tail(todo))

SetFlag ==
  /\ \/ Call("flagDown") /\ down' = TRUE
     \/ Call("flagUp") /\ down' = FALSE
  /\ Done
  /\ UNCHANGED <<running, pending, work, keep, memory, intr, stack, chip, wire, missed, bounds>>

\* rtl8125_schedule_reset_work and _esd_work
ScheduleWork ==
  /\ \/ Call("scheduleReset") /\ pending' = pending \cup {"reset"} /\ work' = work \cup {"reset"}
     \/ Call("scheduleEsd") /\ pending' = pending \cup {"esd"} /\ work' = work \cup {"esd"}
  /\ Done
  /\ UNCHANGED <<running, down, keep, memory, intr, stack, chip, wire, missed, bounds>>

\* netif_carrier_off, netif_tx_disable (which waits for start_xmit),
\* netif_device_detach and attach, netif_carrier_on, netif_tx_wake_all_queues
StackCall ==
  /\ \/ /\ Call("carrierOff") /\ carrier' = FALSE
        /\ UNCHANGED <<queue, attached>>
     \/ /\ Call("carrierOn") /\ carrier' = TRUE
        /\ UNCHANGED <<queue, attached>>
     \/ /\ Call("txDisable") /\ ~sending /\ queue' = FALSE
        /\ UNCHANGED <<carrier, attached>>
     \/ /\ Call("wake") /\ queue' = TRUE
        /\ UNCHANGED <<carrier, attached>>
     \/ /\ Call("detach") /\ attached' = FALSE /\ queue' = FALSE
        /\ UNCHANGED carrier
     \/ /\ Call("attach") /\ attached' = TRUE /\ queue' = TRUE
        /\ UNCHANGED carrier
  /\ Done
  /\ UNCHANGED <<flags, memory, intr, sending, chip, wire, missed, bounds>>

\* _rtl8125_wait_for_quiescence: napi_disable waits for a poll, and for ever
\* when NAPI is disabled already; then start_xmit is waited for, and the
\* interrupts are masked and acknowledged.
NapiOff ==
  /\ Call("napiOff")
  /\ napi /\ ~polling /\ ~sending
  /\ napi' = FALSE
  /\ dataIntr' = FALSE /\ linkIntr' = FALSE /\ event' = FALSE
  /\ Done
  /\ UNCHANGED <<flags, memory, irq, polling, stack, on, asleep, wire, missed, bounds>>

NapiOn ==
  /\ Call("napiOn")
  /\ napi' = TRUE
  /\ Done
  /\ UNCHANGED <<flags, memory, irq, polling, stack, chip, wire, missed, bounds>>

\* rtl8125_hw_reset; in rtl8125_link_down_patch after the link was read.
HwReset ==
  /\ \/ Call("hwReset") /\ UNCHANGED missed
     \/ Call("linkReset") /\ missed' = link
  /\ on' = FALSE
  /\ dataIntr' = FALSE /\ linkIntr' = FALSE /\ event' = FALSE
  /\ Done
  /\ UNCHANGED <<flags, memory, intr, stack, asleep, wire, bounds>>

\* rtl8125_hw_start, and rtl8125_enable_hw_linkchg_interrupt alone
HwStart ==
  /\ \/ Call("hwStart") /\ on' = TRUE /\ dataIntr' = TRUE
     \/ Call("linkIntrOn") /\ UNCHANGED <<on, dataIntr>>
  /\ linkIntr' = TRUE
  /\ Done
  /\ UNCHANGED <<flags, memory, intr, stack, event, asleep, wire, missed, bounds>>

\* The chip is put to sleep; what it has latched is lost.
Sleep ==
  /\ Call("sleep")
  /\ asleep' = TRUE /\ link' = FALSE /\ event' = FALSE
  /\ Done
  /\ UNCHANGED <<flags, memory, intr, stack, on, dataIntr, linkIntr, cable, missed, bounds>>

AllocRings ==
  /\ Call("allocRings")
  /\ \/ rings' = TRUE /\ Done
     \/ op \in MayFail /\ rings' = TRUE /\ Continue(Fails)
  /\ UNCHANGED <<flags, filled, intr, stack, chip, wire, missed, bounds>>

\* rtl8125_init_ring: without memory for every buffer it keeps none.
InitRing ==
  /\ Call("initRing")
  /\ \/ filled' = TRUE /\ Done
     \/ op \in MayFail /\ filled' = FALSE /\ Continue(Fails)
  /\ UNCHANGED <<flags, rings, intr, stack, chip, wire, missed, bounds>>

\* The same call where nobody looks at what it returns: rtl8125_link_down_patch,
\* the reset task and the ESD check.
Refill ==
  /\ Call("refill")
  /\ filled' \in {TRUE} \cup (IF op \in MayFail THEN {FALSE} ELSE {})
  /\ Done
  /\ UNCHANGED <<flags, rings, intr, stack, chip, wire, missed, bounds>>

AllocIrq ==
  /\ Call("allocIrq")
  /\ \/ irq' = TRUE /\ Done
     \/ op \in MayFail /\ irq' = FALSE /\ Continue(Fails)
  /\ UNCHANGED <<flags, memory, napi, polling, stack, chip, wire, missed, bounds>>

\* rtl8125_free_irq waits for the handlers.
FreeIrq ==
  /\ Call("freeIrq")
  /\ irq' = FALSE
  /\ Done
  /\ UNCHANGED <<flags, memory, napi, polling, stack, chip, wire, missed, bounds>>

\* A failed dev_open clears netif_running again.
FreeRings ==
  /\ Call("freeRings")
  /\ rings' = FALSE /\ filled' = FALSE
  /\ running' = (running /\ op # "open")
  /\ Done
  /\ UNCHANGED <<down, pending, work, keep, intr, stack, chip, wire, missed, bounds>>

\* rtl8125_tx_clear and rtl8125_rx_clear
Clear ==
  /\ \/ Call("txClear") /\ UNCHANGED filled
     \/ Call("rxClear") /\ filled' = FALSE
  /\ Done
  /\ UNCHANGED <<flags, rings, intr, stack, chip, wire, missed, bounds>>

\* rtl8125_rx_nostuck: the ring is rebuilt, or packets that wait for buffers
\* put the reset off.
RxNoStuck ==
  /\ Call("rxStuck")
  /\ Continue(Rebuild \o IF keep THEN <<"checkLink">> ELSE <<"linkIntrOn", "setSpeed">>)
  /\ UNCHANGED <<flags, memory, intr, stack, chip, wire, missed, bounds>>

RxShortage ==
  /\ Call("rxStuck")
  /\ Continue(<<"scheduleReset">>)
  /\ UNCHANGED <<flags, memory, intr, stack, chip, wire, missed, bounds>>

\* rtl8125_check_link_status reads PHYstatus and takes one of two ways.
CheckLink ==
  /\ Call("checkLink") \/ (Call("speedOrLink") /\ keep)
  /\ keep' = IF op = "mtu" THEN keep ELSE FALSE
  /\ missed' = FALSE
  /\ Continue((IF link THEN LinkOn ELSE LinkDown) \o Tail(todo))
  /\ UNCHANGED <<running, down, pending, work, memory, intr, stack, chip, wire, bounds>>

\* rtl8125_set_speed restarts the negotiation: the link goes down.
SetSpeed ==
  /\ Call("setSpeed") \/ (Call("speedOrLink") /\ ~keep)
  /\ link' = (link /\ keep)
  /\ event' = (event \/ (link /\ ~keep))
  /\ Done
  /\ UNCHANGED <<flags, memory, intr, stack, on, dataIntr, linkIntr, asleep, cable, missed, bounds>>

Calls ==
  \/ SetFlag \/ ScheduleWork \/ StackCall \/ NapiOff \/ NapiOn \/ HwReset
  \/ HwStart \/ Sleep \/ AllocRings \/ InitRing \/ Refill \/ AllocIrq
  \/ FreeIrq \/ FreeRings \/ Clear \/ RxNoStuck \/ RxShortage \/ CheckLink \/ SetSpeed

-----------------------------------------------------------------------------
(* Beside the lock: interrupts, NAPI, transmission, wire                   *)

\* rtl8125_interrupt_msix for a ring's vector: NAPI is scheduled and the
\* vector masked until the poll ends.  napi_disable lets no new poll begin.
DataInterrupt ==
  /\ irq /\ on /\ dataIntr /\ ~asleep
  /\ napi /\ ~polling /\ ~Call("napiOff")
  /\ polling' = TRUE
  /\ dataIntr' = FALSE
  /\ UNCHANGED <<lock, flags, memory, irq, napi, stack, on, linkIntr, event, asleep, wire, missed, bounds>>

PollEnd ==
  /\ polling
  /\ polling' = FALSE
  /\ dataIntr' = TRUE
  /\ UNCHANGED <<lock, flags, memory, irq, napi, stack, on, linkIntr, event, asleep, wire, missed, bounds>>

\* The vector of the link: masked, acknowledged, the work scheduled.
LinkInterrupt ==
  /\ irq /\ linkIntr /\ event /\ ~asleep
  /\ linkIntr' = FALSE /\ event' = FALSE
  /\ pending' = pending \cup {"link"}
  /\ work' = work \cup {"link"}
  /\ UNCHANGED <<lock, running, down, keep, memory, intr, stack, on, dataIntr, asleep, wire, missed, bounds>>

XmitBegin ==
  /\ running /\ queue /\ carrier /\ attached /\ ~sending
  /\ sending' = TRUE
  /\ UNCHANGED <<lock, flags, memory, intr, queue, carrier, attached, chip, wire, missed, bounds>>

XmitEnd ==
  /\ sending
  /\ sending' = FALSE
  /\ UNCHANGED <<lock, flags, memory, intr, queue, carrier, attached, chip, wire, missed, bounds>>

\* rtl8125_tx_timeout: the stack's watchdog finds the queue stopped.
TxTimeout ==
  /\ running /\ carrier /\ attached /\ "reset" \notin work
  /\ pending' = pending \cup {"reset"}
  /\ work' = work \cup {"reset"}
  /\ UNCHANGED <<lock, running, down, keep, memory, intr, stack, chip, wire, missed, bounds>>

\* The cable is pulled or plugged; without one the link goes at once.
Flap ==
  /\ flaps < MaxFlaps
  /\ flaps' = flaps + 1
  /\ cable' = ~cable
  /\ link' = (link /\ cable')
  /\ event' = (event \/ (link /\ ~asleep))
  /\ UNCHANGED <<lock, flags, memory, intr, stack, on, dataIntr, linkIntr, asleep, missed, admin>>

\* The negotiation succeeds.
PhyUp ==
  /\ cable /\ ~link /\ ~asleep
  /\ link' = TRUE
  /\ event' = TRUE
  /\ UNCHANGED <<lock, flags, memory, intr, stack, on, dataIntr, linkIntr, asleep, cable, missed, bounds>>

Next ==
  \/ IfUp \/ IfDown \/ SetRingparam \/ ChangeMtu \/ Suspend \/ Resume
  \/ \E t \in Tasks : Task(t)
  \/ Calls
  \/ DataInterrupt \/ PollEnd \/ LinkInterrupt
  \/ XmitBegin \/ XmitEnd \/ TxTimeout
  \/ Flap \/ PhyUp

(***************************************************************************)
(* The holder of the lock goes on, getting its turn between two polls or   *)
(* packets when a call waits for them to end; a poll and a transmission    *)
(* end, an interrupt is delivered, a scheduled work gets the lock, a       *)
(* shortage of receive buffers ends and a cabled PHY comes up.  The        *)
(* administrator may stop at any time, but not with the machine asleep;    *)
(* the ESD check runs as seldom as it likes.                               *)
(***************************************************************************)
Fairness ==
  /\ SF_vars(Calls) /\ WF_vars(PollEnd) /\ WF_vars(XmitEnd)
  /\ WF_vars(LinkInterrupt) /\ WF_vars(PhyUp) /\ WF_vars(Resume)
  /\ SF_vars(Task("link")) /\ SF_vars(Task("reset")) /\ SF_vars(RxNoStuck)

Spec == Init /\ [][Next]_vars /\ Fairness

-----------------------------------------------------------------------------
(***************************************************************************)
(* Nothing touches descriptor rings that are not there: neither a poll,    *)
(* nor start_xmit, nor a work that comes late, nor a call of an operation. *)
(***************************************************************************)
RingCall == todo # <<>> /\ Head(todo) \in {"txClear", "rxClear", "initRing", "refill", "hwStart"}
NoUseAfterFree == polling \/ sending \/ RingCall => rings

(***************************************************************************)
(* close, reset, set_ringparam and change_mtu rebuild the rings with no    *)
(* poll running ("Wait for any pending NAPI task to complete",             *)
(* r8125_n.c:18937) and no packet in start_xmit.  Link and ESD work do not *)
(* wait for the poll, and are left out.                                    *)
(***************************************************************************)
QuietRings ==
  RingCall /\ Head(todo) # "hwStart" =>
    ~sending /\ (polling => op \in {"link", "esd"})

(***************************************************************************)
(* An interface that is down is quiet: no interrupt reaches the driver, no *)
(* poll runs and no memory is kept.                                        *)
(***************************************************************************)
DownIsQuiet == ~running /\ op = "none" => ~irq /\ ~napi /\ ~polling /\ ~rings

(***************************************************************************)
(* Every operation gives the rtnl lock back: none disables NAPI twice.     *)
(***************************************************************************)
LockReleased == op # "none" ~> op = "none"

(***************************************************************************)
(* The interface follows the link: when the link is up and stays up, the   *)
(* carrier comes on and the queue is awake -- unless the event fell into   *)
(* the gap of rtl8125_link_down_patch between reading and acknowledging.   *)
(***************************************************************************)
Usable == running /\ ~down /\ link
Works == carrier /\ queue /\ on
CarrierFollowsLink == Usable ~> Works \/ ~Usable \/ missed
=============================================================================
