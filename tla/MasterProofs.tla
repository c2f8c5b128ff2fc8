---------------------------- MODULE MasterProofs ----------------------------
(***************************************************************************)
(* Theorems of master.sh, for any set of machines and of processes.        *)
(***************************************************************************)
EXTENDS Master, SequenceTheorems, TLAPS

-----------------------------------------------------------------------------
(***************************************************************************)
(* The edits of /etc/default/grub keep it a GRUB configuration.            *)
(***************************************************************************)
LEMMA InsertWordType ==
  ASSUME NEW args \in Seq(Words), NEW word \in Words, NEW os
  PROVE  InsertWord(args, word, os) \in Seq(Words)
  BY AppendProperties DEF InsertWord, AfterSplash, IntoEmpty

LEMMA BoardEditsType ==
  ASSUME NEW grub \in Grub, NEW m, NEW os
  PROVE  BoardEdits(grub, m, os) \in Grub
  <1> DEFINE a == IF WantsNomodeset(m) THEN InsertWord(grub.args, "nomodeset", os) ELSE grub.args
             b == IF WantsIommu(m) THEN InsertWord(a, "iommu", os) ELSE a
             c == IF WantsSimpledrm(m, os) THEN AfterSplash(b, "simpledrm") ELSE b
  <1>1. a \in Seq(Words)
    BY InsertWordType DEF Grub, Words
  <1>2. b \in Seq(Words)
    BY <1>1, InsertWordType DEF Words
  <1>3. c \in Seq(Words)
    BY <1>2, AppendProperties DEF AfterSplash, Words
  <1>4. BoardEdits(grub, m, os) = [grub EXCEPT !.args = c]
    BY DEF BoardEdits
  <1>5. QED
    BY <1>3, <1>4 DEF Grub

LEMMA DropIommuOffType ==
  ASSUME NEW grub \in Grub, NEW m, NEW card
  PROVE  DropIommuOff(grub, m, card) \in Grub
  BY DEF DropIommuOff, Grub, Places

LEMMA MenuEditsType ==
  ASSUME NEW grub \in Grub
  PROVE  MenuEdits(grub) \in Grub
  BY DEF MenuEdits, Grub

-----------------------------------------------------------------------------
(***************************************************************************)
(* Types.                                                                  *)
(***************************************************************************)
LEMMA InitTypeOK == Init => TypeOK
  <1> SUFFICES ASSUME Init PROVE TypeOK
    OBVIOUS
  <1>1. machine \in Machine
    BY MachinesAssumption DEF Init
  <1>2. disk \in Disk
    <2>1. <<"quiet", "splash">> \in Seq(Words) /\ << >> \in Seq(Words)
      BY DEF Words
    <2>2. [args |-> IF machine.media = "Desktop" THEN <<"quiet", "splash">> ELSE << >>,
           off |-> machine.off, timeout |-> 0, style |-> "hidden"] \in Grub
      BY <1>1, <2>1 DEF Grub, Machine
    <2>3. QED
      BY <2>2 DEF Init, ImagedDisk, Disk
  <1>3. proc \in [Instances -> Proc]
    BY DEF Init, AllIdle, Idle, Proc, Stages
  <1>4. QED
    BY <1>2, <1>3 DEF Init, TypeOK

\* Moving an instance on keeps the processes well typed.
LEMMA GotoType ==
  ASSUME TypeOK, NEW p \in Instances, NEW pc \in Stages \ {"installing", "building"}, Goto(p, pc)
  PROVE  proc' \in [Instances -> Proc]
  BY DEF TypeOK, Goto, Proc

LEMMA SetOsType ==
  ASSUME TypeOK, NEW p \in Instances, NEW pc \in Stages \ {"installing", "building"}, NEW os \in Media \cup {"none"}
  PROVE  [proc EXCEPT ![p].pc = pc, ![p].os = os] \in [Instances -> Proc]
  <1>1. [proc[p] EXCEPT !.pc = pc, !.os = os] \in Proc
    BY DEF TypeOK, Proc
  <1>2. [proc EXCEPT ![p].pc = pc, ![p].os = os]
          = [proc EXCEPT ![p] = [proc[p] EXCEPT !.pc = pc, !.os = os]]
    BY DEF TypeOK
  <1>3. QED
    BY <1>1, <1>2 DEF TypeOK

LEMMA SetIdType ==
  ASSUME TypeOK, NEW p \in Instances, NEW pc \in Stages \ {"installing", "building"}, NEW id \in {"none", "good", "garbled"}
  PROVE  [proc EXCEPT ![p].pc = pc, ![p].id = id] \in [Instances -> Proc]
  <1>1. [proc[p] EXCEPT !.pc = pc, !.id = id] \in Proc
    BY DEF TypeOK, Proc
  <1>2. [proc EXCEPT ![p].pc = pc, ![p].id = id]
          = [proc EXCEPT ![p] = [proc[p] EXCEPT !.pc = pc, !.id = id]]
    BY DEF TypeOK
  <1>3. QED
    BY <1>1, <1>2 DEF TypeOK

LEMMA IdleType == Idle \in Proc /\ AllIdle \in [Instances -> Proc]
  BY DEF Idle, AllIdle, Proc, Stages

LEMMA NextCallType == \A card \in Cards : NextCall(card) \in Stages \ {"installing", "building"}
  BY DEF NextCall, Cards, Stages

LEMMA BoundsType ==
  ASSUME TypeOK, NEW p \in Instances, NetworkFault \/ AptFails(p) \/ UNCHANGED bounds
  PROVE  crashes' \in Nat /\ faults' \in Nat
  BY BoundsAssumption DEF TypeOK, NetworkFault, AptFails, LockHeld, bounds

\* What a package step does to the types, whatever it installs.
LEMMA PackageType ==
  ASSUME TypeOK, NEW p \in Instances, NEW pc, NEW next \in Stages \ {"installing", "building"}, NEW wanted,
         NEW effect \in Effects, Package(p, pc, next, wanted, effect)
  PROVE  TypeOK'
  <1>1. proc' \in [Instances -> Proc]
    BY GotoType DEF Package
  <1>2. disk' \in Disk
    BY DEF Package, TypeOK, Disk
  <1>3. crashes' \in Nat /\ faults' \in Nat
    BY BoundsType DEF Package
  <1>4. QED
    BY <1>1, <1>2, <1>3 DEF Package, TypeOK, host

\* The steps that only move an instance on, with its own variables.
LEMMA ControlType ==
  ASSUME TypeOK, NEW p \in Instances,
         OsCheck(p) \/ OrderId(p) \/ VizOsCheck(p) \/ Gnome(p) \/ StartMount(p)
           \/ (\E card \in Cards : HpCheck(p, card))
  PROVE  TypeOK'
  <1>1. CASE OsCheck(p)
    <2>1. machine.media \in Media
      BY MachinesAssumption DEF TypeOK, Machine
    <2>2. proc' \in [Instances -> Proc]
      BY <1>1, <2>1, SetOsType DEF OsCheck, Stages
    <2>3. QED
      BY <1>1, <2>2 DEF OsCheck, TypeOK, host, bounds
  <1>2. CASE OrderId(p)
    <2>1. proc' \in [Instances -> Proc]
      BY <1>2 DEF OrderId, Goto, TypeOK, Proc, Stages
    <2>2. QED
      BY <1>2, <2>1 DEF OrderId, TypeOK, host, bounds
  <1>3. CASE VizOsCheck(p)
    <2>1. proc' \in [Instances -> Proc]
      BY <1>3, IdleType DEF VizOsCheck, Goto, TypeOK, Proc, Stages, Cards
    <2>2. QED
      BY <1>3, <2>1 DEF VizOsCheck, TypeOK, host, bounds
  <1>4. CASE Gnome(p)
    <2>1. proc' \in [Instances -> Proc]
      <3>1. proc[p].os \in Media \cup {"none"}
        BY DEF TypeOK, Proc
      <3>2. (IF "gnome" \in disk.orderdata THEN "Desktop" ELSE proc[p].os) \in Media \cup {"none"}
        BY <3>1 DEF Media
      <3>3. QED
        BY <1>4, <3>2, SetOsType DEF Gnome, Stages
    <2>2. QED
      BY <1>4, <2>1 DEF Gnome, TypeOK, host, bounds
  <1>5. CASE StartMount(p)
    <2>1. proc' \in [Instances -> Proc]
      BY <1>5 DEF StartMount, Goto, TypeOK, Proc, Stages
    <2>2. QED
      BY <1>5, <2>1 DEF StartMount, TypeOK, host, bounds
  <1>6. ASSUME NEW card \in Cards, HpCheck(p, card)
        PROVE  TypeOK'
    <2>1. proc' \in [Instances -> Proc]
      BY <1>6, NextCallType DEF HpCheck, Goto, TypeOK, Proc, Stages
    <2>2. QED
      BY <1>6, <2>1 DEF HpCheck, TypeOK, host, bounds
  <1>7. QED
    BY <1>1, <1>2, <1>3, <1>4, <1>5, <1>6

\* The steps that write to the disk.
LEMMA WriteType ==
  ASSUME TypeOK, NEW p \in Instances,
         AskOrderId(p) \/ ClearOrderData(p) \/ FetchOrderData(p) \/ HpAutorun(p)
           \/ HpAppend(p) \/ EndMount(p) \/ Netman(p) \/ WriteNetplan(p) \/ StopAutorun(p)
  PROVE  TypeOK'
  <1>1. CASE AskOrderId(p)
    <2>1. proc' \in [Instances -> Proc]
      BY <1>1, SetIdType DEF AskOrderId, Stages
    <2>2. disk' \in Disk
      BY <1>1 DEF AskOrderId, TypeOK, Disk
    <2>3. QED
      BY <1>1, <2>1, <2>2 DEF AskOrderId, TypeOK, host, bounds
  <1>2. CASE ClearOrderData(p)
    <2>1. proc' \in [Instances -> Proc]
      BY <1>2, GotoType DEF ClearOrderData, Stages
    <2>2. disk' \in Disk
      BY <1>2 DEF ClearOrderData, TypeOK, Disk
    <2>3. QED
      BY <1>2, <2>1, <2>2 DEF ClearOrderData, TypeOK, host, bounds
  <1>3. CASE FetchOrderData(p)
    <2>1. proc' \in [Instances -> Proc]
      BY <1>3, GotoType DEF FetchOrderData, Stages
    <2>2. machine.parent \subseteq Items /\ machine.child \subseteq Items
      BY MachinesAssumption DEF TypeOK, Machine
    <2>3. disk' \in Disk
      BY <1>3, <2>2 DEF FetchOrderData, TypeOK, Disk
    <2>4. crashes' \in Nat /\ faults' \in Nat
      BY <1>3, BoundsType DEF FetchOrderData
    <2>5. QED
      BY <1>3, <2>1, <2>3, <2>4 DEF FetchOrderData, TypeOK, host
  <1>4. CASE HpAutorun(p)
    <2>1. proc' \in [Instances -> Proc]
      BY <1>4, GotoType DEF HpAutorun, Stages
    <2>2. disk' \in Disk
      BY <1>4 DEF HpAutorun, TypeOK, Disk, Files
    <2>3. QED
      BY <1>4, <2>1, <2>2 DEF HpAutorun, TypeOK, host, bounds
  <1>5. CASE HpAppend(p)
    <2>1. proc' \in [Instances -> Proc]
      BY <1>5, GotoType DEF HpAppend, Stages
    <2>2. disk' \in Disk
      BY <1>5 DEF HpAppend, TypeOK, Disk, Files
    <2>3. QED
      BY <1>5, <2>1, <2>2 DEF HpAppend, TypeOK, host, bounds
  <1>6. CASE EndMount(p)
    <2>1. proc' \in [Instances -> Proc]
      BY <1>6, GotoType DEF EndMount, Stages
    <2>2. disk' \in Disk
      BY <1>6 DEF EndMount, TypeOK, Disk
    <2>3. QED
      BY <1>6, <2>1, <2>2 DEF EndMount, TypeOK, host, bounds
  <1>7. CASE Netman(p)
    <2>1. proc' \in [Instances -> Proc]
      BY <1>7, GotoType DEF Netman, Stages
    <2>2. disk' \in Disk
      BY <1>7 DEF Netman, TypeOK, Disk
    <2>3. QED
      BY <1>7, <2>1, <2>2 DEF Netman, TypeOK, host, bounds
  <1>8. CASE WriteNetplan(p)
    <2>1. proc' \in [Instances -> Proc]
      BY <1>8, GotoType DEF WriteNetplan, Stages
    <2>2. disk' \in Disk
      BY <1>8 DEF WriteNetplan, TypeOK, Disk
    <2>3. QED
      BY <1>8, <2>1, <2>2 DEF WriteNetplan, TypeOK, host, bounds
  <1>9. CASE StopAutorun(p)
    <2>1. proc' \in [Instances -> Proc]
      BY <1>9, GotoType DEF StopAutorun, Stages
    <2>2. disk' \in Disk
      BY <1>9 DEF StopAutorun, TypeOK, Disk
    <2>3. QED
      BY <1>9, <2>1, <2>2 DEF StopAutorun, TypeOK, host, bounds
  <1>10. QED
    BY <1>1, <1>2, <1>3, <1>4, <1>5, <1>6, <1>7, <1>8, <1>9

\* The steps that edit the boot configuration, and the driver installation.
LEMMA EditType ==
  ASSUME TypeOK, NEW p \in Instances,
         HpInstall(p) \/ HpBuild(p) \/ HpIommu(p) \/ Mobofix(p) \/ Grubtime(p)
  PROVE  TypeOK'
  <1>0. disk.grub \in Grub
    BY DEF TypeOK, Disk
  <1>1. CASE HpInstall(p)
    <2>1. proc[p].card \in Cards
      BY <1>1 DEF HpInstall, At, TypeOK, Proc
    <2>2. proc' \in [Instances -> Proc]
      BY <1>1, <2>1 DEF HpInstall, HpBuild, Goto, TypeOK, Proc, Stages
    <2>3. crashes' \in Nat /\ faults' \in Nat
      BY <1>1, BoundsType DEF HpInstall
    <2>4. disk' \in Disk
      BY <1>1 DEF HpInstall, HpBuild, TypeOK, Disk
    <2>5. QED
      BY <1>1, <2>2, <2>3, <2>4 DEF HpInstall, HpBuild, TypeOK, host
  <1>6. CASE HpBuild(p)
    <2>1. proc[p].card \in Cards
      BY <1>6 DEF HpBuild, At, TypeOK, Proc
    <2>2. proc' \in [Instances -> Proc]
      BY <1>6, GotoType DEF HpBuild, Stages
    <2>3. crashes' \in Nat /\ faults' \in Nat
      BY <1>6, BoundsType DEF HpBuild
    <2>4. disk' \in Disk
      BY <1>6, <2>1 DEF HpBuild, TypeOK, Disk
    <2>5. QED
      BY <1>6, <2>2, <2>3, <2>4 DEF HpBuild, TypeOK, host
  <1>2. CASE HpIommu(p)
    <2>1. proc' \in [Instances -> Proc]
      BY <1>2, GotoType DEF HpIommu, Stages
    <2>2. disk' \in Disk
      BY <1>0, <1>2, DropIommuOffType DEF HpIommu, TypeOK, Disk
    <2>3. QED
      BY <1>2, <2>1, <2>2 DEF HpIommu, TypeOK, host, bounds
  <1>3. CASE Mobofix(p)
    <2>1. proc' \in [Instances -> Proc]
      BY <1>3, GotoType DEF Mobofix, Stages
    <2>2. disk' \in Disk
      BY <1>0, <1>3, BoardEditsType DEF Mobofix, TypeOK, Disk
    <2>3. QED
      BY <1>3, <2>1, <2>2 DEF Mobofix, TypeOK, host, bounds
  <1>4. CASE Grubtime(p)
    <2>1. proc' \in [Instances -> Proc]
      BY <1>4, GotoType DEF Grubtime, Stages
    <2>2. disk' \in Disk
      BY <1>0, <1>4, MenuEditsType DEF Grubtime, TypeOK, Disk
    <2>3. QED
      BY <1>4, <2>1, <2>2 DEF Grubtime, TypeOK, host, bounds
  <1>5. QED
    BY <1>1, <1>2, <1>3, <1>4, <1>6

\* The packages.
LEMMA PackagesType ==
  ASSUME TypeOK, NEW p \in Instances,
         BC9560(p) \/ Nvidia(p) \/ Amdigpu(p) \/ Software(p) \/ UpdateOs(p)
  PROVE  TypeOK'
  BY PackageType DEF BC9560, Nvidia, Amdigpu, Software, UpdateOs, Stages, Effects

LEMMA LaunchedType == TypeOK => Lines \in Nat /\ Launched \in Nat
  <1> SUFFICES ASSUME TypeOK PROVE Lines \in Nat /\ Launched \in Nat
    OBVIOUS
  <1>1. Lines \in Nat
    BY DEF Lines, LaunchFile, TypeOK, Disk, Files
  <1>2. QED
    BY <1>1 DEF Launched

\* The machine and its operator.
LEMMA EnvironmentType == TypeOK /\ Environment => TypeOK'
  <1> SUFFICES ASSUME TypeOK, Environment PROVE TypeOK'
    OBVIOUS
  <1>1. CASE Login
    BY <1>1, LaunchedType DEF Login, TypeOK, Disk, bounds
  <1>2. CASE NewSession
    BY <1>2, LaunchedType DEF NewSession, TypeOK, bounds
  <1>3. CASE PowerDown \/ PowerCycle
    BY <1>3, IdleType DEF PowerDown, PowerCycle, TurnOff, TypeOK, bounds
  <1>4. CASE PowerLoss
    BY <1>4, IdleType, BoundsAssumption DEF PowerLoss, TurnOff, TypeOK
  <1>5. ASSUME NEW p \in Instances, Launch(p)
        PROVE  TypeOK'
    <2>1. proc' \in [Instances -> Proc]
      BY <1>5, GotoType DEF Launch, Stages
    <2>2. QED
      BY <1>5, <2>1 DEF Launch, TypeOK, bounds
  <1>6. ASSUME NEW p \in Instances, CloseTerminal(p)
        PROVE  TypeOK'
    <2>1. proc' \in [Instances -> Proc]
      BY <1>6, IdleType DEF CloseTerminal, TypeOK
    <2>2. QED
      BY <1>6, <2>1, BoundsAssumption DEF CloseTerminal, TypeOK, host
  <1>7. QED
    BY <1>1, <1>2, <1>3, <1>4, <1>5, <1>6 DEF Environment

LEMMA RebootType ==
  ASSUME TypeOK, NEW p \in Instances, HpReboot(p) \/ Shutdown(p)
  PROVE  TypeOK'
  <1>1. proc' \in [Instances -> Proc]
    BY IdleType DEF HpReboot, Shutdown, Reboot, TypeOK
  <1>2. QED
    BY <1>1 DEF HpReboot, Shutdown, Reboot, TypeOK, bounds

\* Every step preserves the types.
LEMMA NextTypeOK == TypeOK /\ [Next]_vars => TypeOK'
  <1> SUFFICES ASSUME TypeOK, [Next]_vars PROVE TypeOK'
    OBVIOUS
  <1>1. ASSUME NEW p \in Instances, Step(p)
        PROVE  TypeOK'
    BY <1>1, ControlType, WriteType, EditType, PackagesType, RebootType DEF Step
  <1>2. CASE UNCHANGED vars
    BY <1>2 DEF vars, TypeOK, host, bounds
  <1>3. QED
    BY <1>1, <1>2, EnvironmentType DEF Next

\* The variables of the installer always have their types, in particular the
\* kernel arguments stay words the edits know and no counter goes below zero.
THEOREM Typing == Spec => []TypeOK
  BY InitTypeOK, NextTypeOK, PTL DEF Spec

-----------------------------------------------------------------------------
(***************************************************************************)
(* One instance at a time.  Nothing in the scripts excludes a second one;  *)
(* what does is that a login runs one launch line.  That holds while a     *)
(* server has one login between two boots and no desktop has a HighPoint   *)
(* card, whose driver function adds a line to the one that is there.       *)
(***************************************************************************)
OneLaunch ==
  /\ MaxSessions = 1
  /\ \A m \in Machines : m.media = "Desktop" => m.cards = {}

HpStages == {"installing", "building", "iommu", "autorun", "append"}

\* At most one instance of master.sh runs at any time.
SingleMaster == \A p, q \in Live : p = q

SoloInv ==
  /\ TypeOK
  /\ power = "up" => sessions > 0
  /\ power = "down" => Live = {} /\ pending = 0
  /\ pending \in {0, 1}
  /\ pending = 1 => Live = {}
  /\ SingleMaster
  /\ machine.media = "Desktop" =>
       disk.launch["profile.d"] <= 1 /\ \A p \in Instances : proc[p].pc \notin HpStages

\* A step of an instance that was live leaves no other one live.
LEMMA StaysAlone ==
  ASSUME SoloInv, TypeOK', NEW p \in Live,
         \A q \in Instances \ {p} : proc'[q] = proc[q]
  PROVE  SingleMaster' /\ Live' \subseteq {p}
  BY DEF SoloInv, SingleMaster, Live

\* What the steps of an instance leave alone.
LEMMA StepFrame ==
  ASSUME TypeOK, NEW p \in Instances, Step(p)
  PROVE  /\ p \in Live
         /\ \A q \in Instances \ {p} : proc'[q] = proc[q]
         /\ UNCHANGED <<machine, sessions, pending, loaded>>
         /\ power' = power \/ power' = "stopping"
  <1> USE DEF At, Goto, Live, TypeOK, host
  <1>1. CASE OsCheck(p) \/ OrderId(p) \/ AskOrderId(p) \/ ClearOrderData(p)
             \/ FetchOrderData(p) \/ VizOsCheck(p)
    BY <1>1 DEF OsCheck, OrderId, AskOrderId, ClearOrderData, FetchOrderData, VizOsCheck
  <1>2. CASE (\E card \in Cards : HpCheck(p, card)) \/ HpInstall(p) \/ HpBuild(p) \/ HpIommu(p)
             \/ HpAutorun(p) \/ HpAppend(p)
    BY <1>2 DEF HpCheck, HpInstall, HpBuild, HpIommu, HpAutorun, HpAppend, Cards
  <1>3. CASE BC9560(p) \/ Nvidia(p) \/ Amdigpu(p) \/ Software(p) \/ UpdateOs(p) \/ Gnome(p)
    BY <1>3 DEF BC9560, Nvidia, Amdigpu, Software, UpdateOs, Package, Gnome
  <1>4. CASE StartMount(p) \/ EndMount(p) \/ Mobofix(p) \/ Netman(p) \/ WriteNetplan(p)
             \/ Grubtime(p) \/ StopAutorun(p)
    BY <1>4 DEF StartMount, EndMount, Mobofix, Netman, WriteNetplan, Grubtime, StopAutorun
  <1>5. CASE HpReboot(p) \/ Shutdown(p)
    BY <1>5 DEF HpReboot, Shutdown, Reboot
  <1>6. QED
    BY <1>1, <1>2, <1>3, <1>4, <1>5 DEF Step

\* What the steps of an instance leave on disk, by the stage it is in.
LEMMA DiskFrame ==
  ASSUME TypeOK, NEW p \in Instances, Step(p)
  PROVE  /\ proc[p].pc # "asking" => disk'.idlines = disk.idlines
         /\ proc[p].pc \notin {"orderdata", "fetching"} => disk'.orderdata = disk.orderdata
         /\ proc[p].pc # "installing" => disk'.hptdrv = disk.hptdrv
         /\ proc[p].pc # "building" => disk'.drivers = disk.drivers
         /\ proc[p].pc # "mounting" => disk'.mounted = disk.mounted
  <1>0. disk \in Disk
    BY DEF TypeOK
  <1> USE DEF At
  <1>1. CASE OsCheck(p) \/ OrderId(p) \/ VizOsCheck(p) \/ (\E card \in Cards : HpCheck(p, card))
             \/ Gnome(p) \/ StartMount(p) \/ HpReboot(p) \/ Shutdown(p)
    BY <1>1 DEF OsCheck, OrderId, VizOsCheck, HpCheck, Gnome, StartMount, HpReboot, Shutdown,
                Reboot
  <1>2. CASE AskOrderId(p) \/ ClearOrderData(p) \/ FetchOrderData(p)
    BY <1>0, <1>2 DEF AskOrderId, ClearOrderData, FetchOrderData, Disk
  <1>3. CASE HpInstall(p) \/ HpBuild(p) \/ EndMount(p)
    BY <1>0, <1>3 DEF HpInstall, HpBuild, EndMount, Disk
  <1>4. CASE HpIommu(p) \/ Mobofix(p) \/ Grubtime(p) \/ Netman(p) \/ WriteNetplan(p)
    BY <1>0, <1>4 DEF HpIommu, Mobofix, Grubtime, Netman, WriteNetplan, Disk
  <1>5. CASE BC9560(p) \/ Nvidia(p) \/ Amdigpu(p) \/ Software(p) \/ UpdateOs(p)
    BY <1>0, <1>5 DEF BC9560, Nvidia, Amdigpu, Software, UpdateOs, Package, Disk
  <1>6. CASE HpAutorun(p) \/ HpAppend(p) \/ StopAutorun(p)
    BY <1>0, <1>6 DEF HpAutorun, HpAppend, StopAutorun, Disk
  <1>7. QED
    BY <1>1, <1>2, <1>3, <1>4, <1>5, <1>6 DEF Step

\* Only three steps touch the launch lines.
LEMMA LaunchFrame ==
  ASSUME TypeOK, NEW p \in Instances, Step(p),
         proc[p].pc \notin {"autorun", "append", "stopautorun"}
  PROVE  disk'.launch = disk.launch
  <1>0. disk \in Disk
    BY DEF TypeOK
  <1> USE DEF At
  <1>1. CASE OsCheck(p) \/ OrderId(p) \/ VizOsCheck(p) \/ (\E card \in Cards : HpCheck(p, card))
             \/ Gnome(p) \/ StartMount(p) \/ HpReboot(p) \/ Shutdown(p)
    BY <1>1 DEF OsCheck, OrderId, VizOsCheck, HpCheck, Gnome, StartMount, HpReboot, Shutdown,
                Reboot
  <1>2. CASE AskOrderId(p) \/ ClearOrderData(p) \/ FetchOrderData(p)
    BY <1>0, <1>2 DEF AskOrderId, ClearOrderData, FetchOrderData, Disk
  <1>3. CASE HpInstall(p) \/ HpBuild(p)
    BY <1>0, <1>3 DEF HpInstall, HpBuild, Disk
  <1>4. CASE HpIommu(p) \/ EndMount(p) \/ Mobofix(p) \/ Grubtime(p)
    BY <1>0, <1>4 DEF HpIommu, EndMount, Mobofix, Grubtime, Disk
  <1>5. CASE BC9560(p) \/ Nvidia(p) \/ Amdigpu(p) \/ Software(p) \/ UpdateOs(p)
    BY <1>0, <1>5 DEF BC9560, Nvidia, Amdigpu, Software, UpdateOs, Package, Disk
  <1>6. CASE Netman(p) \/ WriteNetplan(p)
    BY <1>0, <1>6 DEF Netman, WriteNetplan, Disk
  <1>7. QED
    BY <1>1, <1>2, <1>3, <1>4, <1>5, <1>6 DEF Step, HpAutorun, HpAppend, StopAutorun

\* Goto, and the moves that set another variable, set the stage.
LEMMA GotoPc ==
  ASSUME TypeOK, NEW p \in Instances, NEW pc, Goto(p, pc)
  PROVE  proc'[p].pc = pc /\ proc'[p].os = proc[p].os /\ proc'[p].id = proc[p].id
           /\ proc'[p].card = proc[p].card
  BY DEF Goto, TypeOK, Proc

LEMMA SetsOs ==
  ASSUME TypeOK, NEW p \in Instances, NEW x, NEW y,
         proc' = [proc EXCEPT ![p].pc = x, ![p].os = y]
  PROVE  proc'[p].pc = x
  BY DEF TypeOK, Proc

LEMMA SetsId ==
  ASSUME TypeOK, NEW p \in Instances, NEW x, NEW y,
         proc' = [proc EXCEPT ![p].pc = x, ![p].id = y]
  PROVE  proc'[p].pc = x
  BY DEF TypeOK, Proc

LEMMA SetsCard ==
  ASSUME TypeOK, NEW p \in Instances, NEW x, NEW y,
         proc' = [proc EXCEPT ![p].pc = x, ![p].card = y]
  PROVE  proc'[p].pc = x
  BY DEF TypeOK, Proc

LEMMA Ends ==
  ASSUME TypeOK, NEW p \in Instances, proc' = [proc EXCEPT ![p] = Idle]
  PROVE  proc'[p].pc = "none"
  BY DEF TypeOK, Idle

\* The order of the calls in master.sh.
Flow ==
  {<<"oscheck", "orderid">>, <<"orderid", "asking">>, <<"orderid", "orderdata">>,
   <<"asking", "orderdata">>, <<"orderdata", "fetching">>, <<"fetching", "vizcheck">>,
   <<"vizcheck", "none">>, <<"vizcheck", "hp7505">>,
   <<"hp7505", "hp640L">>, <<"hp640L", "hp3720c">>, <<"hp3720c", "9560">>,
   <<"hp7505", "installing">>, <<"hp640L", "installing">>, <<"hp3720c", "installing">>,
   <<"installing", "building">>, <<"installing", "iommu">>, <<"building", "iommu">>,
   <<"iommu", "autorun">>, <<"autorun", "append">>,
   <<"autorun", "rebooting">>, <<"append", "rebooting">>, <<"rebooting", "none">>,
   <<"9560", "nvidia">>, <<"nvidia", "amdigpu">>, <<"amdigpu", "software">>,
   <<"software", "update">>, <<"update", "gnome">>, <<"gnome", "mount">>,
   <<"mount", "mobofix">>, <<"mount", "mounting">>, <<"mounting", "mobofix">>,
   <<"mobofix", "netman">>, <<"netman", "netplan">>, <<"netman", "grubtime">>,
   <<"netplan", "grubtime">>, <<"grubtime", "stopautorun">>, <<"stopautorun", "shutdown">>,
   <<"shutdown", "none">>}

\* Every step of an instance follows that order.
LEMMA StepFlow ==
  ASSUME TypeOK, NEW p \in Instances, Step(p)
  PROVE  <<proc[p].pc, proc'[p].pc>> \in Flow
  <1> USE DEF At, Flow
  <1>1. CASE OsCheck(p)
    <2>1. proc[p].pc = "oscheck" /\ proc'[p].pc = "orderid"
      BY <1>1, SetsOs DEF OsCheck
    <2>2. QED
      BY <2>1
  <1>2. CASE OrderId(p)
    <2>1. proc[p].pc = "orderid" /\ proc'[p].pc \in {"asking", "orderdata"}
      BY <1>2, GotoPc, SetsId DEF OrderId
    <2>2. QED
      BY <2>1
  <1>3. CASE AskOrderId(p)
    <2>1. proc[p].pc = "asking" /\ proc'[p].pc = "orderdata"
      BY <1>3, SetsId DEF AskOrderId
    <2>2. QED
      BY <2>1
  <1>4. CASE ClearOrderData(p) \/ FetchOrderData(p)
    BY <1>4, GotoPc DEF ClearOrderData, FetchOrderData
  <1>5. CASE VizOsCheck(p)
    <2>1. proc[p].pc = "vizcheck" /\ proc'[p].pc \in {"none", "hp7505"}
      BY <1>5, GotoPc, Ends DEF VizOsCheck
    <2>2. QED
      BY <2>1
  <1>6. ASSUME NEW card \in Cards, HpCheck(p, card)
        PROVE  <<proc[p].pc, proc'[p].pc>> \in Flow
    <2>1. proc[p].pc = card
      BY <1>6 DEF HpCheck
    <2>2. proc'[p].pc \in {"installing", NextCall(card)}
      BY <1>6, GotoPc, SetsCard DEF HpCheck
    <2>3. QED
      BY <2>1, <2>2 DEF NextCall, Cards
  <1>7. CASE HpInstall(p) \/ HpBuild(p) \/ HpIommu(p) \/ HpAutorun(p) \/ HpAppend(p)
    BY <1>7, GotoPc DEF HpInstall, HpBuild, HpIommu, HpAutorun, HpAppend
  <1>8. CASE BC9560(p) \/ Nvidia(p) \/ Amdigpu(p) \/ Software(p) \/ UpdateOs(p)
    BY <1>8, GotoPc DEF BC9560, Nvidia, Amdigpu, Software, UpdateOs, Package
  <1>9. CASE Gnome(p)
    <2>1. proc[p].pc = "gnome" /\ proc'[p].pc = "mount"
      BY <1>9, SetsOs DEF Gnome
    <2>2. QED
      BY <2>1
  <1>10. CASE StartMount(p) \/ EndMount(p) \/ Mobofix(p)
    BY <1>10, GotoPc DEF StartMount, EndMount, Mobofix
  <1>11. CASE Netman(p) \/ WriteNetplan(p) \/ Grubtime(p) \/ StopAutorun(p)
    BY <1>11, GotoPc DEF Netman, WriteNetplan, Grubtime, StopAutorun
  <1>12. CASE HpReboot(p) \/ Shutdown(p)
    <2>1. proc[p].pc \in {"rebooting", "shutdown"} /\ proc'[p].pc = "none"
      BY <1>12, Ends DEF HpReboot, Shutdown, Reboot
    <2>2. QED
      BY <2>1
  <1>13. QED
    BY <1>1, <1>2, <1>3, <1>4, <1>5, <1>6, <1>7, <1>8, <1>9, <1>10, <1>11, <1>12 DEF Step

\* An instance gets to the driver installation only past the check of a card
\* that the machine has.
LEMMA EntersHpStages ==
  ASSUME TypeOK, NEW p \in Instances, Step(p), proc[p].pc \notin HpStages,
         machine.cards = {}
  PROVE  proc'[p].pc \notin HpStages
  <1>1. CASE proc[p].pc \in Cards
    <2>1. PICK card \in Cards : HpCheck(p, card)
      BY <1>1 DEF Step, At, OsCheck, OrderId, AskOrderId, ClearOrderData, FetchOrderData,
             VizOsCheck, HpInstall, HpBuild, HpIommu, HpAutorun, HpAppend, HpReboot, Reboot,
             BC9560, Nvidia, Amdigpu, Software, UpdateOs, Package, Gnome, StartMount, EndMount,
             Mobofix, Netman, WriteNetplan, Grubtime, StopAutorun, Shutdown, Cards
    <2>2. Goto(p, NextCall(card))
      BY <2>1 DEF HpCheck
    <2>3. QED
      BY <2>2, GotoPc DEF NextCall, Cards, HpStages
  <1>2. CASE proc[p].pc \notin Cards
    BY <1>2, StepFlow DEF Flow, Cards, HpStages
  <1>3. QED
    BY <1>1, <1>2

\* So a desktop without cards keeps its one launch line, or loses it at the end.
LEMMA StepLaunchLine ==
  ASSUME OneLaunch, SoloInv, NEW p \in Instances, Step(p), machine.media = "Desktop"
  PROVE  disk'.launch["profile.d"] <= 1 /\ proc'[p].pc \notin HpStages
  <1>0. /\ TypeOK /\ machine.cards = {} /\ proc[p].pc \notin HpStages
        /\ disk.launch["profile.d"] <= 1
    BY DEF SoloInv, TypeOK, OneLaunch
  <1>1. CASE proc[p].pc = "stopautorun"
    <2>1. StopAutorun(p)
      BY <1>1 DEF Step, At, OsCheck, OrderId, AskOrderId, ClearOrderData, FetchOrderData,
             VizOsCheck, HpCheck, HpInstall, HpBuild, HpIommu, HpAutorun, HpAppend, HpReboot, Reboot,
             BC9560, Nvidia, Amdigpu, Software, UpdateOs, Package, Gnome, StartMount, EndMount,
             Mobofix, Netman, WriteNetplan, Grubtime, Shutdown, Cards
    <2>2. disk' = [disk EXCEPT !.launch[LaunchFile(proc[p].os)] = 0]
      BY <2>1 DEF StopAutorun
    <2>3. disk.launch \in [Files -> Nat] /\ disk \in Disk
      BY <1>0 DEF TypeOK, Disk
    <2>4. disk'.launch = [disk.launch EXCEPT ![LaunchFile(proc[p].os)] = 0]
      BY <2>2, <2>3 DEF Disk
    <2>5. disk'.launch["profile.d"] <= 1
      BY <1>0, <2>3, <2>4 DEF LaunchFile, Files
    <2>6. QED
      BY <1>0, <2>5, EntersHpStages
  <1>2. CASE proc[p].pc # "stopautorun"
    BY <1>0, <1>2, LaunchFrame, EntersHpStages DEF HpStages
  <1>3. QED
    BY <1>1, <1>2

\* What the environment does to the instances: it ends them, or starts one.
LEMMA EnvironmentFrame ==
  ASSUME OneLaunch, SoloInv, Environment
  PROVE  /\ disk' = disk /\ machine' = machine
         /\ \A q \in Live' : \/ q \in Live /\ proc'[q] = proc[q]
                             \/ proc'[q].pc = "oscheck" /\ pending > 0
         /\ \/ loaded' = loaded /\ pending' <= pending
            \/ loaded' = disk.drivers /\ Live' = {}
  <1>0. TypeOK
    BY DEF SoloInv
  <1>1. CASE Login
    BY <1>0, <1>1 DEF Login, SoloInv, Live
  <1>2. CASE NewSession
    BY <1>0, <1>2 DEF NewSession, SoloInv, OneLaunch, TypeOK
  <1>3. CASE PowerDown \/ PowerLoss \/ PowerCycle
    BY <1>0, <1>3 DEF PowerDown, PowerLoss, PowerCycle, TurnOff, AllIdle, Idle, Live, TypeOK
  <1>4. ASSUME NEW p \in Instances, Launch(p)
        PROVE  /\ disk' = disk /\ machine' = machine /\ loaded' = loaded /\ pending' <= pending
               /\ \A q \in Live' : \/ q \in Live /\ proc'[q] = proc[q]
                                   \/ proc'[q].pc = "oscheck" /\ pending > 0
    BY <1>0, <1>4 DEF Launch, Goto, Live, TypeOK, Proc
  <1>5. ASSUME NEW p \in Instances, CloseTerminal(p)
        PROVE  /\ disk' = disk /\ machine' = machine /\ loaded' = loaded /\ pending' <= pending
               /\ \A q \in Live' : q \in Live /\ proc'[q] = proc[q]
    BY <1>0, <1>5 DEF CloseTerminal, host, Live, TypeOK, Idle
  <1>6. QED
    BY <1>1, <1>2, <1>3, <1>4, <1>5 DEF Environment

LEMMA InitSolo == Init => SoloInv
  <1> SUFFICES ASSUME Init PROVE SoloInv
    OBVIOUS
  <1>1. Live = {}
    BY DEF Init, Live, AllIdle, Idle
  <1>2. machine.media = "Desktop" => disk.launch["profile.d"] = 1
    BY DEF Init, ImagedDisk, LaunchFile, Files
  <1>3. \A p \in Instances : proc[p].pc \notin HpStages
    BY DEF Init, AllIdle, Idle, HpStages
  <1>4. QED
    BY <1>1, <1>2, <1>3, InitTypeOK DEF Init, SoloInv, SingleMaster

LEMMA NextSolo ==
  ASSUME OneLaunch
  PROVE  SoloInv /\ [Next]_vars => SoloInv'
  <1> SUFFICES ASSUME SoloInv, [Next]_vars PROVE SoloInv'
    OBVIOUS
  <1>0. TypeOK /\ TypeOK'
    BY NextTypeOK DEF SoloInv
  <1>1. ASSUME NEW p \in Instances, Step(p)
        PROVE  SoloInv'
    <2>1. /\ p \in Live
          /\ \A q \in Instances \ {p} : proc'[q] = proc[q]
          /\ UNCHANGED <<machine, sessions, pending, loaded>>
          /\ power' = power \/ power' = "stopping"
      BY <1>0, <1>1, StepFrame
    <2>2. SingleMaster' /\ Live' \subseteq {p}
      BY <1>0, <2>1, StaysAlone
    <2>3. pending = 0 /\ power # "down"
      BY <2>1 DEF SoloInv
    <2>4. machine'.media = "Desktop" =>
            disk'.launch["profile.d"] <= 1 /\ \A q \in Instances : proc'[q].pc \notin HpStages
      BY <1>1, <2>1, StepLaunchLine DEF SoloInv
    <2>5. QED
      BY <1>0, <2>1, <2>2, <2>3, <2>4 DEF SoloInv
  <1>2. CASE Login
    <2>1. Launched \in {0, 1}
      <3>1. machine.media \in Media /\ Lines \in Nat
        BY <1>0, LaunchedType, MachinesAssumption DEF TypeOK, Machine
      <3>2. machine.media = "Desktop" => Lines <= 1
        BY DEF SoloInv, Lines, LaunchFile
      <3>3. QED
        BY <3>1, <3>2 DEF Launched, Media
    <2>2. Live' = Live
      BY <1>2 DEF Login, Live
    <2>3. QED
      BY <1>0, <1>2, <2>1, <2>2 DEF Login, SoloInv, SingleMaster
  <1>3. CASE NewSession
    BY <1>0, <1>3 DEF NewSession, SoloInv, OneLaunch, TypeOK
  <1>4. CASE PowerDown \/ PowerLoss \/ PowerCycle
    <2>1. TurnOff
      BY <1>4 DEF PowerDown, PowerLoss, PowerCycle
    <2>2. Live' = {} /\ \A q \in Instances : proc'[q].pc \notin HpStages
      BY <2>1 DEF TurnOff, Live, AllIdle, Idle, HpStages
    <2>3. QED
      BY <1>0, <2>1, <2>2 DEF TurnOff, SoloInv, SingleMaster
  <1>5. ASSUME NEW p \in Instances, Launch(p)
        PROVE  SoloInv'
    <2>1. pending = 1 /\ Live = {} /\ pending' = 0
      BY <1>5 DEF Launch, SoloInv
    <2>2. Live' = {p}
      BY <1>0, <1>5, <2>1 DEF Launch, Goto, Live, TypeOK
    <2>3. \A q \in Instances : proc'[q].pc = proc[q].pc \/ proc'[q].pc = "oscheck"
      BY <1>0, <1>5 DEF Launch, Goto, TypeOK
    <2>4. QED
      BY <1>0, <1>5, <2>1, <2>2, <2>3 DEF Launch, SoloInv, SingleMaster, HpStages
  <1>6. ASSUME NEW p \in Instances, CloseTerminal(p)
        PROVE  SoloInv'
    <2>1. p \in Live /\ \A q \in Instances \ {p} : proc'[q] = proc[q]
      BY <1>0, <1>6 DEF CloseTerminal, Live, TypeOK
    <2>2. SingleMaster' /\ Live' \subseteq {p}
      BY <1>0, <2>1, StaysAlone
    <2>3. proc'[p].pc = "none"
      BY <1>0, <1>6 DEF CloseTerminal, Idle, TypeOK
    <2>4. QED
      BY <1>0, <1>6, <2>1, <2>2, <2>3 DEF CloseTerminal, SoloInv, HpStages, host
  <1>7. CASE UNCHANGED vars
    BY <1>0, <1>7 DEF vars, host, SoloInv, SingleMaster, Live
  <1>8. QED
    BY <1>1, <1>2, <1>3, <1>4, <1>5, <1>6, <1>7 DEF Next, Environment

\* Under OneLaunch no two instances of master.sh ever run at once.
LEMMA Solo ==
  ASSUME OneLaunch
  PROVE  Spec => []SingleMaster
  <1>1. SoloInv /\ [Next]_vars => SoloInv'
    BY NextSolo
  <1>2. SoloInv => SingleMaster
    BY DEF SoloInv
  <1>3. QED
    BY InitSolo, <1>1, <1>2, PTL DEF Spec

-----------------------------------------------------------------------------
(***************************************************************************)
(* The kernel line.  Any number of runs, at once or one after another, may *)
(* edit it: what keeps it sound is that each pattern matches a line that   *)
(* no run has edited yet, or one that this edit cannot repeat.             *)
(***************************************************************************)
Inserted == {"nomodeset", "iommu", "simpledrm"}
KnownLines == {<< >>, <<"quiet", "splash">>} \cup {<<word>> : word \in Inserted}
                \cup {<<"quiet", "splash", word>> : word \in Inserted}

LEMMA AppendToDesktop ==
  ASSUME NEW word
  PROVE  Append(<<"quiet", "splash">>, word) = <<"quiet", "splash", word>>
  <1> DEFINE S == {"quiet", "splash", word}
  <1> DEFINE s == Append(<<"quiet", "splash">>, word)
  <1>1. <<"quiet", "splash">> \in Seq(S) /\ <<"quiet", "splash", word>> \in Seq(S)
    OBVIOUS
  <1>2. s \in Seq(S) /\ Len(s) = 3 /\ s[1] = "quiet" /\ s[2] = "splash" /\ s[3] = word
    BY <1>1, AppendProperties
  <1>3. \A i \in 1 .. 3 : s[i] = <<"quiet", "splash", word>>[i]
    <2> TAKE i \in 1 .. 3
    <2>1. i = 1 \/ i = 2 \/ i = 3
      OBVIOUS
    <2>2. QED
      BY <1>2, <2>1
  <1>4. Len(<<"quiet", "splash", word>>) = 3
    OBVIOUS
  <1>5. QED
    BY <1>1, <1>2, <1>3, <1>4, SeqEqual

LEMMA InsertKnown ==
  ASSUME NEW args \in KnownLines, NEW word \in Inserted, NEW os
  PROVE  AfterSplash(args, word) \in KnownLines /\ InsertWord(args, word, os) \in KnownLines
  <1>1. AfterSplash(args, word) \in KnownLines
    <2>1. CASE args = << >>
      BY <2>1 DEF AfterSplash, KnownLines
    <2>2. CASE args = <<"quiet", "splash">>
      <3>1. Append(args, word) = <<"quiet", "splash", word>>
        BY <2>2, AppendToDesktop
      <3>2. AfterSplash(args, word) \in {args, Append(args, word)}
        BY DEF AfterSplash
      <3>3. QED
        BY <3>1, <3>2 DEF KnownLines
    <2>3. ASSUME NEW w \in Inserted, args = <<w>>
          PROVE  AfterSplash(args, word) \in KnownLines
      <3>1. Len(args) = 1 /\ args[1] = w
        BY <2>3
      <3>2. QED
        BY <2>3, <3>1 DEF AfterSplash, Inserted
    <2>4. ASSUME NEW w \in Inserted, args = <<"quiet", "splash", w>>
          PROVE  AfterSplash(args, word) \in KnownLines
      <3>1. Len(args) = 3 /\ args[3] = w
        BY <2>4
      <3>2. QED
        BY <2>4, <3>1 DEF AfterSplash, Inserted
    <2>5. QED
      BY <2>1, <2>2, <2>3, <2>4 DEF KnownLines
  <1>2. IntoEmpty(args, word) \in KnownLines
    BY DEF IntoEmpty, KnownLines
  <1>3. QED
    BY <1>1, <1>2 DEF InsertWord

LEMMA BoardKnown ==
  ASSUME TypeOK, NEW os, disk.grub.args \in KnownLines
  PROVE  BoardEdits(disk.grub, machine, os).args \in KnownLines
  <1> DEFINE args1 == IF WantsNomodeset(machine) THEN InsertWord(disk.grub.args, "nomodeset", os)
                      ELSE disk.grub.args
  <1> DEFINE args2 == IF WantsIommu(machine) THEN InsertWord(args1, "iommu", os) ELSE args1
  <1> DEFINE args3 == IF WantsSimpledrm(machine, os) THEN AfterSplash(args2, "simpledrm")
                      ELSE args2
  <1>1. args1 \in KnownLines
    BY InsertKnown DEF Inserted
  <1>2. args2 \in KnownLines
    BY <1>1, InsertKnown DEF Inserted
  <1>3. args3 \in KnownLines
    BY <1>2, InsertKnown DEF Inserted
  <1>4. disk.grub \in Grub
    BY DEF TypeOK, Disk
  <1>5. BoardEdits(disk.grub, machine, os) = [disk.grub EXCEPT !.args = args3]
    BY DEF BoardEdits
  <1>6. QED
    BY <1>3, <1>4, <1>5 DEF Grub

LEMMA StepKnown ==
  ASSUME TypeOK, disk.grub.args \in KnownLines, NEW p \in Instances, Step(p)
  PROVE  disk'.grub.args \in KnownLines
  <1>0. disk \in Disk /\ disk.grub \in Grub
    BY DEF TypeOK, Disk
  <1>1. CASE OsCheck(p) \/ OrderId(p) \/ VizOsCheck(p) \/ (\E card \in Cards : HpCheck(p, card))
             \/ Gnome(p) \/ StartMount(p) \/ HpReboot(p) \/ Shutdown(p)
    BY <1>1 DEF OsCheck, OrderId, VizOsCheck, HpCheck, Gnome, StartMount, HpReboot, Shutdown,
                Reboot
  <1>2. CASE AskOrderId(p) \/ ClearOrderData(p) \/ FetchOrderData(p)
    BY <1>0, <1>2 DEF AskOrderId, ClearOrderData, FetchOrderData, Disk
  <1>3. CASE HpInstall(p) \/ HpBuild(p) \/ EndMount(p) \/ Netman(p) \/ WriteNetplan(p)
    BY <1>0, <1>3 DEF HpInstall, HpBuild, EndMount, Netman, WriteNetplan, Disk
  <1>4. CASE HpIommu(p)
    BY <1>0, <1>4 DEF HpIommu, DropIommuOff, Disk, Grub
  <1>5. CASE Mobofix(p)
    BY <1>0, <1>5, BoardKnown DEF Mobofix, Disk
  <1>6. CASE Grubtime(p)
    BY <1>0, <1>6 DEF Grubtime, MenuEdits, Disk, Grub
  <1>7. CASE BC9560(p) \/ Nvidia(p) \/ Amdigpu(p) \/ Software(p) \/ UpdateOs(p)
    BY <1>0, <1>7 DEF BC9560, Nvidia, Amdigpu, Software, UpdateOs, Package, Disk
  <1>8. CASE HpAutorun(p) \/ HpAppend(p) \/ StopAutorun(p)
    BY <1>0, <1>8 DEF HpAutorun, HpAppend, StopAutorun, Disk
  <1>9. QED
    BY <1>1, <1>2, <1>3, <1>4, <1>5, <1>6, <1>7, <1>8 DEF Step

\* No kernel argument is ever repeated: on any machine, for any number of
\* instances, crashes and failed operations.
THEOREM ArgumentsOnce == Spec => []NoRepeatedArgs
  <1>1. Init => TypeOK /\ disk.grub.args \in KnownLines
    <2>1. Init => TypeOK
      BY InitTypeOK
    <2>2. Init => disk.grub.args \in KnownLines
      BY DEF Init, ImagedDisk, KnownLines
    <2>3. QED
      BY <2>1, <2>2
  <1>2. TypeOK /\ disk.grub.args \in KnownLines /\ [Next]_vars
          => (TypeOK /\ disk.grub.args \in KnownLines)'
    <2> SUFFICES ASSUME TypeOK, disk.grub.args \in KnownLines, [Next]_vars
                 PROVE  TypeOK' /\ disk'.grub.args \in KnownLines
      BY DEF KnownLines
    <2>1. TypeOK'
      BY NextTypeOK
    <2>2. CASE \E p \in Instances : Step(p)
      BY <2>1, <2>2, StepKnown
    <2>3. CASE Environment \/ UNCHANGED vars
      <3>1. disk' = disk
        BY <2>3 DEF Environment, Login, NewSession, PowerDown, PowerLoss, PowerCycle, TurnOff,
                    Launch, CloseTerminal, vars
      <3>2. QED
        BY <2>1, <3>1
    <2>4. QED
      BY <2>2, <2>3 DEF Next
  <1>3. TypeOK /\ disk.grub.args \in KnownLines => NoRepeatedArgs
    <2> SUFFICES ASSUME NEW args \in KnownLines, NEW i \in DOMAIN args, NEW j \in DOMAIN args,
                        args[i] = args[j]
                 PROVE  i = j
      BY DEF NoRepeatedArgs
    <2>1. CASE args = << >> \/ \E w \in Inserted : args = <<w>>
      BY <2>1
    <2>2. CASE args = <<"quiet", "splash">>
      BY <2>2
    <2>3. ASSUME NEW w \in Inserted, args = <<"quiet", "splash", w>>
          PROVE  i = j
      BY <2>3 DEF Inserted
    <2>4. QED
      BY <2>1, <2>2, <2>3 DEF KnownLines
  <1>4. QED
    BY <1>1, <1>2, <1>3, PTL DEF Spec

-----------------------------------------------------------------------------
(***************************************************************************)
(* On a machine with at most one HighPoint controller, whose launch line   *)
(* starts one instance at a time and whose network works, no drive is      *)
(* looked at before the controller's driver is loaded, however many power  *)
(* losses and closed terminals interrupt the runs.  Three facts carry it:  *)
(* the order is known whenever it is read, the init script that stands for *)
(* "installed" comes with the driver, and a run that gets past a check     *)
(* while the script is there runs in a boot that loaded the driver.        *)
(***************************************************************************)
NoFaults == OneLaunch /\ MaxFaults = 0
OneCard == \A m \in Machines : \A c, d \in m.cards : c = d

\* Before the order data of this run are there.
Early == {"oscheck", "orderid", "asking", "orderdata", "fetching"}

OrderInv ==
  /\ disk.idlines <= 1
  /\ \A p \in Live :
       /\ At(p, "asking") => disk.idlines = 0
       /\ proc[p].pc \in {"orderdata", "fetching"} => proc[p].id = "good"
       /\ At(p, "fetching") => disk.orderdata = {}
  /\ OrderKnown

\* With one live instance a step's effect on a per-instance invariant is its
\* effect on that instance.
LEMMA OrderStep ==
  ASSUME NoFaults, SoloInv, OrderInv, TypeOK', NEW p \in Instances, Step(p)
  PROVE  OrderInv'
  <1>0. TypeOK /\ faults \in Nat /\ disk \in Disk /\ proc[p] \in Proc
    BY DEF SoloInv, TypeOK
  <1>1. /\ p \in Live
        /\ \A q \in Instances \ {p} : proc'[q] = proc[q]
        /\ machine' = machine
    BY <1>0, StepFrame
  <1>2. Live' \subseteq {p} /\ \A q \in Instances \ {p} : proc[q].pc = "none"
    BY <1>1, StaysAlone DEF SoloInv, SingleMaster, Live
  <1>3. SUFFICES /\ disk'.idlines <= 1
                 /\ proc'[p].pc = "asking" => disk'.idlines = 0
                 /\ proc'[p].pc \in {"orderdata", "fetching"} => proc'[p].id = "good"
                 /\ proc'[p].pc = "fetching" => disk'.orderdata = {}
                 /\ proc'[p].pc \notin Early \cup {"none"} => disk'.orderdata = Order
    BY <1>1, <1>2 DEF OrderInv, OrderKnown, Order, Early, At, Live
  <1>4. <<proc[p].pc, proc'[p].pc>> \in Flow
    BY <1>0, StepFlow
  <1>5. CASE OrderId(p)
    <2>1. disk' = disk /\ proc[p].pc = "orderid"
      BY <1>5 DEF OrderId, At
    <2>2. CASE disk.idlines = 0 /\ Goto(p, "asking")
      BY <1>0, <2>1, <2>2, GotoPc DEF OrderInv, Early
    <2>3. CASE proc' = [proc EXCEPT ![p].pc = "orderdata",
                          ![p].id = IF disk.idlines > 1 THEN "garbled" ELSE "good"]
      <3>1. disk.idlines \in Nat /\ disk.idlines <= 1
        BY <1>0 DEF OrderInv, Disk
      <3>2. proc'[p].pc = "orderdata" /\ proc'[p].id = "good"
        BY <1>0, <2>3, <3>1 DEF TypeOK, Proc
      <3>3. QED
        BY <2>1, <3>1, <3>2 DEF Early
    <2>4. QED
      BY <1>5, <2>2, <2>3 DEF OrderId
  <1>6. CASE AskOrderId(p)
    <2>1. disk.idlines = 0
      BY <1>1, <1>6 DEF AskOrderId, OrderInv
    <2>2. disk'.idlines = 1
      BY <1>0, <1>6, <2>1 DEF AskOrderId, Disk
    <2>3. proc'[p].pc = "orderdata" /\ proc'[p].id = "good"
      BY <1>0, <1>6 DEF AskOrderId, TypeOK, Proc
    <2>4. QED
      BY <2>2, <2>3 DEF Early
  <1>7. CASE ClearOrderData(p)
    <2>1. proc[p].id = "good"
      BY <1>1, <1>7 DEF ClearOrderData, OrderInv, At
    <2>2. proc'[p].pc = "fetching" /\ proc'[p].id = "good"
      BY <1>0, <1>7, <2>1, GotoPc DEF ClearOrderData
    <2>3. disk'.orderdata = {} /\ disk'.idlines = disk.idlines
      BY <1>0, <1>7 DEF ClearOrderData, Disk
    <2>4. QED
      BY <2>2, <2>3 DEF OrderInv, Early
  <1>8. CASE FetchOrderData(p)
    <2>1. proc[p].id = "good" /\ disk.orderdata = {}
      BY <1>1, <1>8 DEF FetchOrderData, OrderInv, At
    <2>2. ~NetworkFault /\ ~LockHeld(p)
      BY <1>0, <1>2 DEF NoFaults, NetworkFault, LockHeld, AptStages
    <2>3. disk' = [disk EXCEPT !.orderdata = @ \cup machine.parent \cup machine.child]
      BY <1>8, <2>1, <2>2 DEF FetchOrderData, AptFails
    <2>4. disk'.orderdata = Order /\ disk'.idlines = disk.idlines
      BY <1>0, <2>1, <2>3 DEF Order, Disk
    <2>5. proc'[p].pc = "vizcheck"
      BY <1>0, <1>8, GotoPc DEF FetchOrderData
    <2>6. QED
      BY <2>4, <2>5 DEF OrderInv, Early
  <1>9. CASE OsCheck(p)
    BY <1>0, <1>9, SetsOs DEF OsCheck, OrderInv, Early
  <1>10. CASE proc[p].pc \notin Early
    <2>1. disk'.idlines = disk.idlines /\ disk'.orderdata = disk.orderdata
      BY <1>0, <1>10, DiskFrame DEF Early
    <2>2. proc'[p].pc \notin Early
      BY <1>4, <1>10 DEF Flow, Early
    <2>3. disk.orderdata = Order
      BY <1>1, <1>10 DEF OrderInv, OrderKnown, Early
    <2>4. QED
      BY <2>1, <2>2, <2>3 DEF OrderInv, Early
  <1>11. proc[p].pc \in Early =>
           OsCheck(p) \/ OrderId(p) \/ AskOrderId(p) \/ ClearOrderData(p) \/ FetchOrderData(p)
    BY DEF Early, Step, At, VizOsCheck, HpCheck, HpInstall, HpBuild, HpIommu, HpAutorun, HpAppend, HpReboot,
           Reboot, BC9560, Nvidia, Amdigpu, Software, UpdateOs, Package, Gnome, StartMount,
           EndMount, Mobofix, Netman, WriteNetplan, Grubtime, StopAutorun, Shutdown, Cards
  <1>12. QED
    BY <1>5, <1>6, <1>7, <1>8, <1>9, <1>10, <1>11

LEMMA InitOrder == Init => OrderInv
  <1> SUFFICES ASSUME Init PROVE OrderInv
    OBVIOUS
  <1>1. Live = {} /\ disk.idlines = 0
    BY DEF Init, Live, AllIdle, Idle, ImagedDisk
  <1>2. QED
    BY <1>1 DEF OrderInv, OrderKnown

LEMMA NextOrder ==
  ASSUME NoFaults, SoloInv, OrderInv, [Next]_vars
  PROVE  OrderInv'
  <1>0. TypeOK /\ TypeOK'
    BY NextTypeOK DEF SoloInv
  <1>1. ASSUME NEW p \in Instances, Step(p)
        PROVE  OrderInv'
    BY <1>0, <1>1, OrderStep
  <1>2. CASE Environment
    <2>1. /\ disk' = disk /\ machine' = machine
          /\ \A q \in Live' : \/ q \in Live /\ proc'[q] = proc[q]
                              \/ proc'[q].pc = "oscheck"
      BY <1>2, EnvironmentFrame DEF NoFaults
    <2>2. QED
      BY <2>1 DEF OrderInv, OrderKnown, Order, At
  <1>3. CASE UNCHANGED vars
    BY <1>3 DEF vars, OrderInv, OrderKnown, Order, At, Live
  <1>4. QED
    BY <1>1, <1>2, <1>3 DEF Next

\* Under NoFaults whatever a run reads of the order, once it has fetched it, is
\* the whole order, for any number of interrupted runs before it.
THEOREM KnownOrder ==
  ASSUME NoFaults
  PROVE  Spec => []OrderKnown
  <1>1. OneLaunch
    BY DEF NoFaults
  <1>2. Init => SoloInv /\ OrderInv
    BY InitSolo, InitOrder
  <1>3. SoloInv /\ OrderInv /\ [Next]_vars => (SoloInv /\ OrderInv)'
    BY <1>1, NextSolo, NextOrder
  <1>4. SoloInv /\ OrderInv => OrderKnown
    BY DEF OrderInv
  <1>5. QED
    BY <1>2, <1>3, <1>4, PTL DEF Spec
-----------------------------------------------------------------------------
(***************************************************************************)
(* The drivers.                                                            *)
(***************************************************************************)
AfterDrivers ==
  {"9560", "nvidia", "amdigpu", "software", "update", "gnome", "mount", "mounting", "mobofix",
   "netman", "netplan", "grubtime", "stopautorun", "shutdown"}

\* The controllers whose check lies behind an instance.
Behind(pc) == {card \in Cards :
                 \/ pc \in AfterDrivers
                 \/ pc = "hp3720c" /\ card # "hp3720c"
                 \/ pc = "hp640L" /\ card = "hp7505"}

\* From the installation of a driver to the reboot that loads it.
Installs == {"installing", "building", "iommu", "autorun", "append", "rebooting"}

\* The installer was stopped between the script and the driver, and is gone.
Cut == CutShort /\ \A p \in Live : ~At(p, "building")
Loads == DriverCards \subseteq loaded \/ Cut

DriverInv ==
  /\ power = "stopping" => Live = {}
  /\ loaded \subseteq disk.drivers
  /\ Cut => crashes > 0
  /\ disk.hptdrv /\ pending > 0 => Loads
  /\ disk.mounted => Loads
  /\ \A p \in Live :
       /\ proc[p].pc \in {"installing", "building"} => proc[p].card \in DriverCards
       /\ At(p, "installing") => ~disk.hptdrv
       /\ proc[p].pc \notin Installs /\ disk.hptdrv => Loads
       /\ DriverCards \cap Behind(proc[p].pc) \subseteq loaded \/ Cut

\* Whoever asks for a reboot has ended.
LEMMA PowerFrame ==
  ASSUME TypeOK, NEW p \in Instances, Step(p)
  PROVE  power' = power \/ proc'[p].pc = "none"
  <1>1. CASE HpReboot(p) \/ Shutdown(p)
    BY <1>1, Ends DEF HpReboot, Shutdown, Reboot
  <1>2. CASE ~(HpReboot(p) \/ Shutdown(p))
    BY <1>2 DEF Step, host, OsCheck, OrderId, AskOrderId, ClearOrderData, FetchOrderData,
           VizOsCheck, HpCheck, HpInstall, HpBuild, HpIommu, HpAutorun, HpAppend, BC9560, Nvidia,
           Amdigpu, Software, UpdateOs, Package, Gnome, StartMount, EndMount, Mobofix, Netman,
           WriteNetplan, Grubtime, StopAutorun
  <1>3. QED
    BY <1>1, <1>2

\* No step of an instance counts as a crash.
LEMMA StepCrashes ==
  ASSUME TypeOK, NEW p \in Instances, Step(p)
  PROVE  crashes' = crashes
  BY DEF Step, bounds, OsCheck, OrderId, AskOrderId, ClearOrderData, FetchOrderData, AptFails,
         LockHeld, NetworkFault, VizOsCheck, HpCheck, HpInstall, HpBuild, HpIommu, HpAutorun,
         HpAppend, HpReboot, Reboot, BC9560, Nvidia, Amdigpu, Software, UpdateOs, Package, Gnome,
         StartMount, EndMount, Mobofix, Netman, WriteNetplan, Grubtime, StopAutorun, Shutdown

\* A check that is passed has found no driver missing, or one that was cut short.
LEMMA CheckPasses ==
  ASSUME SoloInv, OrderInv, DriverInv, NEW p \in Instances, NEW card \in Cards,
         HpCheck(p, card)
  PROVE  /\ \/ proc'[p].pc = NextCall(card) /\ (card \in DriverCards => card \in loaded \/ Cut)
            \/ /\ proc'[p].pc = "installing" /\ proc'[p].card = card /\ card \in DriverCards
               /\ ~disk.hptdrv
         /\ disk' = disk /\ crashes' = crashes
  <1>0. TypeOK /\ proc[p].pc = card /\ p \in Live
    BY DEF SoloInv, HpCheck, At, Live, Cards
  <1>1. disk.orderdata = Order
    BY <1>0 DEF OrderInv, OrderKnown, Cards
  <1>2. disk.hptdrv => Loads
    BY <1>0 DEF DriverInv, Installs, Cards
  <1>3. CASE card \in machine.cards /\ Ordered(card, disk.orderdata) /\ ~disk.hptdrv
    <2>1. /\ proc' = [proc EXCEPT ![p].pc = "installing", ![p].card = card]
          /\ disk' = disk /\ crashes' = crashes
      BY <1>3 DEF HpCheck, bounds
    <2>2. proc'[p].pc = "installing" /\ proc'[p].card = card
      BY <1>0, <2>1 DEF TypeOK, Proc
    <2>3. card \in DriverCards
      BY <1>1, <1>3 DEF DriverCards
    <2>4. QED
      BY <1>3, <2>1, <2>2, <2>3
  <1>4. CASE ~(card \in machine.cards /\ Ordered(card, disk.orderdata) /\ ~disk.hptdrv)
    <2>1. Goto(p, NextCall(card)) /\ disk' = disk /\ crashes' = crashes
      BY <1>4 DEF HpCheck, bounds
    <2>2. card \in DriverCards => card \in loaded \/ Cut
      BY <1>1, <1>2, <1>4 DEF DriverCards, Loads
    <2>3. QED
      BY <1>0, <2>1, <2>2, GotoPc
  <1>5. QED
    BY <1>3, <1>4

\* Without a fault the init script comes first and then the driver.
LEMMA Places1 ==
  ASSUME NoFaults, TypeOK, NEW p \in Live, HpInstall(p)
  PROVE  /\ proc'[p].pc = "building" /\ proc'[p].card = proc[p].card
         /\ disk'.drivers = disk.drivers /\ disk'.mounted = disk.mounted
         /\ crashes' = crashes
  <1>0. disk \in Disk /\ faults \in Nat /\ p \in Instances
    BY DEF TypeOK, Live
  <1>1. ~NetworkFault
    BY <1>0 DEF NetworkFault, NoFaults
  <1>2. /\ Goto(p, "building") /\ disk' = [disk EXCEPT !.hptdrv = TRUE]
        /\ crashes' = crashes
    BY <1>1 DEF HpInstall, bounds
  <1>3. QED
    BY <1>0, <1>2, GotoPc DEF Disk

LEMMA Builds ==
  ASSUME NoFaults, OneCard, TypeOK, DriverInv, NEW p \in Live, HpBuild(p)
  PROVE  /\ DriverCards \subseteq disk'.drivers /\ disk.drivers \subseteq disk'.drivers
         /\ disk'.hptdrv = disk.hptdrv /\ disk'.mounted = disk.mounted
         /\ crashes' = crashes /\ proc'[p].pc = "iommu"
  <1>0. disk \in Disk /\ faults \in Nat /\ p \in Instances /\ machine \in Machines
    BY DEF TypeOK, Live
  <1>1. ~NetworkFault
    BY <1>0 DEF NetworkFault, NoFaults
  <1>2. /\ Goto(p, "iommu") /\ crashes' = crashes
        /\ disk' = [disk EXCEPT !.drivers = disk.drivers \cup {proc[p].card}]
    BY <1>1 DEF HpBuild, bounds
  <1>3. DriverCards \subseteq {proc[p].card}
    <2>1. proc[p].card \in DriverCards
      BY DEF DriverInv, HpBuild, At
    <2>2. QED
      BY <1>0, <2>1 DEF OneCard, DriverCards
  <1>4. QED
    BY <1>0, <1>2, <1>3, GotoPc DEF Disk

\* What DriverInv asks of a machine on which p is the one instance.
DriverAt(pc, card, hptdrv, drivers, mounted, cut) ==
  /\ loaded \subseteq drivers
  /\ cut => crashes > 0
  /\ mounted => DriverCards \subseteq loaded \/ cut
  /\ pc \in {"installing", "building"} => card \in DriverCards
  /\ pc = "installing" => ~hptdrv
  /\ pc \notin Installs \cup {"none"} /\ hptdrv => DriverCards \subseteq loaded \/ cut
  /\ pc # "none" => DriverCards \cap Behind(pc) \subseteq loaded \/ cut

\* The installer was cut short, told from the stage of the one instance.
CutAt(pc, hptdrv, drivers) ==
  hptdrv /\ ~(DriverCards \subseteq drivers) /\ pc # "building"

LEMMA DriverStep ==
  ASSUME NoFaults, OneCard, SoloInv, OrderInv, DriverInv, TypeOK', NEW p \in Instances, Step(p)
  PROVE  DriverInv'
  <1>0. TypeOK /\ proc[p] \in Proc /\ crashes \in Nat
    BY DEF SoloInv, TypeOK
  <1>1. /\ p \in Live
        /\ \A q \in Instances \ {p} : proc'[q] = proc[q]
        /\ UNCHANGED <<machine, sessions, pending, loaded>>
    BY <1>0, StepFrame
  <1>2. Live' \subseteq {p} /\ Live = {p} /\ pending = 0 /\ pending' = 0
    BY <1>1, StaysAlone DEF SoloInv, SingleMaster
  <1>3. DriverCards' = DriverCards
    BY <1>1 DEF DriverCards, Order
  <1>4. crashes' = crashes
    BY <1>0, StepCrashes
  <1>5. power' = "stopping" => Live' = {}
    <2>1. power' = power \/ proc'[p].pc = "none"
      BY <1>0, PowerFrame
    <2>2. power # "stopping"
      BY <1>1 DEF DriverInv
    <2>3. QED
      BY <1>2, <2>1, <2>2 DEF Live
  <1>6. Cut = CutAt(proc[p].pc, disk.hptdrv, disk.drivers)
    BY <1>2 DEF Cut, CutShort, CutAt, At
  <1>7. Cut' = CutAt(proc'[p].pc, disk'.hptdrv, disk'.drivers)
    <2>1. p \in Live' \/ proc'[p].pc = "none"
      BY DEF Live
    <2>2. QED
      BY <1>2, <1>3, <2>1 DEF Cut, CutShort, CutAt, At
  <1>8. DriverAt(proc[p].pc, proc[p].card, disk.hptdrv, disk.drivers, disk.mounted, Cut)
    BY <1>1 DEF DriverInv, DriverAt, Loads, At
  <1>9. SUFFICES DriverAt(proc'[p].pc, proc'[p].card, disk'.hptdrv, disk'.drivers, disk'.mounted,
                          Cut')
    BY <1>1, <1>2, <1>3, <1>4, <1>5 DEF DriverInv, DriverAt, Loads, At, Live
  <1>10. <<proc[p].pc, proc'[p].pc>> \in Flow
    BY <1>0, StepFlow
  <1>11. ASSUME NEW card \in Cards, HpCheck(p, card)
         PROVE  DriverAt(proc'[p].pc, proc'[p].card, disk'.hptdrv, disk'.drivers, disk'.mounted,
                         Cut')
    <2>1. /\ \/ proc'[p].pc = NextCall(card) /\ (card \in DriverCards => card \in loaded \/ Cut)
             \/ /\ proc'[p].pc = "installing" /\ proc'[p].card = card /\ card \in DriverCards
                /\ ~disk.hptdrv
          /\ disk' = disk
      BY <1>11, CheckPasses
    <2>2. proc[p].pc = card /\ card \notin Installs \cup {"none"}
      BY <1>11 DEF HpCheck, At, Installs, Cards
    <2>3. Behind("installing") = {} /\ Behind(NextCall(card)) \subseteq Behind(card) \cup {card}
      BY DEF Behind, NextCall, AfterDrivers, Cards
    <2>4. NextCall(card) \notin {"installing", "building"} /\ card # "building"
      BY DEF NextCall, Cards
    <2>5. Cut' = Cut
      BY <1>6, <1>7, <2>1, <2>2, <2>4 DEF CutAt
    <2>6. QED
      BY <1>8, <2>1, <2>2, <2>3, <2>4, <2>5 DEF DriverAt
  <1>12. CASE HpInstall(p)
    <2>1. /\ proc'[p].pc = "building" /\ proc'[p].card = proc[p].card
          /\ disk'.drivers = disk.drivers /\ disk'.mounted = disk.mounted
      BY <1>0, <1>1, <1>12, Places1
    <2>2. proc[p].pc = "installing"
      BY <1>12 DEF HpInstall, At
    <2>3. ~Cut /\ ~Cut'
      BY <1>6, <1>7, <1>8, <2>1, <2>2 DEF CutAt, DriverAt
    <2>4. Behind("building") = {} /\ "building" \in Installs
      BY DEF Behind, AfterDrivers, Installs
    <2>5. QED
      BY <1>8, <2>1, <2>2, <2>3, <2>4 DEF DriverAt
  <1>13. CASE HpBuild(p)
    <2>1. /\ DriverCards \subseteq disk'.drivers /\ disk.drivers \subseteq disk'.drivers
          /\ disk'.hptdrv = disk.hptdrv /\ disk'.mounted = disk.mounted
          /\ proc'[p].pc = "iommu"
      BY <1>0, <1>1, <1>13, Builds
    <2>2. proc[p].pc = "building"
      BY <1>13 DEF HpBuild, At
    <2>3. ~Cut /\ ~Cut'
      BY <1>6, <1>7, <2>1, <2>2 DEF CutAt
    <2>4. Behind("iommu") = {} /\ "iommu" \in Installs
      BY DEF Behind, AfterDrivers, Installs
    <2>5. QED
      BY <1>8, <2>1, <2>3, <2>4 DEF DriverAt
  <1>14. CASE EndMount(p)
    <2>1. proc[p].pc = "mounting" /\ proc'[p].pc = "mobofix"
      BY <1>0, <1>14, GotoPc DEF EndMount, At
    <2>2. Behind("mounting") = Cards /\ Behind("mobofix") = Cards
      BY DEF Behind, AfterDrivers
    <2>3. DriverCards \subseteq Cards
      BY <1>0, MachinesAssumption DEF DriverCards, TypeOK, Machine
    <2>4. DriverCards \subseteq loaded \/ Cut
      BY <1>8, <2>1, <2>2, <2>3 DEF DriverAt
    <2>5. disk'.hptdrv = disk.hptdrv /\ disk'.drivers = disk.drivers
      BY <1>0, <2>1, DiskFrame
    <2>6. Cut' = Cut
      BY <1>6, <1>7, <2>1, <2>5 DEF CutAt
    <2>7. QED
      BY <1>8, <2>1, <2>4, <2>5, <2>6 DEF DriverAt
  <1>15. CASE proc[p].pc \notin Cards \cup {"installing", "building", "mounting"}
    <2>1. /\ disk'.hptdrv = disk.hptdrv /\ disk'.drivers = disk.drivers
          /\ disk'.mounted = disk.mounted
      BY <1>0, <1>15, DiskFrame
    <2>2. proc'[p].pc \notin {"installing", "building"}
      BY <1>10, <1>15 DEF Flow, Cards
    <2>3. proc'[p].pc \notin Installs \cup {"none"} => proc[p].pc \notin Installs \cup {"none"}
      BY <1>10, <1>15 DEF Flow, Cards, Installs
    <2>4. Behind(proc'[p].pc) \subseteq Behind(proc[p].pc) /\ proc[p].pc # "none"
      BY <1>10, <1>15 DEF Flow, Behind, AfterDrivers, Cards
    <2>5. Cut' = Cut
      BY <1>6, <1>7, <1>15, <2>1, <2>2 DEF CutAt
    <2>6. QED
      BY <1>8, <2>1, <2>2, <2>3, <2>4, <2>5 DEF DriverAt
  <1>16. proc[p].pc \in Cards => \E card \in Cards : HpCheck(p, card)
    BY DEF Step, At, OsCheck, OrderId, AskOrderId, ClearOrderData, FetchOrderData,
           VizOsCheck, HpInstall, HpBuild, HpIommu, HpAutorun, HpAppend, HpReboot, Reboot,
           BC9560, Nvidia, Amdigpu, Software, UpdateOs, Package, Gnome, StartMount,
           EndMount, Mobofix, Netman, WriteNetplan, Grubtime, StopAutorun, Shutdown, Cards
  <1>17. proc[p].pc = "installing" => HpInstall(p)
    BY DEF Step, At, OsCheck, OrderId, AskOrderId, ClearOrderData, FetchOrderData,
           VizOsCheck, HpCheck, HpBuild, HpIommu, HpAutorun, HpAppend, HpReboot, Reboot,
           BC9560, Nvidia, Amdigpu, Software, UpdateOs, Package, Gnome, StartMount,
           EndMount, Mobofix, Netman, WriteNetplan, Grubtime, StopAutorun, Shutdown, Cards
  <1>18. proc[p].pc = "building" => HpBuild(p)
    BY DEF Step, At, OsCheck, OrderId, AskOrderId, ClearOrderData, FetchOrderData,
           VizOsCheck, HpCheck, HpInstall, HpIommu, HpAutorun, HpAppend, HpReboot, Reboot,
           BC9560, Nvidia, Amdigpu, Software, UpdateOs, Package, Gnome, StartMount,
           EndMount, Mobofix, Netman, WriteNetplan, Grubtime, StopAutorun, Shutdown, Cards
  <1>19. proc[p].pc = "mounting" => EndMount(p)
    BY DEF Step, At, OsCheck, OrderId, AskOrderId, ClearOrderData, FetchOrderData,
           VizOsCheck, HpCheck, HpInstall, HpBuild, HpIommu, HpAutorun, HpAppend, HpReboot, Reboot,
           BC9560, Nvidia, Amdigpu, Software, UpdateOs, Package, Gnome, StartMount,
           Mobofix, Netman, WriteNetplan, Grubtime, StopAutorun, Shutdown, Cards
  <1>20. QED
    BY <1>11, <1>12, <1>13, <1>14, <1>15, <1>16, <1>17, <1>18, <1>19

LEMMA InitDriver == Init => DriverInv
  <1> SUFFICES ASSUME Init PROVE DriverInv
    OBVIOUS
  <1>1. Live = {}
    BY DEF Init, Live, AllIdle, Idle
  <1>2. loaded = {} /\ ~disk.hptdrv /\ ~disk.mounted
    BY DEF Init, ImagedDisk
  <1>3. QED
    BY <1>1, <1>2 DEF DriverInv, Cut, CutShort

\* What the environment does to a running instance counts as a crash.
LEMMA EnvironmentKeeps ==
  ASSUME SoloInv, DriverInv, Environment
  PROVE  /\ power' = "stopping" => Live' = {}
         /\ crashes' = crashes => \A q \in Live : q \in Live' /\ proc'[q] = proc[q]
         /\ crashes' = crashes \/ crashes' > 0
  <1>0. TypeOK /\ crashes \in Nat
    BY DEF SoloInv, TypeOK
  <1>1. CASE Login \/ NewSession
    BY <1>1 DEF Login, NewSession, Live, bounds, SoloInv
  <1>2. CASE PowerDown \/ PowerCycle
    BY <1>2 DEF PowerDown, PowerCycle, TurnOff, bounds, DriverInv
  <1>3. CASE PowerLoss
    BY <1>0, <1>3 DEF PowerLoss, TurnOff
  <1>4. ASSUME NEW p \in Instances, Launch(p)
        PROVE  /\ power' # "stopping" /\ crashes' = crashes
               /\ \A q \in Live : q \in Live' /\ proc'[q] = proc[q]
    BY <1>0, <1>4 DEF Launch, Goto, At, Live, bounds, TypeOK
  <1>5. ASSUME NEW p \in Instances, CloseTerminal(p)
        PROVE  crashes' = crashes + 1 /\ (power' = "stopping" => Live' = {})
    BY <1>0, <1>5 DEF CloseTerminal, host, Live, DriverInv
  <1>6. QED
    BY <1>0, <1>1, <1>2, <1>3, <1>4, <1>5 DEF Environment

\* A login boots the kernel with every driver on disk; nothing else the
\* environment does brings an instance past a check.
LEMMA NextDriver ==
  ASSUME NoFaults, OneCard, SoloInv, OrderInv, DriverInv, [Next]_vars
  PROVE  DriverInv'
  <1>0. TypeOK /\ TypeOK'
    BY NextTypeOK DEF SoloInv
  <1>1. ASSUME NEW p \in Instances, Step(p)
        PROVE  DriverInv'
    BY <1>0, <1>1, DriverStep
  <1>2. CASE Environment
    <2>1. /\ disk' = disk /\ machine' = machine
          /\ \A q \in Live' : \/ q \in Live /\ proc'[q] = proc[q]
                              \/ proc'[q].pc = "oscheck" /\ pending > 0
          /\ \/ loaded' = loaded /\ pending' <= pending
             \/ loaded' = disk.drivers /\ Live' = {}
      BY <1>2, EnvironmentFrame DEF NoFaults
    <2>2. DriverCards' = DriverCards /\ pending \in Nat /\ pending' \in Nat /\ crashes \in Nat
      BY <1>0, <2>1 DEF DriverCards, Order, TypeOK
    <2>3. DriverCards \subseteq machine.cards /\ Behind("oscheck") = {}
      BY DEF DriverCards, Behind, AfterDrivers
    <2>4. /\ power' = "stopping" => Live' = {}
          /\ crashes' = crashes => \A q \in Live : q \in Live' /\ proc'[q] = proc[q]
          /\ crashes' = crashes \/ crashes' > 0
      BY <1>0, <1>2, EnvironmentKeeps
    <2>5. Cut => Cut'
      <3>1. CutShort' = CutShort
        BY <2>1, <2>2 DEF CutShort
      <3>2. \A q \in Live' : At(q, "building")' => q \in Live /\ At(q, "building")
        BY <2>1 DEF At
      <3>3. QED
        BY <3>1, <3>2 DEF Cut
    <2>6. Cut' => Cut \/ crashes' > 0
      <3>1. CutShort' = CutShort
        BY <2>1, <2>2 DEF CutShort
      <3>2. CASE crashes' = crashes
        BY <2>4, <3>1, <3>2 DEF Cut, At
      <3>3. QED
        BY <2>4, <3>2
    <2>7. (Cut => crashes > 0) => (Cut' => crashes' > 0)
      BY <2>4, <2>6
    <2>8. CASE loaded' = loaded /\ pending' <= pending
      <3>1. \A q \in Live' :
              /\ proc'[q].pc \in {"installing", "building"} => proc'[q].card \in DriverCards
              /\ At(q, "installing")' => ~disk.hptdrv
              /\ proc'[q].pc \notin Installs /\ disk.hptdrv => Loads
              /\ DriverCards \cap Behind(proc'[q].pc) \subseteq loaded \/ Cut
        BY <2>1, <2>3 DEF DriverInv, At
      <3>2. Loads => Loads'
        BY <2>2, <2>5, <2>8 DEF Loads
      <3>3. QED
        BY <2>1, <2>2, <2>4, <2>5, <2>7, <2>8, <3>1, <3>2 DEF DriverInv
    <2>9. CASE loaded' = disk.drivers /\ Live' = {}
      <3>1. disk.hptdrv => Loads'
        BY <2>1, <2>2, <2>9 DEF Loads, Cut, CutShort
      <3>2. disk.mounted => Loads'
        BY <2>2, <2>5, <2>9 DEF Loads, DriverInv
      <3>3. QED
        BY <2>1, <2>2, <2>4, <2>7, <2>9, <3>1, <3>2 DEF DriverInv
    <2>10. QED
      BY <2>1, <2>8, <2>9
  <1>3. CASE UNCHANGED vars
    BY <1>3 DEF vars, host, bounds, DriverInv, Loads, Cut, CutShort, DriverCards, Order, At, Live
  <1>4. QED
    BY <1>1, <1>2, <1>3 DEF Next

\* Under NoFaults and OneCard, mount.sh looks at the drives, and counts as done,
\* only in a boot that has loaded the driver of the controller the order wants.
\* The one exception is a machine that lost its power, or its terminal, between the
\* init script and the driver; it keeps the script and never gets the driver.
THEOREM DriversFirst ==
  ASSUME NoFaults, OneCard
  PROVE  Spec => [](DriversBeforeMount \/ (crashes > 0 /\ CutShort))
  <1>1. OneLaunch
    BY DEF NoFaults
  <1>2. Init => SoloInv /\ OrderInv /\ DriverInv
    BY InitSolo, InitOrder, InitDriver
  <1>3. SoloInv /\ OrderInv /\ DriverInv /\ [Next]_vars => (SoloInv /\ OrderInv /\ DriverInv)'
    BY <1>1, NextSolo, NextOrder, NextDriver
  <1>4. SoloInv /\ DriverInv => DriversBeforeMount \/ (crashes > 0 /\ CutShort)
    <2> SUFFICES ASSUME SoloInv, DriverInv, ~(crashes > 0 /\ CutShort)
                 PROVE  DriversBeforeMount
      OBVIOUS
    <2>1. ~Cut
      BY DEF DriverInv, Cut
    <2>2. ASSUME NEW p \in Instances, At(p, "mounting")
          PROVE  DriverCards \subseteq loaded
      <3>1. p \in Live /\ Behind(proc[p].pc) = Cards
        BY <2>2 DEF At, Live, Behind, AfterDrivers
      <3>2. DriverCards \subseteq Cards
        BY MachinesAssumption DEF SoloInv, TypeOK, DriverCards, Machine
      <3>3. QED
        BY <2>1, <3>1, <3>2 DEF DriverInv
    <2>3. QED
      BY <2>1, <2>2 DEF DriverInv, Loads, DriversBeforeMount
  <1>5. QED
    BY <1>2, <1>3, <1>4, PTL DEF Spec

-----------------------------------------------------------------------------
(***************************************************************************)
(* The launch line outlives every interruption and ends with the           *)
(* installation: Master implements Provisioning.  It does on machines      *)
(* whose launch line starts one instance at a time, as long as no server   *)
(* is ordered with Gnome (its last run removes a desktop's launch line)    *)
(* and nothing interrupts a server between the two commands with which a   *)
(* driver function rewrites the line.  Downloads and packages may fail.    *)
(***************************************************************************)

Undisturbed ==
  /\ OneLaunch
  /\ \A m \in Machines :
       /\ m.media = "Server" => "gnome" \notin m.parent \cup m.child
       /\ m.cards # {} => MaxCrashes = 0

ArmInv ==
  /\ power = "stopping" => Live = {}
  /\ disk.orderdata \subseteq Order
  /\ finished => Lines = 0 /\ pending = 0
  /\ finished \/ Lines > 0 \/ \E p \in Live : At(p, "append")
  /\ \A p \in Live :
       /\ At(p, "shutdown") <=> finished
       /\ ~At(p, "oscheck") => proc[p].os = machine.media
       /\ proc[p].pc \in HpStages => machine.cards # {}

\* Order data are never anything but lines of the order.
LEMMA OrderLines ==
  ASSUME TypeOK, NEW p \in Instances, Step(p), disk.orderdata \subseteq Order
  PROVE  disk'.orderdata \subseteq Order
  <1>0. disk \in Disk
    BY DEF TypeOK
  <1>1. CASE ClearOrderData(p)
    BY <1>0, <1>1 DEF ClearOrderData, Disk
  <1>2. CASE FetchOrderData(p)
    BY <1>0, <1>2 DEF FetchOrderData, Disk, Order
  <1>3. CASE proc[p].pc \notin {"orderdata", "fetching"}
    BY <1>3, DiskFrame
  <1>4. proc[p].pc \in {"orderdata", "fetching"} => ClearOrderData(p) \/ FetchOrderData(p)
    BY DEF Step, At, OsCheck, OrderId, AskOrderId, VizOsCheck, HpCheck, HpInstall, HpBuild, HpIommu,
           HpAutorun, HpAppend, HpReboot, Reboot, BC9560, Nvidia, Amdigpu, Software, UpdateOs,
           Package, Gnome, StartMount, EndMount, Mobofix, Netman, WriteNetplan, Grubtime,
           StopAutorun, Shutdown, Cards
  <1>5. QED
    BY <1>1, <1>2, <1>3, <1>4

\* Only "Stop autorun" ends the installation.
LEMMA FinishFrame ==
  ASSUME NEW p \in Instances, Step(p), proc[p].pc # "stopautorun"
  PROVE  finished' = finished
  BY DEF Step, At, OsCheck, OrderId, AskOrderId, ClearOrderData, FetchOrderData, VizOsCheck,
         HpCheck, HpInstall, HpBuild, HpIommu, HpAutorun, HpAppend, HpReboot, Reboot, BC9560, Nvidia,
         Amdigpu, Software, UpdateOs, Package, Gnome, StartMount, EndMount, Mobofix, Netman,
         WriteNetplan, Grubtime, StopAutorun, Shutdown, Cards

\* $ostype is set by _os_check and changed only by _gnome.
LEMMA OsFrame ==
  ASSUME TypeOK, NEW p \in Instances, Step(p), proc[p].pc \notin {"oscheck", "gnome"}
  PROVE  proc'[p].pc # "none" => proc'[p].os = proc[p].os
  <1>1. CASE OrderId(p) \/ AskOrderId(p)
    BY <1>1, GotoPc DEF OrderId, AskOrderId, TypeOK, Proc
  <1>2. CASE ClearOrderData(p) \/ FetchOrderData(p)
    BY <1>2, GotoPc DEF ClearOrderData, FetchOrderData
  <1>3. CASE VizOsCheck(p)
    BY <1>3, GotoPc, Ends DEF VizOsCheck
  <1>4. CASE \E card \in Cards : HpCheck(p, card)
    BY <1>4, GotoPc DEF HpCheck, TypeOK, Proc
  <1>5. CASE HpInstall(p) \/ HpBuild(p) \/ HpIommu(p) \/ HpAutorun(p) \/ HpAppend(p)
    BY <1>5, GotoPc DEF HpInstall, HpBuild, HpIommu, HpAutorun, HpAppend
  <1>6. CASE BC9560(p) \/ Nvidia(p) \/ Amdigpu(p) \/ Software(p) \/ UpdateOs(p)
    BY <1>6, GotoPc DEF BC9560, Nvidia, Amdigpu, Software, UpdateOs, Package
  <1>7. CASE StartMount(p) \/ EndMount(p) \/ Mobofix(p)
    BY <1>7, GotoPc DEF StartMount, EndMount, Mobofix
  <1>8. CASE Netman(p) \/ WriteNetplan(p) \/ Grubtime(p) \/ StopAutorun(p)
    BY <1>8, GotoPc DEF Netman, WriteNetplan, Grubtime, StopAutorun
  <1>9. CASE HpReboot(p) \/ Shutdown(p)
    BY <1>9, Ends DEF HpReboot, Shutdown, Reboot
  <1>10. QED
    BY <1>1, <1>2, <1>3, <1>4, <1>5, <1>6, <1>7, <1>8, <1>9
       DEF Step, At, OsCheck, Gnome

\* Only a server has a controller, and only it gets to the installation of a driver.
LEMMA ServerInstalls ==
  ASSUME Undisturbed, TypeOK, ArmInv, NEW p \in Live, proc[p].pc \in HpStages
  PROVE  machine.media = "Server" /\ proc[p].os = "Server" /\ MaxCrashes = 0
  <1>1. machine \in Machines /\ machine.cards # {}
    BY DEF TypeOK, ArmInv
  <1>2. machine.media = "Server" /\ MaxCrashes = 0
    BY <1>1, MachinesAssumption DEF Undisturbed, OneLaunch, Machine, Media
  <1>3. QED
    BY <1>2 DEF ArmInv, At, HpStages

LEMMA OsStep ==
  ASSUME Undisturbed, TypeOK, ArmInv, NEW p \in Live, Step(p), proc'[p].pc # "none"
  PROVE  proc'[p].os = machine.media
  <1>0. machine \in Machines
    BY DEF TypeOK
  <1>1. CASE proc[p].pc = "oscheck"
    <2>1. OsCheck(p)
      BY <1>1 DEF Step, At, OrderId, AskOrderId, ClearOrderData, FetchOrderData, VizOsCheck,
             HpCheck, HpInstall, HpBuild, HpIommu, HpAutorun, HpAppend, HpReboot, Reboot, BC9560, Nvidia,
             Amdigpu, Software, UpdateOs, Package, Gnome, StartMount, EndMount, Mobofix, Netman,
             WriteNetplan, Grubtime, StopAutorun, Shutdown, Cards
    <2>2. QED
      BY <2>1 DEF OsCheck, TypeOK, Proc, Live
  <1>2. CASE proc[p].pc = "gnome"
    <2>1. Gnome(p)
      BY <1>2 DEF Step, At, OsCheck, OrderId, AskOrderId, ClearOrderData, FetchOrderData,
             VizOsCheck, HpCheck, HpInstall, HpBuild, HpIommu, HpAutorun, HpAppend, HpReboot, Reboot,
             BC9560, Nvidia, Amdigpu, Software, UpdateOs, Package, StartMount, EndMount, Mobofix,
             Netman, WriteNetplan, Grubtime, StopAutorun, Shutdown, Cards
    <2>2. proc'[p].os = IF "gnome" \in disk.orderdata THEN "Desktop" ELSE proc[p].os
      BY <2>1 DEF Gnome, TypeOK, Proc, Live
    <2>3. proc[p].os = machine.media
      BY <1>2 DEF ArmInv, At
    <2>4. "gnome" \in disk.orderdata => machine.media = "Desktop"
      BY <1>0, MachinesAssumption DEF ArmInv, Order, Undisturbed, Machine, Media
    <2>5. QED
      BY <2>2, <2>3, <2>4
  <1>3. CASE proc[p].pc \notin {"oscheck", "gnome"}
    BY <1>3, OsFrame DEF ArmInv, At, Live
  <1>4. QED
    BY <1>1, <1>2, <1>3

\* The launch line of the machine after a step of its one instance.
LEMMA LinesStep ==
  ASSUME Undisturbed, SoloInv, ArmInv, NEW p \in Live, Step(p)
  PROVE  /\ finished' => Lines' = 0
         /\ finished' \/ Lines' > 0 \/ proc'[p].pc = "append"
         /\ proc[p].pc \notin {"autorun", "append", "stopautorun"} => Lines' = Lines
  <1>0. /\ TypeOK /\ disk \in Disk /\ machine' = machine /\ p \in Instances
        /\ disk.launch \in [Files -> Nat] /\ machine.media \in Media
    BY StepFrame, MachinesAssumption DEF SoloInv, Live, TypeOK, Disk, Machine
  <1>1. finished \/ Lines > 0 \/ proc[p].pc = "append"
    BY DEF ArmInv, SoloInv, SingleMaster, At
  <1>2. CASE StopAutorun(p)
    <2>1. proc[p].os = machine.media
      BY <1>2 DEF ArmInv, At, StopAutorun
    <2>2. disk'.launch = [disk.launch EXCEPT ![LaunchFile(machine.media)] = 0] /\ finished'
      BY <1>0, <1>2, <2>1 DEF StopAutorun, Disk
    <2>3. QED
      BY <1>0, <1>2, <2>2 DEF Lines, LaunchFile, Files, StopAutorun, At
  <1>3. CASE HpAutorun(p)
    <2>1. proc[p].pc = "autorun" /\ proc[p].os = "Server"
      BY <1>0, <1>3, ServerInstalls DEF HpAutorun, At, HpStages
    <2>2. proc'[p].pc = "append"
      BY <1>0, <1>3, <2>1, GotoPc DEF HpAutorun
    <2>3. ~finished /\ finished' = finished
      BY <1>3, <2>1 DEF HpAutorun, ArmInv, At
    <2>4. QED
      BY <2>1, <2>2, <2>3
  <1>4. CASE HpAppend(p)
    <2>1. proc[p].pc = "append" /\ machine.media = "Server"
      BY <1>0, <1>4, ServerInstalls DEF HpAppend, At, HpStages
    <2>2. disk'.launch = [disk.launch EXCEPT ![".bashrc"] = disk.launch[".bashrc"] + 1]
      BY <1>0, <1>4 DEF HpAppend, Disk
    <2>3. Lines' > 0
      BY <1>0, <2>1, <2>2 DEF Lines, LaunchFile, Files
    <2>4. ~finished /\ finished' = finished
      BY <1>4, <2>1 DEF HpAppend, ArmInv, At
    <2>5. QED
      BY <2>1, <2>3, <2>4
  <1>5. CASE proc[p].pc \notin {"autorun", "append", "stopautorun"}
    <2>1. disk'.launch = disk.launch /\ finished' = finished
      BY <1>0, <1>5, LaunchFrame, FinishFrame
    <2>2. Lines' = Lines
      BY <1>0, <2>1 DEF Lines
    <2>3. QED
      BY <1>1, <1>5, <2>1, <2>2 DEF ArmInv
  <1>6. /\ proc[p].pc = "stopautorun" => StopAutorun(p)
        /\ proc[p].pc = "autorun" => HpAutorun(p)
        /\ proc[p].pc = "append" => HpAppend(p)
    BY DEF Step, At, OsCheck, OrderId, AskOrderId, ClearOrderData, FetchOrderData, VizOsCheck,
           HpCheck, HpInstall, HpBuild, HpIommu, HpAutorun, HpAppend, HpReboot, Reboot, BC9560, Nvidia,
           Amdigpu, Software, UpdateOs, Package, Gnome, StartMount, EndMount, Mobofix, Netman,
           WriteNetplan, Grubtime, StopAutorun, Shutdown, Cards
  <1>7. QED
    BY <1>2, <1>3, <1>4, <1>5, <1>6

LEMMA ArmStep ==
  ASSUME Undisturbed, SoloInv, ArmInv, TypeOK', NEW p \in Instances, Step(p)
  PROVE  ArmInv'
  <1>0. TypeOK
    BY DEF SoloInv
  <1>1. /\ p \in Live
        /\ \A q \in Instances \ {p} : proc'[q] = proc[q]
        /\ UNCHANGED <<machine, sessions, pending, loaded>>
    BY <1>0, StepFrame
  <1>2. Live' \subseteq {p} /\ pending' = 0 /\ Order' = Order
    BY <1>1, StaysAlone DEF SoloInv, Order
  <1>3. p \in Live' <=> proc'[p].pc # "none"
    BY DEF Live
  <1>4. power' = "stopping" => Live' = {}
    BY <1>0, <1>1, <1>2, <1>3, PowerFrame DEF ArmInv
  <1>5. disk'.orderdata \subseteq Order'
    BY <1>0, <1>2, OrderLines DEF ArmInv
  <1>6. /\ finished' => Lines' = 0
        /\ finished' \/ Lines' > 0 \/ proc'[p].pc = "append"
    BY <1>1, LinesStep
  <1>7. proc'[p].pc # "none" => proc'[p].os = machine'.media
    BY <1>0, <1>1, OsStep
  <1>8. proc'[p].pc \in HpStages => machine'.cards # {}
    BY <1>0, <1>1, EntersHpStages DEF ArmInv
  <1>9. proc'[p].pc # "none" => (proc'[p].pc = "shutdown" <=> finished')
    <2>1. <<proc[p].pc, proc'[p].pc>> \in Flow
      BY <1>0, StepFlow
    <2>2. CASE proc[p].pc = "stopautorun"
      <3>1. StopAutorun(p)
        BY <2>2 DEF Step, At, OsCheck, OrderId, AskOrderId, ClearOrderData, FetchOrderData,
               VizOsCheck, HpCheck, HpInstall, HpBuild, HpIommu, HpAutorun, HpAppend, HpReboot, Reboot,
               BC9560, Nvidia, Amdigpu, Software, UpdateOs, Package, Gnome, StartMount, EndMount,
               Mobofix, Netman, WriteNetplan, Grubtime, Shutdown, Cards
      <3>2. QED
        BY <1>0, <3>1, GotoPc DEF StopAutorun
    <2>3. CASE proc[p].pc # "stopautorun"
      <3>1. finished' = finished
        BY <2>3, FinishFrame
      <3>2. proc'[p].pc # "shutdown"
        BY <2>1, <2>3 DEF Flow
      <3>3. finished => proc'[p].pc = "none"
        BY <1>1, <2>1 DEF ArmInv, At, Flow
      <3>4. QED
        BY <3>1, <3>2, <3>3
    <2>4. QED
      BY <2>2, <2>3
  <1>10. proc'[p].pc = "append" => p \in Live'
    BY <1>3
  <1>11. QED
    BY <1>2, <1>3, <1>4, <1>5, <1>6, <1>7, <1>8, <1>9, <1>10 DEF ArmInv, At

\* A crash needs MaxCrashes > 0, so it finds no server with a controller.
LEMMA NotAppending ==
  ASSUME Undisturbed, TypeOK, ArmInv, crashes < MaxCrashes
  PROVE  finished \/ Lines > 0
  <1>1. MaxCrashes # 0
    BY BoundsAssumption DEF TypeOK
  <1>2. \A p \in Live : ~At(p, "append")
    BY <1>1, ServerInstalls DEF At, HpStages
  <1>3. QED
    BY <1>2 DEF ArmInv

LEMMA ArmEnvironment ==
  ASSUME Undisturbed, SoloInv, ArmInv, Environment
  PROVE  ArmInv' /\ finished' = finished /\ Lines' = Lines
  <1>0. TypeOK /\ pending \in Nat /\ machine.media \in Media
    BY MachinesAssumption DEF SoloInv, TypeOK, Machine
  <1>1. /\ disk' = disk /\ machine' = machine
        /\ \A q \in Live' : \/ q \in Live /\ proc'[q] = proc[q]
                            \/ proc'[q].pc = "oscheck" /\ pending > 0
    BY EnvironmentFrame DEF Undisturbed
  <1>2. finished' = finished /\ Order' = Order /\ Lines' = Lines
    BY <1>1 DEF Environment, Login, NewSession, PowerDown, PowerLoss, PowerCycle, TurnOff, Launch,
                CloseTerminal, Order, Lines
  <1>3. finished => pending' = 0
    <2>1. finished => Launched = 0 /\ pending = 0
      BY <1>0 DEF ArmInv, Launched
    <2>2. CASE Login
      BY <2>1, <2>2 DEF Login
    <2>3. CASE NewSession
      BY <1>0, <2>1, <2>3 DEF NewSession
    <2>4. CASE PowerDown \/ PowerLoss \/ PowerCycle
      BY <2>4 DEF PowerDown, PowerLoss, PowerCycle, TurnOff
    <2>5. CASE \E p \in Instances : Launch(p) \/ CloseTerminal(p)
      BY <2>1, <2>5 DEF Launch, CloseTerminal, host
    <2>6. QED
      BY <2>2, <2>3, <2>4, <2>5 DEF Environment
  <1>4. \A q \in Live' : /\ At(q, "shutdown")' <=> finished'
                         /\ ~At(q, "oscheck")' => proc'[q].os = machine'.media
                         /\ proc'[q].pc \in HpStages => machine'.cards # {}
    <2> TAKE q \in Live'
    <2>1. CASE q \in Live /\ proc'[q] = proc[q]
      BY <1>1, <1>2, <2>1 DEF ArmInv, At
    <2>2. CASE proc'[q].pc = "oscheck" /\ pending > 0
      BY <1>2, <2>2 DEF ArmInv, At, HpStages
    <2>3. QED
      BY <1>1, <2>1, <2>2
  <1>5. power' = "stopping" => Live' = {}
    <2>1. CASE Login \/ NewSession \/ PowerDown \/ PowerLoss \/ PowerCycle \/ \E p \in Instances : Launch(p)
      BY <2>1 DEF Login, NewSession, PowerDown, PowerLoss, PowerCycle, TurnOff, Launch
    <2>2. ASSUME NEW p \in Instances, CloseTerminal(p), power' = "stopping"
          PROVE  Live' = {}
      BY <2>2 DEF CloseTerminal, host, ArmInv, Live
    <2>3. QED
      BY <2>1, <2>2 DEF Environment
  <1>6. finished \/ Lines > 0 \/ \E p \in Live' : At(p, "append")'
    <2>1. CASE Login \/ PowerDown \/ PowerCycle
      BY <2>1 DEF Login, PowerDown, PowerCycle, ArmInv, SoloInv
    <2>2. CASE NewSession
      BY <2>2 DEF NewSession, ArmInv, Live, At
    <2>3. CASE PowerLoss \/ \E p \in Instances : CloseTerminal(p)
      BY <1>0, <2>3, NotAppending DEF PowerLoss, CloseTerminal
    <2>4. CASE \E p \in Instances : Launch(p)
      BY <2>4 DEF Launch, ArmInv, SoloInv
    <2>5. QED
      BY <2>1, <2>2, <2>3, <2>4 DEF Environment
  <1>7. disk'.orderdata \subseteq Order' /\ (finished' => Lines' = 0)
    BY <1>1, <1>2 DEF ArmInv
  <1>8. QED
    BY <1>2, <1>3, <1>4, <1>5, <1>6, <1>7 DEF ArmInv

LEMMA InitArm == Init => ArmInv
  <1> SUFFICES ASSUME Init PROVE ArmInv
    OBVIOUS
  <1>1. Live = {}
    BY DEF Init, Live, AllIdle, Idle
  <1>2. Lines = 1 /\ disk.orderdata = {} /\ ~finished /\ power = "down"
    BY MachinesAssumption DEF Init, Lines, ImagedDisk, LaunchFile, Files
  <1>3. QED
    BY <1>1, <1>2 DEF ArmInv

LEMMA NextArm ==
  ASSUME Undisturbed, SoloInv, ArmInv, [Next]_vars
  PROVE  ArmInv'
  <1>0. TypeOK'
    BY NextTypeOK DEF SoloInv
  <1>1. CASE \E p \in Instances : Step(p)
    BY <1>0, <1>1, ArmStep
  <1>2. CASE Environment
    BY <1>2, ArmEnvironment
  <1>3. CASE UNCHANGED vars
    BY <1>3 DEF vars, host, ArmInv, Live, Lines, Order, At
  <1>4. QED
    BY <1>1, <1>2, <1>3 DEF Next

-----------------------------------------------------------------------------
(***************************************************************************)
(* The refinement: under ArmInv every step of Master is a step of          *)
(* Provisioning or leaves its two variables alone.                         *)
(***************************************************************************)
Phase == IF finished THEN "complete" ELSE IF Live # {} THEN "running" ELSE "waiting"

LEMMA StepRefines ==
  ASSUME Undisturbed, SoloInv, ArmInv, ArmInv', TypeOK', NEW p \in Instances, Step(p)
  PROVE  \/ Phase = "running" /\ Phase' = "running"
         \/ Phase = "running" /\ Phase' = "waiting" /\ Armed /\ Armed' = Armed
         \/ Phase = "running" /\ Phase' = "complete" /\ Armed' = FALSE
         \/ Phase' = Phase /\ Armed' = Armed
  <1>0. TypeOK
    BY DEF SoloInv
  <1>1. p \in Live /\ <<proc[p].pc, proc'[p].pc>> \in Flow
    BY <1>0, StepFrame, StepFlow
  <1>2. Live' \subseteq {p} /\ (p \in Live' <=> proc'[p].pc # "none")
    BY <1>0, <1>1, StepFrame, StaysAlone DEF Live
  <1>3. CASE finished
    <2>1. proc[p].pc = "shutdown"
      BY <1>1, <1>3 DEF ArmInv, At
    <2>2. finished' = finished /\ Lines' = Lines
      BY <1>1, <2>1, FinishFrame, LinesStep
    <2>3. QED
      BY <1>3, <2>2 DEF Phase, Armed
  <1>4. CASE ~finished /\ finished'
    <2>1. Lines' = 0
      BY <1>4 DEF ArmInv
    <2>2. QED
      BY <1>1, <1>4, <2>1 DEF Phase, Armed
  <1>5. CASE ~finished /\ ~finished' /\ proc'[p].pc # "none"
    BY <1>1, <1>2, <1>5 DEF Phase
  <1>6. CASE ~finished /\ ~finished' /\ proc'[p].pc = "none"
    <2>1. Live' = {}
      BY <1>2, <1>6
    <2>2. proc[p].pc \notin {"autorun", "append", "stopautorun"}
      BY <1>1, <1>6 DEF Flow
    <2>3. Lines' = Lines
      BY <1>1, <2>2, LinesStep
    <2>4. Lines' > 0
      BY <1>6, <2>1 DEF ArmInv
    <2>5. QED
      BY <1>1, <1>6, <2>1, <2>3, <2>4 DEF Phase, Armed
  <1>7. QED
    BY <1>3, <1>4, <1>5, <1>6

LEMMA EnvironmentRefines ==
  ASSUME Undisturbed, SoloInv, ArmInv, Environment
  PROVE  \/ Phase = "waiting" /\ Armed /\ Phase' = "running" /\ Armed' = Armed
         \/ Phase = "running" /\ Phase' = "waiting" /\ Armed /\ Armed' = Armed
         \/ Phase' = Phase /\ Armed' = Armed
  <1>1. ArmInv' /\ finished' = finished /\ Lines' = Lines
    BY ArmEnvironment
  <1>2. Armed' = Armed
    BY <1>1 DEF Armed
  <1>3. ~finished /\ Live = {} => Armed
    BY DEF ArmInv, Armed
  <1>4. ~finished /\ Live' = {} => Armed
    BY <1>1 DEF ArmInv, Armed
  <1>5. QED
    BY <1>1, <1>2, <1>3, <1>4 DEF Phase

\* Master implements Provisioning: a launch line is there whenever the installer
\* is not running and not done, and none is left once it is done.
THEOREM Refinement ==
  ASSUME Undisturbed
  PROVE  Spec => ImplementsProvisioning
  <1>1. OneLaunch
    BY DEF Undisturbed
  <1>2. Init => SoloInv /\ ArmInv /\ Abstract!Init
    <2>1. Init => SoloInv /\ ArmInv
      BY InitSolo, InitArm
    <2>2. Init => Live = {} /\ ~finished
      BY DEF Init, Live, AllIdle, Idle
    <2>3. QED
      BY <2>1, <2>2 DEF Abstract!Init, ArmInv, Armed
  <1>3. SoloInv /\ ArmInv /\ [Next]_vars => (SoloInv /\ ArmInv)'
    BY <1>1, NextSolo, NextArm
  <1>4. SoloInv /\ ArmInv /\ (SoloInv /\ ArmInv)' /\ [Next]_vars => [Abstract!Next]_Abstract!pvars
    <2> SUFFICES ASSUME SoloInv, ArmInv, SoloInv', ArmInv', [Next]_vars
                 PROVE  [Abstract!Next]_Abstract!pvars
      OBVIOUS
    <2> USE DEF Abstract!Next, Abstract!Start, Abstract!Rewrite, Abstract!Interrupt,
                Abstract!Complete, Abstract!pvars
    <2>1. Armed \in BOOLEAN /\ Armed' \in BOOLEAN
      BY DEF Armed
    <2>2. CASE \E p \in Instances : Step(p)
      <3>1. \/ Phase = "running" /\ Phase' = "running"
            \/ Phase = "running" /\ Phase' = "waiting" /\ Armed /\ Armed' = Armed
            \/ Phase = "running" /\ Phase' = "complete" /\ Armed' = FALSE
            \/ Phase' = Phase /\ Armed' = Armed
        BY <2>2, StepRefines DEF SoloInv
      <3>2. QED
        BY <2>1, <3>1 DEF Phase
    <2>3. CASE Environment
      <3>1. \/ Phase = "waiting" /\ Armed /\ Phase' = "running" /\ Armed' = Armed
            \/ Phase = "running" /\ Phase' = "waiting" /\ Armed /\ Armed' = Armed
            \/ Phase' = Phase /\ Armed' = Armed
        BY <2>3, EnvironmentRefines
      <3>2. QED
        BY <2>1, <3>1 DEF Phase
    <2>4. CASE UNCHANGED vars
      BY <2>4 DEF vars, host, Live, Armed, Lines
    <2>5. QED
      BY <2>2, <2>3, <2>4 DEF Next
  <1>5. QED
    BY <1>2, <1>3, <1>4, PTL DEF Spec, ImplementsProvisioning, Abstract!Spec

\* While the machine is off and no run has ended, the next login starts one.
THEOREM NextRunStarts ==
  ASSUME Undisturbed
  PROVE  Spec => []Resumes
  <1>1. OneLaunch
    BY DEF Undisturbed
  <1>2. Init => SoloInv /\ ArmInv
    BY InitSolo, InitArm
  <1>3. SoloInv /\ ArmInv /\ [Next]_vars => (SoloInv /\ ArmInv)'
    BY <1>1, NextSolo, NextArm
  <1>4. SoloInv /\ ArmInv => Resumes
    BY DEF SoloInv, ArmInv, Resumes, Armed
  <1>5. QED
    BY <1>2, <1>3, <1>4, PTL DEF Spec

\* Once "Stop autorun" was reached, no launch line is left, ever.
THEOREM StaysStopped ==
  ASSUME Undisturbed
  PROVE  Spec => []StopsForGood
  <1>1. OneLaunch
    BY DEF Undisturbed
  <1>2. Init => SoloInv /\ ArmInv
    BY InitSolo, InitArm
  <1>3. SoloInv /\ ArmInv /\ [Next]_vars => (SoloInv /\ ArmInv)'
    BY <1>1, NextSolo, NextArm
  <1>4. ArmInv => StopsForGood
    BY DEF ArmInv, StopsForGood, Armed
  <1>5. QED
    BY <1>2, <1>3, <1>4, PTL DEF Spec
-----------------------------------------------------------------------------
(***************************************************************************)
(* What a finished machine has got.  Where no download fails, no server is *)
(* ordered with Gnome and nothing rewrites a launch line by halves, a run  *)
(* reaches its end only past every stage, in the same run: interruptions   *)
(* send the machine back to the first stage, and no stage undoes what an   *)
(* earlier run did except the netplan file, which each run writes anew.    *)
(* The boot configuration is edited in place by every run: each edit makes *)
(* its part of it ready or finds it ready, and none undoes another's.      *)
(***************************************************************************)

Clean == Undisturbed /\ MaxFaults = 0

AfterPackages == {"gnome", "mount", "mounting", "mobofix", "netman", "netplan", "grubtime",
                  "stopautorun", "shutdown"}
AfterMount == {"mobofix", "netman", "netplan", "grubtime", "stopautorun", "shutdown"}
AfterNetwork == {"grubtime", "stopautorun", "shutdown"}

\* The effects whose stage lies behind an instance.
Done(pc) == {e \in Effects :
               \/ pc \in AfterPackages
               \/ pc = "update" /\ e # "updates"
               \/ pc = "software" /\ e \in {"9560", "nvidia", "amdigpu"}
               \/ pc = "amdigpu" /\ e \in {"9560", "nvidia"}
               \/ pc = "nvidia" /\ e = "9560"}

ProvInv ==
  /\ \A p \in Live :
       /\ Owed \cap Done(proc[p].pc) \subseteq disk.applied
       /\ proc[p].pc \in AfterMount => disk.mounted
       /\ machine.media = "Server" /\ At(p, "netplan") => disk.netplan = 0
       /\ machine.media = "Server" /\ proc[p].pc \in AfterNetwork => disk.netplan = 1
  /\ Provisioned

\* What the steps of an instance leave on disk, by the stage it is in.
LEMMA EffectFrame ==
  ASSUME TypeOK, NEW p \in Instances, Step(p)
  PROVE  /\ proc[p].pc \notin {"9560", "nvidia", "amdigpu", "software", "update"} =>
              disk'.applied = disk.applied
         /\ proc[p].pc \notin {"netman", "netplan"} => disk'.netplan = disk.netplan
  <1>0. disk \in Disk
    BY DEF TypeOK
  <1> USE DEF At
  <1>1. CASE OsCheck(p) \/ OrderId(p) \/ VizOsCheck(p) \/ (\E card \in Cards : HpCheck(p, card))
             \/ Gnome(p) \/ StartMount(p) \/ HpReboot(p) \/ Shutdown(p)
    BY <1>1 DEF OsCheck, OrderId, VizOsCheck, HpCheck, Gnome, StartMount, HpReboot, Shutdown,
                Reboot
  <1>2. CASE AskOrderId(p) \/ ClearOrderData(p) \/ FetchOrderData(p)
    BY <1>0, <1>2 DEF AskOrderId, ClearOrderData, FetchOrderData, Disk
  <1>3. CASE HpInstall(p) \/ HpBuild(p) \/ EndMount(p)
    BY <1>0, <1>3 DEF HpInstall, HpBuild, EndMount, Disk
  <1>4. CASE HpIommu(p) \/ Mobofix(p) \/ Grubtime(p) \/ Netman(p) \/ WriteNetplan(p)
    BY <1>0, <1>4 DEF HpIommu, Mobofix, Grubtime, Netman, WriteNetplan, Disk
  <1>5. CASE BC9560(p) \/ Nvidia(p) \/ Amdigpu(p) \/ Software(p) \/ UpdateOs(p)
    BY <1>0, <1>5 DEF BC9560, Nvidia, Amdigpu, Software, UpdateOs, Package, Disk
  <1>6. CASE HpAutorun(p) \/ HpAppend(p) \/ StopAutorun(p)
    BY <1>0, <1>6 DEF HpAutorun, HpAppend, StopAutorun, Disk
  <1>7. QED
    BY <1>1, <1>2, <1>3, <1>4, <1>5, <1>6 DEF Step

\* A package stage of the only instance, on a working network, does its work.
LEMMA PackageWorks ==
  ASSUME MaxFaults = 0, TypeOK, SingleMaster, NEW p \in Live,
         NEW pc \in {"9560", "nvidia", "amdigpu", "software", "update"}, NEW next,
         NEW wanted \in BOOLEAN, NEW effect \in Effects,
         Package(p, pc, next, wanted, effect)
  PROVE  /\ disk.applied \subseteq disk'.applied
         /\ wanted => effect \in disk'.applied
         /\ disk'.mounted = disk.mounted
         /\ proc[p].pc = pc /\ proc'[p].pc = next
  <1>0. disk \in Disk /\ faults \in Nat /\ p \in Instances
    BY DEF TypeOK, Live
  <1>1. ~NetworkFault
    BY <1>0 DEF NetworkFault
  <1>2. ~LockHeld(p)
    BY <1>0 DEF LockHeld, SingleMaster, Live, AptStages
  <1>3. disk' = [disk EXCEPT !.applied = IF wanted THEN @ \cup {effect} ELSE @]
    BY <1>1, <1>2 DEF Package, AptFails
  <1>4. proc[p].pc = pc /\ proc'[p].pc = next
    BY <1>0, GotoPc DEF Package, At
  <1>5. QED
    BY <1>0, <1>3, <1>4 DEF Disk

LEMMA PackageStep ==
  ASSUME Clean, SoloInv, OrderInv, ArmInv, NEW p \in Live, Step(p),
         Owed \cap Done(proc[p].pc) \subseteq disk.applied,
         proc[p].pc \in {"9560", "nvidia", "amdigpu", "software", "update"}
  PROVE  /\ Owed \cap Done(proc'[p].pc) \subseteq disk'.applied
         /\ proc'[p].pc \in {"nvidia", "amdigpu", "software", "update", "gnome"}
         /\ disk'.mounted = disk.mounted
  <1>0. TypeOK /\ MaxFaults = 0 /\ SingleMaster /\ p \in Instances /\ machine.gear \subseteq Gear
    BY MachinesAssumption DEF SoloInv, Clean, Live, TypeOK, Machine
  <1>1. CASE proc[p].pc = "9560"
    <2>1. BC9560(p)
      BY <1>1 DEF Step, At, OsCheck, OrderId, AskOrderId, ClearOrderData, FetchOrderData,
           VizOsCheck, HpCheck, HpInstall, HpBuild, HpIommu, HpAutorun, HpAppend, HpReboot, Reboot,
           Nvidia, Amdigpu, Software, UpdateOs, Gnome, StartMount, EndMount, Mobofix, Netman,
           WriteNetplan, Grubtime, StopAutorun, Shutdown, Cards, Package
    <2>2. /\ disk.applied \subseteq disk'.applied
          /\ "9560" \in machine.gear => "9560" \in disk'.applied
          /\ disk'.mounted = disk.mounted /\ proc'[p].pc = "nvidia"
      <3>1. "9560" \in Effects /\ "9560" \in {"9560", "nvidia", "amdigpu", "software", "update"}
        BY DEF Effects
      <3>2. CASE "9560" \in machine.gear
        <4>1. Package(p, "9560", "nvidia", TRUE, "9560")
          BY <2>1, <3>2 DEF BC9560, Package
        <4>2. QED
          BY <1>0, <3>1, <3>2, <4>1, PackageWorks
      <3>3. CASE ~("9560" \in machine.gear)
        <4>1. Package(p, "9560", "nvidia", FALSE, "9560")
          BY <2>1, <3>3 DEF BC9560, Package
        <4>2. QED
          BY <1>0, <3>1, <3>3, <4>1, PackageWorks
      <3>4. QED
        BY <3>2, <3>3
    <2>3. Done("nvidia") = Done("9560") \cup {"9560"}
      BY DEF Done, Effects, AfterPackages
    <2>4. "9560" \in Owed => "9560" \in machine.gear
      BY DEF Owed
    <2>5. QED
      BY <1>1, <2>2, <2>3, <2>4
  <1>2. CASE proc[p].pc = "nvidia"
    <2>1. Nvidia(p)
      BY <1>2 DEF Step, At, OsCheck, OrderId, AskOrderId, ClearOrderData, FetchOrderData,
           VizOsCheck, HpCheck, HpInstall, HpBuild, HpIommu, HpAutorun, HpAppend, HpReboot, Reboot,
           BC9560, Amdigpu, Software, UpdateOs, Gnome, StartMount, EndMount, Mobofix, Netman,
           WriteNetplan, Grubtime, StopAutorun, Shutdown, Cards, Package
    <2>2. /\ disk.applied \subseteq disk'.applied
          /\ "nvidia" \in machine.gear => "nvidia" \in disk'.applied
          /\ disk'.mounted = disk.mounted /\ proc'[p].pc = "amdigpu"
      <3>1. "nvidia" \in Effects /\ "nvidia" \in {"9560", "nvidia", "amdigpu", "software", "update"}
        BY DEF Effects
      <3>2. CASE "nvidia" \in machine.gear
        <4>1. Package(p, "nvidia", "amdigpu", TRUE, "nvidia")
          BY <2>1, <3>2 DEF Nvidia, Package
        <4>2. QED
          BY <1>0, <3>1, <3>2, <4>1, PackageWorks
      <3>3. CASE ~("nvidia" \in machine.gear)
        <4>1. Package(p, "nvidia", "amdigpu", FALSE, "nvidia")
          BY <2>1, <3>3 DEF Nvidia, Package
        <4>2. QED
          BY <1>0, <3>1, <3>3, <4>1, PackageWorks
      <3>4. QED
        BY <3>2, <3>3
    <2>3. Done("amdigpu") = Done("nvidia") \cup {"nvidia"}
      BY DEF Done, Effects, AfterPackages
    <2>4. "nvidia" \in Owed => "nvidia" \in machine.gear
      BY DEF Owed
    <2>5. QED
      BY <1>2, <2>2, <2>3, <2>4
  <1>3. CASE proc[p].pc = "amdigpu"
    <2>1. Amdigpu(p)
      BY <1>3 DEF Step, At, OsCheck, OrderId, AskOrderId, ClearOrderData, FetchOrderData,
           VizOsCheck, HpCheck, HpInstall, HpBuild, HpIommu, HpAutorun, HpAppend, HpReboot, Reboot,
           BC9560, Nvidia, Software, UpdateOs, Gnome, StartMount, EndMount, Mobofix, Netman,
           WriteNetplan, Grubtime, StopAutorun, Shutdown, Cards, Package
    <2>2. /\ disk.applied \subseteq disk'.applied
          /\ WantsAmdigpu(machine) => "amdigpu" \in disk'.applied
          /\ disk'.mounted = disk.mounted /\ proc'[p].pc = "software"
      <3>1. "amdigpu" \in Effects /\ "amdigpu" \in {"9560", "nvidia", "amdigpu", "software", "update"}
        BY DEF Effects
      <3>2. CASE WantsAmdigpu(machine)
        <4>1. Package(p, "amdigpu", "software", TRUE, "amdigpu")
          BY <2>1, <3>2 DEF Amdigpu, Package
        <4>2. QED
          BY <1>0, <3>1, <3>2, <4>1, PackageWorks
      <3>3. CASE ~(WantsAmdigpu(machine))
        <4>1. Package(p, "amdigpu", "software", FALSE, "amdigpu")
          BY <2>1, <3>3 DEF Amdigpu, Package
        <4>2. QED
          BY <1>0, <3>1, <3>3, <4>1, PackageWorks
      <3>4. QED
        BY <3>2, <3>3
    <2>3. Done("software") = Done("amdigpu") \cup {"amdigpu"}
      BY DEF Done, Effects, AfterPackages
    <2>4. "amdigpu" \in Owed => WantsAmdigpu(machine)
      BY <1>0 DEF Owed, Gear
    <2>5. QED
      BY <1>3, <2>2, <2>3, <2>4
  <1>4. CASE proc[p].pc = "software"
    <2>1. Software(p)
      BY <1>4 DEF Step, At, OsCheck, OrderId, AskOrderId, ClearOrderData, FetchOrderData,
           VizOsCheck, HpCheck, HpInstall, HpBuild, HpIommu, HpAutorun, HpAppend, HpReboot, Reboot,
           BC9560, Nvidia, Amdigpu, UpdateOs, Gnome, StartMount, EndMount, Mobofix, Netman,
           WriteNetplan, Grubtime, StopAutorun, Shutdown, Cards, Package
    <2>2. /\ disk.applied \subseteq disk'.applied
          /\ (proc[p].os = "Desktop" /\ "courtesy" \in disk.orderdata) => "courtesy" \in disk'.applied
          /\ disk'.mounted = disk.mounted /\ proc'[p].pc = "update"
      BY <1>0, <2>1, PackageWorks DEF Software, Effects
    <2>3. proc[p].os = machine.media /\ disk.orderdata = Order
      BY <1>4 DEF ArmInv, OrderInv, OrderKnown, At
    <2>4. Done("update") = Done("software") \cup {"courtesy"}
      BY DEF Done, Effects, AfterPackages
    <2>5. QED
      BY <1>0, <1>4, <2>2, <2>3, <2>4 DEF Owed, Gear
  <1>5. CASE proc[p].pc = "update"
    <2>1. UpdateOs(p)
      BY <1>5 DEF Step, At, OsCheck, OrderId, AskOrderId, ClearOrderData, FetchOrderData,
           VizOsCheck, HpCheck, HpInstall, HpBuild, HpIommu, HpAutorun, HpAppend, HpReboot, Reboot,
           BC9560, Nvidia, Amdigpu, Software, Gnome, StartMount, EndMount, Mobofix, Netman,
           WriteNetplan, Grubtime, StopAutorun, Shutdown, Cards, Package
    <2>2. /\ disk.applied \subseteq disk'.applied
          /\ TRUE => "updates" \in disk'.applied
          /\ disk'.mounted = disk.mounted /\ proc'[p].pc = "gnome"
      BY <1>0, <2>1, PackageWorks DEF UpdateOs, Effects
    <2>3. Done("gnome") = Done("update") \cup {"updates"}
      BY DEF Done, Effects, AfterPackages
    <2>4. "updates" \in Owed => TRUE
      BY DEF Owed
    <2>5. QED
      BY <1>5, <2>2, <2>3, <2>4
  <1>6. QED
    BY <1>1, <1>2, <1>3, <1>4, <1>5

LEMMA ProvStep ==
  ASSUME Clean, SoloInv, OrderInv, ArmInv, ProvInv, TypeOK', NEW p \in Instances, Step(p)
  PROVE  ProvInv'
  <1>0. TypeOK /\ disk \in Disk
    BY DEF SoloInv, TypeOK
  <1>1. /\ p \in Live
        /\ \A q \in Instances \ {p} : proc'[q] = proc[q]
        /\ machine' = machine
    BY <1>0, StepFrame
  <1>2. Live' \subseteq {p}
    BY <1>1, StaysAlone
  <1>3. Owed' = Owed /\ Owed \subseteq Effects
    BY <1>1 DEF Owed, Order
  <1>4. <<proc[p].pc, proc'[p].pc>> \in Flow
    BY <1>0, StepFlow
  <1>5. /\ Owed \cap Done(proc[p].pc) \subseteq disk.applied
        /\ proc[p].pc \in AfterMount => disk.mounted
        /\ machine.media = "Server" /\ proc[p].pc = "netplan" => disk.netplan = 0
        /\ machine.media = "Server" /\ proc[p].pc \in AfterNetwork => disk.netplan = 1
    BY <1>1 DEF ProvInv, At
  <1>6. Provisioned'
    <2>1. CASE finished
      <3>1. proc[p].pc = "shutdown"
        BY <1>1, <2>1 DEF ArmInv, At
      <3>2. disk'.applied = disk.applied /\ disk'.netplan = disk.netplan
              /\ disk'.mounted = disk.mounted
        BY <1>0, <3>1, EffectFrame, DiskFrame
      <3>3. QED
        BY <1>1, <1>3, <2>1, <3>2 DEF ProvInv, Provisioned
    <2>2. CASE ~finished /\ finished'
      <3>1. proc[p].pc = "stopautorun"
        BY <2>2, FinishFrame
      <3>2. disk'.applied = disk.applied /\ disk'.netplan = disk.netplan
              /\ disk'.mounted = disk.mounted
        BY <1>0, <3>1, EffectFrame, DiskFrame
      <3>3. Done("stopautorun") = Effects
        BY DEF Done, AfterPackages
      <3>4. QED
        BY <1>1, <1>3, <1>5, <3>1, <3>2, <3>3 DEF Provisioned, AfterMount, AfterNetwork
    <2>3. QED
      BY <2>1, <2>2 DEF Provisioned
  <1>7. SUFFICES ASSUME proc'[p].pc # "none"
                 PROVE  /\ Owed \cap Done(proc'[p].pc) \subseteq disk'.applied
                        /\ proc'[p].pc \in AfterMount => disk'.mounted
                        /\ machine.media = "Server" /\ proc'[p].pc = "netplan" =>
                             disk'.netplan = 0
                        /\ machine.media = "Server" /\ proc'[p].pc \in AfterNetwork =>
                             disk'.netplan = 1
    BY <1>1, <1>2, <1>3, <1>6 DEF ProvInv, At, Live
  <1>8. CASE proc[p].pc \in {"9560", "nvidia", "amdigpu", "software", "update"}
    BY <1>1, <1>5, <1>8, PackageStep DEF AfterMount, AfterNetwork
  <1>9. CASE proc[p].pc = "netman"
    <2>1. Netman(p) /\ proc[p].os = machine.media
      BY <1>1, <1>9 DEF ArmInv, Step, At, OsCheck, OrderId, AskOrderId, ClearOrderData, FetchOrderData,
             VizOsCheck, HpCheck, HpInstall, HpBuild, HpIommu, HpAutorun, HpAppend, HpReboot, Reboot,
             BC9560, Nvidia, Amdigpu, Software, UpdateOs, Package, Gnome, StartMount, EndMount,
             Mobofix, WriteNetplan, Grubtime, StopAutorun, Shutdown, Cards
    <2>2. /\ proc'[p].pc = IF machine.media = "Server" THEN "netplan" ELSE "grubtime"
          /\ machine.media = "Server" => disk'.netplan = 0
      BY <1>0, <2>1, GotoPc DEF Netman, Disk
    <2>3. disk'.applied = disk.applied /\ disk'.mounted = disk.mounted
      BY <1>0, <1>9, EffectFrame, DiskFrame
    <2>4. Done("netman") = Effects
      BY DEF Done, AfterPackages
    <2>5. QED
      BY <1>3, <1>5, <1>9, <2>2, <2>3, <2>4 DEF AfterMount, AfterNetwork
  <1>10. CASE proc[p].pc = "netplan"
    <2>1. WriteNetplan(p)
      BY <1>10 DEF Step, At, OsCheck, OrderId, AskOrderId, ClearOrderData, FetchOrderData,
             VizOsCheck, HpCheck, HpInstall, HpBuild, HpIommu, HpAutorun, HpAppend, HpReboot, Reboot,
             BC9560, Nvidia, Amdigpu, Software, UpdateOs, Package, Gnome, StartMount, EndMount,
             Mobofix, Netman, Grubtime, StopAutorun, Shutdown, Cards
    <2>2. proc'[p].pc = "grubtime" /\ disk'.netplan = disk.netplan + 1
      BY <1>0, <2>1, GotoPc DEF WriteNetplan, Disk
    <2>3. disk'.applied = disk.applied /\ disk'.mounted = disk.mounted
      BY <1>0, <1>10, EffectFrame, DiskFrame
    <2>4. Done("netplan") = Effects
      BY DEF Done, AfterPackages
    <2>5. QED
      BY <1>3, <1>5, <1>10, <2>2, <2>3, <2>4 DEF AfterMount, AfterNetwork
  <1>11. CASE proc[p].pc \in {"mount", "mounting"}
    <2>1. StartMount(p) \/ EndMount(p)
      BY <1>11 DEF Step, At, OsCheck, OrderId, AskOrderId, ClearOrderData, FetchOrderData,
             VizOsCheck, HpCheck, HpInstall, HpBuild, HpIommu, HpAutorun, HpAppend, HpReboot, Reboot,
             BC9560, Nvidia, Amdigpu, Software, UpdateOs, Package, Gnome, Mobofix, Netman,
             WriteNetplan, Grubtime, StopAutorun, Shutdown, Cards
    <2>2. proc'[p].pc \in {"mounting", "mobofix"} /\ (proc'[p].pc = "mobofix" => disk'.mounted)
      BY <1>0, <2>1, GotoPc DEF StartMount, EndMount, Disk
    <2>3. disk'.applied = disk.applied
      BY <1>0, <1>11, EffectFrame
    <2>4. Done(proc[p].pc) = Effects
      BY <1>11 DEF Done, AfterPackages
    <2>5. QED
      BY <1>3, <1>5, <2>2, <2>3, <2>4 DEF AfterMount, AfterNetwork
  <1>12. CASE proc[p].pc \notin {"9560", "nvidia", "amdigpu", "software", "update", "netman",
                                 "netplan", "mount", "mounting"}
    <2>1. disk'.applied = disk.applied /\ disk'.netplan = disk.netplan
            /\ disk'.mounted = disk.mounted
      BY <1>0, <1>12, EffectFrame, DiskFrame
    <2>2. /\ proc'[p].pc \in AfterMount => proc[p].pc \in AfterMount
          /\ proc'[p].pc \in AfterNetwork => proc[p].pc \in AfterNetwork
          /\ proc'[p].pc # "netplan"
      BY <1>4, <1>7, <1>12 DEF Flow, AfterMount, AfterNetwork
    <2>3. Done(proc'[p].pc) \subseteq Done(proc[p].pc)
      BY <1>4, <1>7, <1>12 DEF Flow, Done, AfterPackages
    <2>4. QED
      BY <1>5, <2>1, <2>2, <2>3
  <1>13. QED
    BY <1>8, <1>9, <1>10, <1>11, <1>12

LEMMA NextProv ==
  ASSUME Clean, SoloInv, OrderInv, ArmInv, ProvInv, [Next]_vars
  PROVE  ProvInv'
  <1>0. TypeOK'
    BY NextTypeOK DEF SoloInv
  <1>1. CASE \E p \in Instances : Step(p)
    BY <1>0, <1>1, ProvStep
  <1>2. CASE Environment
    <2>1. /\ disk' = disk /\ machine' = machine
          /\ \A q \in Live' : \/ q \in Live /\ proc'[q] = proc[q]
                              \/ proc'[q].pc = "oscheck"
      BY <1>2, EnvironmentFrame DEF Clean, Undisturbed
    <2>2. finished' = finished /\ Owed' = Owed
      BY <1>2, <2>1, ArmEnvironment DEF Clean, Owed, Order
    <2>3. Provisioned'
      BY <2>1, <2>2 DEF ProvInv, Provisioned
    <2>4. Done("oscheck") = {}
      BY DEF Done, AfterPackages
    <2>5. QED
      BY <2>1, <2>2, <2>3, <2>4 DEF ProvInv, At, AfterMount, AfterNetwork
  <1>3. CASE UNCHANGED vars
    BY <1>3 DEF vars, ProvInv, Provisioned, Owed, Order, At, Live
  <1>4. QED
    BY <1>1, <1>2, <1>3 DEF Next

\* Under Clean a machine that counts as finished has every driver, package and
\* drive it is owed, and a server exactly one network definition.
THEOREM FullyProvisioned ==
  ASSUME Clean
  PROVE  Spec => []Provisioned
  <1>1. Undisturbed /\ OneLaunch /\ NoFaults
    BY DEF Clean, Undisturbed, NoFaults
  <1>2. Init => SoloInv /\ OrderInv /\ ArmInv /\ ProvInv
    <2>1. Init => Live = {} /\ ~finished
      BY DEF Init, Live, AllIdle, Idle
    <2>2. QED
      BY <2>1, InitSolo, InitOrder, InitArm DEF ProvInv, Provisioned
  <1>3. SoloInv /\ OrderInv /\ ArmInv /\ ProvInv /\ [Next]_vars
          => (SoloInv /\ OrderInv /\ ArmInv /\ ProvInv)'
    BY <1>1, NextSolo, NextOrder, NextArm, NextProv
  <1>4. ProvInv => Provisioned
    BY DEF ProvInv
  <1>5. QED
    BY <1>2, <1>3, <1>4, PTL DEF Spec

-----------------------------------------------------------------------------
(***************************************************************************)
(* What the next boot of a finished machine finds.  The machines are those *)
(* on which the edits do not get in each other's way: no board fix moves   *)
(* splash away from the quote before the simpledrm fix.                    *)
(***************************************************************************)
Bootable ==
  /\ Clean
  /\ \A m \in Machines :
       m.media = "Desktop" /\ m.osversion = "24.04" => ~WantsNomodeset(m) /\ ~WantsIommu(m)

PlainLine(os) == IF os = "Desktop" THEN <<"quiet", "splash">> ELSE << >>
HasWord(args, word) == \E i \in DOMAIN args : args[i] = word

ArgsReady(grub) ==
  /\ WantsNomodeset(machine) => HasWord(grub.args, "nomodeset")
  /\ WantsIommu(machine) => HasWord(grub.args, "iommu")
  /\ WantsSimpledrm(machine, machine.media) => HasWord(grub.args, "simpledrm")
MenuReady(grub) == grub.timeout \notin {0, 10} /\ grub.style = "menu"

AfterEdits == {"netman", "netplan", "grubtime", "stopautorun", "shutdown"}
AfterMenu == {"stopautorun", "shutdown"}

\* The controllers whose check lies behind an instance.
Checked(pc) == {card \in Cards :
                  \/ pc \in {"9560", "nvidia", "amdigpu", "software", "update"}
                  \/ pc \in AfterPackages
                  \/ pc = "hp3720c" /\ card # "hp3720c"
                  \/ pc = "hp640L" /\ card = "hp7505"}

\* No iommu=off is left that every ordered controller's function would have found.
Searched(off) == \E card \in DriverCards : ~Finds(card, off)
Building == {"building", "iommu"}

BootInv ==
  /\ disk.grub.args = PlainLine(machine.media) \/ ArgsReady(disk.grub)
  /\ machine.board = "x299" /\ disk.hptdrv =>
       Searched(disk.grub.off) \/ \E p \in Live : proc[p].pc \in Building
  /\ \A p \in Live :
       /\ proc[p].pc \in AfterEdits => ArgsReady(disk.grub)
       /\ proc[p].pc \in AfterMenu => MenuReady(disk.grub)
       /\ proc[p].pc \in {"installing"} \cup Building => proc[p].card \in DriverCards
       /\ Checked(proc[p].pc) \cap DriverCards # {} => disk.hptdrv
  /\ BootConfigReady

\* An insertion takes no word away.
LEMMA InsertKeeps ==
  ASSUME NEW args \in Seq(Words), NEW word \in Words, NEW w, NEW os, HasWord(args, w)
  PROVE  HasWord(InsertWord(args, word, os), w) /\ HasWord(AfterSplash(args, word), w)
  <1>1. PICK i \in 1 .. Len(args) : args[i] = w
    BY DEF HasWord
  <1>2. /\ DOMAIN Append(args, word) = 1 .. Len(args) + 1
        /\ Append(args, word)[i] = w
    BY <1>1, AppendProperties
  <1>3. HasWord(Append(args, word), w)
    BY <1>1, <1>2 DEF HasWord
  <1>4. args # << >>
    BY <1>1
  <1>5. QED
    BY <1>3, <1>4 DEF InsertWord, AfterSplash, IntoEmpty

\* On an unedited line it puts the word there.
LEMMA InsertWorks ==
  ASSUME NEW word \in Words, NEW os \in Media
  PROVE  HasWord(InsertWord(PlainLine(os), word, os), word)
  <1>1. CASE os = "Desktop"
    <2>1. PlainLine(os) = <<"quiet", "splash">> /\ <<"quiet", "splash">> \in Seq(Words)
      BY <1>1 DEF PlainLine, Words
    <2>2. InsertWord(PlainLine(os), word, os) = Append(<<"quiet", "splash">>, word)
      <3>1. AfterSplash(<<"quiet", "splash">>, word) = Append(<<"quiet", "splash">>, word)
        BY DEF AfterSplash
      <3>2. QED
        BY <1>1, <2>1, <3>1 DEF InsertWord
    <2>3. DOMAIN Append(<<"quiet", "splash">>, word) = 1 .. 3
            /\ Append(<<"quiet", "splash">>, word)[3] = word
      BY <2>1, AppendProperties
    <2>4. 3 \in 1 .. 3
      OBVIOUS
    <2>5. QED
      BY <2>2, <2>3, <2>4 DEF HasWord
  <1>2. CASE os # "Desktop"
    <2>1. InsertWord(PlainLine(os), word, os) = <<word>>
      BY <1>2 DEF InsertWord, IntoEmpty, PlainLine
    <2>2. 1 \in DOMAIN <<word>> /\ <<word>>[1] = word
      OBVIOUS
    <2>3. QED
      BY <2>1, <2>2 DEF HasWord
  <1>3. QED
    BY <1>1, <1>2

\* So one pass of _mobofix makes the line ready, and a further one keeps it so.
LEMMA MobofixWorks ==
  ASSUME Bootable, TypeOK,
         disk.grub.args = PlainLine(machine.media) \/ ArgsReady(disk.grub)
  PROVE  /\ ArgsReady(BoardEdits(disk.grub, machine, machine.media))
         /\ BoardEdits(disk.grub, machine, machine.media).off = disk.grub.off
  <1> DEFINE os == machine.media
             args == disk.grub.args
             a == IF WantsNomodeset(machine) THEN InsertWord(args, "nomodeset", os) ELSE args
             b == IF WantsIommu(machine) THEN InsertWord(a, "iommu", os) ELSE a
             c == IF WantsSimpledrm(machine, os) THEN AfterSplash(b, "simpledrm") ELSE b
  <1>1. disk.grub \in Grub /\ args \in Seq(Words) /\ machine \in Machine /\ os \in Media
    BY MachinesAssumption DEF TypeOK, Disk, Grub, Machine
  <1>2. a \in Seq(Words) /\ b \in Seq(Words)
    <2>1. a \in Seq(Words)
      BY <1>1, InsertWordType DEF Words
    <2>2. QED
      BY <2>1, InsertWordType DEF Words
  <1>3. BoardEdits(disk.grub, machine, machine.media) = [disk.grub EXCEPT !.args = c]
    BY DEF BoardEdits
  <1>4. /\ BoardEdits(disk.grub, machine, machine.media).args = c
        /\ BoardEdits(disk.grub, machine, machine.media).off = disk.grub.off
    BY <1>1, <1>3 DEF Grub
  <1>5. \A w : HasWord(args, w) => HasWord(a, w)
    BY <1>1, InsertKeeps DEF Words
  <1>6. \A w : HasWord(a, w) => HasWord(b, w)
    BY <1>2, InsertKeeps DEF Words
  <1>7. \A w : HasWord(b, w) => HasWord(c, w)
    BY <1>2, InsertKeeps DEF Words
  <1>8. /\ WantsNomodeset(machine) => HasWord(c, "nomodeset")
        /\ WantsIommu(machine) => HasWord(c, "iommu")
        /\ WantsSimpledrm(machine, os) => HasWord(c, "simpledrm")
    <2>1. CASE ArgsReady(disk.grub)
      BY <2>1, <1>5, <1>6, <1>7 DEF ArgsReady
    <2>2. CASE args = PlainLine(os)
      <3>1. WantsNomodeset(machine) => HasWord(a, "nomodeset")
        BY <1>1, <2>2, InsertWorks DEF Words
      <3>2. WantsIommu(machine) => ~WantsNomodeset(machine)
        BY DEF WantsIommu, WantsNomodeset
      <3>3. WantsIommu(machine) => HasWord(b, "iommu")
        BY <1>1, <2>2, <3>2, InsertWorks DEF Words
      <3>4. WantsSimpledrm(machine, os) => ~WantsNomodeset(machine) /\ ~WantsIommu(machine)
                                            /\ os = "Desktop"
        BY DEF Bootable, WantsSimpledrm, TypeOK
      <3>5. WantsSimpledrm(machine, os) => c = InsertWord(PlainLine(os), "simpledrm", os)
        BY <2>2, <3>4 DEF InsertWord
      <3>6. WantsSimpledrm(machine, os) => HasWord(c, "simpledrm")
        BY <1>1, <3>5, InsertWorks DEF Words
      <3>7. QED
        BY <3>1, <3>3, <3>6, <1>6, <1>7
    <2>3. QED
      BY <2>1, <2>2
  <1> HIDE DEF c
  <1>9. QED
    BY <1>4, <1>8 DEF ArgsReady

\* What the steps of an instance leave of the boot configuration.
LEMMA GrubFrame ==
  ASSUME TypeOK, NEW p \in Instances, Step(p), proc[p].pc \notin {"iommu", "mobofix", "grubtime"}
  PROVE  disk'.grub = disk.grub
  <1>0. disk \in Disk
    BY DEF TypeOK
  <1> USE DEF At
  <1>1. CASE OsCheck(p) \/ OrderId(p) \/ VizOsCheck(p) \/ (\E card \in Cards : HpCheck(p, card))
             \/ Gnome(p) \/ StartMount(p) \/ HpReboot(p) \/ Shutdown(p)
    BY <1>1 DEF OsCheck, OrderId, VizOsCheck, HpCheck, Gnome, StartMount, HpReboot, Shutdown,
                Reboot
  <1>2. CASE AskOrderId(p) \/ ClearOrderData(p) \/ FetchOrderData(p)
    BY <1>0, <1>2 DEF AskOrderId, ClearOrderData, FetchOrderData, Disk
  <1>3. CASE HpInstall(p) \/ HpBuild(p) \/ EndMount(p) \/ Netman(p) \/ WriteNetplan(p)
    BY <1>0, <1>3 DEF HpInstall, HpBuild, EndMount, Netman, WriteNetplan, Disk
  <1>4. CASE BC9560(p) \/ Nvidia(p) \/ Amdigpu(p) \/ Software(p) \/ UpdateOs(p)
    BY <1>0, <1>4 DEF BC9560, Nvidia, Amdigpu, Software, UpdateOs, Package, Disk
  <1>5. CASE HpAutorun(p) \/ HpAppend(p) \/ StopAutorun(p)
    BY <1>0, <1>5 DEF HpAutorun, HpAppend, StopAutorun, Disk
  <1>6. CASE HpIommu(p) \/ Mobofix(p) \/ Grubtime(p)
    BY <1>6 DEF HpIommu, Mobofix, Grubtime
  <1>7. QED
    BY <1>1, <1>2, <1>3, <1>4, <1>5, <1>6 DEF Step

\* A check that lets an instance pass has found the init script, or no driver to build.
LEMMA CheckFinds ==
  ASSUME TypeOK, OrderInv, NEW p \in Live, NEW card \in Cards, HpCheck(p, card)
  PROVE  /\ disk' = disk
         /\ \/ proc'[p].pc = NextCall(card) /\ (card \in DriverCards => disk.hptdrv)
            \/ proc'[p].pc = "installing" /\ proc'[p].card \in DriverCards
  <1>0. proc[p].pc = card /\ p \in Instances
    BY DEF HpCheck, At, Live
  <1>1. disk.orderdata = Order
    BY <1>0 DEF OrderInv, OrderKnown, Cards
  <1>2. CASE card \in machine.cards /\ Ordered(card, disk.orderdata) /\ ~disk.hptdrv
    <2>1. proc' = [proc EXCEPT ![p].pc = "installing", ![p].card = card] /\ disk' = disk
      BY <1>2 DEF HpCheck
    <2>2. proc'[p].pc = "installing" /\ proc'[p].card = card
      BY <1>0, <2>1 DEF TypeOK, Proc
    <2>3. card \in DriverCards
      BY <1>1, <1>2 DEF DriverCards
    <2>4. QED
      BY <2>1, <2>2, <2>3
  <1>3. CASE ~(card \in machine.cards /\ Ordered(card, disk.orderdata) /\ ~disk.hptdrv)
    <2>1. Goto(p, NextCall(card)) /\ disk' = disk
      BY <1>3 DEF HpCheck
    <2>2. card \in DriverCards => disk.hptdrv
      BY <1>1, <1>3 DEF DriverCards
    <2>3. QED
      BY <1>0, <2>1, <2>2, GotoPc
  <1>4. QED
    BY <1>2, <1>3

\* What BootInv asks of a machine with one instance, at stage pc with variable card.
BootAt(pc, card, grub, hptdrv) ==
  /\ grub.args = PlainLine(machine.media) \/ ArgsReady(grub)
  /\ machine.board = "x299" /\ hptdrv => Searched(grub.off) \/ pc \in Building
  /\ pc \in AfterEdits => ArgsReady(grub)
  /\ pc \in AfterMenu => MenuReady(grub)
  /\ pc \in {"installing"} \cup Building => card \in DriverCards
  /\ Checked(pc) \cap DriverCards # {} => hptdrv

LEMMA BootStep ==
  ASSUME Bootable, SoloInv, OrderInv, ArmInv, BootInv, TypeOK', NEW p \in Instances, Step(p)
  PROVE  BootInv'
  <1>0. TypeOK /\ disk \in Disk /\ disk.grub \in Grub /\ machine \in Machines /\ faults \in Nat
    BY DEF SoloInv, TypeOK, Disk
  <1>1. /\ p \in Live
        /\ \A q \in Instances \ {p} : proc'[q] = proc[q]
        /\ machine' = machine
    BY <1>0, StepFrame
  <1>2. Live' \subseteq {p} /\ Live = {p} /\ Order' = Order /\ DriverCards' = DriverCards
    BY <1>1, StaysAlone DEF SoloInv, SingleMaster, Order, DriverCards
  <1>3. <<proc[p].pc, proc'[p].pc>> \in Flow
    BY <1>0, StepFlow
  <1>4. BootAt(proc[p].pc, proc[p].card, disk.grub, disk.hptdrv)
    BY <1>1, <1>2 DEF BootInv, BootAt, At
  <1>5. BootConfigReady'
    <2>1. CASE finished
      <3>1. proc[p].pc = "shutdown"
        BY <1>1, <2>1 DEF ArmInv, At
      <3>2. disk'.grub = disk.grub
        BY <1>0, <3>1, GrubFrame
      <3>3. QED
        BY <1>1, <1>2, <2>1, <3>2 DEF BootInv, BootConfigReady, KernelArgs
    <2>2. CASE ~finished /\ finished'
      <3>1. proc[p].pc = "stopautorun"
        BY <2>2, FinishFrame
      <3>2. disk'.grub = disk.grub
        BY <1>0, <3>1, GrubFrame
      <3>3. ArgsReady(disk.grub) /\ MenuReady(disk.grub)
        BY <1>4, <3>1 DEF BootAt, AfterEdits, AfterMenu
      <3>4. machine.board = "x299" /\ DriverCards # {} => Searched(disk.grub.off)
        <4>1. Checked("stopautorun") = Cards
          BY DEF Checked, AfterPackages
        <4>2. DriverCards \subseteq Cards
          BY <1>0, MachinesAssumption DEF DriverCards, Machine
        <4>3. QED
          BY <1>4, <3>1, <4>1, <4>2 DEF BootAt, Building
      <3>5. QED
        BY <1>1, <1>2, <3>2, <3>3, <3>4
           DEF BootConfigReady, KernelArgs, ArgsReady, MenuReady, HasWord, Searched
    <2>3. QED
      BY <2>1, <2>2 DEF BootConfigReady
  <1>6. SUFFICES BootAt(proc'[p].pc, proc'[p].card, disk'.grub, disk'.hptdrv)
    <2>1. proc'[p].pc \in Building => p \in Live'
      BY DEF Live, Building
    <2>2. QED
      BY <1>1, <1>2, <1>5, <2>1 DEF BootInv, BootAt, At, ArgsReady, Searched
  <1>7. CASE proc[p].pc \in Cards
    <2>1. PICK card \in Cards : HpCheck(p, card)
      BY <1>7 DEF Step, At, OsCheck, OrderId, AskOrderId, ClearOrderData, FetchOrderData,
             VizOsCheck, HpInstall, HpBuild, HpIommu, HpAutorun, HpAppend, HpReboot, Reboot,
             BC9560, Nvidia, Amdigpu, Software, UpdateOs, Package, Gnome, StartMount, EndMount,
             Mobofix, Netman, WriteNetplan, Grubtime, StopAutorun, Shutdown, Cards
    <2>2. /\ disk' = disk /\ proc[p].pc = card
          /\ \/ proc'[p].pc = NextCall(card) /\ (card \in DriverCards => disk.hptdrv)
             \/ proc'[p].pc = "installing" /\ proc'[p].card \in DriverCards
      BY <1>0, <1>1, <2>1, CheckFinds DEF HpCheck, At
    <2>3. /\ Checked("installing") = {}
          /\ Checked(NextCall(card)) \subseteq Checked(card) \cup {card}
      BY DEF Checked, NextCall, AfterPackages, Cards
    <2>4. NextCall(card) \notin AfterEdits \cup AfterMenu \cup {"installing"} \cup Building
      BY DEF NextCall, Cards, AfterEdits, AfterMenu, Building
    <2>5. card \notin Building /\ "installing" \notin AfterEdits \cup AfterMenu
      BY DEF Cards, AfterEdits, AfterMenu, Building
    <2>6. QED
      BY <1>4, <2>2, <2>3, <2>4, <2>5 DEF BootAt
  <1>8. CASE proc[p].pc = "installing"
    <2>1. HpInstall(p) /\ ~NetworkFault
      BY <1>0, <1>8 DEF Bootable, Clean, NetworkFault, Step, At, OsCheck, OrderId, AskOrderId,
             ClearOrderData, FetchOrderData, VizOsCheck, HpCheck, HpBuild, HpIommu, HpAutorun, HpAppend,
             HpReboot, Reboot, BC9560, Nvidia, Amdigpu, Software, UpdateOs, Package, Gnome,
             StartMount, EndMount, Mobofix, Netman, WriteNetplan, Grubtime, StopAutorun,
             Shutdown, Cards
    <2>2. disk'.hptdrv = TRUE /\ disk'.grub = disk.grub
      BY <1>0, <2>1 DEF HpInstall, Disk
    <2>3. proc'[p].pc = "building" /\ proc'[p].card = proc[p].card
      BY <1>0, <2>1, GotoPc DEF HpInstall
    <2>4. QED
      BY <1>4, <1>8, <2>2, <2>3 DEF BootAt, AfterEdits, AfterMenu, Building
  <1>14. CASE proc[p].pc = "building"
    <2>1. HpBuild(p)
      BY <1>14 DEF Step, At, OsCheck, OrderId, AskOrderId, ClearOrderData, FetchOrderData,
             VizOsCheck, HpCheck, HpInstall, HpIommu, HpAutorun, HpAppend, HpReboot, Reboot,
             BC9560, Nvidia, Amdigpu, Software, UpdateOs, Package, Gnome, StartMount, EndMount,
             Mobofix, Netman, WriteNetplan, Grubtime, StopAutorun, Shutdown, Cards
    <2>2. disk'.hptdrv = disk.hptdrv /\ disk'.grub = disk.grub
      BY <1>0, <2>1 DEF HpBuild, Disk
    <2>3. proc'[p].pc = "iommu" /\ proc'[p].card = proc[p].card
      BY <1>0, <2>1, GotoPc DEF HpBuild
    <2>4. Checked("iommu") = Checked("building")
      BY DEF Checked, AfterPackages
    <2>5. QED
      BY <1>4, <1>14, <2>2, <2>3, <2>4 DEF BootAt, AfterEdits, AfterMenu, Building
  <1>9. CASE proc[p].pc = "iommu"
    <2>1. HpIommu(p)
      BY <1>9 DEF Step, At, OsCheck, OrderId, AskOrderId, ClearOrderData, FetchOrderData,
             VizOsCheck, HpCheck, HpInstall, HpBuild, HpAutorun, HpAppend, HpReboot, Reboot,
             BC9560, Nvidia, Amdigpu, Software, UpdateOs, Package, Gnome, StartMount, EndMount,
             Mobofix, Netman, WriteNetplan, Grubtime, StopAutorun, Shutdown, Cards
    <2>2. /\ disk'.grub = DropIommuOff(disk.grub, machine, proc[p].card)
          /\ disk'.hptdrv = disk.hptdrv
      BY <1>0, <2>1 DEF HpIommu, Disk
    <2>3. proc'[p].pc = "autorun" /\ Checked("autorun") = {}
      BY <1>0, <2>1, GotoPc DEF HpIommu, Checked, AfterPackages
    <2>4. disk'.grub.args = disk.grub.args
      BY <1>0, <2>2 DEF DropIommuOff, Grub
    <2>5. machine.board = "x299" => Searched(disk'.grub.off)
      <3>1. proc[p].card \in DriverCards
        BY <1>4, <1>9 DEF BootAt, Building
      <3>2. machine.board = "x299" => ~Finds(proc[p].card, disk'.grub.off)
        BY <1>0, <2>2 DEF DropIommuOff, Grub, Finds
      <3>3. QED
        BY <3>1, <3>2 DEF Searched
    <2>6. QED
      BY <1>4, <2>3, <2>4, <2>5 DEF BootAt, ArgsReady, AfterEdits, AfterMenu, Building
  <1>10. CASE proc[p].pc = "mobofix"
    <2>1. Mobofix(p) /\ proc[p].os = machine.media
      BY <1>1, <1>10 DEF ArmInv, Step, At, OsCheck, OrderId, AskOrderId, ClearOrderData,
             FetchOrderData, VizOsCheck, HpCheck, HpInstall, HpBuild, HpIommu, HpAutorun, HpAppend,
             HpReboot, Reboot, BC9560, Nvidia, Amdigpu, Software, UpdateOs, Package, Gnome,
             StartMount, EndMount, Netman, WriteNetplan, Grubtime, StopAutorun, Shutdown, Cards
    <2>2. /\ disk'.grub = BoardEdits(disk.grub, machine, machine.media)
          /\ disk'.hptdrv = disk.hptdrv
      BY <1>0, <2>1 DEF Mobofix, Disk
    <2>3. ArgsReady(disk'.grub) /\ disk'.grub.off = disk.grub.off
      BY <1>0, <1>4, <2>2, MobofixWorks DEF BootAt
    <2>4. proc'[p].pc = "netman"
      BY <1>0, <2>1, GotoPc DEF Mobofix
    <2>5. Checked("netman") = Checked("mobofix")
      BY DEF Checked, AfterPackages
    <2>6. QED
      BY <1>4, <1>10, <2>2, <2>3, <2>4, <2>5 DEF BootAt, AfterMenu, Building
  <1>11. CASE proc[p].pc = "grubtime"
    <2>1. Grubtime(p)
      BY <1>11 DEF Step, At, OsCheck, OrderId, AskOrderId, ClearOrderData, FetchOrderData,
             VizOsCheck, HpCheck, HpInstall, HpBuild, HpIommu, HpAutorun, HpAppend, HpReboot, Reboot,
             BC9560, Nvidia, Amdigpu, Software, UpdateOs, Package, Gnome, StartMount, EndMount,
             Mobofix, Netman, WriteNetplan, StopAutorun, Shutdown, Cards
    <2>2. disk'.grub = MenuEdits(disk.grub) /\ disk'.hptdrv = disk.hptdrv
      BY <1>0, <2>1 DEF Grubtime, Disk
    <2>3. /\ disk'.grub.args = disk.grub.args /\ disk'.grub.off = disk.grub.off
          /\ MenuReady(disk'.grub)
      BY <1>0, <2>2 DEF MenuEdits, MenuReady, Grub
    <2>4. proc'[p].pc = "stopautorun"
      BY <1>0, <2>1, GotoPc DEF Grubtime
    <2>5. Checked("stopautorun") = Checked("grubtime")
      BY DEF Checked, AfterPackages
    <2>6. QED
      BY <1>4, <1>11, <2>2, <2>3, <2>4, <2>5 DEF BootAt, ArgsReady, AfterEdits, Building
  <1>12. CASE proc[p].pc \notin Cards \cup {"installing", "building", "iommu", "mobofix", "grubtime"}
    <2>1. disk'.grub = disk.grub /\ disk'.hptdrv = disk.hptdrv
      BY <1>0, <1>12, GrubFrame, DiskFrame
    <2>2. /\ proc'[p].pc \notin {"installing"} \cup Building
          /\ proc[p].pc \notin Building
          /\ proc'[p].pc \in AfterEdits => proc[p].pc \in AfterEdits
          /\ proc'[p].pc \in AfterMenu => proc[p].pc \in AfterMenu
      BY <1>3, <1>12 DEF Flow, Cards, AfterEdits, AfterMenu, Building
    <2>3. Checked(proc'[p].pc) \subseteq Checked(proc[p].pc)
      BY <1>3, <1>12 DEF Flow, Checked, AfterPackages, Cards
    <2>4. QED
      BY <1>4, <1>12, <2>1, <2>2, <2>3 DEF BootAt
  <1>13. QED
    BY <1>7, <1>8, <1>9, <1>10, <1>11, <1>12, <1>14

\* Nothing but its own steps takes an instance out of the installation of a driver.
LEMMA InstallStays ==
  ASSUME Clean, SoloInv, ArmInv, Environment, NEW p \in Live, proc[p].pc \in Building
  PROVE  p \in Live' /\ proc'[p].pc \in Building
  <1>0. TypeOK /\ p \in Instances
    BY DEF SoloInv, Live
  <1>1. MaxCrashes = 0 /\ crashes \in Nat
    BY <1>0, ServerInstalls DEF Clean, Building, HpStages, TypeOK
  <1>2. SUFFICES proc'[p] = proc[p]
    BY DEF Live, At
  <1>3. CASE Login \/ NewSession
    BY <1>3 DEF Login, NewSession
  <1>4. CASE PowerDown \/ PowerLoss \/ PowerCycle
    BY <1>1, <1>4 DEF PowerDown, PowerLoss, PowerCycle, ArmInv
  <1>5. ASSUME NEW q \in Instances, Launch(q)
        PROVE  proc'[p] = proc[p]
    BY <1>0, <1>5 DEF Launch, Goto, At, TypeOK, Building
  <1>6. ASSUME NEW q \in Instances, CloseTerminal(q)
        PROVE  proc'[p] = proc[p]
    BY <1>1, <1>6 DEF CloseTerminal
  <1>7. QED
    BY <1>3, <1>4, <1>5, <1>6 DEF Environment

LEMMA InitBoot == Init => BootInv
  <1> SUFFICES ASSUME Init PROVE BootInv
    OBVIOUS
  <1>1. Live = {} /\ ~finished /\ machine \in Machine
    BY MachinesAssumption DEF Init, Live, AllIdle, Idle
  <1>2. /\ ~disk.hptdrv
        /\ disk.grub.args = PlainLine(machine.media)
    BY DEF Init, ImagedDisk, PlainLine
  <1>3. QED
    BY <1>1, <1>2 DEF BootInv, BootConfigReady

LEMMA NextBoot ==
  ASSUME Bootable, SoloInv, OrderInv, ArmInv, BootInv, [Next]_vars
  PROVE  BootInv'
  <1>0. TypeOK'
    BY NextTypeOK DEF SoloInv
  <1>1. CASE \E p \in Instances : Step(p)
    BY <1>0, <1>1, BootStep
  <1>2. CASE Environment
    <2>1. /\ disk' = disk /\ machine' = machine
          /\ \A q \in Live' : \/ q \in Live /\ proc'[q] = proc[q]
                              \/ proc'[q].pc = "oscheck"
      BY <1>2, EnvironmentFrame DEF Bootable, Clean, Undisturbed
    <2>2. finished' = finished /\ DriverCards' = DriverCards
      BY <1>2, <2>1, ArmEnvironment DEF Bootable, Clean, DriverCards, Order
    <2>3. BootConfigReady'
      BY <2>1, <2>2 DEF BootInv, BootConfigReady, KernelArgs
    <2>4. (\E p \in Live : proc[p].pc \in Building) => \E p \in Live' : proc'[p].pc \in Building
      BY <1>2, InstallStays DEF Bootable
    <2>5. \A q \in Live' :
            /\ proc'[q].pc \in AfterEdits => ArgsReady(disk.grub)
            /\ proc'[q].pc \in AfterMenu => MenuReady(disk.grub)
            /\ proc'[q].pc \in {"installing"} \cup Building => proc'[q].card \in DriverCards
            /\ Checked(proc'[q].pc) \cap DriverCards # {} => disk.hptdrv
      <3>1. Checked("oscheck") = {} /\ "oscheck" \notin AfterEdits \cup AfterMenu
        BY DEF Checked, AfterPackages, AfterEdits, AfterMenu
      <3>2. "oscheck" \notin {"installing"} \cup Building
        BY DEF Building
      <3>3. QED
        BY <2>1, <3>1, <3>2 DEF BootInv
    <2>6. QED
      BY <2>1, <2>2, <2>3, <2>4, <2>5 DEF BootInv, ArgsReady, Searched
  <1>3. CASE UNCHANGED vars
    BY <1>3 DEF vars, BootInv, BootConfigReady, KernelArgs, ArgsReady, DriverCards, Order, At, Live,
                Searched
  <1>4. QED
    BY <1>1, <1>2, <1>3 DEF Next

\* Under Bootable the next boot of a finished machine has every kernel argument
\* its board and release need, no iommu=off on an X299 board that the functions of
\* all the controllers its order wants would have found, and a menu that shows,
\* wherever the runs before the last one were interrupted.
THEOREM BootReady ==
  ASSUME Bootable
  PROVE  Spec => []BootConfigReady
  <1>1. OneLaunch /\ Undisturbed /\ NoFaults
    BY DEF Bootable, Clean, Undisturbed, NoFaults
  <1>2. Init => SoloInv /\ OrderInv /\ ArmInv /\ BootInv
    BY InitSolo, InitOrder, InitArm, InitBoot
  <1>3. SoloInv /\ OrderInv /\ ArmInv /\ BootInv /\ [Next]_vars
          => (SoloInv /\ OrderInv /\ ArmInv /\ BootInv)'
    BY <1>1, NextSolo, NextOrder, NextArm, NextBoot
  <1>4. BootInv => BootConfigReady
    BY DEF BootInv
  <1>5. QED
    BY <1>2, <1>3, <1>4, PTL DEF Spec
=============================================================================
