------------------------------- MODULE Master -------------------------------
(***************************************************************************)
(* master.sh, the installer that provisions a freshly imaged machine.  A   *)
(* launch line in the login files starts it; it asks for the order, builds *)
(* the drivers that need a reboot, installs packages, hands over to        *)
(* mount.sh, edits the boot and network configuration, removes the launch  *)
(* line and reboots.  Everything it keeps across a reboot is on disk: the  *)
(* launch lines, the order files, the flags and the edited configuration.  *)
(* Nothing locks them, and more than one instance may run.                 *)
(***************************************************************************)
EXTENDS Naturals, FiniteSets, GrubDefaults

CONSTANTS
  Instances,     \* the processes that may run master.sh
  Machines,      \* the machines to provision
  MaxSessions,   \* console and network logins to a server between two boots
  MaxCrashes,    \* bound on power losses and closed terminals
  MaxFaults      \* bound on downloads and package operations that fail

Media == {"Desktop", "Server"}
Cards == {"hp7505", "hp640L", "hp3720c"}                \* HighPoint controllers
Items == {"raid", "gnome", "vizgen", "courtesy"}        \* lines of an order
Files == {".bashrc", "profile.d"}                       \* where a launch line lives
Effects == {"9560", "nvidia", "amdigpu", "courtesy", "updates"}

(***************************************************************************)
(* What the scripts read of a machine.  "parent" and "child" are the order *)
(* items of its order and of that order's child orders; "tagged" says that *)
(* the host name or the serial number carries the order number.            *)
(***************************************************************************)
Machine ==
  [media : Media, osversion : Versions, board : Boards, gear : SUBSET Gear,
   cards : SUBSET Cards, off : Places,
   parent : SUBSET Items, child : SUBSET Items, tagged : BOOLEAN]

ASSUME MachinesAssumption == Machines \subseteq Machine
ASSUME BoundsAssumption ==
  MaxSessions \in Nat \ {0} /\ MaxCrashes \in Nat /\ MaxFaults \in Nat

VARIABLES
  machine,    \* the machine being provisioned; never changes
  power,      \* "down", "up", or "stopping" once a reboot was requested
  sessions,   \* logins since the boot
  pending,    \* launch lines the logins have still to run
  loaded,     \* HighPoint drivers the running kernel has loaded
  proc,       \* the master.sh processes and their shell variables
  disk,       \* everything that survives a reboot
  finished,   \* some run got past "Stop autorun"
  crashes, faults

host == <<power, sessions, pending, loaded>>
bounds == <<crashes, faults>>
vars == <<machine, host, proc, disk, finished, bounds>>

Stages ==
  {"none", "oscheck", "orderid", "asking", "orderdata", "fetching", "vizcheck"}
    \cup Cards \cup {"installing", "building", "iommu", "autorun", "append", "rebooting"}
    \cup {"9560", "nvidia", "amdigpu", "software", "update", "gnome"}
    \cup {"mount", "mounting", "mobofix", "netman", "netplan", "grubtime",
          "stopautorun", "shutdown"}

Proc ==
  {r \in [pc : Stages, os : Media \cup {"none"}, id : {"none", "good", "garbled"},
          card : Cards \cup {"none"}] : r.pc \in {"installing", "building"} => r.card \in Cards}

Disk == [launch : [Files -> Nat], idlines : Nat, orderdata : SUBSET Items,
         hptdrv : BOOLEAN, drivers : SUBSET Cards, applied : SUBSET Effects,
         mounted : BOOLEAN, netplan : Nat, grub : Grub]

Idle == [pc |-> "none", os |-> "none", id |-> "none", card |-> "none"]
AllIdle == [p \in Instances |-> Idle]
Live == {p \in Instances : proc[p].pc # "none"}

LaunchFile(os) == IF os = "Server" THEN ".bashrc" ELSE "profile.d"
Lines == disk.launch[LaunchFile(machine.media)]

TypeOK ==
  /\ machine \in Machines
  /\ power \in {"down", "up", "stopping"}
  /\ sessions \in Nat /\ pending \in Nat /\ crashes \in Nat /\ faults \in Nat
  /\ loaded \subseteq Cards
  /\ proc \in [Instances -> Proc]
  /\ disk \in Disk
  /\ finished \in BOOLEAN

(***************************************************************************)
(* A machine as the imaging leaves it: off, with one launch line.          *)
(***************************************************************************)
ImagedDisk(m) ==
  [launch |-> [f \in Files |-> IF f = LaunchFile(m.media) THEN 1 ELSE 0],
   idlines |-> 0, orderdata |-> {}, hptdrv |-> FALSE, drivers |-> {},
   applied |-> {}, mounted |-> FALSE, netplan |-> 0,
   grub |-> [args |-> IF m.media = "Desktop" THEN <<"quiet", "splash">> ELSE << >>,
             off |-> m.off, timeout |-> 0, style |-> "hidden"]]

Init ==
  /\ machine \in Machines
  /\ power = "down" /\ sessions = 0 /\ pending = 0 /\ loaded = {}
  /\ proc = AllIdle
  /\ disk = ImagedDisk(machine)
  /\ finished = FALSE
  /\ crashes = 0 /\ faults = 0
-----------------------------------------------------------------------------
At(p, pc) == proc[p].pc = pc
Goto(p, pc) == proc' = [proc EXCEPT ![p].pc = pc]

\* apt, dpkg and wget fail when the network does, and apt and dpkg when
\* another instance holds their lock.
AptStages == {"fetching", "9560", "nvidia", "amdigpu", "software", "update",
              "gnome", "mount", "netman"}
NetworkFault == faults < MaxFaults /\ faults' = faults + 1 /\ UNCHANGED crashes
LockHeld(p) == /\ \E q \in Instances \ {p} : proc[q].pc \in AptStages
               /\ UNCHANGED bounds
AptFails(p) == NetworkFault \/ LockHeld(p)

OsCheck(p) ==
  /\ At(p, "oscheck")
  /\ proc' = [proc EXCEPT ![p].pc = "orderid", ![p].os = machine.media]
  /\ UNCHANGED <<machine, host, disk, finished, bounds>>

\* The order number is saved only when it was typed; a file that two instances
\* appended to no longer holds one.
OrderId(p) ==
  /\ At(p, "orderid")
  /\ \/ /\ disk.idlines = 0 /\ ~machine.tagged
        /\ Goto(p, "asking")
     \/ /\ disk.idlines > 0 \/ machine.tagged
        /\ proc' = [proc EXCEPT ![p].pc = "orderdata",
                      ![p].id = IF disk.idlines > 1 THEN "garbled" ELSE "good"]
  /\ UNCHANGED <<machine, host, disk, finished, bounds>>

AskOrderId(p) ==
  /\ At(p, "asking")
  /\ proc' = [proc EXCEPT ![p].pc = "orderdata", ![p].id = "good"]
  /\ disk' = [disk EXCEPT !.idlines = @ + 1]
  /\ UNCHANGED <<machine, host, finished, bounds>>

ClearOrderData(p) ==
  /\ At(p, "orderdata")
  /\ Goto(p, "fetching")
  /\ disk' = [disk EXCEPT !.orderdata = {}]
  /\ UNCHANGED <<machine, host, finished, bounds>>

\* Mutant of FetchOrderData: the child orders overwrite the parent order.
FetchOrderDataOver(p) ==
  /\ At(p, "fetching")
  /\ Goto(p, "vizcheck")
  /\ disk' = [disk EXCEPT !.orderdata =
                 IF machine.child = {} THEN machine.parent ELSE machine.child]
  /\ UNCHANGED <<machine, host, finished, bounds>>

\* wget and the child orders, which need jq, append to what is there.
FetchOrderData(p) ==
  /\ At(p, "fetching")
  /\ Goto(p, "vizcheck")
  /\ LET parent == IF proc[p].id = "good" THEN machine.parent ELSE {}
         child  == IF proc[p].id = "good" THEN machine.child ELSE {}
     IN  \/ /\ disk' = [disk EXCEPT !.orderdata = @ \cup parent \cup child]
            /\ UNCHANGED bounds
         \/ /\ AptFails(p)
            /\ disk' = [disk EXCEPT !.orderdata = @ \cup parent]
         \/ NetworkFault /\ UNCHANGED disk
  /\ UNCHANGED <<machine, host, finished>>

\* Mutant of VizOsCheck: the release is not looked at.
VizOsCheckAnyRelease(p) ==
  /\ At(p, "vizcheck")
  /\ IF "vizgen" \in disk.orderdata
     THEN proc' = [proc EXCEPT ![p] = Idle] ELSE Goto(p, "hp7505")
  /\ UNCHANGED <<machine, host, disk, finished, bounds>>

VizOsCheck(p) ==
  /\ At(p, "vizcheck")
  /\ IF "vizgen" \in disk.orderdata /\ machine.osversion = "22.04"
     THEN proc' = [proc EXCEPT ![p] = Idle]
     ELSE Goto(p, "hp7505")
  /\ UNCHANGED <<machine, host, disk, finished, bounds>>
-----------------------------------------------------------------------------
(***************************************************************************)
(* The HighPoint drivers: _hp7505, _hp640L and _hp3720c in that order, all *)
(* guarded by the init script that any one of them installs.               *)
(***************************************************************************)
NextCall(card) == CASE card = "hp7505" -> "hp640L"
                    [] card = "hp640L" -> "hp3720c"
                    [] card = "hp3720c" -> "9560"

Ordered(card, items) == card = "hp7505" => "raid" \in items

HpCheck(p, card) ==
  /\ At(p, card)
  /\ IF card \in machine.cards /\ Ordered(card, disk.orderdata) /\ ~disk.hptdrv
     THEN proc' = [proc EXCEPT ![p].pc = "installing", ![p].card = card]
     ELSE Goto(p, NextCall(card))
  /\ UNCHANGED <<machine, host, disk, finished, bounds>>

\* Mutant of HpInstall: the installer leaves its init script somewhere else.
HpInstallElsewhere(p) ==
  /\ At(p, "installing")
  /\ Goto(p, "building")
  /\ UNCHANGED <<machine, host, disk, finished, bounds>>

\* The vendor's installer, if it could be fetched, first puts
\* /etc/init.d/hptdrv-monitor in place ...
HpInstall(p) ==
  /\ At(p, "installing")
  /\ \/ /\ Goto(p, "building")
        /\ disk' = [disk EXCEPT !.hptdrv = TRUE]
        /\ UNCHANGED bounds
     \/ Goto(p, "iommu") /\ NetworkFault /\ UNCHANGED disk
  /\ UNCHANGED <<machine, host, finished>>

\* ... and then builds the module, for which it may have to fetch the tools.  The
\* RAID manager installed after it changes nothing the scripts look at.  Nothing
\* is checked.
HpBuild(p) ==
  /\ At(p, "building")
  /\ Goto(p, "iommu")
  /\ \/ /\ disk' = [disk EXCEPT !.drivers = @ \cup {proc[p].card}]
        /\ UNCHANGED bounds
     \/ NetworkFault /\ UNCHANGED disk
  /\ UNCHANGED <<machine, host, finished>>

HpIommu(p) ==
  /\ At(p, "iommu")
  /\ Goto(p, "autorun")
  /\ disk' = [disk EXCEPT !.grub = DropIommuOff(@, machine, proc[p].card)]
  /\ UNCHANGED <<machine, host, finished, bounds>>

\* On a server the line is deleted and then written.  On a desktop the rm names
\* /etc/profile/.d, which does not exist, and the tee adds a line.
HpAutorun(p) ==
  /\ At(p, "autorun")
  /\ \/ /\ proc[p].os = "Server"
        /\ Goto(p, "append")
        /\ disk' = [disk EXCEPT !.launch[".bashrc"] = 0]
     \/ /\ proc[p].os # "Server"
        /\ Goto(p, "rebooting")
        /\ disk' = [disk EXCEPT !.launch["profile.d"] = @ + 1]
  /\ UNCHANGED <<machine, host, finished, bounds>>

HpAppend(p) ==
  /\ At(p, "append")
  /\ Goto(p, "rebooting")
  /\ disk' = [disk EXCEPT !.launch[".bashrc"] = @ + 1]
  /\ UNCHANGED <<machine, host, finished, bounds>>

\* sudo reboot; exit.  The other instances run on until the machine goes down.
Reboot(p, pc) ==
  /\ At(p, pc)
  /\ power' = "stopping"
  /\ proc' = [proc EXCEPT ![p] = Idle]
  /\ UNCHANGED <<machine, sessions, pending, loaded, disk, finished, bounds>>

\* Mutant of HpReboot: the reboot is left to the end of the run.
HpRebootDeferred(p) ==
  /\ At(p, "rebooting")
  /\ Goto(p, "9560")
  /\ UNCHANGED <<machine, host, disk, finished, bounds>>

HpReboot(p) == Reboot(p, "rebooting")
-----------------------------------------------------------------------------
(***************************************************************************)
(* Packages.  No exit status is looked at: a failed step is passed over.   *)
(***************************************************************************)
Package(p, pc, next, wanted, effect) ==
  /\ At(p, pc)
  /\ Goto(p, next)
  /\ \/ /\ disk' = [disk EXCEPT !.applied = IF wanted THEN @ \cup {effect} ELSE @]
        /\ UNCHANGED bounds
     \/ wanted /\ AptFails(p) /\ UNCHANGED disk
  /\ UNCHANGED <<machine, host, finished>>

WantsAmdigpu(m) == m.board \in {"proart", "b650"}

BC9560(p) == Package(p, "9560", "nvidia", "9560" \in machine.gear, "9560")
Nvidia(p) == Package(p, "nvidia", "amdigpu", "nvidia" \in machine.gear, "nvidia")
Amdigpu(p) == Package(p, "amdigpu", "software", WantsAmdigpu(machine), "amdigpu")
Software(p) ==
  Package(p, "software", "update",
          proc[p].os = "Desktop" /\ "courtesy" \in disk.orderdata, "courtesy")
UpdateOs(p) == Package(p, "update", "gnome", TRUE, "updates")

\* Installs nothing (the package name is misspelt) and turns the rest of this
\* run into a desktop's.
Gnome(p) ==
  /\ At(p, "gnome")
  /\ proc' = [proc EXCEPT ![p].pc = "mount",
                ![p].os = IF "gnome" \in disk.orderdata THEN "Desktop" ELSE @]
  /\ UNCHANGED <<machine, host, disk, finished, bounds>>
-----------------------------------------------------------------------------
\* mount.sh runs once: its completion flag is checked first and written last.
StartMount(p) ==
  /\ At(p, "mount")
  /\ Goto(p, IF disk.mounted THEN "mobofix" ELSE "mounting")
  /\ UNCHANGED <<machine, host, disk, finished, bounds>>

EndMount(p) ==
  /\ At(p, "mounting")
  /\ Goto(p, "mobofix")
  /\ disk' = [disk EXCEPT !.mounted = TRUE]
  /\ UNCHANGED <<machine, host, finished, bounds>>

Mobofix(p) ==
  /\ At(p, "mobofix")
  /\ Goto(p, "netman")
  /\ disk' = [disk EXCEPT !.grub = BoardEdits(@, machine, proc[p].os)]
  /\ UNCHANGED <<machine, host, finished, bounds>>

\* Mutant of Netman: an existing file is kept and appended to.
NetmanAppending(p) ==
  /\ At(p, "netman")
  /\ Goto(p, IF proc[p].os = "Server" THEN "netplan" ELSE "grubtime")
  /\ UNCHANGED <<machine, host, disk, finished, bounds>>

\* Servers get a new netplan file: removed, then built by appending.
Netman(p) ==
  /\ At(p, "netman")
  /\ \/ /\ proc[p].os = "Server"
        /\ Goto(p, "netplan")
        /\ disk' = [disk EXCEPT !.netplan = 0]
     \/ proc[p].os # "Server" /\ Goto(p, "grubtime") /\ UNCHANGED disk
  /\ UNCHANGED <<machine, host, finished, bounds>>

WriteNetplan(p) ==
  /\ At(p, "netplan")
  /\ Goto(p, "grubtime")
  /\ disk' = [disk EXCEPT !.netplan = @ + 1]
  /\ UNCHANGED <<machine, host, finished, bounds>>

Grubtime(p) ==
  /\ At(p, "grubtime")
  /\ Goto(p, "stopautorun")
  /\ disk' = [disk EXCEPT !.grub = MenuEdits(@)]
  /\ UNCHANGED <<machine, host, finished, bounds>>

\* Mutant of StopAutorun: only the desktop's file is looked at.
StopAutorunDesktop(p) ==
  /\ At(p, "stopautorun")
  /\ Goto(p, "shutdown")
  /\ disk' = [disk EXCEPT !.launch["profile.d"] = 0]
  /\ finished' = TRUE
  /\ UNCHANGED <<machine, host, bounds>>

StopAutorun(p) ==
  /\ At(p, "stopautorun")
  /\ Goto(p, "shutdown")
  /\ disk' = [disk EXCEPT !.launch[LaunchFile(proc[p].os)] = 0]
  /\ finished' = TRUE
  /\ UNCHANGED <<machine, host, bounds>>

Shutdown(p) == Reboot(p, "shutdown")

Step(p) ==
  \/ OsCheck(p) \/ OrderId(p) \/ AskOrderId(p)
  \/ ClearOrderData(p) \/ FetchOrderData(p) \/ VizOsCheck(p)
  \/ \E card \in Cards : HpCheck(p, card)
  \/ HpInstall(p) \/ HpBuild(p) \/ HpIommu(p) \/ HpAutorun(p) \/ HpAppend(p) \/ HpReboot(p)
  \/ BC9560(p) \/ Nvidia(p) \/ Amdigpu(p) \/ Software(p) \/ UpdateOs(p) \/ Gnome(p)
  \/ StartMount(p) \/ EndMount(p)
  \/ Mobofix(p) \/ Netman(p) \/ WriteNetplan(p) \/ Grubtime(p)
  \/ StopAutorun(p) \/ Shutdown(p)
-----------------------------------------------------------------------------
(***************************************************************************)
(* The machine and its operator.  A desktop login runs every line of       *)
(* profile.d/master.sh, each in a terminal of its own.  A server shell     *)
(* runs the lines of ~/.bashrc one after the other, so it has at most one  *)
(* instance, but every console and network login is such a shell.          *)
(***************************************************************************)
Launched == IF machine.media = "Server" /\ Lines > 1 THEN 1 ELSE Lines

Login ==
  /\ power = "down"
  /\ power' = "up" /\ sessions' = 1 /\ pending' = Launched
  /\ loaded' = disk.drivers
  /\ UNCHANGED <<machine, proc, disk, finished, bounds>>

NewSession ==
  /\ power = "up" /\ machine.media = "Server" /\ sessions < MaxSessions
  /\ sessions' = sessions + 1 /\ pending' = pending + Launched
  /\ UNCHANGED <<machine, power, loaded, proc, disk, finished, bounds>>

Launch(p) ==
  /\ power = "up" /\ pending > 0 /\ At(p, "none")
  /\ pending' = pending - 1
  /\ Goto(p, "oscheck")
  /\ UNCHANGED <<machine, power, sessions, loaded, disk, finished, bounds>>

TurnOff == power' = "down" /\ pending' = 0 /\ proc' = AllIdle
           /\ UNCHANGED <<machine, sessions, loaded, disk, finished>>

PowerDown == power = "stopping" /\ TurnOff /\ UNCHANGED bounds

PowerLoss ==
  /\ power # "down" /\ crashes < MaxCrashes
  /\ crashes' = crashes + 1 /\ TurnOff /\ UNCHANGED faults

\* The operator restarts a machine on which nothing runs.
PowerCycle ==
  /\ power = "up" /\ pending = 0 /\ Live = {}
  /\ TurnOff /\ UNCHANGED bounds

\* The terminal of an instance is closed.
CloseTerminal(p) ==
  /\ proc[p].pc # "none" /\ crashes < MaxCrashes
  /\ crashes' = crashes + 1
  /\ proc' = [proc EXCEPT ![p] = Idle]
  /\ UNCHANGED <<machine, host, disk, finished, faults>>

Environment ==
  \/ Login \/ NewSession \/ PowerDown \/ PowerLoss \/ PowerCycle
  \/ \E p \in Instances : Launch(p) \/ CloseTerminal(p)

Next == Environment \/ \E p \in Instances : Step(p)

Spec == Init /\ [][Next]_vars

(***************************************************************************)
(* Scripts run on, a requested reboot happens, and the operator logs in,   *)
(* answers the prompts and restarts a machine that stands idle.            *)
(***************************************************************************)
Fairness ==
  /\ \A p \in Instances : WF_vars(Step(p))
  /\ WF_vars(\E p \in Instances : Launch(p))
  /\ WF_vars(Login) /\ WF_vars(PowerDown) /\ WF_vars(PowerCycle)

FairSpec == Spec /\ Fairness
-----------------------------------------------------------------------------
(***************************************************************************)
(* What a run owes the machine.                                            *)
(***************************************************************************)
Order == machine.parent \cup machine.child
DriverCards == {card \in machine.cards : Ordered(card, Order)}

Owed == {e \in Effects :
           \/ e \in machine.gear
           \/ e = "amdigpu" /\ WantsAmdigpu(machine)
           \/ e = "courtesy" /\ machine.media = "Desktop" /\ "courtesy" \in Order
           \/ e = "updates"}

KernelArgs(grub) == {grub.args[i] : i \in DOMAIN grub.args}

\* Drives are looked for and formatted only by a kernel that has loaded the
\* driver of every HighPoint controller the order wants (master.sh runs the
\* drivers that need a reboot first).
DriversBeforeMount ==
  disk.mounted \/ (\E p \in Instances : At(p, "mounting")) => DriverCards \subseteq loaded

\* The init script is there and the driver is not: no later run builds it.
CutShort == disk.hptdrv /\ ~(DriverCards \subseteq disk.drivers)

\* Whatever reads the order data, once they are fetched, sees the whole order,
\* whoever typed the number and however many runs came before.
OrderKnown ==
  \A p \in Live : proc[p].pc \notin {"oscheck", "orderid", "asking", "orderdata", "fetching"}
                   => disk.orderdata = Order

\* While the machine is off and no run has ended, a launch line is there that
\* will start the next run: a reboot or a power loss never ends the provisioning.
Armed == Lines > 0
Resumes == power = "down" /\ ~finished => Armed

\* After "Stop autorun" no launch line is left.
StopsForGood == finished => ~Armed

\* A machine that counts as finished has all its drivers and packages, its
\* drives were handled, and a server has exactly one netplan definition, however
\* the runs that led there were interrupted.
Provisioned ==
  finished => /\ Owed \subseteq disk.applied
              /\ disk.mounted
              /\ machine.media = "Server" => disk.netplan = 1

\* The next boot of a finished machine has every kernel argument its board and
\* release need, no iommu=off on an X299 board that the driver function of each
\* controller it wants would have found, and a boot menu that shows.
BootConfigReady ==
  finished =>
    /\ WantsNomodeset(machine) => "nomodeset" \in KernelArgs(disk.grub)
    /\ WantsIommu(machine) => "iommu" \in KernelArgs(disk.grub)
    /\ WantsSimpledrm(machine, machine.media) => "simpledrm" \in KernelArgs(disk.grub)
    /\ machine.board = "x299" /\ DriverCards # {} =>
         \E card \in DriverCards : ~Finds(card, disk.grub.off)
    /\ disk.grub.timeout \notin {0, 10} /\ disk.grub.style = "menu"

\* No argument is inserted twice, however many runs, crashed or concurrent, have
\* edited the kernel line.
NoRepeatedArgs ==
  \A i, j \in DOMAIN disk.grub.args : disk.grub.args[i] = disk.grub.args[j] => i = j

\* Every machine ends up finished, with nothing running any more.
EventuallyStopped == <>[](finished /\ Live = {})

(***************************************************************************)
(* The installer implements the abstract promise of Provisioning.          *)
(***************************************************************************)
Abstract == INSTANCE Provisioning WITH
  phase <- IF finished THEN "complete" ELSE IF Live # {} THEN "running" ELSE "waiting",
  armed <- Armed

\* The launch line outlives every interruption and ends with the installation.
ImplementsProvisioning == Abstract!Spec
=============================================================================
