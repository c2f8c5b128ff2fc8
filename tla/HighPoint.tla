------------------------------ MODULE HighPoint ------------------------------
(***************************************************************************)
(* scripts/highpoint.sh, which builds a RAID array on a HighPoint SSD7505: *)
(* install the driver, reboot, delete the old arrays, reboot, create the   *)
(* new one, hand the launch line back to master.sh, reboot.  What has been *)
(* done is kept in the flags hp_flag and hp_flag1, and the array type the  *)
(* operator chose in a file of its own.                                    *)
(*                                                                         *)
(* The launch line it leaves names ~/install/functions/highpoint.sh, where *)
(* the script is not, so that it is the operator who runs it each time.    *)
(***************************************************************************)
EXTENDS Naturals, Sequences

CONSTANTS
  Hosts,        \* the machines it may be run on
  Patient,      \* the operator answers no prompt of a machine that goes down
  MaxCrashes,   \* bound on power losses and closed terminals
  MaxFaults     \* bound on downloads and installers that fail

Types == {"RAID0", "RAID1", "RAID10"}
\* Where GRUB_CMDLINE_LINUX of an imaged machine carries iommu=off: at the front of
\* the quoted value, alone or not, or behind another word.
Places == {"none", "front", "behind"}

Host == [media : {"Desktop", "Server"}, card : BOOLEAN, x299 : BOOLEAN, off : Places,
         old : Nat]

ASSUME HostsAssumption == Hosts \subseteq Host
ASSUME BoundsAssumption ==
  Patient \in BOOLEAN /\ MaxCrashes \in Nat /\ MaxFaults \in Nat

VARIABLES
  host,      \* the machine; never changes
  power,     \* "down", "up", or "stopping" once a reboot was requested
  loaded,    \* the driver is in the running kernel
  pc,        \* where the script is, "idle" if it does not run
  asked,     \* $arraytype, the last type the operator chose
  disk,      \* flags, launch lines, installed software
  arrays,    \* the arrays of the controller, in the order of their numbers
  consented, \* the operator answered Y to the deletion of all data
  ended,     \* how the completion flag was written: "no", "nocard", "declined", "built"
  crashes, faults

bounds == <<crashes, faults>>
answers == <<asked, consented, ended>>
vars == <<host, power, loaded, pc, answers, disk, arrays, bounds>>

Stages == {"idle", "nocard", "driver", "build", "manager", "iommu", "mark", "move", "append", "confirm",
           "ask", "decline", "declined", "type", "record", "delete", "clear", "flag1",
           "reboot1", "create", "clear1", "cleartype", "home", "rearm", "finish", "reboot2"}

Disk == [hptdrv : BOOLEAN, driver : BOOLEAN, manager : BOOLEAN, off : Places,
         hp_flag : BOOLEAN, hp_flag1 : BOOLEAN, done : BOOLEAN,
         arraytype : Seq(Types), master : Nat, highpoint : Nat]

TypeOK ==
  /\ host \in Hosts
  /\ power \in {"down", "up", "stopping"} /\ loaded \in BOOLEAN
  /\ pc \in Stages
  /\ asked \in Types \cup {"none"} /\ consented \in BOOLEAN
  /\ pc = "record" => asked \in Types
  /\ ended \in {"no", "nocard", "declined", "built"}
  /\ disk \in Disk
  /\ arrays \in Seq(Types \cup {"old"})
  /\ crashes \in Nat /\ faults \in Nat

Given == [i \in 1 .. host.old |-> "old"]

Init ==
  /\ host \in Hosts
  /\ power = "down" /\ loaded = FALSE /\ pc = "idle"
  /\ asked = "none" /\ consented = FALSE /\ ended = "no"
  /\ disk = [hptdrv |-> FALSE, driver |-> FALSE, manager |-> FALSE, off |-> host.off,
             hp_flag |-> FALSE, hp_flag1 |-> FALSE, done |-> FALSE,
             arraytype |-> << >>, master |-> 1, highpoint |-> 0]
  /\ arrays = Given
  /\ crashes = 0 /\ faults = 0
-----------------------------------------------------------------------------
Goto(from, to) == pc = from /\ pc' = to
Fault == faults < MaxFaults /\ faults' = faults + 1 /\ UNCHANGED crashes

\* What the flags say is to be done next.
NextStage ==
  CASE disk.done -> "idle"
    [] ~disk.done /\ ~host.card -> "nocard"
    [] ~disk.done /\ host.card /\ ~disk.hptdrv -> "driver"
    [] ~disk.done /\ host.card /\ disk.hptdrv ->
         IF disk.hp_flag THEN "ask" ELSE IF disk.hp_flag1 THEN "create" ELSE "idle"

Run ==
  /\ power = "up" /\ pc = "idle" /\ pc' = NextStage
  /\ UNCHANGED <<host, power, loaded, answers, disk, arrays, bounds>>

NoCard ==
  /\ Goto("nocard", "idle")
  /\ disk' = [disk EXCEPT !.done = TRUE] /\ ended' = "nocard"
  /\ UNCHANGED <<host, power, loaded, asked, consented, arrays, bounds>>

\* The driver's installer puts the init script in place, if it could be fetched ...
PlaceScript ==
  /\ \/ Goto("driver", "build") /\ disk' = [disk EXCEPT !.hptdrv = TRUE] /\ UNCHANGED bounds
     \/ Goto("driver", "manager") /\ Fault /\ UNCHANGED disk
  /\ UNCHANGED <<host, power, loaded, answers, arrays>>

\* ... and then builds the module.  Nothing is checked.
BuildDriver ==
  /\ Goto("build", "manager")
  /\ \/ disk' = [disk EXCEPT !.driver = TRUE] /\ UNCHANGED bounds
     \/ Fault /\ UNCHANGED disk
  /\ UNCHANGED <<host, power, loaded, answers, arrays>>

InstallManager ==
  /\ Goto("manager", "iommu")
  /\ \/ disk' = [disk EXCEPT !.manager = TRUE] /\ UNCHANGED bounds
     \/ Fault /\ UNCHANGED disk
  /\ UNCHANGED <<host, power, loaded, answers, arrays>>

\* sed 's/ iommu=off//': the blank keeps the word at the front of the value.
DropIommuOff ==
  /\ Goto("iommu", "mark")
  /\ disk' = [disk EXCEPT !.off = IF host.x299 /\ @ = "behind" THEN "none" ELSE @]
  /\ UNCHANGED <<host, power, loaded, answers, arrays, bounds>>

\* Mutant of MarkInstalled: the flag is not written.
MarkInstalledNot ==
  /\ Goto("mark", "move")
  /\ UNCHANGED <<host, power, loaded, answers, disk, arrays, bounds>>

MarkInstalled ==
  /\ Goto("mark", "move")
  /\ disk' = [disk EXCEPT !.hp_flag = TRUE]
  /\ UNCHANGED <<host, power, loaded, answers, arrays, bounds>>

\* On a server the launch lines are deleted and then one is written; a desktop
\* keeps master.sh's, as the rm names a path that does not exist.
MoveLaunch ==
  /\ \/ /\ host.media = "Server" /\ Goto("move", "append")
        /\ disk' = [disk EXCEPT !.master = 0, !.highpoint = 0]
     \/ /\ host.media = "Desktop" /\ Goto("move", "confirm")
        /\ disk' = [disk EXCEPT !.highpoint = @ + 1]
  /\ UNCHANGED <<host, power, loaded, answers, arrays, bounds>>

AppendLaunch ==
  /\ Goto("append", "confirm")
  /\ disk' = [disk EXCEPT !.highpoint = @ + 1]
  /\ UNCHANGED <<host, power, loaded, answers, arrays, bounds>>

Confirm ==
  /\ Goto("confirm", "idle") /\ power' = "stopping"
  /\ UNCHANGED <<host, loaded, answers, disk, arrays, bounds>>
-----------------------------------------------------------------------------
(***************************************************************************)
(* Step 1: all arrays are deleted if the operator agrees.                  *)
(***************************************************************************)
Answering == Patient => power = "up"

\* Mutant of AnswerNo: falls into the other branch.
AnswerNoDeletes ==
  /\ Answering /\ Goto("ask", "type")
  /\ UNCHANGED <<host, power, loaded, answers, disk, arrays, bounds>>

AnswerNo ==
  /\ Answering /\ Goto("ask", "decline")
  /\ UNCHANGED <<host, power, loaded, answers, disk, arrays, bounds>>

ClearDeclined ==
  /\ Goto("decline", "declined")
  /\ disk' = [disk EXCEPT !.hp_flag = FALSE]
  /\ UNCHANGED <<host, power, loaded, answers, arrays, bounds>>

Declined ==
  /\ Goto("declined", "idle")
  /\ disk' = [disk EXCEPT !.done = TRUE] /\ ended' = "declined"
  /\ UNCHANGED <<host, power, loaded, asked, consented, arrays, bounds>>

AnswerYes ==
  /\ Answering /\ Goto("ask", "type")
  /\ consented' = TRUE
  /\ UNCHANGED <<host, power, loaded, asked, ended, disk, arrays, bounds>>

ChooseType ==
  /\ Answering /\ Goto("type", "record")
  /\ \E type \in Types : asked' = type
  /\ UNCHANGED <<host, power, loaded, consented, ended, disk, arrays, bounds>>

\* tee -a: a type that an interrupted run recorded stays.
Record ==
  /\ Goto("record", "delete")
  /\ disk' = [disk EXCEPT !.arraytype = Append(@, asked)]
  /\ UNCHANGED <<host, power, loaded, answers, arrays, bounds>>

\* hptraidconf is there and finds its controller.
Tool == disk.manager /\ loaded

\* Mutant of DeleteArrays: if instead of while.
DeleteOneArray ==
  /\ Goto("delete", "clear")
  /\ arrays' = IF Tool /\ arrays # << >> THEN Tail(arrays) ELSE arrays
  /\ UNCHANGED <<host, power, loaded, answers, disk, bounds>>

DeleteArrays ==
  /\ \/ Tool /\ arrays # << >> /\ Goto("delete", "delete") /\ arrays' = Tail(arrays)
     \/ ~(Tool /\ arrays # << >>) /\ Goto("delete", "clear") /\ UNCHANGED arrays
  /\ UNCHANGED <<host, power, loaded, answers, disk, bounds>>

ClearFlag ==
  /\ Goto("clear", "flag1")
  /\ disk' = [disk EXCEPT !.hp_flag = FALSE]
  /\ UNCHANGED <<host, power, loaded, answers, arrays, bounds>>

\* Mutant of MarkDeleted: the flag is not written.
MarkDeletedNot ==
  /\ Goto("flag1", "reboot1")
  /\ UNCHANGED <<host, power, loaded, answers, disk, arrays, bounds>>

MarkDeleted ==
  /\ Goto("flag1", "reboot1")
  /\ disk' = [disk EXCEPT !.hp_flag1 = TRUE]
  /\ UNCHANGED <<host, power, loaded, answers, arrays, bounds>>

\* No exit follows the reboot: the loop asks again until the machine goes down.
RebootAsking ==
  /\ Goto("reboot1", "ask") /\ power' = "stopping"
  /\ UNCHANGED <<host, loaded, answers, disk, arrays, bounds>>
-----------------------------------------------------------------------------
(***************************************************************************)
(* Step 2: the new array takes every free disk.  With two lines in the     *)
(* file the command gets two types, and fails or takes the first one.      *)
(***************************************************************************)
Create ==
  /\ Goto("create", "clear1")
  /\ \/ /\ Tool /\ arrays = << >> /\ disk.arraytype # << >>
        /\ arrays' = <<Head(disk.arraytype)>>
     \/ /\ ~Tool \/ arrays # << >> \/ Len(disk.arraytype) # 1
        /\ UNCHANGED arrays
  /\ UNCHANGED <<host, power, loaded, answers, disk, bounds>>

ClearFlag1 ==
  /\ Goto("clear1", "cleartype")
  /\ disk' = [disk EXCEPT !.hp_flag1 = FALSE]
  /\ UNCHANGED <<host, power, loaded, answers, arrays, bounds>>

ClearType ==
  /\ Goto("cleartype", "home")
  /\ disk' = [disk EXCEPT !.arraytype = << >>]
  /\ UNCHANGED <<host, power, loaded, answers, arrays, bounds>>

RemoveLaunch ==
  /\ Goto("home", "rearm")
  /\ disk' = [disk EXCEPT !.highpoint = 0]
  /\ UNCHANGED <<host, power, loaded, answers, arrays, bounds>>

\* Mutant of ArmMaster: master.sh does not get its launch line back.
ArmMasterNot ==
  /\ Goto("rearm", "finish")
  /\ UNCHANGED <<host, power, loaded, answers, disk, arrays, bounds>>

ArmMaster ==
  /\ Goto("rearm", "finish")
  /\ disk' = [disk EXCEPT !.master = @ + 1]
  /\ UNCHANGED <<host, power, loaded, answers, arrays, bounds>>

Finish ==
  /\ Goto("finish", "reboot2")
  /\ disk' = [disk EXCEPT !.done = TRUE] /\ ended' = "built"
  /\ UNCHANGED <<host, power, loaded, asked, consented, arrays, bounds>>

RebootBuilt ==
  /\ Goto("reboot2", "idle") /\ power' = "stopping"
  /\ UNCHANGED <<host, loaded, answers, disk, arrays, bounds>>

Step ==
  \/ NoCard \/ PlaceScript \/ BuildDriver \/ InstallManager \/ DropIommuOff \/ MarkInstalled
  \/ MoveLaunch \/ AppendLaunch \/ Confirm
  \/ AnswerNo \/ ClearDeclined \/ Declined
  \/ AnswerYes \/ ChooseType \/ Record \/ DeleteArrays \/ ClearFlag \/ MarkDeleted
  \/ RebootAsking
  \/ Create \/ ClearFlag1 \/ ClearType \/ RemoveLaunch \/ ArmMaster \/ Finish \/ RebootBuilt
-----------------------------------------------------------------------------
Boot ==
  /\ power = "down" /\ power' = "up" /\ loaded' = disk.driver
  /\ UNCHANGED <<host, pc, answers, disk, arrays, bounds>>

TurnOff == power' = "down" /\ loaded' = FALSE /\ pc' = "idle"
           /\ UNCHANGED <<host, answers, disk, arrays>>

PowerDown == power = "stopping" /\ TurnOff /\ UNCHANGED bounds

PowerLoss ==
  /\ power # "down" /\ crashes < MaxCrashes
  /\ crashes' = crashes + 1 /\ TurnOff /\ UNCHANGED faults

\* The operator turns off a machine on which there is nothing to run.
PowerCycle == power = "up" /\ pc = "idle" /\ NextStage = "idle" /\ TurnOff /\ UNCHANGED bounds

CloseTerminal ==
  /\ pc # "idle" /\ crashes < MaxCrashes
  /\ crashes' = crashes + 1 /\ pc' = "idle"
  /\ UNCHANGED <<host, power, loaded, answers, disk, arrays, faults>>

Next == Run \/ Step \/ Boot \/ PowerDown \/ PowerLoss \/ PowerCycle \/ CloseTerminal

Spec == Init /\ [][Next]_vars

(***************************************************************************)
(* The operator answers, boots the machine, and runs the script as long as *)
(* there is something for it to do; a requested reboot happens.            *)
(***************************************************************************)
Fairness == WF_vars(Step) /\ WF_vars(Run) /\ WF_vars(Boot) /\ WF_vars(PowerDown)

FairSpec == Spec /\ Fairness
-----------------------------------------------------------------------------
Undisturbed == crashes = 0 /\ faults = 0

\* At most one flag says where to go on, whatever interrupts the script, so that
\* a step that was done is not done again.
OneFlag == ~(disk.hp_flag /\ disk.hp_flag1)

\* No array that the machine came with is deleted, and none is created, before
\* the operator has answered Y once to "ALL DATA WILL BE DESTROYED".
ConsentToDestroy == ~consented => arrays = Given

\* Once an array counts as built, the workflow has cleaned up after itself and
\* master.sh, not this script, has a launch line; crashes included.
HandsBack ==
  ended = "built" =>
    /\ ~disk.hp_flag /\ ~disk.hp_flag1 /\ disk.arraytype = << >>
    /\ disk.master > 0 /\ disk.highpoint = 0

\* Undisturbed, the array that was asked for is the only one on the controller
\* when the workflow is complete, and an X299 board has no iommu=off behind another
\* word of the kernel line.  One at the front stays: no pattern looks for it.
BuiltAsAsked ==
  Undisturbed /\ ended = "built" =>
    arrays = <<asked>> /\ (host.x299 => disk.off # "behind")

\* Undisturbed, a workflow that has begun and not finished has a flag that says
\* where to go on, at every point where the script does not run.
NothingLost ==
  Undisturbed /\ pc = "idle" /\ disk.hptdrv /\ ~disk.done => disk.hp_flag \/ disk.hp_flag1

\* Undisturbed, the workflow ends.
EventuallyEnded == <>(ended # "no" \/ ~Undisturbed)

\* "RAID array setup is now complete": the array that was asked for is there.
CompleteMeansArray == ended = "built" => arrays = <<asked>>
=============================================================================
