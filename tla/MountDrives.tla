---------------------------- MODULE MountDrives ----------------------------
(***************************************************************************)
(* scripts/mount.sh with _format: every disk except the one that boots is  *)
(* offered to the operator, and a disk that is accepted is partitioned,    *)
(* formatted and entered in /etc/fstab.  The pass over the disks can be    *)
(* cut short by a power loss or by closing the terminal, and starts over   *)
(* until its completion flag is written.                                   *)
(*                                                                         *)
(* The order of the disks is lsblk's: here, any.  A name of lsblk is a     *)
(* model value, and no name is part of another one, as is the case below   *)
(* twenty-seven sd disks.                                                  *)
(***************************************************************************)
EXTENDS Integers, FiniteSets

CONSTANTS
  Drives,       \* the disks lsblk lists
  Kinds,        \* the kinds among them
  Firmware,     \* how the machine may boot, a subset of {"uefi", "bios"}
  Careful,      \* the operator declines a disk that is already in fstab
  MaxReboots, MaxKills,
  None

(***************************************************************************)
(* What the name and smartctl say of a disk.  "avago" stands for ASR8405   *)
(* as well; "hptsd" is a HighPoint array that appears as sd, "hpt" one     *)
(* with a name of its own; "other" is any further name (mmcblk0, zram0).   *)
(***************************************************************************)
KnownKinds == {"ssd", "hdd", "avago", "hptsd", "nvme", "hpt"}
AllKinds == KnownKinds \cup {"other"}
Series == {"s", "h", "r", "n"}                    \* the counters of mount.sh
Bare == -1                                        \* a counter that is ""

ASSUME KindsAssumption == Kinds \subseteq AllKinds
ASSUME NoneAssumption == None \notin Drives
ASSUME BoundsAssumption == MaxReboots \in Nat /\ MaxKills \in Nat /\ Careful \in BOOLEAN

VARIABLES
  kind, root, firmware,   \* the machine; never change
  pc, todo, drive,        \* the loop over the disks
  index,                  \* the four counters
  names,                  \* the default mount points given in this pass
  partition,              \* $partition: the disk whose first partition it names
  table, fs,              \* partition table and file system of every disk
  nextUuid, uuid,
  fstab,                  \* the UUIDs of its lines; 0 is "UUID= "
  mounted,                \* disks mounted by this boot
  flag,                   \* flags/mount.sh
  accepted, consented,    \* answered Y in this pass, ever
  offered,                \* disks the operator was ever asked about
  reboots, kills

machine == <<kind, root, firmware>>
loop == <<todo, drive, index, names, partition, uuid>>
disks == <<table, fs, nextUuid, fstab>>
answers == <<accepted, consented, offered>>
bounds == <<reboots, kills>>
vars == <<machine, pc, loop, disks, mounted, flag, answers, bounds>>

\* File systems: none, one from before the installer, or the UUID of a new one.
Blank == 0
Old == -1

\* The stages of _format, the loop body for a disk that was accepted.
Formatting == pc \in {"label", "partition", "mkfs", "blkid", "fstab"}

TypeOK ==
  /\ kind \in [Drives -> Kinds] /\ root \in Drives /\ firmware \in Firmware
  /\ pc \in {"idle", "next", "prompt", "label", "partition", "mkfs", "blkid", "fstab", "flag"}
  /\ todo \subseteq Drives /\ drive \in (Drives \cup {None}) \ todo
  /\ pc = "prompt" \/ Formatting => drive # None
  /\ index \in [Series -> Int]
  /\ DOMAIN names \subseteq Drives
  /\ partition \in Drives \cup {None}
  /\ table \in [Drives -> {"old", "empty", "one"}]
  /\ fs \in [Drives -> Int] /\ nextUuid \in Nat /\ uuid \in Int
  /\ fstab \subseteq Int
  /\ mounted \subseteq Drives /\ flag \in BOOLEAN
  /\ accepted \subseteq Drives /\ consented \subseteq Drives /\ offered \subseteq Drives
  /\ reboots \in Nat /\ kills \in Nat

Init ==
  /\ kind \in [Drives -> Kinds] /\ root \in Drives /\ firmware \in Firmware
  /\ pc = "idle" /\ todo = {} /\ drive = None
  /\ index = [c \in Series |-> Bare] /\ names = << >>
  /\ partition = None /\ uuid = Blank
  /\ table = [d \in Drives |-> "old"]
  /\ fs \in [Drives -> {Old, Blank}] /\ fs[root] = Old
  /\ nextUuid = 1 /\ fstab = {} /\ mounted = {} /\ flag = FALSE
  /\ accepted = {} /\ consented = {} /\ offered = {}
  /\ reboots = 0 /\ kills = 0
-----------------------------------------------------------------------------
(***************************************************************************)
(* The disk that holds /boot/efi is taken out; only UEFI mounts one.       *)
(***************************************************************************)
Candidates == IF firmware = "uefi" THEN Drives \ {root} ELSE Drives

\* Which counter counts a kind before the loop, and which one numbers it in the
\* loop.  HighPoint sd disks are counted as s and numbered as r; hpt disks are
\* counted as hp and numbered as n.
Counted(c) == CASE c = "s" -> {"ssd", "hptsd"} [] c = "h" -> {"hdd"}
                [] c = "r" -> {"avago"} [] c = "n" -> {"nvme"}

\* Mutant of Numbers: an array seen as sd is numbered as it is counted.
NumbersAsCounted(k) ==
  CASE k \in {"ssd", "hptsd"} -> "s" [] k = "hdd" -> "h" [] k \in {"nvme", "hpt"} -> "n"
    [] k = "avago" -> "r"

Numbers(k) == CASE k = "ssd" -> "s" [] k = "hdd" -> "h" [] k \in {"nvme", "hpt"} -> "n"
                [] k \in {"avago", "hptsd"} -> "r"
Label(k) == IF k \in {"avago", "hptsd", "hpt"} THEN "raid" ELSE k

\* Two or more are numbered from 0; a single one carries no number.
FirstIndex(n) == IF n > 1 THEN 0 ELSE Bare
Increment(i) == IF i = Bare THEN 1 ELSE i + 1

Begin ==
  /\ pc = "idle" /\ ~flag
  /\ todo' = Candidates
  /\ index' = [c \in Series |->
                 FirstIndex(Cardinality({d \in Candidates : kind[d] \in Counted(c)}))]
  /\ pc' = IF todo' = {} THEN "flag" ELSE "next"
  /\ names' = << >> /\ drive' = None /\ partition' = None /\ uuid' = Blank
  /\ accepted' = {}
  /\ UNCHANGED <<machine, disks, mounted, flag, consented, offered, bounds>>

\* $drive"1" is not the name of an hpt partition, which is $drive"p1".
FirstPartition(d) == IF kind[d] = "hpt" THEN None ELSE d

Take(d) == todo' = todo \ {d}

\* The three case statements: a name none of them knows leaves $drivemount and
\* $partition as the disk before left them.
NextDrive ==
  /\ pc = "next"
  /\ \E d \in todo :
       /\ Take(d) /\ drive' = d /\ offered' = offered \cup {d}
       /\ \/ /\ kind[d] \in KnownKinds
             /\ LET c == Numbers(kind[d])
                IN  /\ names' = [e \in DOMAIN names \cup {d} |->
                                   IF e = d THEN <<Label(kind[d]), index[c]>> ELSE names[e]]
                    /\ index' = [index EXCEPT ![c] = Increment(@)]
             /\ partition' = FirstPartition(d)
          \/ kind[d] \notin KnownKinds /\ UNCHANGED <<names, index, partition>>
  /\ pc' = "prompt"
  /\ UNCHANGED <<machine, uuid, disks, mounted, flag, accepted, consented, bounds>>

Onward == pc' = IF todo = {} THEN "flag" ELSE "next"

\* Mutant of AnswerNo: falls through to the formatting.
AnswerNoFormats ==
  /\ pc = "prompt" /\ pc' = "label"
  /\ UNCHANGED <<machine, loop, disks, mounted, flag, answers, bounds>>

AnswerNo ==
  /\ pc = "prompt" /\ Onward
  /\ UNCHANGED <<machine, loop, disks, mounted, flag, answers, bounds>>

InFstab(d) == table[d] = "one" /\ fs[d] \in fstab

\* Y, and a mount point from _mount, which does not touch the disks.
AnswerYes ==
  /\ pc = "prompt" /\ (Careful => ~InFstab(drive))
  /\ accepted' = accepted \cup {drive} /\ consented' = consented \cup {drive}
  /\ pc' = "label"
  /\ UNCHANGED <<machine, loop, disks, mounted, flag, offered, bounds>>
-----------------------------------------------------------------------------
(***************************************************************************)
(* _format, one command a step: the label and the partition go to $drive,  *)
(* the file system to $partition.  Nothing is checked.                     *)
(***************************************************************************)
MakeLabel ==
  /\ pc = "label" /\ pc' = "partition"
  /\ table' = [table EXCEPT ![drive] = "empty"]
  /\ UNCHANGED <<machine, loop, fs, nextUuid, fstab, mounted, flag, answers, bounds>>

MakePartition ==
  /\ pc = "partition" /\ pc' = "mkfs"
  /\ table' = [table EXCEPT ![drive] = "one"]
  /\ UNCHANGED <<machine, loop, fs, nextUuid, fstab, mounted, flag, answers, bounds>>

\* A partition exists on a disk this script partitioned and on one that came
\* with a file system.
HasPartition(d) == d # None /\ (table[d] = "one" \/ (table[d] = "old" /\ fs[d] = Old))

\* mkfs refuses a mounted partition; echo y confirms everything else.
MakeFs ==
  /\ pc = "mkfs" /\ pc' = "blkid"
  /\ IF HasPartition(partition) /\ partition \notin mounted
     THEN /\ fs' = [fs EXCEPT ![partition] = nextUuid]
          /\ nextUuid' = nextUuid + 1
     ELSE UNCHANGED <<fs, nextUuid>>
  /\ UNCHANGED <<machine, loop, table, fstab, mounted, flag, answers, bounds>>

\* Mutant of ReadUuid: blkid asks for the disk instead of the partition.
ReadUuidOfDisk ==
  /\ pc = "blkid" /\ pc' = "fstab"
  /\ uuid' = Blank
  /\ UNCHANGED <<machine, todo, drive, index, names, partition, disks, mounted, flag,
                 answers, bounds>>

ReadUuid ==
  /\ pc = "blkid" /\ pc' = "fstab"
  /\ uuid' = IF HasPartition(partition) THEN fs[partition] ELSE Blank
  /\ UNCHANGED <<machine, todo, drive, index, names, partition, disks, mounted, flag,
                 answers, bounds>>

\* Mutant of AddFstab: tee without -a.
AddFstabOver ==
  /\ pc = "fstab" /\ Onward
  /\ fstab' = {uuid}
  /\ UNCHANGED <<machine, loop, table, fs, nextUuid, mounted, flag, answers, bounds>>

AddFstab ==
  /\ pc = "fstab" /\ Onward
  /\ fstab' = fstab \cup {uuid}
  /\ UNCHANGED <<machine, loop, table, fs, nextUuid, mounted, flag, answers, bounds>>

WriteFlag ==
  /\ pc = "flag" /\ pc' = "idle"
  /\ flag' = TRUE
  /\ UNCHANGED <<machine, loop, disks, mounted, answers, bounds>>
-----------------------------------------------------------------------------
\* The machine goes down at any point; the boot mounts what fstab can resolve.
Reboot ==
  /\ reboots < MaxReboots /\ reboots' = reboots + 1
  /\ pc' = "idle"
  /\ mounted' = {d \in Drives : InFstab(d)}
  /\ UNCHANGED <<machine, loop, disks, flag, answers, kills>>

\* The terminal is closed and the script started again within the same boot.
Kill ==
  /\ pc # "idle" /\ kills < MaxKills /\ kills' = kills + 1
  /\ pc' = "idle"
  /\ UNCHANGED <<machine, loop, disks, mounted, flag, answers, reboots>>

Next ==
  \/ Begin \/ NextDrive \/ AnswerNo \/ AnswerYes
  \/ MakeLabel \/ MakePartition \/ MakeFs \/ ReadUuid \/ AddFstab \/ WriteFlag
  \/ Reboot \/ Kill

Spec == Init /\ [][Next]_vars
-----------------------------------------------------------------------------
\* A disk the operator was not asked about, or refused every time, is as it was:
\* same partition table, same file system.
ConsentedOnly ==
  \A d \in Drives \ consented : table[d] = "old" /\ fs[d] \in {Old, Blank}

\* "Make sure root drive is removed from array" (mount.sh:17): the disk with the
\* running system is never offered.  It is, where nothing is mounted at /boot/efi.
RootSafe == root \notin offered

\* At rest, and so at every boot, each fstab line names a file system that is
\* there: a line without nofail that does not resolve stops the boot.
FstabResolves == pc = "idle" => \A u \in fstab : \E d \in Drives : table[d] = "one" /\ fs[d] = u

\* No two disks of a pass are given the same default mount point.
DistinctDefaults ==
  \A d, e \in DOMAIN names : names[d] = names[e] => d = e

\* Once the flag says that the drives are done, every disk accepted in the last
\* pass is formatted and in fstab.
FlagMeansDone == flag => \A d \in accepted : InFstab(d)
=============================================================================
