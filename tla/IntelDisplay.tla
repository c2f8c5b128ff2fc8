---------------------------- MODULE IntelDisplay ----------------------------
(***************************************************************************)
(* scripts/intel_display.sh: the graphics drivers of a NUC13SB, built in   *)
(* two steps around the reboot into kernel 5.17.  Every login starts the   *)
(* script once for each launch line in /etc/profile.d/intel_display.sh,    *)
(* each in a terminal of its own; `sudo reboot' returns at once, and the   *)
(* script goes on until it is killed.  The power may fail at any step.     *)
(*                                                                         *)
(* The packages are modelled by what the script expects of apt and DKMS:   *)
(* the drivers are built for every kernel whose headers are there.         *)
(***************************************************************************)
EXTENDS Integers, FiniteSets

CONSTANTS
  MaxTerminals, \* launch lines that a login obeys
  MaxAfter,     \* steps of the script between reboot and its end
  MaxCrashes    \* power failures

\* Seven steps lead from the reboot of the first step to the end of the second.
ASSUME IntelAssumption ==
  MaxTerminals \in Nat \ {0} /\ MaxAfter \in 0 .. 6 /\ MaxCrashes \in Nat

Kernels == {"installed", "oem"}
Terminals == 1 .. MaxTerminals
Steps == {"none", "start", "kernel", "arm", "mark", "reboot", "second",
          "headers", "drivers", "unmark", "disarm", "master", "finish", "reboot again"}

VARIABLES
  nuc,          \* a NUC13SB with a desktop
  newer,        \* 5.17 is newer than the kernel that came with the system
  images,       \* kernels that are installed
  running,      \* the one that runs
  headers, dkms,\* kernels whose headers are installed; the driver packages are
  intel_flag, done,   \* ~/install/flags/intel_flag and .../intel_display.sh
  launches,     \* launch lines in profile.d/intel_display.sh
  masters,      \* profile.d/master.sh starts master.sh
  pc,           \* the step each terminal is at
  rebooting, after,   \* a reboot is under way; the steps since
  crashes,
  due, late     \* history: the step the flag led to at the login; whether a
                \* terminal read it after another had changed it, and went on

machine == <<nuc, newer>>
packages == <<images, running, headers, dkms>>
files == <<intel_flag, done, launches, masters>>
history == <<due, late>>
vars == <<machine, packages, files, pc, rebooting, after, crashes, history>>

\* The boot loader takes the newest kernel.
Boots == IF "oem" \in images /\ newer THEN "oem" ELSE "installed"

TypeOK ==
  /\ nuc \in BOOLEAN /\ newer \in BOOLEAN
  /\ "installed" \in images /\ images \subseteq Kernels /\ running \in images
  /\ headers \subseteq Kernels /\ dkms \in BOOLEAN
  /\ intel_flag \in BOOLEAN /\ done \in BOOLEAN /\ masters \in BOOLEAN
  /\ launches \in 0 .. MaxTerminals
  /\ pc \in [Terminals -> Steps]
  /\ rebooting \in BOOLEAN /\ after \in 0 .. MaxAfter
  /\ crashes \in 0 .. MaxCrashes
  /\ due \in {"kernel", "second"} /\ late \in BOOLEAN

Init ==
  /\ nuc \in BOOLEAN /\ newer \in BOOLEAN
  /\ images = {"installed"} /\ running = "installed"
  /\ headers = {} /\ dkms = FALSE
  /\ intel_flag = FALSE /\ done = FALSE /\ launches = 0 /\ masters = FALSE
  /\ pc = [t \in Terminals |-> IF t = 1 THEN "start" ELSE "none"]
  /\ rebooting = FALSE /\ after = 0
  /\ crashes = 0
  /\ due = "kernel" /\ late = FALSE

-----------------------------------------------------------------------------
\* A terminal makes a step, as long as a reboot lets it.
Step(t, from, to) ==
  /\ pc[t] = from
  /\ after < MaxAfter \/ ~rebooting
  /\ pc' = [pc EXCEPT ![t] = to]
  /\ after' = IF rebooting THEN after + 1 ELSE 0
  /\ UNCHANGED <<machine, running, crashes, due>>

Led == IF intel_flag THEN "second" ELSE "kernel"

\* Who reads the flag now is led elsewhere than the login was.
Misled == Led # due /\ nuc /\ ~done /\ ~rebooting

\* Lines 9-26: nothing to do, or not for this machine; else one of the steps.
\* Before them line 7 asks sudo for the board, and a terminal may wait at the
\* password prompt while another one works.
Start(t) ==
  /\ Step(t, "start", IF done \/ ~nuc THEN "none" ELSE Led)
  /\ done' = (done \/ ~nuc)
  /\ late' = (late \/ Misled)
  /\ UNCHANGED <<images, headers, dkms, intel_flag, launches, masters, rebooting>>

InstallKernel(t) ==
  /\ Step(t, "kernel", "arm")
  /\ images' = images \cup {"oem"}
  /\ UNCHANGED <<headers, dkms, files, rebooting, late>>

\* tee -a appends.
Arm(t) ==
  /\ Step(t, "arm", "mark")
  /\ launches' = IF launches < MaxTerminals THEN launches + 1 ELSE launches
  /\ UNCHANGED <<images, headers, dkms, intel_flag, done, masters, rebooting, late>>

\* Mutant of Mark: the flag of the first step is not set.
MarkNot(t) ==
  /\ Step(t, "mark", "reboot")
  /\ UNCHANGED <<images, headers, dkms, files, rebooting, late>>

Mark(t) ==
  /\ Step(t, "mark", "reboot")
  /\ intel_flag' = TRUE
  /\ UNCHANGED <<images, headers, dkms, done, launches, masters, rebooting, late>>

\* Either reboot; after the first the script runs on into its second step.
Reboot(t) ==
  /\ \/ Step(t, "reboot", "second")
     \/ Step(t, "reboot again", "none")
  /\ rebooting' = TRUE
  /\ UNCHANGED <<images, headers, dkms, files, late>>

Second(t) ==
  /\ Step(t, "second", IF intel_flag THEN "headers" ELSE "none")
  /\ UNCHANGED <<images, headers, dkms, files, rebooting, late>>

\* Mutant of InstallHeaders: the headers of 5.17, whichever kernel runs.
InstallHeadersOem(t) ==
  /\ Step(t, "headers", "drivers")
  /\ headers' = headers \cup {"oem"}
  /\ UNCHANGED <<images, dkms, files, rebooting, late>>

InstallHeaders(t) ==
  /\ Step(t, "headers", "drivers")
  /\ headers' = headers \cup {running}
  /\ UNCHANGED <<images, dkms, files, rebooting, late>>

InstallDrivers(t) ==
  /\ Step(t, "drivers", "unmark")
  /\ dkms' = TRUE
  /\ UNCHANGED <<images, headers, files, rebooting, late>>

Unmark(t) ==
  /\ Step(t, "unmark", "disarm")
  /\ intel_flag' = FALSE
  /\ UNCHANGED <<images, headers, dkms, done, launches, masters, rebooting, late>>

\* Mutant of Disarm: one launch line is deleted.
DisarmOne(t) ==
  /\ Step(t, "disarm", "master")
  /\ launches' = IF launches > 0 THEN launches - 1 ELSE 0
  /\ UNCHANGED <<images, headers, dkms, intel_flag, done, masters, rebooting, late>>

\* Lines 81-82: what is left of the profile.d script is a sleep.
Disarm(t) ==
  /\ Step(t, "disarm", "master")
  /\ launches' = 0
  /\ UNCHANGED <<images, headers, dkms, intel_flag, done, masters, rebooting, late>>

ArmMaster(t) ==
  /\ Step(t, "master", "finish")
  /\ masters' = TRUE
  /\ UNCHANGED <<images, headers, dkms, intel_flag, done, launches, rebooting, late>>

Finish(t) ==
  /\ Step(t, "finish", "reboot again")
  /\ done' = TRUE
  /\ UNCHANGED <<images, headers, dkms, intel_flag, launches, masters, rebooting, late>>

Script(t) ==
  \/ Start(t) \/ InstallKernel(t) \/ Arm(t) \/ Mark(t) \/ Reboot(t)
  \/ Second(t) \/ InstallHeaders(t) \/ InstallDrivers(t) \/ Unmark(t)
  \/ Disarm(t) \/ ArmMaster(t) \/ Finish(t)

-----------------------------------------------------------------------------
\* The machine comes up and somebody logs in.
Login ==
  /\ running' = Boots
  /\ pc' = [t \in Terminals |-> IF t <= launches THEN "start" ELSE "none"]
  /\ rebooting' = FALSE /\ after' = 0
  /\ due' = Led
  /\ UNCHANGED <<machine, images, headers, dkms, files, late>>

Boot == rebooting /\ Login /\ UNCHANGED crashes

PowerFailure ==
  /\ crashes < MaxCrashes
  /\ crashes' = crashes + 1
  /\ Login

\* When nothing goes on the operator starts the script by hand.
StartByHand ==
  /\ ~done /\ ~rebooting /\ \A t \in Terminals : pc[t] = "none"
  /\ pc' = [pc EXCEPT ![1] = "start"]
  /\ due' = Led
  /\ UNCHANGED <<machine, packages, files, rebooting, after, crashes, late>>

Next == (\E t \in Terminals : Script(t)) \/ Boot \/ PowerFailure \/ StartByHand

\* A terminal goes on, a reboot comes and somebody logs in, and an operator
\* who finds the installation unfinished starts it.
Fairness ==
  /\ \A t \in Terminals : WF_vars(Script(t))
  /\ WF_vars(Boot) /\ WF_vars(StartByHand)

Spec == Init /\ [][Next]_vars /\ Fairness

-----------------------------------------------------------------------------
(***************************************************************************)
(* The flag that ends the workflow (intel_display.sh:84) means what it     *)
(* says, whatever was interrupted and however many terminals worked at it: *)
(* the drivers are built for the kernel that boots, and the next login     *)
(* goes on with master.sh.  A terminal that waited at its password prompt  *)
(* until another had set or removed intel_flag is the exception: it can    *)
(* run the second step on the kernel of the first.                         *)
(***************************************************************************)
FlagMeansReady ==
  done /\ nuc /\ ~late => dkms /\ Boots \in headers /\ masters

(***************************************************************************)
(* A finished workflow leaves no launch line behind, not even those that   *)
(* an interrupted first step has put there twice (intel_display.sh:43,     *)
(* 81): no terminal opens at the logins of the customer.  A terminal that  *)
(* reads intel_flag late can put a line there again.                       *)
(***************************************************************************)
NoReturn == done /\ ~late => launches = 0

(***************************************************************************)
(* The same of every terminal, late ones too.  It does not hold.           *)
(***************************************************************************)
ReadyAnyway ==
  done /\ nuc => dkms /\ Boots \in headers /\ masters /\ launches = 0

(***************************************************************************)
(* Started again by hand where a power failure has left nobody to go on    *)
(* (between lines 81 and 83 no launch line is left at all), the workflow   *)
(* ends, unless in login after login a terminal reads the flag late.       *)
(***************************************************************************)
ReadsLate == Misled /\ \E t \in Terminals : Start(t)

Completes == <>done \/ []<><<ReadsLate>>_vars
=============================================================================
