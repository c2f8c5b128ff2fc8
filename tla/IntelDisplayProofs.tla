------------------------- MODULE IntelDisplayProofs -------------------------
(***************************************************************************)
(* What the end of the Intel display workflow is worth, for any number of  *)
(* terminals and power failures, as long as no terminal has been led       *)
(* elsewhere than its login was (late).  The terminals of one login are    *)
(* then all in the step that was due; and a script that runs on after the  *)
(* first step's reboot is killed before it can end the second.             *)
(***************************************************************************)
EXTENDS IntelDisplay, TLAPS

First == {"kernel", "arm", "mark", "reboot"}
Later == {"second", "headers", "drivers", "unmark", "disarm", "master", "finish",
          "reboot again"}

\* The steps that lead from a reboot to a step of the second part.
Rank(step) ==
  CASE step = "headers" -> 1 [] step = "drivers" -> 2 [] step = "unmark" -> 3
    [] step = "disarm" -> 4 [] step = "master" -> 5 [] step = "finish" -> 6
    [] step = "reboot again" -> 7 [] OTHER -> 0

\* Before a reboot is asked for, the part that was due is at work, and the kernel that runs is
\* the one that boots unless the first part has installed another.
OnePart ==
  ~rebooting =>
    /\ due = "kernel" => \A t \in Terminals : pc[t] \notin Later
    /\ due = "second" => \A t \in Terminals : pc[t] \notin First
    /\ running = Boots \/ \E t \in Terminals : pc[t] \in {"arm", "mark", "reboot"}

\* What lies behind a terminal of the second part.
Behind ==
  ~rebooting =>
    \A t \in Terminals :
      /\ pc[t] \in {"drivers", "unmark", "disarm", "master", "finish", "reboot again"} =>
           running \in headers
      /\ pc[t] \in {"unmark", "disarm", "master", "finish", "reboot again"} => dkms
      /\ pc[t] \in {"master", "finish", "reboot again"} => launches = 0
      /\ pc[t] \in {"finish", "reboot again"} => masters
      /\ pc[t] = "reboot again" => done

\* A script that runs on after the first reboot has not come far.
RunsOn ==
  rebooting /\ ~done => \A t \in Terminals : pc[t] \in Later => Rank(pc[t]) <= after

Ended ==
  done => /\ dkms /\ Boots \in headers /\ masters /\ launches = 0
          /\ \A t \in Terminals : pc[t] \notin First

IntelInv ==
  /\ TypeOK
  /\ nuc /\ ~late => OnePart /\ Behind /\ RunsOn /\ Ended
  /\ ~nuc => launches = 0 /\ \A t \in Terminals : pc[t] \in {"none", "start"}

-----------------------------------------------------------------------------
\* What every step of a terminal has in common.
LEMMA StepFrame ==
  ASSUME TypeOK, NEW t \in Terminals, NEW from \in Steps, NEW to \in Steps, Step(t, from, to)
  PROVE  /\ pc' \in [Terminals -> Steps] /\ after' \in 0 .. MaxAfter
         /\ pc[t] = from /\ pc'[t] = to
         /\ \A u \in Terminals \ {t} : pc'[u] = pc[u]
         /\ rebooting => after < MaxAfter /\ after' = after + 1
         /\ UNCHANGED <<nuc, newer, running, crashes, due>>
  <1>1. /\ pc \in [Terminals -> Steps] /\ after \in 0 .. MaxAfter /\ MaxAfter \in 0 .. 6
        /\ rebooting \in BOOLEAN
    BY IntelAssumption DEF TypeOK
  <1>2. pc' = [pc EXCEPT ![t] = to] /\ pc[t] = from
    BY DEF Step
  <1>3. UNCHANGED <<nuc, newer, running, crashes, due>>
    BY DEF Step, machine
  <1>4. rebooting => after < MaxAfter /\ after' = after + 1
    BY DEF Step
  <1>5. after' \in 0 .. MaxAfter
    <2>1. ~rebooting => after' = 0
      BY DEF Step
    <2>2. QED
      BY <1>1, <1>4, <2>1
  <1>6. QED
    BY <1>1, <1>2, <1>3, <1>4, <1>5

LEMMA ScriptType ==
  ASSUME TypeOK, NEW t \in Terminals, Script(t)
  PROVE  TypeOK'
  <1>0. /\ nuc \in BOOLEAN /\ newer \in BOOLEAN /\ images \subseteq Kernels /\ running \in images
        /\ "installed" \in images /\ headers \subseteq Kernels
        /\ launches \in 0 .. MaxTerminals /\ crashes \in 0 .. MaxCrashes
        /\ MaxTerminals \in Nat \ {0}
    BY IntelAssumption DEF TypeOK
  <1>1. /\ dkms \in BOOLEAN /\ intel_flag \in BOOLEAN /\ done \in BOOLEAN
        /\ masters \in BOOLEAN /\ rebooting \in BOOLEAN
    BY DEF TypeOK
  <1>2. PICK from \in Steps, to \in Steps : Step(t, from, to)
    BY DEF Script, Led, Steps, Start, InstallKernel, Arm, Mark, Reboot, Second, InstallHeaders,
           InstallDrivers, Unmark, Disarm, ArmMaster, Finish
  <1>3. /\ pc' \in [Terminals -> Steps] /\ after' \in 0 .. MaxAfter
        /\ UNCHANGED <<nuc, newer, running, crashes, due>>
    BY <1>2, StepFrame
  <1>4. "installed" \in images' /\ images' \subseteq Kernels /\ running' \in images' /\ headers' \subseteq Kernels
    BY <1>0, <1>3 DEF Script, Start, InstallKernel, Arm, Mark, Reboot, Second, InstallHeaders,
           InstallDrivers, Unmark, Disarm, ArmMaster, Finish, files, Kernels
  <1>5. launches' \in 0 .. MaxTerminals
    <2>1. \/ launches' = launches \/ launches' = 0
          \/ launches < MaxTerminals /\ launches' = launches + 1
      BY DEF Script, Start, InstallKernel, Arm, Mark, Reboot, Second, InstallHeaders,
             InstallDrivers, Unmark, Disarm, ArmMaster, Finish, files
    <2>2. QED
      BY <1>0, <2>1
  <1>6. dkms' \in BOOLEAN /\ rebooting' \in BOOLEAN
    BY <1>1, Zenon DEF Script, Start, InstallKernel, Arm, Mark, Reboot, Second, InstallHeaders,
           InstallDrivers, Unmark, Disarm, ArmMaster, Finish, files
  <1>7. intel_flag' \in BOOLEAN /\ masters' \in BOOLEAN
    BY <1>1, Zenon DEF Script, Start, InstallKernel, Arm, Mark, Reboot, Second, InstallHeaders,
           InstallDrivers, Unmark, Disarm, ArmMaster, Finish, files
  <1>8. done' \in BOOLEAN
    BY <1>1, Zenon DEF Script, Start, InstallKernel, Arm, Mark, Reboot, Second, InstallHeaders,
           InstallDrivers, Unmark, Disarm, ArmMaster, Finish, files
  <1>9. late' \in BOOLEAN
    <2>1. CASE Start(t)
      BY <2>1, Zenon DEF Start, Misled
    <2>2. CASE ~Start(t)
      <3>1. late' = late
        BY <2>2 DEF Script, Start, InstallKernel, Arm, Mark, Reboot, Second, InstallHeaders,
               InstallDrivers, Unmark, Disarm, ArmMaster, Finish
      <3>2. QED
        BY <3>1 DEF TypeOK
    <2>3. QED
      BY <2>1, <2>2
  <1>10. due' \in {"kernel", "second"}
    BY <1>3 DEF TypeOK
  <1>11. QED
    BY <1>0, <1>3, <1>4, <1>5, <1>6, <1>7, <1>8, <1>9, <1>10 DEF TypeOK

LEMMA EnvironmentType ==
  ASSUME TypeOK, Boot \/ PowerFailure \/ StartByHand
  PROVE  TypeOK'
  <1>1. CASE Boot \/ PowerFailure
    <2>1. Login
      BY <1>1 DEF Boot, PowerFailure
    <2>2. pc' \in [Terminals -> Steps]
      BY <2>1 DEF Login, Steps
    <2>3. running' \in images'
      <3>1. "installed" \in images
        BY DEF TypeOK
      <3>2. QED
        BY <2>1, <3>1 DEF Login, Boots
    <2>4. rebooting' = FALSE /\ after' = 0
      BY <2>1 DEF Login
    <2>5. after' \in 0 .. MaxAfter
      BY <2>4, IntelAssumption
    <2>6. crashes' \in 0 .. MaxCrashes
      BY <1>1, IntelAssumption DEF Boot, PowerFailure, TypeOK
    <2>7. UNCHANGED <<nuc, newer, images, headers, dkms, intel_flag, done, launches, masters, late>>
      BY <2>1 DEF Login, machine, files
    <2>8. due' \in {"kernel", "second"}
      BY <2>1 DEF Login, Led
    <2>9. QED
      BY <2>2, <2>3, <2>4, <2>5, <2>6, <2>7, <2>8 DEF TypeOK
  <1>2. CASE StartByHand
    <2>1. pc' \in [Terminals -> Steps]
      BY <1>2 DEF StartByHand, Steps, TypeOK
    <2>2. UNCHANGED <<machine, packages, files, rebooting, after, crashes, late>>
      BY <1>2 DEF StartByHand
    <2>3. due' \in {"kernel", "second"}
      BY <1>2 DEF StartByHand, Led
    <2>4. QED
      BY <2>1, <2>2, <2>3 DEF TypeOK, machine, packages, files
  <1>3. QED
    BY <1>1, <1>2

\* On another machine the script ends at once.
LEMMA OtherMachine ==
  ASSUME IntelInv, ~nuc, Next
  PROVE  launches' = 0 /\ \A t \in Terminals : pc'[t] \in {"none", "start"}
  <1>0. TypeOK /\ launches = 0 /\ \A t \in Terminals : pc[t] \in {"none", "start"}
    BY DEF IntelInv
  <1>1. ASSUME NEW t \in Terminals, Script(t)
        PROVE  launches' = 0 /\ \A u \in Terminals : pc'[u] \in {"none", "start"}
    <2>1. Start(t)
      BY <1>0, <1>1 DEF Script, Step, InstallKernel, Arm, Mark, Reboot, Second, InstallHeaders,
             InstallDrivers, Unmark, Disarm, ArmMaster, Finish
    <2>2. Step(t, "start", "none") /\ launches' = launches
      BY <2>1 DEF Start
    <2>3. QED
      BY <1>0, <2>2, StepFrame DEF Steps
  <1>2. CASE Boot \/ PowerFailure
    BY <1>0, <1>2 DEF Boot, PowerFailure, Login, files
  <1>3. CASE StartByHand
    BY <1>0, <1>3 DEF StartByHand, files, TypeOK
  <1>4. QED
    BY <1>1, <1>2, <1>3 DEF Next

Parts == OnePart /\ Behind /\ RunsOn /\ Ended

\* A login finds every terminal at its start, in the kernel that boots.
LEMMA LoginParts ==
  ASSUME TypeOK, Parts, Login
  PROVE  Parts'
  <1>1. /\ \A t \in Terminals : pc'[t] \in {"none", "start"}
        /\ rebooting' = FALSE
    BY DEF Login
  <1>2. /\ UNCHANGED <<newer, images, headers, dkms, intel_flag, done, launches, masters>>
        /\ running' = Boots
    BY DEF Login, machine, files
  <1>3. Boots' = Boots
    BY <1>2 DEF Boots
  <1>4. OnePart' /\ RunsOn' /\ Behind'
    BY <1>1, <1>2, <1>3 DEF OnePart, RunsOn, Behind, First, Later
  <1>5. Ended'
    BY <1>1, <1>2, <1>3 DEF Parts, Ended, First
  <1>6. QED
    BY <1>4, <1>5 DEF Parts

LEMMA HandParts ==
  ASSUME TypeOK, Parts, StartByHand
  PROVE  Parts'
  <1>1. /\ \A t \in Terminals : pc[t] = "none"
        /\ ~rebooting /\ ~done
    BY DEF StartByHand
  <1>2. \A t \in Terminals : pc'[t] \in {"none", "start"}
    BY <1>1 DEF StartByHand, TypeOK
  <1>3. UNCHANGED <<newer, images, headers, dkms, intel_flag, done, launches, masters,
                    running, rebooting>>
    BY DEF StartByHand, machine, packages, files
  <1>4. Boots' = Boots /\ running = Boots
    BY <1>1, <1>3 DEF Boots, Parts, OnePart
  <1>5. OnePart' /\ RunsOn' /\ Behind' /\ Ended'
    BY <1>1, <1>2, <1>3, <1>4 DEF OnePart, RunsOn, Behind, Ended, First, Later
  <1>6. QED
    BY <1>5 DEF Parts

\* The order of the commands.
Flow ==
  {<<"start", "none">>, <<"start", "kernel">>, <<"start", "second">>, <<"kernel", "arm">>,
   <<"arm", "mark">>, <<"mark", "reboot">>, <<"reboot", "second">>, <<"second", "headers">>,
   <<"second", "none">>, <<"headers", "drivers">>, <<"drivers", "unmark">>,
   <<"unmark", "disarm">>, <<"disarm", "master">>, <<"master", "finish">>,
   <<"finish", "reboot again">>, <<"reboot again", "none">>}

\* What a step does, by the command the terminal is at.
LEMMA Moves ==
  ASSUME TypeOK, nuc, NEW t \in Terminals, Script(t)
  PROVE  /\ <<pc[t], pc'[t]>> \in Flow
         /\ \A u \in Terminals \ {t} : pc'[u] = pc[u]
         /\ rebooting => after < MaxAfter /\ after' = after + 1
         /\ UNCHANGED <<nuc, newer, running, due>>
  <1>1. CASE Start(t)
    BY <1>1, StepFrame DEF Start, Led, Flow, Steps
  <1>2. CASE InstallKernel(t) \/ Arm(t) \/ Mark(t) \/ InstallHeaders(t) \/ InstallDrivers(t)
    BY <1>2, StepFrame DEF InstallKernel, Arm, Mark, InstallHeaders, InstallDrivers, Flow, Steps
  <1>3. CASE Reboot(t)
    BY <1>3, StepFrame DEF Reboot, Flow, Steps
  <1>4. CASE Second(t)
    BY <1>4, StepFrame DEF Second, Flow, Steps
  <1>5. CASE Unmark(t) \/ Disarm(t) \/ ArmMaster(t) \/ Finish(t)
    BY <1>5, StepFrame DEF Unmark, Disarm, ArmMaster, Finish, Flow, Steps
  <1>6. QED
    BY <1>1, <1>2, <1>3, <1>4, <1>5 DEF Script

LEMMA Writes ==
  ASSUME TypeOK, nuc, NEW t \in Terminals, Script(t)
  PROVE  /\ pc[t] # "kernel" => images' = images
         /\ pc[t] \notin {"arm", "disarm"} => launches' = launches
         /\ pc[t] = "disarm" => launches' = 0
         /\ headers \subseteq headers' /\ (pc[t] = "headers" => running \in headers')
  BY Zenon DEF Script, Step, Start, InstallKernel, Arm, Mark, Reboot, Second, InstallHeaders,
     InstallDrivers, Unmark, Disarm, ArmMaster, Finish, files

LEMMA Flags ==
  ASSUME TypeOK, nuc, NEW t \in Terminals, Script(t)
  PROVE  /\ pc[t] \notin {"mark", "unmark"} => intel_flag' = intel_flag
         /\ (dkms => dkms') /\ (pc[t] = "drivers" => dkms')
         /\ (masters => masters') /\ (pc[t] = "master" => masters')
         /\ (pc[t] = "finish" => done') /\ (pc[t] # "finish" => done' = done)
         /\ pc[t] \notin {"reboot", "reboot again"} => rebooting' = rebooting
         /\ pc[t] \in {"reboot", "reboot again"} => rebooting'
  <1>1. pc[t] \notin {"mark", "unmark"} => intel_flag' = intel_flag
    BY Zenon DEF Script, Step, Start, InstallKernel, Arm, Mark, Reboot, Second, InstallHeaders,
         InstallDrivers, Unmark, Disarm, ArmMaster, Finish, files
  <1>2. (dkms => dkms') /\ (pc[t] = "drivers" => dkms')
    <2>1. dkms' = dkms \/ dkms' = TRUE
      BY Zenon DEF Script, Step, Start, InstallKernel, Arm, Mark, Reboot, Second, InstallHeaders,
           InstallDrivers, Unmark, Disarm, ArmMaster, Finish, files
    <2>2. pc[t] = "drivers" => dkms' = TRUE
      BY Zenon DEF Script, Step, Start, InstallKernel, Arm, Mark, Reboot, Second, InstallHeaders,
           InstallDrivers, Unmark, Disarm, ArmMaster, Finish, files
    <2>3. QED
      BY <2>1, <2>2
  <1>3. (masters => masters') /\ (pc[t] = "master" => masters')
    <2>1. masters' = masters \/ masters' = TRUE
      BY Zenon DEF Script, Step, Start, InstallKernel, Arm, Mark, Reboot, Second, InstallHeaders,
           InstallDrivers, Unmark, Disarm, ArmMaster, Finish, files
    <2>2. pc[t] = "master" => masters' = TRUE
      BY Zenon DEF Script, Step, Start, InstallKernel, Arm, Mark, Reboot, Second, InstallHeaders,
           InstallDrivers, Unmark, Disarm, ArmMaster, Finish, files
    <2>3. QED
      BY <2>1, <2>2
  <1>4. (pc[t] = "finish" => done') /\ (pc[t] # "finish" => done' = done)
    <2>1. CASE Start(t)
      <3>1. done \in BOOLEAN /\ done' = (done \/ ~nuc) /\ pc[t] = "start"
        BY <2>1 DEF TypeOK, Start, Step
      <3>2. QED
        BY <3>1
    <2>2. CASE ~Start(t)
      BY <2>2, Zenon DEF Script, Step, Start, InstallKernel, Arm, Mark, Reboot, Second, InstallHeaders,
         InstallDrivers, Unmark, Disarm, ArmMaster, Finish, files
    <2>3. QED
      BY <2>1, <2>2
  <1>5. /\ pc[t] \notin {"reboot", "reboot again"} => rebooting' = rebooting
        /\ pc[t] \in {"reboot", "reboot again"} => rebooting'
    BY Zenon DEF Script, Step, Start, InstallKernel, Arm, Mark, Reboot, Second, InstallHeaders,
         InstallDrivers, Unmark, Disarm, ArmMaster, Finish, files
  <1>6. QED
    BY <1>1, <1>2, <1>3, <1>4, <1>5

\* What the terminal has looked at.
LEMMA Guards ==
  ASSUME TypeOK, nuc, NEW t \in Terminals, Script(t)
  PROVE  /\ pc[t] = "start" /\ pc'[t] # "none" =>
              /\ ~done
              /\ ~late' /\ ~rebooting => pc'[t] = due
         /\ late => late'
  <1>1. CASE Start(t)
    <2>1. Step(t, "start", IF done \/ ~nuc THEN "none" ELSE Led)
      BY <1>1 DEF Start
    <2>2. pc'[t] = IF done \/ ~nuc THEN "none" ELSE Led
      <3>1. (IF done \/ ~nuc THEN "none" ELSE Led) \in Steps
        BY DEF Led, Steps
      <3>2. QED
        BY <2>1, <3>1 DEF Step, TypeOK
    <2>3. late' = (late \/ Misled)
      BY <1>1 DEF Start
    <2>4. pc'[t] # "none" => ~done /\ pc'[t] = Led
      BY <2>2
    <2>5. ~late' /\ ~rebooting /\ ~done => Led = due
      BY <2>3 DEF Misled
    <2>6. QED
      BY <2>3, <2>4, <2>5
  <1>2. CASE ~Start(t)
    <2>1. late' = late /\ pc[t] # "start"
      BY <1>2 DEF Script, Step, InstallKernel, Arm, Mark, Reboot, Second, InstallHeaders,
             InstallDrivers, Unmark, Disarm, ArmMaster, Finish
    <2>2. QED
      BY <2>1
  <1>3. QED
    BY <1>1, <1>2

\* A step of a terminal, part by part.
LEMMA ScriptParts ==
  ASSUME TypeOK, Parts, nuc, NEW t \in Terminals, Script(t), ~late'
  PROVE  Parts'
  <1>0. pc \in [Terminals -> Steps] /\ after \in 0 .. MaxAfter /\ MaxAfter \in 0 .. 6
    BY IntelAssumption DEF TypeOK
  <1>1. <<pc[t], pc'[t]>> \in Flow /\ \A u \in Terminals \ {t} : pc'[u] = pc[u]
    BY Moves
  <1>3. OnePart'
    <2> SUFFICES ASSUME ~rebooting'
                 PROVE  /\ due' = "kernel" => \A u \in Terminals : pc'[u] \notin Later
                        /\ due' = "second" => \A u \in Terminals : pc'[u] \notin First
                        /\ \/ running' = Boots'
                           \/ \E u \in Terminals : pc'[u] \in {"arm", "mark", "reboot"}
      BY DEF OnePart
    <2>1. ~rebooting /\ pc[t] \notin {"reboot", "reboot again"}
      BY Flags
    <2>2. /\ due' = "kernel" => \A u \in Terminals : pc'[u] \notin Later
          /\ due' = "second" => \A u \in Terminals : pc'[u] \notin First
      <3>1. /\ due' = due
            /\ due = "kernel" => \A u \in Terminals : pc[u] \notin Later
            /\ due = "second" => \A u \in Terminals : pc[u] \notin First
        BY <2>1, Moves DEF Parts, OnePart
      <3>2. pc[t] = "start" => pc'[t] = "none" \/ pc'[t] = due
        BY <2>1, Guards
      <3>3. CASE pc[t] = "start"
        BY <1>1, <3>1, <3>2, <3>3 DEF First, Later
      <3>4. CASE pc[t] # "start"
        <4>1. /\ pc'[t] \in First => pc[t] \in First
              /\ pc'[t] \in Later => pc[t] \in Later
          BY <1>1, <2>1, <3>4 DEF Flow, First, Later
        <4>2. QED
          BY <1>1, <3>1, <4>1
      <3>5. QED
        BY <3>3, <3>4
    <2>3. running' = Boots' \/ \E u \in Terminals : pc'[u] \in {"arm", "mark", "reboot"}
      <3>1. CASE pc[t] \in {"kernel", "arm", "mark"}
        BY <1>1, <3>1 DEF Flow
      <3>2. CASE pc[t] \notin {"kernel", "arm", "mark"}
        <4>1. images' = images /\ newer' = newer /\ running' = running
          BY <3>2, Moves, Writes
        <4>2. Boots' = Boots
          BY <4>1 DEF Boots
        <4>3. \A u \in Terminals : pc[u] \in {"arm", "mark", "reboot"} => pc'[u] = pc[u]
          BY <1>1, <2>1, <3>2
        <4>4. QED
          BY <2>1, <4>1, <4>2, <4>3 DEF Parts, OnePart
      <3>3. QED
        BY <3>1, <3>2
    <2>4. QED
      BY <2>2, <2>3
  <1>4. Behind'
    <2> SUFFICES ASSUME ~rebooting', NEW u \in Terminals
                 PROVE  /\ pc'[u] \in {"drivers", "unmark", "disarm", "master", "finish",
                                       "reboot again"} => running' \in headers'
                        /\ pc'[u] \in {"unmark", "disarm", "master", "finish", "reboot again"} =>
                             dkms'
                        /\ pc'[u] \in {"master", "finish", "reboot again"} => launches' = 0
                        /\ pc'[u] \in {"finish", "reboot again"} => masters'
                        /\ pc'[u] = "reboot again" => done'
      BY DEF Behind
    <2>1. ~rebooting /\ pc[t] \notin {"reboot", "reboot again"}
      BY Flags
    <2>2. /\ pc[u] \in {"drivers", "unmark", "disarm", "master", "finish", "reboot again"} =>
               running \in headers
          /\ pc[u] \in {"unmark", "disarm", "master", "finish", "reboot again"} => dkms
          /\ pc[u] \in {"master", "finish", "reboot again"} => launches = 0
          /\ pc[u] \in {"finish", "reboot again"} => masters
          /\ pc[u] = "reboot again" => done
      BY <2>1 DEF Parts, Behind
    <2>3. pc'[u] \in {"drivers", "unmark", "disarm", "master", "finish", "reboot again"} =>
            running' \in headers'
      BY <1>1, <2>2, Moves, Writes DEF Flow
    <2>4. pc'[u] \in {"unmark", "disarm", "master", "finish", "reboot again"} => dkms'
      BY <1>1, <2>2, Flags DEF Flow
    <2>5. pc'[u] \in {"master", "finish", "reboot again"} => launches' = 0
      <3>1. CASE u = t
        BY <1>1, <2>2, <3>1, Writes DEF Flow
      <3>2. CASE u # t /\ pc[u] \in {"master", "finish", "reboot again"}
        <4>1. pc[t] # "arm"
          BY <2>1, <3>2 DEF Parts, OnePart, First, Later, TypeOK
        <4>2. QED
          BY <2>2, <3>2, <4>1, Writes
      <3>3. QED
        BY <1>1, <3>1, <3>2
    <2>6. pc'[u] \in {"finish", "reboot again"} => masters'
      BY <1>1, <2>2, Flags DEF Flow
    <2>7. pc'[u] = "reboot again" => done'
      BY <1>1, <2>2, Flags DEF Flow
    <2>8. QED
      BY <2>3, <2>4, <2>5, <2>6, <2>7
  <1>5. RunsOn'
    <2> SUFFICES ASSUME rebooting', ~done', NEW u \in Terminals, pc'[u] \in Later
                 PROVE  Rank(pc'[u]) <= after'
      BY DEF RunsOn
    <2>1. ~done
      BY Flags
    <2>2. CASE rebooting
      <3>1. \A w \in Terminals : pc[w] \in Later => Rank(pc[w]) <= after
        BY <2>1, <2>2 DEF Parts, RunsOn
      <3>2. after' = after + 1 /\ after < 6
        <4>1. after < MaxAfter /\ after' = after + 1
          BY <2>2, Moves
        <4>2. QED
          BY <1>0, <4>1
      <3>3. CASE u # t
        <4>1. pc'[u] = pc[u] /\ Rank(pc[u]) <= after
          BY <1>1, <3>1, <3>3
        <4>2. Rank(pc[u]) \in 0 .. 7
          BY DEF Rank
        <4>3. QED
          BY <1>0, <3>2, <4>1, <4>2
      <3>4. CASE u = t
        <4>2. pc'[t] = "second" \/ (pc[t] \in Later /\ Rank(pc'[t]) = Rank(pc[t]) + 1)
          <5>1. \/ pc'[t] = "second"
                \/ pc[t] = "second" /\ pc'[t] = "headers"
                \/ pc[t] = "headers" /\ pc'[t] = "drivers"
                \/ pc[t] = "drivers" /\ pc'[t] = "unmark"
                \/ pc[t] = "unmark" /\ pc'[t] = "disarm"
                \/ pc[t] = "disarm" /\ pc'[t] = "master"
                \/ pc[t] = "master" /\ pc'[t] = "finish"
                \/ pc[t] = "finish" /\ pc'[t] = "reboot again"
            BY <1>1, <3>4 DEF Flow, Later
          <5>2. CASE pc[t] = "second" /\ pc'[t] = "headers"
            <6>1. Rank(pc[t]) = 0
              BY <5>2 DEF Rank
            <6>2. Rank(pc'[t]) = 1
              BY <5>2 DEF Rank
            <6>3. pc[t] \in Later
              BY <5>2 DEF Later
            <6>4. QED
              BY <6>1, <6>2, <6>3
          <5>3. CASE pc[t] = "headers" /\ pc'[t] = "drivers"
            <6>1. Rank(pc[t]) = 1
              BY <5>3 DEF Rank
            <6>2. Rank(pc'[t]) = 2
              BY <5>3 DEF Rank
            <6>3. pc[t] \in Later
              BY <5>3 DEF Later
            <6>4. QED
              BY <6>1, <6>2, <6>3
          <5>4. CASE pc[t] = "drivers" /\ pc'[t] = "unmark"
            <6>1. Rank(pc[t]) = 2
              BY <5>4 DEF Rank
            <6>2. Rank(pc'[t]) = 3
              BY <5>4 DEF Rank
            <6>3. pc[t] \in Later
              BY <5>4 DEF Later
            <6>4. QED
              BY <6>1, <6>2, <6>3
          <5>5. CASE pc[t] = "unmark" /\ pc'[t] = "disarm"
            <6>1. Rank(pc[t]) = 3
              BY <5>5 DEF Rank
            <6>2. Rank(pc'[t]) = 4
              BY <5>5 DEF Rank
            <6>3. pc[t] \in Later
              BY <5>5 DEF Later
            <6>4. QED
              BY <6>1, <6>2, <6>3
          <5>6. CASE pc[t] = "disarm" /\ pc'[t] = "master"
            <6>1. Rank(pc[t]) = 4
              BY <5>6 DEF Rank
            <6>2. Rank(pc'[t]) = 5
              BY <5>6 DEF Rank
            <6>3. pc[t] \in Later
              BY <5>6 DEF Later
            <6>4. QED
              BY <6>1, <6>2, <6>3
          <5>7. CASE pc[t] = "master" /\ pc'[t] = "finish"
            <6>1. Rank(pc[t]) = 5
              BY <5>7 DEF Rank
            <6>2. Rank(pc'[t]) = 6
              BY <5>7 DEF Rank
            <6>3. pc[t] \in Later
              BY <5>7 DEF Later
            <6>4. QED
              BY <6>1, <6>2, <6>3
          <5>8. CASE pc[t] = "finish" /\ pc'[t] = "reboot again"
            <6>1. Rank(pc[t]) = 6
              BY <5>8 DEF Rank
            <6>2. Rank(pc'[t]) = 7
              BY <5>8 DEF Rank
            <6>3. pc[t] \in Later
              BY <5>8 DEF Later
            <6>4. QED
              BY <6>1, <6>2, <6>3
          <5>9. QED
            BY <5>1, <5>2, <5>3, <5>4, <5>5, <5>6, <5>7, <5>8
        <4>3. CASE pc'[t] = "second"
          <5>1. Rank(pc'[u]) = 0
            BY <3>4, <4>3 DEF Rank
          <5>2. QED
            BY <1>0, <3>2, <5>1
        <4>4. CASE pc[t] \in Later /\ Rank(pc'[t]) = Rank(pc[t]) + 1
          <5>1. Rank(pc[t]) <= after
            BY <3>1, <4>4
          <5>2. Rank(pc[t]) \in 0 .. 7
            BY DEF Rank
          <5>3. QED
            BY <1>0, <3>2, <3>4, <4>4, <5>1, <5>2
        <4>5. QED
          BY <4>2, <4>3, <4>4
      <3>5. QED
        BY <3>3, <3>4
    <2>3. CASE ~rebooting
      <3>1. pc[t] = "reboot"
        <4>1. pc[t] \in {"reboot", "reboot again"}
          BY <2>3, Flags
        <4>2. pc[t] # "reboot again"
          BY <2>1, <2>3 DEF Parts, Behind
        <4>3. QED
          BY <4>1, <4>2
      <3>2. \A w \in Terminals : pc[w] \notin Later
        BY <2>3, <3>1 DEF Parts, OnePart, First, TypeOK
      <3>3. u = t /\ pc'[t] = "second"
        BY <1>1, <3>1, <3>2 DEF Flow
      <3>4. after' \in 0 .. MaxAfter
        BY ScriptType DEF TypeOK
      <3>5. QED
        <4>1. Rank(pc'[u]) = 0
          BY <3>3 DEF Rank
        <4>2. QED
          BY <1>0, <3>4, <4>1
    <2>4. QED
      BY <2>2, <2>3
  <1>6. Ended'
    <2> SUFFICES ASSUME done'
                 PROVE  /\ dkms' /\ Boots' \in headers' /\ masters' /\ launches' = 0
                        /\ \A u \in Terminals : pc'[u] \notin First
      BY DEF Ended
    <2>1. CASE done
      <3>1. /\ dkms /\ Boots \in headers /\ masters /\ launches = 0
            /\ \A u \in Terminals : pc[u] \notin First
        BY <2>1 DEF Parts, Ended
      <3>2. pc[t] \notin {"kernel", "arm"}
        BY <3>1 DEF First
      <3>3. Boots' = Boots
        <4>1. images' = images /\ newer' = newer
          BY <3>2, Moves, Writes
        <4>2. QED
          BY <4>1 DEF Boots
      <3>4. pc'[t] \notin First
        BY <1>1, <2>1, <3>1, Guards DEF Flow, First
      <3>5. launches' = 0
        BY <3>1, <3>2, Writes
      <3>6. dkms' /\ masters' /\ Boots' \in headers'
        BY <3>1, <3>3, Writes, Flags
      <3>7. QED
        BY <1>1, <3>1, <3>4, <3>5, <3>6
    <2>2. CASE ~done
      <3>1. pc[t] = "finish" /\ pc'[t] = "reboot again"
        BY <1>1, <2>2, Flags DEF Flow
      <3>2. ~rebooting
        <4>1. rebooting => after < MaxAfter
          BY Moves
        <4>2. rebooting => Rank(pc[t]) <= after
          BY <2>2, <3>1 DEF Parts, RunsOn, Later
        <4>3. Rank(pc[t]) = 6
          BY <3>1 DEF Rank
        <4>4. QED
          BY <1>0, <4>1, <4>2, <4>3
      <3>3. running \in headers /\ dkms /\ launches = 0 /\ masters
        BY <3>1, <3>2 DEF Parts, Behind
      <3>4. \A u \in Terminals : pc[u] \notin First
        BY <3>1, <3>2 DEF Parts, OnePart, Later, TypeOK
      <3>5. running = Boots
        BY <3>2, <3>4 DEF Parts, OnePart, First
      <3>6. Boots' = Boots /\ launches' = launches
        <4>1. images' = images /\ newer' = newer /\ launches' = launches
          BY <3>1, Moves, Writes
        <4>2. QED
          BY <4>1 DEF Boots
      <3>7. dkms' /\ masters' /\ Boots' \in headers'
        BY <3>3, <3>5, <3>6, Writes, Flags
      <3>8. QED
        BY <1>1, <3>1, <3>3, <3>4, <3>6, <3>7 DEF First
    <2>3. QED
      BY <2>1, <2>2
  <1>7. QED
    BY <1>3, <1>4, <1>5, <1>6 DEF Parts

LEMMA InitIntel == Init => IntelInv
  <1> SUFFICES ASSUME Init PROVE IntelInv
    OBVIOUS
  <1>1. /\ \A t \in Terminals : pc[t] \in {"none", "start"}
        /\ ~rebooting /\ ~done /\ launches = 0 /\ running = Boots
    BY DEF Init, Boots
  <1>2. TypeOK
    <2>1. pc \in [Terminals -> Steps]
      BY DEF Init, Steps
    <2>2. launches \in 0 .. MaxTerminals /\ after \in 0 .. MaxAfter /\ crashes \in 0 .. MaxCrashes
      BY IntelAssumption DEF Init
    <2>3. "installed" \in images /\ images \subseteq Kernels /\ running \in images
            /\ headers \subseteq Kernels
      BY DEF Init, Kernels
    <2>4. QED
      BY <2>1, <2>2, <2>3 DEF Init, TypeOK
  <1>3. OnePart /\ Behind /\ RunsOn /\ Ended
    BY <1>1 DEF OnePart, Behind, RunsOn, Ended, First, Later
  <1>4. QED
    BY <1>1, <1>2, <1>3 DEF IntelInv

LEMMA NextIntel == IntelInv /\ [Next]_vars => IntelInv'
  <1> SUFFICES ASSUME IntelInv, [Next]_vars PROVE IntelInv'
    OBVIOUS
  <1>1. CASE Next
    <2>1. TypeOK'
      BY <1>1, ScriptType, EnvironmentType DEF IntelInv, Next
    <2>2. nuc' = nuc
      BY <1>1 DEF Next, Script, Step, Start, InstallKernel, Arm, Mark, Reboot, Second,
             InstallHeaders, InstallDrivers, Unmark, Disarm, ArmMaster, Finish, Boot,
             PowerFailure, Login, StartByHand, machine
    <2>3. CASE nuc /\ ~late'
      <3>0. late => late'
        BY <1>1, <2>3, Guards DEF Next, Boot, PowerFailure, Login, StartByHand, IntelInv
      <3>1. TypeOK /\ Parts
        BY <2>3, <3>0 DEF IntelInv, Parts
      <3>2. Parts'
        BY <1>1, <2>3, <3>1, ScriptParts, LoginParts, HandParts DEF Next, Boot, PowerFailure
      <3>3. QED
        BY <2>1, <2>2, <2>3, <3>2 DEF IntelInv, Parts
    <2>4. CASE ~nuc
      <3>1. launches' = 0 /\ \A t \in Terminals : pc'[t] \in {"none", "start"}
        BY <1>1, <2>4, OtherMachine
      <3>2. QED
        BY <2>1, <2>2, <2>4, <3>1 DEF IntelInv
    <2>5. CASE nuc /\ late'
      BY <2>1, <2>2, <2>5 DEF IntelInv
    <2>6. QED
      BY <2>3, <2>4, <2>5
  <1>2. CASE UNCHANGED vars
    BY <1>2 DEF vars, machine, packages, files, history, IntelInv, TypeOK, OnePart, Behind, RunsOn,
           Ended, Boots
  <1>3. QED
    BY <1>1, <1>2

\* The flag that ends the workflow is true for any number of terminals and of
\* power failures, as long as no terminal read intel_flag late: the drivers are
\* there for the kernel that boots.
THEOREM ReadyWhenFlagged == Spec => []FlagMeansReady
  <1>1. IntelInv => FlagMeansReady
    BY DEF IntelInv, Ended, FlagMeansReady
  <1>2. QED
    BY <1>1, InitIntel, NextIntel, PTL DEF Spec

\* And, on the same condition, no login of the customer opens a terminal any more.
THEOREM StaysGone == Spec => []NoReturn
  <1>1. IntelInv => NoReturn
    BY DEF IntelInv, Ended, NoReturn
  <1>2. QED
    BY <1>1, InitIntel, NextIntel, PTL DEF Spec
=============================================================================
