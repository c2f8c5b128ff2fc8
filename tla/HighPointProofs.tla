--------------------------- MODULE HighPointProofs ---------------------------
(***************************************************************************)
(* Theorems about scripts/highpoint.sh, for any machines, crashes and      *)
(* faults.  FlowInv says what the flags and the launch lines are at each   *)
(* stage, and CalmInv what is known beside that while nothing has gone     *)
(* wrong.                                                                  *)
(***************************************************************************)
EXTENDS HighPoint, TLAPS

StepOne == {"ask", "decline", "declined", "type", "record", "delete", "clear", "flag1", "reboot1"}
StepTwo == {"create", "clear1", "cleartype", "home", "rearm", "finish", "reboot2"}

FlowInv ==
  /\ disk.hp_flag1 => disk.hptdrv
  /\ pc \in StepOne \cup StepTwo => disk.hptdrv
  /\ pc \in {"driver", "build", "manager", "iommu", "mark"} => ~disk.hp_flag1
  /\ pc \in StepTwo \cup {"flag1"} => ~disk.hp_flag
  /\ pc \in StepTwo \ {"create", "clear1"} => ~disk.hp_flag1
  /\ pc \in {"home", "rearm", "finish", "reboot2"} => disk.arraytype = << >>
  /\ pc \in {"rearm", "finish", "reboot2"} => disk.highpoint = 0
  /\ pc \in {"finish", "reboot2"} => disk.master > 0
  /\ disk.done => pc \in {"idle", "reboot2"}
  /\ pc = "reboot2" \/ ended = "built" => disk.done
  /\ ~consented => ~disk.hp_flag1 /\ pc \notin {"type", "record", "delete", "clear", "flag1", "reboot1"} \cup StepTwo
  /\ OneFlag /\ ConsentToDestroy /\ HandsBack

Installed == disk.hptdrv /\ disk.driver /\ disk.manager /\ (host.x299 => disk.off # "behind")

\* The driver is installed and no answer was given yet.
Ready == Installed /\ disk.hp_flag /\ ~disk.hp_flag1 /\ disk.arraytype = << >>

\* The old arrays are deleted and the type of the new one is on file.
Deleted == Installed /\ ~disk.hp_flag /\ disk.hp_flag1 /\ disk.arraytype = <<asked>> /\ arrays = << >>

CalmInv ==
  /\ pc \notin {"idle", "ask"} => power = "up"
  /\ pc = "ask" => power # "down"
  /\ pc \in StepOne \cup {"create"} /\ power = "up" => loaded
  /\ pc \in {"idle", "nocard"} /\ power = "up" /\ disk.driver => loaded
  /\ pc \in {"idle", "nocard", "driver"} /\ ~disk.hptdrv => ~disk.hp_flag /\ disk.arraytype = << >>
  /\ pc \in {"driver", "build", "manager", "iommu", "mark"} => disk.arraytype = << >>
  /\ pc \in {"build", "manager", "iommu", "mark"} => disk.hptdrv
  /\ pc \in {"manager", "iommu", "mark"} => disk.driver
  /\ pc \in {"iommu", "mark"} => disk.manager
  /\ pc = "mark" => Installed
  /\ pc \in {"move", "append", "confirm", "type", "record"} => Ready
  /\ pc = "ask" => IF power = "up" THEN Ready ELSE Deleted
  /\ pc \in {"delete", "clear", "flag1"} => Installed /\ disk.arraytype = <<asked>>
  /\ pc \in {"clear", "flag1"} => arrays = << >>
  /\ pc \in {"reboot1", "create"} => Deleted
  /\ pc \in StepTwo \ {"create"} => Installed /\ arrays = <<asked>>
  /\ pc = "idle" /\ disk.hptdrv /\ ~disk.done => Ready \/ Deleted
  /\ ended = "built" => arrays = <<asked>> /\ (host.x299 => disk.off # "behind")
-----------------------------------------------------------------------------
\* Each step keeps each variable's type.
LEMMA TypingStep ==
  ASSUME TypeOK, [Next]_vars
  PROVE  TypeOK'
  <1> USE DEF TypeOK, Stages, Types, Disk, answers, bounds
  <1>1. CASE Run
    BY <1>1 DEF Run, NextStage
  <1>2. CASE NoCard
    <2>1. disk' \in Disk
      BY <1>2 DEF NoCard, Goto
    <2>2. QED
      BY <1>2, <2>1 DEF NoCard, Goto
  <1>3. CASE PlaceScript
    <2>1. disk' \in Disk
      BY <1>3 DEF PlaceScript, Fault, Goto
    <2>2. pc' \in Stages
      BY <1>3 DEF PlaceScript, Fault, Goto
    <2>3. QED
      BY <1>3, <2>1, <2>2 DEF PlaceScript, Fault, Goto
  <1>34. CASE BuildDriver
    <2>1. disk' \in Disk
      BY <1>34 DEF BuildDriver, Fault, Goto
    <2>2. pc' \in Stages
      BY <1>34 DEF BuildDriver, Fault, Goto
    <2>3. QED
      BY <1>34, <2>1, <2>2 DEF BuildDriver, Fault, Goto
  <1>4. CASE InstallManager
    <2>1. disk' \in Disk
      BY <1>4 DEF InstallManager, Fault, Goto
    <2>2. pc' \in Stages
      BY <1>4 DEF InstallManager, Fault, Goto
    <2>3. QED
      BY <1>4, <2>1, <2>2 DEF InstallManager, Fault, Goto
  <1>5. CASE DropIommuOff
    <2>1. (IF host.x299 /\ disk.off = "behind" THEN "none" ELSE disk.off) \in Places
      BY DEF Places
    <2>2. disk' = [disk EXCEPT !.off = IF host.x299 /\ @ = "behind" THEN "none" ELSE @]
      BY <1>5 DEF DropIommuOff, Goto
    <2>3. disk' \in Disk
      BY <2>1, <2>2
    <2>4. QED
      BY <1>5, <2>1, <2>2, <2>3 DEF DropIommuOff, Goto
  <1>6. CASE MarkInstalled
    <2>1. disk' \in Disk
      BY <1>6 DEF MarkInstalled, Goto
    <2>2. QED
      BY <1>6, <2>1 DEF MarkInstalled, Goto
  <1>7. CASE MoveLaunch
    <2>1. disk \in Disk /\ disk.highpoint + 1 \in Nat
      BY <1>7 DEF MoveLaunch, Goto
    <2>2. [disk EXCEPT !.master = 0, !.highpoint = 0] \in Disk
      BY <2>1
    <2>3. host.media = "Server" => disk' = [disk EXCEPT !.master = 0, !.highpoint = 0]
      BY <1>7 DEF MoveLaunch, Goto
    <2>4. host.media # "Server" => disk' \in Disk
      BY <1>7, <2>1 DEF MoveLaunch, Goto
    <2>5. pc' \in Stages
      BY <1>7 DEF MoveLaunch, Goto
    <2>6. QED
      BY <1>7, <2>1, <2>2, <2>3, <2>4, <2>5 DEF MoveLaunch, Goto
  <1>8. CASE AppendLaunch
    <2>1. disk' \in Disk
      BY <1>8 DEF AppendLaunch, Goto
    <2>2. QED
      BY <1>8, <2>1 DEF AppendLaunch, Goto
  <1>9. CASE Confirm
    BY <1>9 DEF Confirm, Goto
  <1>10. CASE AnswerNo
    BY <1>10 DEF AnswerNo, Goto, Answering
  <1>11. CASE ClearDeclined
    <2>1. disk' \in Disk
      BY <1>11 DEF ClearDeclined, Goto
    <2>2. QED
      BY <1>11, <2>1 DEF ClearDeclined, Goto
  <1>12. CASE Declined
    <2>1. disk' \in Disk
      BY <1>12 DEF Declined, Goto
    <2>2. QED
      BY <1>12, <2>1 DEF Declined, Goto
  <1>13. CASE AnswerYes
    BY <1>13 DEF AnswerYes, Goto, Answering
  <1>14. CASE ChooseType
    BY <1>14 DEF ChooseType, Goto, Answering
  <1>15. CASE Record
    <2>1. disk.arraytype \in Seq(Types) /\ asked \in Types
      BY <1>15 DEF Record, Goto
    <2>2. Append(disk.arraytype, asked) \in Seq(Types)
      BY <2>1
    <2>3. disk' \in Disk
      BY <1>15, <2>2 DEF Record, Goto
    <2>4. QED
      BY <1>15, <2>1, <2>2, <2>3 DEF Record, Goto
  <1>16. CASE DeleteArrays
    <2>1. arrays # << >> => Tail(arrays) \in Seq(Types \cup {"old"})
      OBVIOUS
    <2>2. arrays' \in Seq(Types \cup {"old"})
      BY <1>16, <2>1 DEF DeleteArrays, Tool, Goto
    <2>3. pc' \in Stages
      BY <1>16 DEF DeleteArrays, Tool, Goto
    <2>4. QED
      BY <1>16, <2>1, <2>2, <2>3 DEF DeleteArrays, Tool, Goto
  <1>17. CASE ClearFlag
    <2>1. disk' \in Disk
      BY <1>17 DEF ClearFlag, Goto
    <2>2. QED
      BY <1>17, <2>1 DEF ClearFlag, Goto
  <1>18. CASE MarkDeleted
    <2>1. disk' \in Disk
      BY <1>18 DEF MarkDeleted, Goto
    <2>2. QED
      BY <1>18, <2>1 DEF MarkDeleted, Goto
  <1>19. CASE RebootAsking
    BY <1>19 DEF RebootAsking, Goto
  <1>20. CASE Create
    <2>1. disk.arraytype # << >> => Head(disk.arraytype) \in Types
      BY <1>20 DEF Create, Tool, Goto
    <2>2. \A t \in Types : <<t>> \in Seq(Types \cup {"old"})
      OBVIOUS
    <2>3. arrays' \in Seq(Types \cup {"old"})
      BY <1>20, <2>1, <2>2 DEF Create, Tool, Goto
    <2>4. pc' \in Stages
      BY <1>20 DEF Create, Tool, Goto
    <2>5. QED
      BY <1>20, <2>1, <2>2, <2>3, <2>4 DEF Create, Tool, Goto
  <1>21. CASE ClearFlag1
    <2>1. disk' \in Disk
      BY <1>21 DEF ClearFlag1, Goto
    <2>2. QED
      BY <1>21, <2>1 DEF ClearFlag1, Goto
  <1>22. CASE ClearType
    <2>1. << >> \in Seq(Types)
      BY <1>22 DEF ClearType, Goto
    <2>2. disk' \in Disk
      BY <1>22, <2>1 DEF ClearType, Goto
    <2>3. QED
      BY <1>22, <2>1, <2>2 DEF ClearType, Goto
  <1>23. CASE RemoveLaunch
    <2>1. disk' \in Disk
      BY <1>23 DEF RemoveLaunch, Goto
    <2>2. QED
      BY <1>23, <2>1 DEF RemoveLaunch, Goto
  <1>24. CASE ArmMaster
    <2>1. disk' \in Disk
      BY <1>24 DEF ArmMaster, Goto
    <2>2. QED
      BY <1>24, <2>1 DEF ArmMaster, Goto
  <1>25. CASE Finish
    <2>1. disk' \in Disk
      BY <1>25 DEF Finish, Goto
    <2>2. QED
      BY <1>25, <2>1 DEF Finish, Goto
  <1>26. CASE RebootBuilt
    BY <1>26 DEF RebootBuilt, Goto
  <1>27. CASE Boot
    BY <1>27 DEF Boot
  <1>28. CASE PowerDown
    <2>1. disk' = disk /\ arrays' = arrays /\ host' = host
      BY <1>28 DEF PowerDown, TurnOff
    <2>2. asked' = asked /\ consented' = consented /\ ended' = ended
      BY <1>28 DEF PowerDown, TurnOff
    <2>3. power' = "down" /\ loaded' = FALSE /\ pc' = "idle" /\ crashes' \in Nat /\ faults' \in Nat
      BY <1>28 DEF PowerDown, TurnOff
    <2>4. QED
      BY <1>28, <2>1, <2>2, <2>3 DEF PowerDown, TurnOff
  <1>29. CASE PowerLoss
    <2>1. disk' = disk /\ arrays' = arrays /\ host' = host
      BY <1>29 DEF PowerLoss, TurnOff
    <2>2. asked' = asked /\ consented' = consented /\ ended' = ended
      BY <1>29 DEF PowerLoss, TurnOff
    <2>3. power' = "down" /\ loaded' = FALSE /\ pc' = "idle" /\ crashes' \in Nat /\ faults' \in Nat
      BY <1>29 DEF PowerLoss, TurnOff
    <2>4. QED
      BY <1>29, <2>1, <2>2, <2>3 DEF PowerLoss, TurnOff
  <1>30. CASE PowerCycle
    <2>1. disk' = disk /\ arrays' = arrays /\ host' = host
      BY <1>30 DEF PowerCycle, TurnOff
    <2>2. asked' = asked /\ consented' = consented /\ ended' = ended
      BY <1>30 DEF PowerCycle, TurnOff
    <2>3. power' = "down" /\ loaded' = FALSE /\ pc' = "idle" /\ crashes' \in Nat /\ faults' \in Nat
      BY <1>30 DEF PowerCycle, TurnOff
    <2>4. QED
      BY <1>30, <2>1, <2>2, <2>3 DEF PowerCycle, TurnOff
  <1>31. CASE CloseTerminal
    BY <1>31 DEF CloseTerminal
  <1>32. CASE UNCHANGED vars
    BY <1>32 DEF vars
  <1>33. QED
    BY <1>1, <1>2, <1>3, <1>4, <1>5, <1>6, <1>7, <1>8, <1>9, <1>10, <1>11, <1>12, <1>13,
         <1>14, <1>15, <1>16, <1>17, <1>18, <1>19, <1>20, <1>21, <1>22, <1>23, <1>24,
         <1>25, <1>26, <1>27, <1>28, <1>29, <1>30, <1>31, <1>32, <1>34 DEF Next, Step

\* Each step keeps what the stages say of the flags and launch lines.
LEMMA FlowStep ==
  ASSUME TypeOK, FlowInv, [Next]_vars
  PROVE  FlowInv'
  <1> USE DEF TypeOK, Disk, answers, bounds, FlowInv, StepOne, StepTwo, OneFlag,
       ConsentToDestroy, HandsBack, Given
  <1>1. CASE Run
    BY <1>1 DEF Run, NextStage
  <1>2. CASE NoCard
    BY <1>2 DEF NoCard, Goto
  <1>3. CASE PlaceScript
    BY <1>3 DEF PlaceScript, Fault, Goto
  <1>34. CASE BuildDriver
    BY <1>34 DEF BuildDriver, Fault, Goto
  <1>4. CASE InstallManager
    BY <1>4 DEF InstallManager, Fault, Goto
  <1>5. CASE DropIommuOff
    BY <1>5 DEF DropIommuOff, Goto
  <1>6. CASE MarkInstalled
    BY <1>6 DEF MarkInstalled, Goto
  <1>7. CASE MoveLaunch
    BY <1>7 DEF MoveLaunch, Goto
  <1>8. CASE AppendLaunch
    BY <1>8 DEF AppendLaunch, Goto
  <1>9. CASE Confirm
    BY <1>9 DEF Confirm, Goto
  <1>10. CASE AnswerNo
    BY <1>10 DEF AnswerNo, Goto, Answering
  <1>11. CASE ClearDeclined
    BY <1>11 DEF ClearDeclined, Goto
  <1>12. CASE Declined
    BY <1>12 DEF Declined, Goto
  <1>13. CASE AnswerYes
    BY <1>13 DEF AnswerYes, Goto, Answering
  <1>14. CASE ChooseType
    BY <1>14 DEF ChooseType, Goto, Answering
  <1>15. CASE Record
    BY <1>15 DEF Record, Goto
  <1>16. CASE DeleteArrays
    BY <1>16 DEF DeleteArrays, Tool, Goto
  <1>17. CASE ClearFlag
    BY <1>17 DEF ClearFlag, Goto
  <1>18. CASE MarkDeleted
    BY <1>18 DEF MarkDeleted, Goto
  <1>19. CASE RebootAsking
    BY <1>19 DEF RebootAsking, Goto
  <1>20. CASE Create
    BY <1>20 DEF Create, Tool, Goto
  <1>21. CASE ClearFlag1
    BY <1>21 DEF ClearFlag1, Goto
  <1>22. CASE ClearType
    BY <1>22 DEF ClearType, Goto
  <1>23. CASE RemoveLaunch
    BY <1>23 DEF RemoveLaunch, Goto
  <1>24. CASE ArmMaster
    BY <1>24 DEF ArmMaster, Goto
  <1>25. CASE Finish
    BY <1>25 DEF Finish, Goto
  <1>26. CASE RebootBuilt
    BY <1>26 DEF RebootBuilt, Goto
  <1>27. CASE Boot
    BY <1>27 DEF Boot
  <1>28. CASE PowerDown
    BY <1>28 DEF PowerDown, TurnOff
  <1>29. CASE PowerLoss
    BY <1>29 DEF PowerLoss, TurnOff
  <1>30. CASE PowerCycle
    BY <1>30 DEF PowerCycle, TurnOff
  <1>31. CASE CloseTerminal
    BY <1>31 DEF CloseTerminal
  <1>32. CASE UNCHANGED vars
    BY <1>32 DEF vars
  <1>33. QED
    BY <1>1, <1>2, <1>3, <1>4, <1>5, <1>6, <1>7, <1>8, <1>9, <1>10, <1>11, <1>12, <1>13,
         <1>14, <1>15, <1>16, <1>17, <1>18, <1>19, <1>20, <1>21, <1>22, <1>23, <1>24,
         <1>25, <1>26, <1>27, <1>28, <1>29, <1>30, <1>31, <1>32, <1>34 DEF Next, Step

\* An undisturbed step keeps what is known of the installation and the arrays.
LEMMA CalmStep ==
  ASSUME Patient, TypeOK, FlowInv, Undisturbed => CalmInv, [Next]_vars
  PROVE  Undisturbed' => CalmInv'
  <1> USE DEF TypeOK, Disk, Types, answers, bounds, FlowInv, OneFlag, CalmInv, Installed,
       Ready, Deleted, StepOne, StepTwo, Undisturbed
  <1>1. CASE Run
    BY <1>1 DEF Run, NextStage
  <1>2. CASE NoCard
    BY <1>2 DEF NoCard, Goto
  <1>3. CASE PlaceScript
    <2>1. Undisturbed' => Undisturbed /\ pc' = "build" /\ disk' = [disk EXCEPT !.hptdrv = TRUE]
      BY <1>3 DEF PlaceScript, Fault, Goto
    <2>2. QED
      BY <1>3, <2>1 DEF PlaceScript, Fault, Goto
  <1>34. CASE BuildDriver
    <2>1. Undisturbed' => Undisturbed /\ disk' = [disk EXCEPT !.driver = TRUE]
      BY <1>34 DEF BuildDriver, Fault, Goto
    <2>2. QED
      BY <1>34, <2>1 DEF BuildDriver, Fault, Goto
  <1>4. CASE InstallManager
    BY <1>4 DEF InstallManager, Fault, Goto
  <1>5. CASE DropIommuOff
    BY <1>5 DEF DropIommuOff, Goto
  <1>6. CASE MarkInstalled
    BY <1>6 DEF MarkInstalled, Goto
  <1>7. CASE MoveLaunch
    BY <1>7 DEF MoveLaunch, Goto
  <1>8. CASE AppendLaunch
    BY <1>8 DEF AppendLaunch, Goto
  <1>9. CASE Confirm
    BY <1>9 DEF Confirm, Goto
  <1>10. CASE AnswerNo
    BY <1>10 DEF AnswerNo, Goto, Answering
  <1>11. CASE ClearDeclined
    BY <1>11 DEF ClearDeclined, Goto
  <1>12. CASE Declined
    BY <1>12 DEF Declined, Goto
  <1>13. CASE AnswerYes
    BY <1>13 DEF AnswerYes, Goto, Answering
  <1>14. CASE ChooseType
    BY <1>14 DEF ChooseType, Goto, Answering
  <1>15. CASE Record
    <2>1. Undisturbed' => Undisturbed /\ disk.arraytype = << >>
      BY <1>15 DEF Record, Goto
    <2>2. Append(<< >>, asked) = <<asked>>
      BY <2>1
    <2>3. Undisturbed' => disk' = [disk EXCEPT !.arraytype = <<asked>>]
      BY <1>15, <2>1, <2>2 DEF Record, Goto
    <2>4. QED
      BY <1>15, <2>1, <2>2, <2>3 DEF Record, Goto
  <1>16. CASE DeleteArrays
    BY <1>16 DEF DeleteArrays, Tool, Goto
  <1>17. CASE ClearFlag
    BY <1>17 DEF ClearFlag, Goto
  <1>18. CASE MarkDeleted
    BY <1>18 DEF MarkDeleted, Goto
  <1>19. CASE RebootAsking
    BY <1>19 DEF RebootAsking, Goto
  <1>20. CASE Create
    <2>1. Undisturbed' => Undisturbed /\ Deleted /\ Tool
      BY <1>20 DEF Create, Tool, Goto
    <2>2. Head(<<asked>>) = asked /\ Len(<<asked>>) = 1 /\ <<asked>> # << >>
      OBVIOUS
    <2>3. Undisturbed' => arrays' = <<asked>>
      BY <1>20, <2>1, <2>2 DEF Create, Tool, Goto
    <2>4. QED
      BY <1>20, <2>1, <2>2, <2>3 DEF Create, Tool, Goto
  <1>21. CASE ClearFlag1
    BY <1>21 DEF ClearFlag1, Goto
  <1>22. CASE ClearType
    BY <1>22 DEF ClearType, Goto
  <1>23. CASE RemoveLaunch
    BY <1>23 DEF RemoveLaunch, Goto
  <1>24. CASE ArmMaster
    BY <1>24 DEF ArmMaster, Goto
  <1>25. CASE Finish
    BY <1>25 DEF Finish, Goto
  <1>26. CASE RebootBuilt
    BY <1>26 DEF RebootBuilt, Goto
  <1>27. CASE Boot
    BY <1>27 DEF Boot
  <1>28. CASE PowerDown
    BY <1>28 DEF PowerDown, TurnOff
  <1>29. CASE PowerLoss
    BY <1>29 DEF PowerLoss, TurnOff
  <1>30. CASE PowerCycle
    BY <1>30 DEF PowerCycle, TurnOff
  <1>31. CASE CloseTerminal
    BY <1>31 DEF CloseTerminal
  <1>32. CASE UNCHANGED vars
    BY <1>32 DEF vars
  <1>33. QED
    BY <1>1, <1>2, <1>3, <1>4, <1>5, <1>6, <1>7, <1>8, <1>9, <1>10, <1>11, <1>12, <1>13,
         <1>14, <1>15, <1>16, <1>17, <1>18, <1>19, <1>20, <1>21, <1>22, <1>23, <1>24,
         <1>25, <1>26, <1>27, <1>28, <1>29, <1>30, <1>31, <1>32, <1>34 DEF Next, Step
-----------------------------------------------------------------------------
\* The workflow keeps its type invariant, for any machines and bounds.
THEOREM Typing == Spec => []TypeOK
  <1>1. Init => TypeOK
    <2> SUFFICES ASSUME Init PROVE TypeOK
      OBVIOUS
    <2>1. host.old \in Nat
      BY HostsAssumption DEF Init, Host
    <2>2. Given \in Seq(Types \cup {"old"})
      BY <2>1 DEF Given
    <2>3. disk \in Disk
      <3>1. << >> \in Seq(Types) /\ host.off \in Places
        BY HostsAssumption DEF Init, Host
      <3>2. QED
        BY <3>1 DEF Init, Disk
    <2>4. QED
      BY <2>2, <2>3 DEF Init, TypeOK, Stages
  <1>2. QED
    BY <1>1, TypingStep, PTL DEF Spec

\* FlowInv holds always, whatever crashes or fails.
LEMMA Flow == Spec => []FlowInv
  <1>1. Init => FlowInv
    BY DEF Init, FlowInv, StepOne, StepTwo, OneFlag, ConsentToDestroy, HandsBack
  <1>2. QED
    BY <1>1, FlowStep, Typing, PTL DEF Spec

\* At most one flag says where to go on; crashes and faults included.
THEOREM OneFlagAtATime == Spec => []OneFlag
  <1>1. FlowInv => OneFlag
    BY DEF FlowInv
  <1>2. QED
    BY <1>1, Flow, PTL

\* Nothing is deleted or created before the operator agreed; crashes and
\* faults included.
THEOREM Consent == Spec => []ConsentToDestroy
  <1>1. FlowInv => ConsentToDestroy
    BY DEF FlowInv
  <1>2. QED
    BY <1>1, Flow, PTL

\* A workflow that counts as built has handed the machine back to master.sh;
\* crashes and faults included.
THEOREM HandedBack == Spec => []HandsBack
  <1>1. FlowInv => HandsBack
    BY DEF FlowInv
  <1>2. QED
    BY <1>1, Flow, PTL

\* CalmInv holds as long as nothing was disturbed.
LEMMA Calm == ASSUME Patient PROVE Spec => [](Undisturbed => CalmInv)
  <1>1. Init => (Undisturbed => CalmInv)
    BY DEF Init, CalmInv, StepOne, StepTwo, Installed, Ready, Deleted
  <1>2. TypeOK /\ FlowInv /\ (Undisturbed => CalmInv) /\ [Next]_vars => (Undisturbed => CalmInv)'
    BY CalmStep
  <1>3. QED
    BY <1>1, <1>2, Typing, Flow, PTL DEF Spec

\* With a patient operator and nothing that fails, the workflow ends with the
\* array that was asked for.
THEOREM AsAsked == ASSUME Patient PROVE Spec => []BuiltAsAsked
  <1>1. (Undisturbed => CalmInv) => BuiltAsAsked
    BY DEF CalmInv, BuiltAsAsked
  <1>2. QED
    BY <1>1, Calm, PTL

\* With a patient operator and nothing that fails, there is always a flag to go
\* on from.
THEOREM AlwaysResumable == ASSUME Patient PROVE Spec => []NothingLost
  <1>1. (Undisturbed => CalmInv) => NothingLost
    BY DEF CalmInv, NothingLost, Ready, Deleted
  <1>2. QED
    BY <1>1, Calm, PTL
=============================================================================
