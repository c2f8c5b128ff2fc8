------------------------- MODULE MountDrivesProofs -------------------------
(***************************************************************************)
(* For any set of disks: the types, the operator's consent, distinct       *)
(* default names, and what fstab and the completion flag stand for; last,  *)
(* of MountPath, the directory that _mount returns for a disk.             *)
(***************************************************************************)
EXTENDS MountDrives, MountPath, SequenceTheorems, TLAPS

\* The initial states are well typed.
LEMMA InitTypeOK == Init => TypeOK
  <1> SUFFICES ASSUME Init PROVE TypeOK
    OBVIOUS
  <1>1. DOMAIN names = {}
    BY DEF Init
  <1>2. index \in [Series -> Int]
    BY DEF Init, Bare
  <1>3. fs \in [Drives -> Int] /\ uuid \in Int
    BY DEF Init, Old, Blank
  <1>4. QED
    BY <1>1, <1>2, <1>3, NoneAssumption DEF Init, TypeOK, Formatting

\* Counters stay numbers.
LEMMA CounterTypes == \A n : FirstIndex(n) \in Int
                      /\ \A i \in Int : Increment(i) \in Int
  BY DEF FirstIndex, Increment, Bare

\* A kind the script knows has a counter.
LEMMA NumbersSeries == \A k \in KnownKinds : Numbers(k) \in Series
  BY DEF Numbers, KnownKinds, Series

\* Every step preserves the types.
LEMMA NextTypeOK == TypeOK /\ [Next]_vars => TypeOK'
  <1> SUFFICES ASSUME TypeOK, [Next]_vars PROVE TypeOK'
    OBVIOUS
  <1> USE NoneAssumption, BoundsAssumption
  <1>1. CASE Begin
    <2>1. index' \in [Series -> Int]
      BY <1>1, CounterTypes DEF Begin
    <2>2. todo' \subseteq Drives /\ drive' = None /\ names' = << >>
      BY <1>1 DEF Begin, Candidates
    <2>3. pc' \in {"flag", "next"} /\ accepted' = {} /\ partition' = None /\ uuid' = Blank
      BY <1>1 DEF Begin
    <2>4. UNCHANGED <<machine, disks, mounted, flag, consented, offered, bounds>>
      BY <1>1 DEF Begin
    <2>5. QED
      BY <2>1, <2>2, <2>3, <2>4 DEF TypeOK, Formatting, machine, disks, bounds, Blank
  <1>2. CASE NextDrive
    <2>1. PICK d \in todo :
            /\ Take(d) /\ drive' = d /\ offered' = offered \cup {d}
            /\ \/ /\ kind[d] \in KnownKinds
                  /\ names' = [e \in DOMAIN names \cup {d} |->
                                 IF e = d THEN <<Label(kind[d]), index[Numbers(kind[d])]>>
                                 ELSE names[e]]
                  /\ index' = [index EXCEPT ![Numbers(kind[d])] = Increment(@)]
                  /\ partition' = FirstPartition(d)
               \/ kind[d] \notin KnownKinds /\ UNCHANGED <<names, index, partition>>
      BY <1>2 DEF NextDrive
    <2>2. index' \in [Series -> Int]
      BY <2>1, CounterTypes, NumbersSeries DEF TypeOK
    <2>3. DOMAIN names' \subseteq Drives
      BY <2>1 DEF TypeOK
    <2>4. partition' \in Drives \cup {None}
      BY <2>1 DEF TypeOK, FirstPartition
    <2>5. pc' = "prompt" /\ UNCHANGED <<machine, uuid, disks, mounted, flag, accepted, consented, bounds>>
      BY <1>2 DEF NextDrive
    <2>6. todo' \subseteq Drives /\ drive' \in Drives \ todo' /\ offered' \subseteq Drives
      BY <2>1 DEF Take, TypeOK
    <2>7. QED
      BY <2>2, <2>3, <2>4, <2>5, <2>6 DEF TypeOK, Formatting, machine, disks, bounds
  <1>3. CASE AnswerNo
    BY <1>3 DEF AnswerNo, Onward, TypeOK, Formatting, machine, loop, disks, answers, bounds
  <1>4. CASE AnswerYes
    BY <1>4 DEF AnswerYes, TypeOK, Formatting, machine, loop, disks, bounds
  <1>5. CASE MakeLabel
    BY <1>5 DEF MakeLabel, TypeOK, Formatting, machine, loop, disks, answers, bounds
  <1>6. CASE MakePartition
    BY <1>6 DEF MakePartition, TypeOK, Formatting, machine, loop, disks, answers, bounds
  <1>7. CASE MakeFs
    BY <1>7 DEF MakeFs, TypeOK, Formatting, machine, loop, disks, answers, bounds
  <1>8. CASE ReadUuid
    BY <1>8 DEF ReadUuid, HasPartition, TypeOK, Formatting, machine, disks, answers, bounds, Blank
  <1>9. CASE AddFstab
    BY <1>9 DEF AddFstab, Onward, TypeOK, Formatting, machine, loop, answers, bounds
  <1>10. CASE WriteFlag
    BY <1>10 DEF WriteFlag, TypeOK, Formatting, machine, loop, disks, answers, bounds
  <1>11. CASE Reboot
    BY <1>11 DEF Reboot, TypeOK, Formatting, machine, loop, disks, answers
  <1>12. CASE Kill
    BY <1>12 DEF Kill, TypeOK, Formatting, machine, loop, disks, answers
  <1>13. CASE UNCHANGED vars
    BY <1>13 DEF vars, TypeOK, Formatting, machine, loop, disks, answers, bounds
  <1>14. QED
    BY <1>1, <1>2, <1>3, <1>4, <1>5, <1>6, <1>7, <1>8, <1>9, <1>10, <1>11, <1>12, <1>13 DEF Next

\* The variables of mount.sh always have their types.
THEOREM Typing == Spec => []TypeOK
  BY InitTypeOK, NextTypeOK, PTL DEF Spec

-----------------------------------------------------------------------------
(***************************************************************************)
(* Consent.  With kinds the script knows, $partition names the first       *)
(* partition of $drive or nothing at all whenever _format uses it, and     *)
(* $drive has been accepted.                                               *)
(***************************************************************************)
ConsentInv ==
  /\ TypeOK
  /\ pc = "prompt" \/ Formatting => partition \in {drive, None}
  /\ Formatting => drive \in consented
  /\ ConsentedOnly

LEMMA InitConsent == Init => ConsentInv
  BY InitTypeOK DEF ConsentInv, ConsentedOnly, Init, Formatting, Old, Blank

LEMMA NextConsent ==
  ASSUME Kinds \subseteq KnownKinds
  PROVE  ConsentInv /\ [Next]_vars => ConsentInv'
  <1> SUFFICES ASSUME ConsentInv, [Next]_vars PROVE ConsentInv'
    OBVIOUS
  <1>0. TypeOK /\ TypeOK'
    BY NextTypeOK DEF ConsentInv
  <1> USE <1>0 DEF ConsentInv, ConsentedOnly, Formatting
  <1>1. CASE Begin
    BY <1>1 DEF Begin, disks
  <1>2. CASE NextDrive
    <2>1. PICK d \in todo : drive' = d /\ partition' \in {d, None}
      BY <1>2 DEF NextDrive, FirstPartition, TypeOK
    <2>2. QED
      BY <1>2, <2>1 DEF NextDrive, disks
  <1>3. CASE AnswerNo
    BY <1>3 DEF AnswerNo, Onward, loop, disks, answers
  <1>4. CASE AnswerYes
    BY <1>4 DEF AnswerYes, loop, disks
  <1>5. CASE MakeLabel
    BY <1>5 DEF MakeLabel, TypeOK, loop, answers
  <1>6. CASE MakePartition
    BY <1>6 DEF MakePartition, TypeOK, loop, answers
  <1>7. CASE MakeFs
    BY <1>7 DEF MakeFs, HasPartition, TypeOK, loop, answers
  <1>8. CASE ReadUuid
    BY <1>8 DEF ReadUuid, disks, answers
  <1>9. CASE AddFstab
    BY <1>9 DEF AddFstab, Onward, loop, answers
  <1>10. CASE WriteFlag
    BY <1>10 DEF WriteFlag, loop, disks, answers
  <1>11. CASE Reboot
    BY <1>11 DEF Reboot, loop, disks, answers
  <1>12. CASE Kill
    BY <1>12 DEF Kill, loop, disks, answers
  <1>13. CASE UNCHANGED vars
    BY <1>13 DEF vars, loop, disks, answers
  <1>14. QED
    BY <1>1, <1>2, <1>3, <1>4, <1>5, <1>6, <1>7, <1>8, <1>9, <1>10, <1>11, <1>12, <1>13 DEF Next

\* No disk changes without an answer of Y, however the passes are interrupted and
\* repeated, when the script knows the kinds of all the disks.
THEOREM Consent ==
  ASSUME Kinds \subseteq KnownKinds
  PROVE  Spec => []ConsentedOnly
  <1>1. ConsentInv /\ [Next]_vars => ConsentInv'
    BY NextConsent
  <1>2. ConsentInv => ConsentedOnly
    BY DEF ConsentInv
  <1>3. QED
    BY InitConsent, <1>1, <1>2, PTL DEF Spec

-----------------------------------------------------------------------------
(***************************************************************************)
(* Default mount points.  A name given in this pass carries the label of   *)
(* its disk's kind and a number the kind's counter has passed.             *)
(***************************************************************************)
Passed(d, i) == i \in Int /\ i < index[Numbers(kind[d])] /\ names[d] = <<Label(kind[d]), i>>
NamesInv == TypeOK /\ \A d \in DOMAIN names : \E i : Passed(d, i)

\* Kinds with the same label share a counter.
LEMMA LabelCounter ==
  \A k, l \in KnownKinds \ {"hpt"} : Label(k) = Label(l) => Numbers(k) = Numbers(l)
  BY DEF KnownKinds, Label, Numbers

LEMMA IncrementPasses == \A i \in Int : i < Increment(i)
  BY DEF Increment, Bare

\* Two disks have different names as long as every name is behind its counter.
DistinctInv == NamesInv /\ DistinctDefaults

LEMMA NextDistinct ==
  ASSUME Kinds \subseteq KnownKinds \ {"hpt"}
  PROVE  DistinctInv /\ [Next]_vars => DistinctInv'
  <1> SUFFICES ASSUME DistinctInv, [Next]_vars PROVE DistinctInv'
    OBVIOUS
  <1>0. TypeOK /\ TypeOK'
    BY NextTypeOK DEF DistinctInv, NamesInv
  <1>1. CASE Begin
    <2>1. DOMAIN names' = {}
      BY <1>1 DEF Begin
    <2>2. QED
      BY <1>0, <2>1 DEF DistinctInv, NamesInv, DistinctDefaults
  <1>2. CASE NextDrive
    <2>1. PICK d \in todo :
            /\ names' = [e \in DOMAIN names \cup {d} |->
                           IF e = d THEN <<Label(kind[d]), index[Numbers(kind[d])]>>
                           ELSE names[e]]
            /\ index' = [index EXCEPT ![Numbers(kind[d])] = Increment(@)]
      BY <1>0, <1>2 DEF NextDrive, TypeOK
    <2>2. kind' = kind
      BY <1>2 DEF NextDrive, machine
    <2>3. d \in Drives /\ kind[d] \in KnownKinds \ {"hpt"} /\ Numbers(kind[d]) \in Series
      BY <1>0, NumbersSeries DEF TypeOK
    <2>4. \A c \in Series : index[c] \in Int /\ index[c] <= index'[c]
      BY <1>0, <2>1, <2>3, IncrementPasses, CounterTypes DEF TypeOK
    <2>5. (\E i : Passed(d, i))'
      <3>1. PICK i \in Int : i = index[Numbers(kind[d])]
        BY <2>3, <2>4
      <3>2. i < index'[Numbers(kind[d])]
        BY <1>0, <2>1, <2>3, <3>1, IncrementPasses DEF TypeOK
      <3>3. Passed(d, i)'
        BY <2>1, <2>2, <3>1, <3>2 DEF Passed
      <3>4. QED
        BY <3>3
    <2>6. ASSUME NEW e \in DOMAIN names, e # d
          PROVE  (\E i : Passed(e, i))' /\ names'[e] # names'[d]
      <3>1. e \in Drives /\ kind[e] \in KnownKinds \ {"hpt"} /\ Numbers(kind[e]) \in Series
        BY <1>0, NumbersSeries DEF TypeOK
      <3>2. PICK i : Passed(e, i)
        BY DEF DistinctInv, NamesInv
      <3>3. names'[e] = names[e]
        BY <2>1, <2>6
      <3>4. Passed(e, i)'
        BY <1>0, <2>2, <2>4, <3>1, <3>2, <3>3 DEF Passed, TypeOK
      <3>5. names[e] # <<Label(kind[d]), index[Numbers(kind[d])]>>
        BY <2>3, <2>4, <3>1, <3>2, LabelCounter DEF Passed
      <3>6. QED
        BY <2>1, <3>3, <3>4, <3>5
    <2>7. DOMAIN names' = DOMAIN names \cup {d}
      BY <2>1
    <2>8. \A e, f \in DOMAIN names \ {d} : names'[e] = names[e] /\ names'[f] = names[f]
      BY <2>1
    <2>9. NamesInv'
      BY <1>0, <2>5, <2>6, <2>7 DEF NamesInv
    <2>10. DistinctDefaults'
      BY <2>6, <2>7, <2>8 DEF DistinctInv, DistinctDefaults
    <2>11. QED
      BY <2>9, <2>10 DEF DistinctInv
  <1>3. CASE UNCHANGED <<kind, index, names>>
    BY <1>0, <1>3 DEF DistinctInv, NamesInv, DistinctDefaults, Passed
  <1>4. QED
    <2>1. [Next]_vars => Begin \/ NextDrive \/ UNCHANGED <<kind, index, names>>
      BY DEF Next, AnswerNo, AnswerYes, MakeLabel, MakePartition, MakeFs, ReadUuid, AddFstab,
             WriteFlag, Reboot, Kill, vars, machine, loop
    <2>2. QED
      BY <1>1, <1>2, <1>3, <2>1

\* The default mount points of a pass differ, for any number of disks of any
\* kinds except hpt, which takes its numbers from another series.
THEOREM DistinctNames ==
  ASSUME Kinds \subseteq KnownKinds \ {"hpt"}
  PROVE  Spec => []DistinctDefaults
  <1>1. Init => DistinctInv
    <2>1. Init => DOMAIN names = {}
      BY DEF Init
    <2>2. QED
      BY <2>1, InitTypeOK DEF DistinctInv, NamesInv, DistinctDefaults
  <1>2. DistinctInv /\ [Next]_vars => DistinctInv'
    BY NextDistinct
  <1>3. DistinctInv => DistinctDefaults
    BY DEF DistinctInv
  <1>4. QED
    BY <1>1, <1>2, <1>3, PTL DEF Spec

-----------------------------------------------------------------------------
(***************************************************************************)
(* fstab.  While _format works on $drive that disk backs no line of fstab  *)
(* and is not mounted, so every line stays backed by another disk; by the  *)
(* time the line of $drive is added its file system is there.              *)
(***************************************************************************)
Backed(u) == \E d \in Drives : table[d] = "one" /\ fs[d] = u /\ (Formatting => d # drive)

FormatInv ==
  /\ TypeOK
  /\ pc = "prompt" \/ Formatting => partition = drive
  /\ Formatting => drive \notin mounted
  /\ pc \in {"mkfs", "blkid", "fstab"} => table[drive] = "one"
  /\ pc = "fstab" => uuid = fs[drive]
  /\ \A u \in fstab : Backed(u)
  /\ \A d \in mounted : InFstab(d)
  /\ flag => pc = "idle"
  /\ pc \in {"next", "prompt", "flag"} \/ Formatting \/ flag
       => \A d \in accepted : InFstab(d) \/ (Formatting /\ d = drive)

LEMMA InitFormat == Init => FormatInv
  BY InitTypeOK DEF FormatInv, Init, Formatting

LEMMA NextFormat ==
  ASSUME Kinds \subseteq KnownKinds \ {"hpt"}, Careful
  PROVE  FormatInv /\ [Next]_vars => FormatInv'
  <1> SUFFICES ASSUME FormatInv, [Next]_vars PROVE FormatInv'
    OBVIOUS
  <1>0. TypeOK /\ TypeOK'
    BY NextTypeOK DEF FormatInv
  <1> USE <1>0 DEF FormatInv, Backed, Formatting, InFstab
  <1>1. CASE Begin
    BY <1>1 DEF Begin, disks
  <1>2. CASE NextDrive
    <2>1. PICK d \in todo : drive' = d /\ partition' = d
      BY <1>2 DEF NextDrive, FirstPartition, TypeOK
    <2>2. QED
      BY <1>2, <2>1 DEF NextDrive, disks
  <1>3. CASE AnswerNo
    BY <1>3 DEF AnswerNo, Onward, loop, disks, answers
  <1>4. CASE AnswerYes
    BY <1>4 DEF AnswerYes, loop, disks
  <1>5. CASE MakeLabel
    BY <1>5 DEF MakeLabel, TypeOK, loop, answers
  <1>6. CASE MakePartition
    BY <1>6 DEF MakePartition, TypeOK, loop, answers
  <1>7. CASE MakeFs
    BY <1>7 DEF MakeFs, HasPartition, TypeOK, loop, answers
  <1>8. CASE ReadUuid
    BY <1>8 DEF ReadUuid, HasPartition, TypeOK, disks, answers
  <1>9. CASE AddFstab
    BY <1>9 DEF AddFstab, Onward, TypeOK, loop, answers
  <1>10. CASE WriteFlag
    BY <1>10 DEF WriteFlag, loop, disks, answers
  <1>11. CASE Reboot
    BY <1>11 DEF Reboot, loop, disks, answers
  <1>12. CASE Kill
    BY <1>12 DEF Kill, loop, disks, answers
  <1>13. CASE UNCHANGED vars
    BY <1>13 DEF vars, loop, disks, answers
  <1>14. QED
    BY <1>1, <1>2, <1>3, <1>4, <1>5, <1>6, <1>7, <1>8, <1>9, <1>10, <1>11, <1>12, <1>13 DEF Next

\* With an operator who declines a disk that fstab already has, every line of
\* fstab resolves at every boot and after every interrupted pass.
THEOREM Resolves ==
  ASSUME Kinds \subseteq KnownKinds \ {"hpt"}, Careful
  PROVE  Spec => []FstabResolves
  <1>1. FormatInv /\ [Next]_vars => FormatInv'
    BY NextFormat
  <1>2. FormatInv => FstabResolves
    BY DEF FormatInv, FstabResolves, Backed
  <1>3. QED
    BY InitFormat, <1>1, <1>2, PTL DEF Spec

\* Under the same conditions the completion flag is only there when every disk
\* accepted in the pass that wrote it has its file system and its fstab line.
THEOREM FlagIsTrue ==
  ASSUME Kinds \subseteq KnownKinds \ {"hpt"}, Careful
  PROVE  Spec => []FlagMeansDone
  <1>1. FormatInv /\ [Next]_vars => FormatInv'
    BY NextFormat
  <1>2. FormatInv => FlagMeansDone
    BY DEF FormatInv, FlagMeansDone, Formatting
  <1>3. QED
    BY InitFormat, <1>1, <1>2, PTL DEF Spec

-----------------------------------------------------------------------------
(***************************************************************************)
(* The directory of a disk: for each one that is accepted _format calls    *)
(* _mount, which keeps its promise whatever the operator answers and       *)
(* however deep its calls nest.                                            *)
(***************************************************************************)

\* What _mount has established about $mount where an activation may continue:
\* the activation that gets control back relies on nothing but this.
PathInv ==
  /\ asked \notin {"until", "read"} => mount \in Paths
  /\ asked \in Points \cup {"until", "asking", "mkdir", "returned"} => mount \notin Illegal
  /\ asked \in {"asking", "returned"} => mount \in dirs
  /\ asked = "mkdir" => mount \notin dirs
  /\ asked \in {"until", "retried", "returned"} /\ mount \in before => mount \in confirmed
  /\ asked = "retried" => mount \in dirs
  /\ before \subseteq dirs

\* Taking the first element off a non-empty stack leaves a stack.
LEMMA PopsStack ==
  ASSUME NEW s \in Seq(Points), s # << >>
  PROVE  Head(s) \in Points /\ Tail(s) \in Seq(Points)
  BY HeadTailProperties

\* Returning keeps the state well typed and ends at an outer activation or at
\* the caller.
LEMMA ReturnGoes ==
  ASSUME MountTypeOK, Return
  PROVE  asked' \in Points \cup {"returned"} /\ stack' \in Seq(Points)
  <1>1. CASE stack = << >>
    BY <1>1 DEF Return, MountTypeOK
  <1>2. CASE stack # << >>
    BY <1>2, PopsStack DEF Return, MountTypeOK
  <1>3. QED
    BY <1>1, <1>2

LEMMA CallGoes ==
  ASSUME MountTypeOK, NEW point \in Points, Call(point)
  PROVE  stack' \in Seq(Points) /\ mount' = Placeholder /\ asked' = "until"
  BY DEF Call, MountTypeOK

\* The initial states satisfy the invariant.
LEMMA InitPath ==
  ASSUME MountInit
  PROVE  MountTypeOK /\ PathInv
  <1> USE PathsAssumption
  <1>1. MountTypeOK
    BY DEF MountInit, MountTypeOK, Points
  <1>2. PathInv
    BY DEF MountInit, PathInv, Points
  <1>3. QED
    BY <1>1, <1>2

\* Every statement of _mount preserves it.
LEMMA NextPath ==
  ASSUME MountTypeOK /\ PathInv, [MountNext]_mountVars
  PROVE  (MountTypeOK /\ PathInv)'
  <1> USE PathsAssumption
  <1>1. CASE Until
    <2>1. CASE mount \in dirs
      <3>1. Return /\ asked = "until"
        BY <1>1, <2>1 DEF Until
      <3>2. asked' \in Points \cup {"returned"} /\ stack' \in Seq(Points)
        BY <3>1, ReturnGoes
      <3>3. QED
        BY <1>1, <2>1, <3>1, <3>2 DEF Until, MountTypeOK, PathInv, Points
    <2>2. CASE mount \notin dirs
      BY <1>1, <2>2 DEF Until, MountTypeOK, PathInv, Points
    <2>3. QED
      BY <2>1, <2>2
  <1>2. CASE Read
    BY <1>2 DEF Read, MountTypeOK, PathInv, Points
  <1>3. CASE CheckCharacters
    <2>1. CASE mount \in Illegal
      <3>1. Call("checked")
        BY <1>3, <2>1 DEF CheckCharacters
      <3>2. stack' \in Seq(Points) /\ mount' = Placeholder /\ asked' = "until"
        BY <3>1, CallGoes DEF Points
      <3>3. QED
        BY <1>3, <3>2 DEF CheckCharacters, MountTypeOK, PathInv, Points
    <2>2. CASE mount \notin Illegal
      BY <1>3, <2>2 DEF CheckCharacters, MountTypeOK, PathInv, Points
    <2>3. QED
      BY <2>1, <2>2
  <1>4. CASE CheckExists
    BY <1>4 DEF CheckExists, MountTypeOK, PathInv, Points
  <1>5. CASE Continue
    <2>1. asked' \in Points \cup {"returned"} /\ stack' \in Seq(Points)
      BY <1>5, ReturnGoes DEF Continue
    <2>2. QED
      BY <1>5, <2>1 DEF Continue, MountTypeOK, PathInv, Points
  <1>6. CASE Retry
    <2>1. stack' \in Seq(Points) /\ mount' = Placeholder /\ asked' = "until"
      BY <1>6, CallGoes DEF Retry, Points
    <2>2. QED
      BY <1>6, <2>1 DEF Retry, MountTypeOK, PathInv, Points
  <1>7. CASE AfterRetry
    BY <1>7 DEF AfterRetry, MountTypeOK, PathInv, Points
  <1>8. CASE MakeDirectory
    BY <1>8 DEF MakeDirectory, MountTypeOK, PathInv, Points
  <1>9. CASE UNCHANGED mountVars
    BY <1>9 DEF mountVars, MountTypeOK, PathInv, Points
  <1>10. QED
    BY <1>1, <1>2, <1>3, <1>4, <1>5, <1>6, <1>7, <1>8, <1>9 DEF MountNext

\* The invariant holds in every reachable state.
LEMMA PathAlways == MountSpec => [](MountTypeOK /\ PathInv)
  <1>1. MountInit => MountTypeOK /\ PathInv
    BY InitPath
  <1>2. (MountTypeOK /\ PathInv) /\ [MountNext]_mountVars => (MountTypeOK /\ PathInv)'
    BY NextPath
  <1>3. QED
    BY <1>1, <1>2, PTL DEF MountSpec

\* _mount's variables always have their types, at any depth of nesting.
THEOREM PathTyping == MountSpec => []MountTypeOK
  BY PathAlways, PTL

\* The path that _format gets is a directory with a legal name.
THEOREM LegalDirectory == MountSpec => []ReturnsLegalDirectory
  <1>1. PathInv => ReturnsLegalDirectory
    BY DEF PathInv, ReturnsLegalDirectory, Points
  <1>2. QED
    BY <1>1, PathAlways, PTL

\* A directory that was there before is used only when the operator said so.
THEOREM ConfirmedReuse == MountSpec => []ReusedOnlyIfConfirmed
  <1>1. PathInv => ReusedOnlyIfConfirmed
    BY DEF PathInv, ReusedOnlyIfConfirmed, Points
  <1>2. QED
    BY <1>1, PathAlways, PTL
=============================================================================
