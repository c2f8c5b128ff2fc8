----------------------------- MODULE MountPath -----------------------------
(***************************************************************************)
(* _mount: asks for a mount point until it has a directory.  The function  *)
(* calls itself on a bad answer, and $mount is one global variable that    *)
(* every activation reads and writes, so what an activation does after an  *)
(* inner call has returned it does to the inner call's path.  Its names    *)
(* stand beside those of MountDrives, whose _format calls it.              *)
(***************************************************************************)
EXTENDS Naturals, Sequences

CONSTANTS
  Paths,        \* absolute paths an answer can come down to
  Illegal,      \* those with a character that _mount rejects
  Orphans,      \* those whose parent directory does not exist
  MaxDepth      \* bound on nested activations

Placeholder == "placehold"   \* what $mount is set to before the first question

ASSUME PathsAssumption ==
  Illegal \subseteq Paths /\ Orphans \subseteq Paths /\ Placeholder \notin Paths
ASSUME DepthAssumption == MaxDepth \in Nat

VARIABLES
  asked,        \* the statement an activation has come to
  mount,        \* $mount
  dirs,         \* the directories among Paths
  stack,        \* where each outer activation will continue
  before,       \* the directories when _mount was called
  confirmed     \* directories the operator said "continue" to

mountVars == <<asked, mount, dirs, stack, before, confirmed>>

Points == {"checked", "retried"}

MountTypeOK ==
  /\ asked \in {"until", "read", "illegal", "exists", "asking", "mkdir", "returned"} \cup Points
  /\ mount \in Paths \cup {Placeholder}
  /\ dirs \subseteq Paths /\ before \subseteq Paths /\ confirmed \subseteq Paths
  /\ stack \in Seq(Points)

MountInit ==
  /\ asked = "until" /\ mount = Placeholder
  /\ dirs \in SUBSET (Paths \ Orphans) /\ before = dirs
  /\ stack = << >> /\ confirmed = {}

\* A nested call starts over with the placeholder and comes back to point.
Call(point) ==
  /\ Len(stack) < MaxDepth
  /\ stack' = <<point>> \o stack
  /\ mount' = Placeholder
  /\ asked' = "until"

Return ==
  IF stack = << >> THEN asked' = "returned" /\ UNCHANGED stack
  ELSE asked' = Head(stack) /\ stack' = Tail(stack)

\* until [ -d $mount ]
Until ==
  /\ asked = "until"
  /\ IF mount \in dirs THEN Return ELSE asked' = "read" /\ UNCHANGED stack
  /\ UNCHANGED <<mount, dirs, before, confirmed>>

\* The path the answer comes down to: a missing leading slash is added and an
\* empty answer becomes the default, which is not one of the illegal paths.
Read ==
  /\ asked = "read"
  /\ \E path \in Paths : mount' = path
  /\ asked' = "illegal"
  /\ UNCHANGED <<dirs, stack, before, confirmed>>

\* Mutant of CheckCharacters: the message without the nested call.
CheckCharactersWarn ==
  /\ asked = "illegal" /\ asked' = "checked"
  /\ UNCHANGED <<mount, stack, dirs, before, confirmed>>

CheckCharacters ==
  /\ asked = "illegal"
  /\ \/ mount \in Illegal /\ Call("checked")
     \/ mount \notin Illegal /\ asked' = "checked" /\ UNCHANGED <<mount, stack>>
  /\ UNCHANGED <<dirs, before, confirmed>>

\* Mutant of CheckExists: no question about a directory that exists.
CheckExistsNot ==
  /\ asked = "checked" /\ asked' = IF mount \in dirs THEN "until" ELSE "mkdir"
  /\ UNCHANGED <<mount, dirs, stack, before, confirmed>>

\* Reached with a new answer, and with the path of an inner call.
CheckExists ==
  /\ asked = "checked"
  /\ asked' = IF mount \in dirs THEN "asking" ELSE "mkdir"
  /\ UNCHANGED <<mount, dirs, stack, before, confirmed>>

Continue ==
  /\ asked = "asking"
  /\ confirmed' = confirmed \cup {mount}
  /\ Return
  /\ UNCHANGED <<mount, dirs, before>>

Retry ==
  /\ asked = "asking" /\ Call("retried")
  /\ UNCHANGED <<dirs, before, confirmed>>

\* After an inner call that "retry" made, a directory is not made again.
AfterRetry ==
  /\ asked = "retried"
  /\ asked' = IF mount \in dirs THEN "until" ELSE "mkdir"
  /\ UNCHANGED <<mount, dirs, stack, before, confirmed>>

\* mkdir without -p.
MakeDirectory ==
  /\ asked = "mkdir" /\ asked' = "until"
  /\ dirs' = IF mount \in Orphans THEN dirs ELSE dirs \cup {mount}
  /\ UNCHANGED <<mount, stack, before, confirmed>>

MountNext == \/ Until \/ Read \/ CheckCharacters \/ CheckExists \/ Continue \/ Retry
             \/ AfterRetry \/ MakeDirectory

MountSpec == MountInit /\ [][MountNext]_mountVars
-----------------------------------------------------------------------------
\* _format gets a directory with a legal name, at whatever depth the answer was
\* finally accepted.
ReturnsLegalDirectory == asked = "returned" => mount \in dirs \ Illegal

\* A directory that was there before the call is used only when the operator
\* said "continue" to it, in this activation or in an inner one.
ReusedOnlyIfConfirmed == asked = "returned" /\ mount \in before => mount \in confirmed
=============================================================================
