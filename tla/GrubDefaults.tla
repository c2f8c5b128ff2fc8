---------------------------- MODULE GrubDefaults ----------------------------
(***************************************************************************)
(* The edits the installer makes to /etc/default/grub, as operators on a   *)
(* record of the lines it touches:                                         *)
(*                                                                         *)
(*   args    the words of GRUB_CMDLINE_LINUX_DEFAULT, in order.  The       *)
(*           "amd-iommu=on iommu=pt pci=nommconf" group is one word,       *)
(*           "iommu", and "simpledrm" is the initcall blacklist            *)
(*   off     where GRUB_CMDLINE_LINUX carries iommu=off: nowhere ("none"), *)
(*           as its "only" word, as the "first" of several, or "later"     *)
(*   timeout, style   GRUB_TIMEOUT and GRUB_TIMEOUT_STYLE                  *)
(*                                                                         *)
(* Every edit is a sed substitution, so what it does depends on the text   *)
(* the earlier edits left: that is what this module keeps.                 *)
(***************************************************************************)
EXTENDS Naturals, Sequences

Versions == {"20.04", "22.04", "24.04"}
Boards == {"ms73", "wrx", "proart", "b650", "x299", "other"}
Gear == {"nvidia", "aspeed", "9560"}
Words == {"quiet", "splash", "nomodeset", "iommu", "simpledrm"}

Places == {"none", "only", "first", "later"}

Grub == [args : Seq(Words), off : Places,
         timeout : Nat, style : {"hidden", "menu"}]

\* Mutant of AfterSplash: the pattern is not anchored by the closing quote.
AfterSplashAnywhere(args, word) ==
  IF \E i \in DOMAIN args : args[i] = "splash" THEN Append(args, word) ELSE args

(***************************************************************************)
(* sed 's/splash"/splash X"/': the quote makes it match only when splash   *)
(* is the last word of the line.                                           *)
(***************************************************************************)
AfterSplash(args, word) ==
  IF args # << >> /\ args[Len(args)] = "splash" THEN Append(args, word) ELSE args

(***************************************************************************)
(* sed 's/GRUB_CMDLINE_LINUX_DEFAULT=""/...="X"/': matches only the empty  *)
(* line of a server.                                                       *)
(***************************************************************************)
IntoEmpty(args, word) == IF args = << >> THEN <<word>> ELSE args

InsertWord(args, word, os) ==
  IF os = "Desktop" THEN AfterSplash(args, word) ELSE IntoEmpty(args, word)

(***************************************************************************)
(* The kernel arguments _mobofix wants, in the order it inserts them.      *)
(***************************************************************************)
WantsNomodeset(m) == m.board = "ms73" /\ "aspeed" \in m.gear
WantsIommu(m) == m.board \in {"wrx", "proart"}
WantsSimpledrm(m, os) == m.osversion = "24.04" /\ os = "Desktop"

BoardEdits(grub, m, os) ==
  LET a == IF WantsNomodeset(m) THEN InsertWord(grub.args, "nomodeset", os) ELSE grub.args
      b == IF WantsIommu(m) THEN InsertWord(a, "iommu", os) ELSE a
      c == IF WantsSimpledrm(m, os) THEN AfterSplash(b, "simpledrm") ELSE b
  IN  [grub EXCEPT !.args = c]

(***************************************************************************)
(* The patterns of a driver function: all three look for " iommu=off", and *)
(* _hp7505 also for an iommu=off with a blank behind it at the start of    *)
(* the quoted value.  Nothing looks for the only word of the line.         *)
(***************************************************************************)
Finds(card, off) == off = "later" \/ (off = "first" /\ card = "hp7505")

\* Mutant of DropIommuOff: _hp7505 without its second substitution.
DropIommuOffLater(grub, m, card) ==
  IF m.board = "x299" /\ grub.off = "later" THEN [grub EXCEPT !.off = "none"] ELSE grub

\* A HighPoint driver on the X299 board drops iommu=off.
DropIommuOff(grub, m, card) ==
  IF m.board = "x299" /\ Finds(card, grub.off) THEN [grub EXCEPT !.off = "none"] ELSE grub

MenuEdits(grub) ==
  [grub EXCEPT !.timeout = IF @ \in {0, 10} THEN 5 ELSE @, !.style = "menu"]
=============================================================================
