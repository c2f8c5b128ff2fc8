------------------------------ MODULE MCMaster ------------------------------
(***************************************************************************)
(* Machines for the runs of Master.                                        *)
(***************************************************************************)
EXTENDS Master, TLC

CONSTANTS p1, p2

\* The two instances are alike.
Swap == Permutations(Instances)

PlainDesktop ==
  [media |-> "Desktop", osversion |-> "22.04", board |-> "other", gear |-> {"nvidia"},
   cards |-> {}, off |-> "none", parent |-> {"courtesy"}, child |-> {}, tagged |-> TRUE]

PlainServer ==
  [PlainDesktop EXCEPT !.media = "Server", !.gear = {"9560"}, !.parent = {"raid"}]

\* Machines without a HighPoint controller: every board fix, both order sources,
\* child orders, a Vizgen order on the release it is meant for.
CalmMachines ==
  {[PlainDesktop EXCEPT !.tagged = t, !.board = bd] :
      t \in BOOLEAN, bd \in {"wrx", "b650", "other"}}
  \cup {[PlainDesktop EXCEPT !.osversion = "24.04", !.child = {"vizgen"}],
        [PlainDesktop EXCEPT !.osversion = "20.04", !.parent = {"vizgen"}, !.child = {"courtesy"}],
        [PlainDesktop EXCEPT !.board = "ms73", !.gear = {"aspeed", "nvidia"}],
        [PlainDesktop EXCEPT !.board = "proart", !.tagged = FALSE]}
  \cup {[PlainServer EXCEPT !.tagged = t, !.board = bd] :
      t \in BOOLEAN, bd \in {"wrx", "proart", "other"}}
  \cup {[PlainServer EXCEPT !.board = "ms73", !.gear = {"aspeed"}]}

\* Servers with one controller.
CardMachines ==
  {[PlainServer EXCEPT !.cards = {c}, !.board = "x299", !.off = o, !.tagged = t] :
      c \in {"hp7505"}, o \in Places, t \in BOOLEAN}
  \cup {[PlainServer EXCEPT !.cards = {c}, !.board = "x299", !.off = o] :
      c \in {"hp640L", "hp3720c"}, o \in {"first", "later"}}
  \cup {[PlainServer EXCEPT !.cards = {c}, !.board = "wrx", !.parent = p, !.child = {"raid"}] :
      c \in Cards, p \in {{}, {"raid"}}}
  \cup {[PlainServer EXCEPT !.cards = {"hp7505"}, !.parent = {}]}

\* Anything: several cards, a desktop with a card, the order lines that change a
\* run, and a release the board fixes do not expect.
HostileMachines ==
  {[PlainServer EXCEPT !.cards = {"hp7505", "hp640L"}, !.parent = {"raid", "gnome"},
                       !.board = "wrx", !.tagged = FALSE],
   [PlainServer EXCEPT !.parent = {"vizgen"}, !.child = {"raid"}],
   [PlainDesktop EXCEPT !.cards = {"hp3720c"}, !.board = "wrx", !.osversion = "24.04"]}

(***************************************************************************)
(* Machines on which one run each shows that a promise is broken.          *)
(***************************************************************************)
ServerGnome == {[PlainServer EXCEPT !.parent = {"gnome"}]}
ServerCard == {[PlainServer EXCEPT !.cards = {"hp7505"}]}
TwoCards == {[PlainServer EXCEPT !.cards = {"hp7505", "hp640L"}]}
=============================================================================
