----------------------------- MODULE MCHighPoint -----------------------------
EXTENDS HighPoint

\* With and without a controller; no, one or two arrays from before.
AllHosts ==
  {[media |-> m, card |-> TRUE, x299 |-> x, off |-> o, old |-> n] :
      m \in {"Desktop", "Server"}, x \in BOOLEAN, o \in {"front", "behind"}, n \in 0 .. 2}
  \cup {[media |-> "Server", card |-> FALSE, x299 |-> FALSE, off |-> "none", old |-> 0]}

OneServer == {[media |-> "Server", card |-> TRUE, x299 |-> FALSE, off |-> "none", old |-> 1]}
=============================================================================
