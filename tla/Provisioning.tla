---------------------------- MODULE Provisioning ----------------------------
(***************************************************************************)
(* What the installer promises about its own life on a machine: however    *)
(* often a run is interrupted by a reboot or a power loss, a launch line   *)
(* is left behind that starts the next one, and once a run has reached its *)
(* end no launch line is left and nothing starts again.                    *)
(***************************************************************************)
VARIABLES
  phase,   \* "waiting" for a login, "running", or "complete"
  armed    \* a launch line will start the installer at the next login

pvars == <<phase, armed>>

Init == phase = "waiting" /\ armed = TRUE

\* A login runs the launch line.
Start == phase = "waiting" /\ armed /\ phase' = "running" /\ UNCHANGED armed

\* A run may rewrite the launch line as it goes ...
Rewrite == phase = "running" /\ armed' \in BOOLEAN /\ UNCHANGED phase

\* ... but wherever it stops, the line must be there.
Interrupt == phase = "running" /\ armed /\ phase' = "waiting" /\ UNCHANGED armed

\* The end of the installation takes the launch line away for good.
Complete == phase = "running" /\ phase' = "complete" /\ armed' = FALSE

Next == Start \/ Rewrite \/ Interrupt \/ Complete

Spec == Init /\ [][Next]_pvars
=============================================================================
