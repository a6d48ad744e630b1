------------------------------ MODULE MCDashboard ------------------------------
(***************************************************************************)
(* Dashboard with a few model values for TLC.                              *)
(***************************************************************************)
EXTENDS Dashboard, TLC

CONSTANT s1, s2

\* Nothing yet; a finished run with a live card; and what a run of other enabled
\* strategies has left behind when it died.
MCEarlier ==
  {None,
   [entry  |-> [s \in Strategies |-> IF s = s2 THEN "live" ELSE "completed"],
    ranked |-> Strategies],
   [entry  |-> [s \in Strategies |-> IF s = s2 THEN "running" ELSE "completed"],
    ranked |-> {}]}

=============================================================================
