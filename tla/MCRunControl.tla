----------------------------- MODULE MCRunControl -----------------------------
(***************************************************************************)
(* RunControl with a few model values for TLC.                             *)
(***************************************************************************)
EXTENDS RunControl, TLC

\* Clients are interchangeable, and so are strategies; safety runs only.
Symmetric == Permutations(Clients) \cup Permutations(Strategies)

AllCommands == {"start", "tick", "status", "stop"}
NoStop == {"start", "tick", "status"}

=============================================================================
