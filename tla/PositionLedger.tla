--------------------------- MODULE PositionLedger ---------------------------
(***************************************************************************)
(* What a back-test owes its reader, stated without prices, fees or bars:  *)
(* the whole capital is either in cash or tied up in one long position,    *)
(* and every closed position is booked once, for exactly the difference    *)
(* between what came back and what was put in.                             *)
(*                                                                         *)
(* ExecutionEngine implements this ledger.                                 *)
(***************************************************************************)
EXTENDS Integers

CONSTANT Initial       \* the capital the run starts with

VARIABLES
  holding,             \* is a position open?
  capital,             \* cash when flat, the cash spent on the position when long
  realized             \* sum of the profits and losses booked so far

ledgerVars == <<holding, capital, realized>>

LedgerInit ==
  /\ holding = FALSE
  /\ capital = Initial
  /\ realized = 0

\* All the cash goes into the position: nothing is booked yet.
Open ==
  /\ ~holding
  /\ holding' = TRUE
  /\ UNCHANGED <<capital, realized>>

\* The position is sold for some non-negative amount, which is the new cash.
Close ==
  /\ holding
  /\ holding' = FALSE
  /\ capital' \in Nat
  /\ realized' = realized + (capital' - capital)

LedgerNext == Open \/ Close

LedgerSpec == LedgerInit /\ [][LedgerNext]_ledgerVars

=============================================================================
