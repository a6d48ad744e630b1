---------------------------- MODULE MCCandleStore ----------------------------
(***************************************************************************)
(* CandleStore on small markets.  A table is <<instrument, timeframe>>,    *)
(* with candles every two or every four seconds; the market is closed for  *)
(* a while.                                                                *)
(***************************************************************************)
EXTENDS CandleStore, TLC

CONSTANTS Horizon, Closed, Requested, ChunkBars, TableSet

MCTables == TableSet
MCInstrument == [t \in Tables |-> t[1]]
MCBar == [t \in Tables |-> t[2]]
MCChunk == [t \in Tables |-> t[2] * ChunkBars]
MCBars == [t \in Tables |-> {b \in 0..Horizon : b % t[2] = 0 /\ b \notin Closed}]
MCWindows == {[from |-> w[1], to |-> w[2]] : w \in Requested}

OneTable == {<<"SBER", 2>>}
TwoTimeframes == {<<"SBER", 2>>, <<"SBER", 4>>}

\* The whole horizon, and its end; the hours without candles, in it or nowhere.
Lookbacks == {<<0, 11>>, <<6, 11>>}
Weekend == 2..3
Nothing == {}

Symmetric == Permutations(Loaders)

=============================================================================
