-------------------------------- MODULE MCFeeds --------------------------------
(* Feeds with five bars at most and pages of one or two.                       *)
EXTENDS Feeds

MCMarkets == {{1, 3, 4}}
MCWindows == {[from |-> 2, to |-> 5]}
MCPageSize == [binance |-> 1, bybit |-> 2]
MCFlawed == {<<4, 2>>}

=============================================================================
