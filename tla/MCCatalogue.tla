------------------------------ MODULE MCCatalogue ------------------------------
(* Catalogue with two processes and two strategies; the text of one of them *)
(* may be replaced by one with other parameters.                            *)
EXTENDS Catalogue, TLC

MCInstruments == [tbank |-> {"SBER"}, bybit |-> {"BTCUSDT"}]
MCSettings == Defaults("tbank", "SBER")

Text(id, lacks, params, defaults) ==
  [id |-> id, lacks |-> lacks, params |-> params, defaults |-> defaults]
MCTexts ==
  [first  |-> Text("cross", {}, [fast |-> {1, 2}], [fast |-> 1]),
   second |-> Text("cross", {}, [period |-> {2}], [period |-> 2]),
   demo   |-> Text("demo", {}, [order_size |-> {1, 2, 3}], [order_size |-> 1]),
   broken |-> Text("demo", {"rules"}, <<>>, <<>>)]

MCIds == {"cross", "demo"}
MCYaml == [cross |-> None, demo |-> "demo"]
MCOverrides == {[cross |-> <<>>, demo |-> <<>>],
                [cross |-> <<>>, demo |-> [order_size |-> 5]]}

\* Names may be given in another case.
MCNormals == [data_source |-> [Bybit |-> "bybit"], instrument |-> [btcusdt |-> "BTCUSDT"]]

Both == [kind |-> "settings", updates |-> [data_source |-> "Bybit", instrument |-> "btcusdt"]]
SourceOnly == [kind |-> "settings", updates |-> [data_source |-> "tbank"]]
Disable == [kind |-> "enable", id |-> "cross", on |-> 0]
Add(name) == [kind |-> "add", text |-> name]
Delete == [kind |-> "delete", id |-> "cross"]
Run == [kind |-> "run", id |-> "cross"]

Tokens ==
  {[kind |-> "tokens", verify |-> v,
    updates |-> [TINKOFF_TOKEN |-> "new", TWELVEDATA_TOKEN |-> "new"]] : v \in BOOLEAN}
  \cup
  {[kind |-> "tokens", verify |-> TRUE, updates |-> [TINKOFF_TOKEN |-> "newer"]]}

\* What the two processes are asked for: every pair of commands that writes the same
\* file is in one of them.
MCAgendas ==
  {{Both, SourceOnly, Disable},
   {Both, Run, Add("first")},
   {Disable, Run, Add("first"), Delete},
   {Add("first"), Add("second"), Delete, Run},
   {Add("broken"), Both, Delete},
   Tokens}

Symmetric == Permutations(Processes)

=============================================================================
