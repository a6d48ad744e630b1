-------------------------- MODULE MCParameterSearch --------------------------
(***************************************************************************)
(* ParameterSearch for TLC: a strategy with two searched parameters, two   *)
(* constraints and combinations of every kind, and one without choices.    *)
(***************************************************************************)
EXTENDS ParameterSearch

MCStrategies == <<"composable", "plain">>

Param(choices, optimizable, default) ==
  [choices |-> choices, optimizable |-> optimizable, default |-> default,
   minimum |-> 1, maximum |-> 9]

MCDefinitions ==
  [composable |->
    [names |-> <<"fast", "slow", "order_size">>,
     params |-> [fast |-> Param(<<2, 3, 5>>, TRUE, 2),
                 slow |-> Param(<<3, 8>>, TRUE, 8),
                 order_size |-> Param(<<1, 2>>, FALSE, 1)],
     constraints |->
       {[left |-> [of |-> "fast", times |-> 1], op |-> "<", right |-> [of |-> "slow", times |-> 1]],
        [left |-> [of |-> "fast", times |-> 2], op |-> "<=", right |-> [of |-> "slow", times |-> 1]]}]]

MCConfigured ==
  [composable |-> [fast |-> 5, slow |-> 8, order_size |-> 2], plain |-> <<>>]

Report(pnl, factor, versus, drawdown) ==
  [totalPnl |-> pnl, profitFactor |-> factor, vsBuyHold |-> versus,
   maxDrawdown |-> drawdown, deposit |-> 10, consistency |-> <<1, 2>>,
   totalReturn |-> <<pnl, 1000>>, sharpe |-> Sign(pnl), winRate |-> <<1, 2>>]

MCReports ==
  {Report(90, <<3, 2>>, <<1, 10>>, <<1, 10>>), Report(90, <<3, 2>>, <<-1, 10>>, <<1, 10>>),
   Report(40, <<2, 1>>, <<1, 10>>, <<1, 10>>), Report(0, <<0, 1>>, <<0, 1>>, <<0, 1>>),
   Report(-5, <<1, 2>>, <<1, 10>>, <<1, 5>>)}

MCDeposit == [bars \in 0..9 |-> 10]

=============================================================================
