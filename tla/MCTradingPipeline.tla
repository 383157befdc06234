------------------------- MODULE MCTradingPipeline -------------------------
(***************************************************************************)
(* Two feed threads and two strategies, one of which trades.  The          *)
(* accounting feed and the broker's health monitor are silent, as nothing  *)
(* in the repository drives them.                                          *)
(***************************************************************************)
EXTENDS TradingPipeline, TLC

CONSTANTS s1, s2, st1, st2, f1, f2

MCHardLimits ==
  [max_open_positions |-> 1, max_gross_exposure |-> 26, max_net_exposure |-> 19,
   max_order |-> 15, max_single_position_qty |-> 3, max_daily_loss |-> 10,
   max_drawdown_permille |-> 100, max_spread_permille |-> 100, max_tick_age |-> 1,
   duplicate_window |-> 1, max_broker_latency |-> 5, max_symbol_exposure |-> 18,
   max_correlated_exposure |-> 24]

Order(st, s, side, qty) ==
  [strategy_id |-> st, symbol |-> s, side |-> side, quantity |-> qty,
   order_type |-> "LIMIT", price |-> 5]

\* The second strategy only watches.
MCOneOrder == {Order(st1, s1, "BUY", 1)}
MCTwoOrders == {Order(st1, s1, "BUY", 1), Order(st1, s2, "BUY", 1)}
\* Feed threads are interchangeable; used where only safety is checked.
FeederSymmetry == Permutations({f1, f2})

MCMarks == (s1 :> {}) @@ (s2 :> {})
=============================================================================
