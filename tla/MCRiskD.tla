------------------------------ MODULE MCRiskD ------------------------------
(***************************************************************************)
(* A small account for TLC: two correlated symbols, one strategy, limits   *)
(* that one or two orders use up.                                          *)
(***************************************************************************)
EXTENDS RiskD, TLC

CONSTANTS s1, s2, st1

MCSymbols == {s1, s2}
MCGroups == {{s1, s2}}

MCHardLimits ==
  [max_open_positions |-> 2, max_gross_exposure |-> 26, max_net_exposure |-> 19,
   max_order |-> 15, max_single_position_qty |-> 3, max_daily_loss |-> 10,
   max_drawdown_permille |-> 100, max_spread_permille |-> 100, max_tick_age |-> 1,
   duplicate_window |-> 2, max_broker_latency |-> 5, max_symbol_exposure |-> 18,
   max_correlated_exposure |-> 24]

Order(s, side, qty, type, price) ==
  [strategy_id |-> st1, symbol |-> s, side |-> side, quantity |-> qty,
   order_type |-> type, price |-> price]

MCDecisions == {Order(s1, "BUY", 2, "LIMIT", 5), Order(s1, "SELL", 3, "MARKET", 0)}
MCTicks == {NoTick, [age |-> 1, mid |-> 5, spread |-> 0]}

Mark(qty, avg, current) == [quantity |-> qty, avg_price |-> avg, current_price |-> current]
MCMarks == (s1 :> {Mark(0, 0, 5), Mark(2, 7, 5), Mark(-2, 5, 5)})
        @@ (s2 :> {Mark(0, 0, 5), Mark(2, 5, 5)})

\* A position smaller than the order that sells it.
MCSmallMarks == (s1 :> {Mark(1, 5, 5)}) @@ (s2 :> {})

MCPnls == {-5, 5}
MCDrawdowns == {50}
MCLatencies == {9}
=============================================================================
