------------------------------- MODULE RiskD -------------------------------
(***************************************************************************)
(* The central safety boundary of KAIROS, trading/riskd.py: the portfolio  *)
(* accounting, the risk-state machine and the pre-trade evaluation         *)
(* pipeline.  Every public method holds the object's RLock for its whole   *)
(* body, so each is one atomic action.                                     *)
(*                                                                         *)
(* Abstractions:                                                           *)
(*  - amounts are integers and percentages are per mille of an integer, so *)
(*    a comparison of ratios is a comparison of products;                  *)
(*  - a symbol without a position has quantity 0, which is exactly when    *)
(*    update_position drops it from the dictionary;                        *)
(*  - a decision is a record of the six fields the order hash is built     *)
(*    from, so the hash is the record itself.  Price 0 stands for None and *)
(*    for every non-positive price, which the code treats alike;           *)
(*  - a market tick carries its age at the moment of the evaluation.       *)
(***************************************************************************)
EXTENDS Integers, FiniteSets, Functions

CONSTANTS
  Symbols,            \* tradable symbols
  Strategies,         \* strategy identifiers
  RestrictedSymbols,  \* _restricted_symbols, a blacklist set up before trading
  CorrelationGroups,  \* the symbol sets of _correlation_groups
  Decisions,          \* the order intents the environment submits
  Ticks,              \* the market ticks it may pass along, NoTick among them
  NoTick,             \* evaluate() called without a market tick
  CloseOnlySettings,  \* close-only settings the operator makes
  Pausable,           \* strategies the operator pauses and resumes
  Marks,              \* updates the accounting feed may report, for each symbol
  Pnls,               \* realized P&L amounts it may report
  Drawdowns,          \* drawdowns, per mille, a test fixture may set
  Latencies,          \* broker latencies the health monitor may report
  HardLimits,         \* the RiskHardLimits record
  InitialEquity,      \* _initial_daily_equity
  DefaultPrice,       \* notional price of a market order without a tick
  MaxTime,            \* bound: the wall clock shows times in 0..MaxTime
  MaxAbsPnl           \* bound: the realized P&L stays within -MaxAbsPnl..MaxAbsPnl

LimitNames == {"max_open_positions", "max_gross_exposure", "max_net_exposure",
               "max_order", "max_single_position_qty", "max_daily_loss",
               "max_drawdown_permille", "max_spread_permille", "max_tick_age",
               "duplicate_window", "max_broker_latency", "max_symbol_exposure",
               "max_correlated_exposure"}

RiskStates == {"SAFE", "NORMAL", "CAUTION", "RESTRICTED", "HALTED"}
Times == 0 .. MaxTime
PnlRange == -MaxAbsPnl .. MaxAbsPnl
Never == -1

Position == [quantity : Int, avg_price : Int, current_price : Nat]
NoPosition == [quantity |-> 0, avg_price |-> 0, current_price |-> 0]

Decision == [strategy_id : Strategies, symbol : Symbols, side : {"BUY", "SELL"},
             quantity : Int, order_type : {"MARKET", "LIMIT", "STOP"}, price : Nat]
Tick == [age : Nat, mid : Nat, spread : Nat]

ASSUME SetsAssumption ==
  /\ IsFiniteSet(Symbols)
  /\ RestrictedSymbols \subseteq Symbols
  /\ CorrelationGroups \subseteq SUBSET Symbols
  /\ Decisions \subseteq Decision
  /\ NoTick \notin Tick
  /\ Ticks \subseteq Tick \cup {NoTick}
  /\ CloseOnlySettings \subseteq BOOLEAN
  /\ Pausable \subseteq Strategies
  /\ Marks \in [Symbols -> SUBSET Position]

ASSUME NumbersAssumption ==
  /\ Pnls \subseteq Int
  /\ Drawdowns \subseteq 0 .. 1000
  /\ Latencies \subseteq Nat
  /\ HardLimits \in [LimitNames -> Nat \ {0}]
  /\ InitialEquity \in Nat \ {0}
  /\ DefaultPrice \in Nat \ {0}
  /\ MaxTime \in Nat
  /\ MaxAbsPnl \in Nat

VARIABLES
  riskState,         \* _risk_state
  emergencyHalt,     \* _emergency_halt
  closeOnlyMode,     \* _close_only_mode
  pausedStrategies,  \* _paused_strategies
  positions,         \* _positions
  realizedDailyPnl,  \* _realized_daily_pnl
  peakDailyEquity,   \* _peak_daily_equity
  recentOrders,      \* _recent_orders: when each order hash was last let through
  broker,            \* _broker_connected and _broker_latency_ms
  clock,             \* time.time(), a wall clock that may step backwards
  lastApproved       \* history: when each order was last approved

controlVars == <<emergencyHalt, closeOnlyMode, pausedStrategies>>
bookVars == <<positions, realizedDailyPnl>>
stateVars == <<riskState, peakDailyEquity>>
orderVars == <<recentOrders, lastApproved>>
vars == <<controlVars, bookVars, stateVars, orderVars, broker, clock>>

Abs(n) == IF n < 0 THEN -n ELSE n
Larger(m, n) == IF n > m THEN n ELSE m

----------------------------------------------------------------------------
(* Portfolio accounting *)

MarketValue(book) == [s \in Symbols |-> Abs(book[s].quantity * book[s].current_price)]
SignedValue(book) == [s \in Symbols |-> book[s].quantity * book[s].current_price]
UnrealizedPnl(book) ==
  [s \in Symbols |-> (book[s].current_price - book[s].avg_price) * book[s].quantity]

Exposure(book, S) == SumFunctionOnSet(MarketValue(book), S)
NetExposure(book) == SumFunctionOnSet(SignedValue(book), Symbols)
OpenSymbols(book) == {s \in Symbols : book[s].quantity # 0}

DailyPnl == realizedDailyPnl + SumFunctionOnSet(UnrealizedPnl(positions), Symbols)
Equity == InitialEquity + DailyPnl
Drawdown == peakDailyEquity - Equity

(***************************************************************************)
(* Loss or drawdown has used up n tenths of what the limits allow.         *)
(***************************************************************************)
LimitsUsed(n) ==
  \/ 10 * DailyPnl <= -(n * HardLimits.max_daily_loss)
  \/ /\ peakDailyEquity > 0
     /\ 10000 * Drawdown >= n * HardLimits.max_drawdown_permille * peakDailyEquity

NearPositionCap ==
  10 * Cardinality(OpenSymbols(positions)) >= 8 * HardLimits.max_open_positions

(***************************************************************************)
(* The state the rules of _recalculate_risk_state give the current         *)
(* portfolio and switches.                                                 *)
(***************************************************************************)
Classification ==
  IF emergencyHalt \/ LimitsUsed(10) THEN "HALTED"
  ELSE IF closeOnlyMode \/ LimitsUsed(7) THEN "RESTRICTED"
  ELSE IF LimitsUsed(4) \/ NearPositionCap THEN "CAUTION"
  ELSE "NORMAL"

\* Mutant: the peak is never moved.
RecalculateWithoutPeak ==
  /\ peakDailyEquity' = peakDailyEquity
  /\ riskState' = Classification'

(***************************************************************************)
(* _recalculate_risk_state, run at the end of a method: it sees the values *)
(* the method has assigned.  Under an emergency halt it returns before it  *)
(* looks at the equity, so the peak does not move.                         *)
(***************************************************************************)
Recalculate ==
  /\ peakDailyEquity' = IF emergencyHalt' THEN peakDailyEquity
                        ELSE Larger(peakDailyEquity, Equity')
  /\ riskState' = Classification'

----------------------------------------------------------------------------
(* Operator controls, broker health and the accounting feed *)

SetEmergencyHalt(halted) ==
  /\ emergencyHalt' = halted
  /\ UNCHANGED <<closeOnlyMode, pausedStrategies, bookVars, orderVars, broker, clock>>
  /\ \/ halted /\ riskState' = "HALTED" /\ UNCHANGED peakDailyEquity
     \/ ~halted /\ Recalculate

\* Mutant: the RESTRICTED state of close-only mode replaces a HALTED one.
SetCloseOnlyModeOverridingHalt(enabled) ==
  /\ closeOnlyMode' = enabled
  /\ UNCHANGED <<emergencyHalt, pausedStrategies, bookVars, orderVars, broker, clock>>
  /\ IF enabled THEN riskState' = "RESTRICTED" /\ UNCHANGED peakDailyEquity
     ELSE Recalculate

SetCloseOnlyMode(enabled) ==
  /\ closeOnlyMode' = enabled
  /\ UNCHANGED <<emergencyHalt, pausedStrategies, bookVars, orderVars, broker, clock>>
  /\ CASE enabled /\ riskState # "HALTED" ->
            riskState' = "RESTRICTED" /\ UNCHANGED peakDailyEquity
       [] ~enabled /\ ~emergencyHalt -> Recalculate
       [] OTHER -> UNCHANGED stateVars

PauseStrategy(st) ==
  /\ pausedStrategies' = pausedStrategies \cup {st}
  /\ UNCHANGED <<emergencyHalt, closeOnlyMode, bookVars, stateVars, orderVars, broker, clock>>

ResumeStrategy(st) ==
  /\ pausedStrategies' = pausedStrategies \ {st}
  /\ UNCHANGED <<emergencyHalt, closeOnlyMode, bookVars, stateVars, orderVars, broker, clock>>

UpdateBrokerHealth(connected, latency) ==
  /\ broker' = [connected |-> connected, latency |-> latency]
  /\ UNCHANGED <<controlVars, bookVars, stateVars, orderVars, clock>>

UpdatePosition(s, mark, pnl) ==
  /\ positions' = [positions EXCEPT ![s] = IF mark.quantity = 0 THEN NoPosition ELSE mark]
  /\ realizedDailyPnl' = realizedDailyPnl + pnl
  /\ realizedDailyPnl' \in PnlRange
  /\ UNCHANGED <<controlVars, orderVars, broker, clock>>
  /\ Recalculate

(***************************************************************************)
(* The setter the subsystem's RiskD adds: it sets the realized P&L so that *)
(* the drawdown from the peak is the given share.  Unlike the methods it   *)
(* takes no lock; it is one step here because nothing but a test sets the  *)
(* drawdown, before it asks for a verdict in the same thread.              *)
(***************************************************************************)
SetCurrentDrawdown(permille) ==
  /\ realizedDailyPnl' = (peakDailyEquity * (1000 - permille)) \div 1000 - InitialEquity
  /\ realizedDailyPnl' \in PnlRange
  /\ UNCHANGED <<controlVars, positions, orderVars, broker, clock>>
  /\ Recalculate

(***************************************************************************)
(* NTP and the administrator move the wall clock in either direction.      *)
(***************************************************************************)
ClockStep(now) ==
  /\ clock' = now
  /\ UNCHANGED <<controlVars, bookVars, stateVars, orderVars, broker>>

----------------------------------------------------------------------------
(* The pre-trade evaluation pipeline *)

EffectivePrice(d, tick) ==
  IF d.price > 0 THEN d.price ELSE IF tick # NoTick THEN tick.mid ELSE DefaultPrice
Notional(d, tick) == d.quantity * EffectivePrice(d, tick)
SignedNotional(d, tick) == IF d.side = "BUY" THEN Notional(d, tick) ELSE -Notional(d, tick)

(***************************************************************************)
(* The side alone decides: the order's quantity is not compared with the   *)
(* position's.                                                             *)
(***************************************************************************)
IsReducing(d) ==
  \/ positions[d.symbol].quantity > 0 /\ d.side = "SELL"
  \/ positions[d.symbol].quantity < 0 /\ d.side = "BUY"

\* Mutant: the operator's switch is forgotten, only the limits count.
HaltedByLimits == LimitsUsed(10)

Halted == emergencyHalt \/ riskState = "HALTED"

\* Mutant: an order from the clock's future is no duplicate.
IsDuplicateByDistance(d) ==
  /\ recentOrders[d] # Never
  /\ Abs(clock - recentOrders[d]) < HardLimits.duplicate_window

IsDuplicate(d) ==
  /\ recentOrders[d] # Never
  /\ clock - recentOrders[d] < HardLimits.duplicate_window

\* Mutant: the order itself is left out of the group's exposure.
GroupLimitAlreadyExceeded(d, tick) ==
  \E group \in CorrelationGroups :
    /\ d.symbol \in group
    /\ Exposure(positions, group) > HardLimits.max_correlated_exposure

ExceedsGroupLimit(d, tick) ==
  \E group \in CorrelationGroups :
    /\ d.symbol \in group
    /\ Exposure(positions, group) + Notional(d, tick) > HardLimits.max_correlated_exposure

(***************************************************************************)
(* Which rules refuse the order, in the order evaluate() tries them.       *)
(***************************************************************************)
Breaches(d, tick) ==
  LET growing == ~IsReducing(d) IN
  [EMERGENCY_HALT |-> Halted,
   STRATEGY_PAUSED |-> d.strategy_id \in pausedStrategies,
   BROKER_DISCONNECTED |-> ~broker.connected,
   BROKER_LATENCY_BREACH |-> broker.latency > HardLimits.max_broker_latency,
   INVALID_QUANTITY |-> d.quantity <= 0,
   INVALID_PRICE |-> d.order_type = "LIMIT" /\ d.price <= 0,
   MAX_ORDER_QTY_BREACH |-> d.quantity > HardLimits.max_single_position_qty,
   MAX_ORDER_NOTIONAL_BREACH |-> Notional(d, tick) > HardLimits.max_order,
   DUPLICATE_ORDER_SUPPRESSED |-> IsDuplicate(d),
   STALE_DATA_REJECTED |-> tick # NoTick /\ tick.age > HardLimits.max_tick_age,
   SPREAD_LIMIT_BREACH |->
     /\ tick # NoTick /\ tick.mid > 0
     /\ 1000 * tick.spread > HardLimits.max_spread_permille * tick.mid,
   CLOSE_ONLY_VIOLATION |-> growing /\ closeOnlyMode,
   SYMBOL_RESTRICTED |-> d.symbol \in RestrictedSymbols,
   MAX_POSITIONS_BREACH |->
     /\ growing /\ d.symbol \notin OpenSymbols(positions)
     /\ Cardinality(OpenSymbols(positions)) >= HardLimits.max_open_positions,
   SYMBOL_EXPOSURE_BREACH |->
     growing /\ MarketValue(positions)[d.symbol] + Notional(d, tick)
                  > HardLimits.max_symbol_exposure,
   CORRELATION_LIMIT_BREACH |-> growing /\ ExceedsGroupLimit(d, tick),
   GROSS_EXPOSURE_BREACH |->
     growing /\ Exposure(positions, Symbols) + Notional(d, tick)
                  > HardLimits.max_gross_exposure,
   NET_EXPOSURE_BREACH |->
     growing /\ Abs(NetExposure(positions) + SignedNotional(d, tick))
                  > HardLimits.max_net_exposure]

RulesBeforeRegistration ==
  {"EMERGENCY_HALT", "STRATEGY_PAUSED", "BROKER_DISCONNECTED", "BROKER_LATENCY_BREACH",
   "INVALID_QUANTITY", "INVALID_PRICE", "MAX_ORDER_QTY_BREACH",
   "MAX_ORDER_NOTIONAL_BREACH", "DUPLICATE_ORDER_SUPPRESSED"}

Approves(d, tick) ==
  LET breach == Breaches(d, tick) IN \A rule \in DOMAIN breach : ~breach[rule]
Registers(d, tick) ==
  LET breach == Breaches(d, tick) IN \A rule \in RulesBeforeRegistration : ~breach[rule]

\* Mutant: the time the window ends is stored, not the time of the order.
EvaluateStoringExpiry(d, tick) ==
  /\ recentOrders' = IF Registers(d, tick)
                     THEN [recentOrders EXCEPT ![d] = clock + HardLimits.duplicate_window]
                     ELSE recentOrders
  /\ UNCHANGED <<controlVars, bookVars, stateVars, lastApproved, broker, clock>>

(***************************************************************************)
(* The order's hash is registered once the duplicate check has let it      *)
(* through, whether or not a later check refuses it.                       *)
(***************************************************************************)
Evaluate(d, tick) ==
  /\ recentOrders' = IF Registers(d, tick)
                     THEN [recentOrders EXCEPT ![d] = clock] ELSE recentOrders
  /\ lastApproved' = IF Approves(d, tick)
                     THEN [lastApproved EXCEPT ![d] = clock] ELSE lastApproved
  /\ UNCHANGED <<controlVars, bookVars, stateVars, broker, clock>>

----------------------------------------------------------------------------
(* The specification *)

Init ==
  /\ riskState = "NORMAL"
  /\ emergencyHalt = FALSE /\ closeOnlyMode = FALSE /\ pausedStrategies = {}
  /\ positions = [s \in Symbols |-> NoPosition]
  /\ realizedDailyPnl = 0
  /\ peakDailyEquity = InitialEquity
  /\ recentOrders = [d \in Decisions |-> Never]
  /\ lastApproved = [d \in Decisions |-> Never]
  /\ broker = [connected |-> TRUE, latency |-> 1]
  /\ clock = 0

(***************************************************************************)
(* The object is constructed anew, as when its process restarts.  Nothing  *)
(* is persisted: switches, book, peak and registered orders are gone.      *)
(***************************************************************************)
Construct ==
  /\ riskState' = "NORMAL"
  /\ emergencyHalt' = FALSE /\ closeOnlyMode' = FALSE /\ pausedStrategies' = {}
  /\ positions' = [s \in Symbols |-> NoPosition]
  /\ realizedDailyPnl' = 0
  /\ peakDailyEquity' = InitialEquity
  /\ recentOrders' = [d \in Decisions |-> Never]
  /\ lastApproved' = [d \in Decisions |-> Never]
  /\ broker' = [connected |-> TRUE, latency |-> 1]
  /\ UNCHANGED clock

(***************************************************************************)
(* Everything but the evaluation of an order.                              *)
(***************************************************************************)
Controls ==
  \/ \E halted \in BOOLEAN : SetEmergencyHalt(halted)
  \/ \E enabled \in CloseOnlySettings : SetCloseOnlyMode(enabled)
  \/ \E st \in Pausable : PauseStrategy(st)
  \/ \E st \in Pausable : ResumeStrategy(st)
  \/ \E connected \in BOOLEAN, latency \in Latencies : UpdateBrokerHealth(connected, latency)
  \/ \E s \in Symbols, pnl \in Pnls : \E mark \in Marks[s] : UpdatePosition(s, mark, pnl)
  \/ \E permille \in Drawdowns : SetCurrentDrawdown(permille)
  \/ \E now \in Times : ClockStep(now)

Next == Controls \/ \E d \in Decisions, tick \in Ticks : Evaluate(d, tick)

Spec == Init /\ [][Next]_vars

----------------------------------------------------------------------------
(* Properties *)

(***************************************************************************)
(* Every field of the RiskD object keeps its type; SAFE is a member of the *)
(* RiskState enum.                                                         *)
(***************************************************************************)
TypeOK ==
  /\ riskState \in RiskStates
  /\ emergencyHalt \in BOOLEAN
  /\ closeOnlyMode \in BOOLEAN
  /\ pausedStrategies \subseteq Strategies
  /\ positions \in [Symbols -> Position]
  /\ realizedDailyPnl \in PnlRange
  /\ peakDailyEquity \in Int
  /\ recentOrders \in [Decisions -> Times \cup {Never}]
  /\ lastApproved \in [Decisions -> Times \cup {Never}]
  /\ broker \in [connected : BOOLEAN, latency : Nat]
  /\ clock \in Times

(***************************************************************************)
(* The stored risk state is never stale: after any sequence of halts,      *)
(* releases, close-only toggles and portfolio updates it is the one the    *)
(* rules of _recalculate_risk_state give the portfolio as it is now.  Two  *)
(* setters assign the state without those rules.                           *)
(***************************************************************************)
StateMatchesPortfolio == riskState = Classification

(***************************************************************************)
(* The drawdown is measured from a real peak: unless an emergency halt is  *)
(* on, the recorded peak is at least the present equity and the starting   *)
(* one, so the drawdown the circuit breaker looks at is never negative.    *)
(***************************************************************************)
PeakCoversEquity ==
  /\ peakDailyEquity >= InitialEquity
  /\ ~emergencyHalt => peakDailyEquity >= Equity

(***************************************************************************)
(* Duplicate suppression: an order that would be approved now was last     *)
(* approved a whole duplicate window ago on the wall clock, never at this  *)
(* very reading of it or at a later one, although the clock may step back, *)
(* orders refused by a later rule also register, and any number of other   *)
(* orders come between.                                                    *)
(***************************************************************************)
ApprovalsAreSpaced ==
  \A d \in Decisions, tick \in Ticks :
    Approves(d, tick) /\ lastApproved[d] # Never
    => clock - lastApproved[d] >= HardLimits.duplicate_window

(***************************************************************************)
(* The book after the whole order is filled at its effective price.        *)
(***************************************************************************)
SignedQuantity(d) == IF d.side = "BUY" THEN d.quantity ELSE -d.quantity
Booked(d, tick) ==
  [positions EXCEPT ![d.symbol].quantity = @ + SignedQuantity(d),
                    ![d.symbol].current_price = EffectivePrice(d, tick)]

(***************************************************************************)
(* The book's mark for the symbol is the price of the order, or there is   *)
(* no position yet.                                                        *)
(***************************************************************************)
PricedAtMark(d, tick) ==
  \/ positions[d.symbol].quantity = 0
  \/ positions[d.symbol].current_price = EffectivePrice(d, tick)

WithinCaps(book, s) ==
  /\ MarketValue(book)[s] <= HardLimits.max_symbol_exposure
  /\ Exposure(book, Symbols) <= HardLimits.max_gross_exposure
  /\ Abs(NetExposure(book)) <= HardLimits.max_net_exposure
  /\ \A group \in CorrelationGroups :
        s \in group => Exposure(book, group) <= HardLimits.max_correlated_exposure
  /\ Cardinality(OpenSymbols(book))
       <= Larger(HardLimits.max_open_positions, Cardinality(OpenSymbols(positions)))

(***************************************************************************)
(* What the projections of evaluate() are for: if an order that does not   *)
(* reduce a position would be approved now, the book with that order in it *)
(* keeps the symbol, group, gross and net caps, and it opens no position   *)
(* above the cap on open positions.                                        *)
(***************************************************************************)
ApprovedGrowthFitsCaps ==
  \A d \in Decisions, tick \in Ticks :
    ~IsReducing(d) /\ PricedAtMark(d, tick) /\ Approves(d, tick)
    => WithinCaps(Booked(d, tick), d.symbol)

(***************************************************************************)
(* In close-only mode "only orders that strictly reduce existing exposure" *)
(* are approved (docs/architecture/RISKD_SAFETY_BOUNDARY.md).              *)
(***************************************************************************)
CloseOnlyStrictlyReduces ==
  \A d \in Decisions, tick \in Ticks :
    closeOnlyMode /\ Approves(d, tick)
    => Abs(Booked(d, tick)[d.symbol].quantity) < Abs(positions[d.symbol].quantity)
=============================================================================
