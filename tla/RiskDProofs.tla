---------------------------- MODULE RiskDProofs ----------------------------
(***************************************************************************)
(* Theorems about RiskD for every set of symbols, strategies and orders    *)
(* and for every value of the limits.                                      *)
(***************************************************************************)
EXTENDS RiskD, FiniteSums

(***************************************************************************)
(* The account's totals are integers in every well-typed state.            *)
(***************************************************************************)
LEMMA TotalsAreIntegers ==
  ASSUME NEW book \in [Symbols -> Position]
  PROVE  /\ MarketValue(book) \in [Symbols -> Nat]
         /\ SignedValue(book) \in [Symbols -> Int]
         /\ UnrealizedPnl(book) \in [Symbols -> Int]
         /\ SumFunctionOnSet(UnrealizedPnl(book), Symbols) \in Int
<1>1. \A s \in Symbols : /\ book[s].quantity \in Int
                         /\ book[s].avg_price \in Int
                         /\ book[s].current_price \in Int
  BY DEF Position
<1>2. UnrealizedPnl(book) \in [Symbols -> Int]
  BY <1>1 DEF UnrealizedPnl
<1>3. SignedValue(book) \in [Symbols -> Int]
  BY <1>1 DEF SignedValue
<1>4. MarketValue(book) \in [Symbols -> Nat]
  <2>1. \A s \in Symbols : book[s].quantity * book[s].current_price \in Int
    BY <1>1
  <2> QED
    BY <2>1 DEF MarketValue, Abs
<1>5. SumFunctionOnSet(UnrealizedPnl(book), Symbols) \in Int
  BY <1>2, SumType, SetsAssumption
<1> QED
  BY <1>2, <1>3, <1>4, <1>5

(***************************************************************************)
(* The equity _recalculate_risk_state computes is an integer.              *)
(***************************************************************************)
LEMMA EquityIsInteger ==
  ASSUME positions \in [Symbols -> Position], realizedDailyPnl \in PnlRange
  PROVE  Equity \in Int
BY TotalsAreIntegers, NumbersAssumption DEF Equity, DailyPnl, PnlRange

(***************************************************************************)
(* The same after a step, for the values a method has just assigned.       *)
(***************************************************************************)
LEMMA NextEquityIsInteger ==
  ASSUME (positions \in [Symbols -> Position])', (realizedDailyPnl \in PnlRange)'
  PROVE  Equity' \in Int
BY TotalsAreIntegers, NumbersAssumption DEF Equity, DailyPnl, PnlRange

(***************************************************************************)
(* _recalculate_risk_state assigns a member of the RiskState enum and an   *)
(* integer peak.                                                           *)
(***************************************************************************)
LEMMA RecalculateType ==
  ASSUME peakDailyEquity \in Int, Recalculate,
         (positions \in [Symbols -> Position])', (realizedDailyPnl \in PnlRange)'
  PROVE  riskState' \in RiskStates /\ peakDailyEquity' \in Int
<1>1. riskState' \in RiskStates
  BY DEF Recalculate, Classification, RiskStates
<1>2. peakDailyEquity' \in Int
  BY NextEquityIsInteger DEF Recalculate, Larger
<1> QED
  BY <1>1, <1>2

----------------------------------------------------------------------------
(* Type correctness *)

(***************************************************************************)
(* A new RiskD object is well typed.                                       *)
(***************************************************************************)
LEMMA InitType == Init => TypeOK
<1> SUFFICES ASSUME Init PROVE TypeOK
  OBVIOUS
<1>1. 0 \in Times /\ 0 \in PnlRange /\ InitialEquity \in Int
  BY NumbersAssumption DEF Times, PnlRange
<1>2. positions \in [Symbols -> Position]
  BY DEF Init, Position, NoPosition
<1>3. broker \in [connected : BOOLEAN, latency : Nat]
  BY DEF Init
<1> QED
  BY <1>1, <1>2, <1>3 DEF Init, TypeOK, RiskStates

(***************************************************************************)
(* Every method of RiskD keeps the types of its fields.                    *)
(***************************************************************************)
LEMMA NextType == TypeOK /\ [Next]_vars => TypeOK'
<1> SUFFICES ASSUME TypeOK, [Next]_vars PROVE TypeOK'
  OBVIOUS
<1> USE DEF TypeOK, controlVars, bookVars, stateVars, orderVars
<1>1. ASSUME NEW halted \in BOOLEAN, SetEmergencyHalt(halted) PROVE TypeOK'
  BY <1>1, RecalculateType DEF SetEmergencyHalt, RiskStates
<1>2. ASSUME NEW enabled \in CloseOnlySettings, SetCloseOnlyMode(enabled) PROVE TypeOK'
  BY <1>2, RecalculateType, SetsAssumption DEF SetCloseOnlyMode, RiskStates
<1>3. ASSUME NEW st \in Pausable, PauseStrategy(st) \/ ResumeStrategy(st) PROVE TypeOK'
  BY <1>3, SetsAssumption DEF PauseStrategy, ResumeStrategy
<1>4. ASSUME NEW connected \in BOOLEAN, NEW latency \in Latencies,
             UpdateBrokerHealth(connected, latency)
      PROVE  TypeOK'
  BY <1>4, NumbersAssumption DEF UpdateBrokerHealth
<1>5. ASSUME NEW s \in Symbols, NEW pnl \in Pnls, NEW mark \in Marks[s],
             UpdatePosition(s, mark, pnl)
      PROVE  TypeOK'
  <2>1. mark \in Position /\ NoPosition \in Position
    BY SetsAssumption DEF Position, NoPosition
  <2>2. positions' \in [Symbols -> Position]
    BY <1>5, <2>1 DEF UpdatePosition
  <2> QED
    BY <1>5, <2>2, RecalculateType DEF UpdatePosition
<1>6. ASSUME NEW permille \in Drawdowns, SetCurrentDrawdown(permille) PROVE TypeOK'
  BY <1>6, RecalculateType DEF SetCurrentDrawdown
<1>7. ASSUME NEW now \in Times, ClockStep(now) PROVE TypeOK'
  BY <1>7 DEF ClockStep
<1>8. ASSUME NEW d \in Decisions, NEW tick \in Ticks, Evaluate(d, tick) PROVE TypeOK'
  BY <1>8 DEF Evaluate
<1>9. CASE UNCHANGED vars
  BY <1>9 DEF vars
<1> QED
  BY <1>1, <1>2, <1>3, <1>4, <1>5, <1>6, <1>7, <1>8, <1>9, SetsAssumption
     DEF Next, Controls

(***************************************************************************)
(* The fields of RiskD keep their types in every execution.                *)
(***************************************************************************)
THEOREM TypeCorrect == Spec => []TypeOK
BY InitType, NextType, PTL DEF Spec

----------------------------------------------------------------------------
(* The stored risk state is current *)

(***************************************************************************)
(* A new RiskD is NORMAL, which is what its empty portfolio calls for.     *)
(* With no position, no P&L and positive limits no threshold is reached.   *)
(***************************************************************************)
LEMMA InitTotals == Init => Equity = InitialEquity /\ DailyPnl = 0
<1> SUFFICES ASSUME Init PROVE Equity = InitialEquity /\ DailyPnl = 0
  OBVIOUS
<1>1. \A s \in Symbols : UnrealizedPnl(positions)[s] = 0
  BY DEF Init, UnrealizedPnl, NoPosition
<1>2. SumFunctionOnSet(UnrealizedPnl(positions), Symbols) = 0
  BY <1>1, SumOfZeros, SetsAssumption
<1>3. DailyPnl = 0
  BY <1>2 DEF Init, DailyPnl
<1> QED
  BY <1>3, NumbersAssumption DEF Equity

(***************************************************************************)
(* The initial risk state is the one the rules give the initial portfolio. *)
(***************************************************************************)
LEMMA InitStateMatches == Init => StateMatchesPortfolio
<1> SUFFICES ASSUME Init PROVE Classification = "NORMAL"
  BY DEF Init, StateMatchesPortfolio
<1>1. /\ HardLimits.max_daily_loss \in Nat \ {0}
      /\ HardLimits.max_drawdown_permille \in Nat \ {0}
      /\ HardLimits.max_open_positions \in Nat \ {0}
  BY NumbersAssumption DEF LimitNames
<1>2. DailyPnl = 0 /\ Drawdown = 0
  BY InitTotals, NumbersAssumption DEF Init, Drawdown
<1>3. \A n \in {4, 7, 10} : ~LimitsUsed(n)
  <2> TAKE n \in {4, 7, 10}
  <2>1. n * HardLimits.max_daily_loss > 0 /\ n * HardLimits.max_daily_loss \in Int
    BY <1>1
  <2>2. n * HardLimits.max_drawdown_permille > 0 /\ n * HardLimits.max_drawdown_permille \in Int
    BY <1>1
  <2>3. /\ n * HardLimits.max_drawdown_permille * InitialEquity > 0
        /\ n * HardLimits.max_drawdown_permille * InitialEquity \in Int
    BY <2>2, NumbersAssumption
  <2>4. peakDailyEquity = InitialEquity
    BY DEF Init
  <2>5. ~(10 * DailyPnl <= -(n * HardLimits.max_daily_loss))
    BY <1>2, <2>1
  <2>6. ~(10000 * Drawdown >= n * HardLimits.max_drawdown_permille * peakDailyEquity)
    BY <1>2, <2>3, <2>4
  <2> QED
    BY <2>5, <2>6 DEF LimitsUsed
<1>4. ~NearPositionCap
  <2>1. OpenSymbols(positions) = {}
    BY DEF Init, OpenSymbols, NoPosition
  <2>2. Cardinality(OpenSymbols(positions)) = 0
    BY <2>1, FS_EmptySet
  <2> QED
    BY <1>1, <2>2 DEF NearPositionCap
<1> QED
  BY <1>3, <1>4 DEF Init, Classification

(***************************************************************************)
(* No method leaves a stale risk state behind.  The two setters that do    *)
(* not recalculate are the cases to look at: an emergency halt is HALTED   *)
(* whatever the portfolio, and close-only mode is RESTRICTED exactly when  *)
(* the state before, which matched, was not HALTED.                        *)
(***************************************************************************)
LEMMA NextStateMatches == StateMatchesPortfolio /\ [Next]_vars => StateMatchesPortfolio'
<1> SUFFICES ASSUME StateMatchesPortfolio, [Next]_vars PROVE StateMatchesPortfolio'
  OBVIOUS
<1> USE DEF StateMatchesPortfolio
<1>1. ASSUME UNCHANGED <<emergencyHalt, positions, realizedDailyPnl, peakDailyEquity>>
      PROVE  /\ (emergencyHalt \/ LimitsUsed(10))' = (emergencyHalt \/ LimitsUsed(10))
             /\ LimitsUsed(7)' = LimitsUsed(7)
             /\ LimitsUsed(4)' = LimitsUsed(4)
             /\ NearPositionCap' = NearPositionCap
  BY <1>1 DEF LimitsUsed, NearPositionCap, Drawdown, Equity, DailyPnl
<1>2. ASSUME UNCHANGED <<emergencyHalt, closeOnlyMode, bookVars, stateVars>>
      PROVE  StateMatchesPortfolio'
  BY <1>1, <1>2 DEF Classification, bookVars, stateVars
<1>3. ASSUME NEW halted \in BOOLEAN, SetEmergencyHalt(halted)
      PROVE  StateMatchesPortfolio'
  BY <1>3 DEF SetEmergencyHalt, Recalculate, Classification
<1>4. ASSUME NEW enabled \in CloseOnlySettings, SetCloseOnlyMode(enabled)
      PROVE  StateMatchesPortfolio'
  <2>1. CASE enabled /\ riskState # "HALTED"
    <3>1. UNCHANGED <<emergencyHalt, positions, realizedDailyPnl, peakDailyEquity>>
      BY <1>4, <2>1 DEF SetCloseOnlyMode, bookVars
    <3>2. closeOnlyMode' /\ riskState' = "RESTRICTED"
      BY <1>4, <2>1 DEF SetCloseOnlyMode
    <3>3. ~(emergencyHalt \/ LimitsUsed(10))
      BY <2>1 DEF Classification
    <3> QED
      BY <1>1, <3>1, <3>2, <3>3 DEF Classification
  <2>2. CASE ~enabled /\ ~emergencyHalt
    BY <1>4, <2>2 DEF SetCloseOnlyMode, Recalculate
  <2>3. CASE (enabled /\ riskState = "HALTED") \/ (~enabled /\ emergencyHalt)
    <3>1. UNCHANGED <<emergencyHalt, positions, realizedDailyPnl, peakDailyEquity, riskState>>
      BY <1>4, <2>3 DEF SetCloseOnlyMode, bookVars, stateVars
    <3>2. emergencyHalt \/ LimitsUsed(10)
      BY <2>3 DEF Classification
    <3>3. riskState = "HALTED"
      BY <3>2 DEF Classification
    <3> QED
      BY <1>1, <3>1, <3>2, <3>3 DEF Classification
  <2> QED
    BY <2>1, <2>2, <2>3
<1>5. ASSUME NEW s \in Symbols, NEW pnl \in Pnls, NEW mark \in Marks[s],
             UpdatePosition(s, mark, pnl)
      PROVE  StateMatchesPortfolio'
  BY <1>5 DEF UpdatePosition, Recalculate
<1>6. ASSUME NEW permille \in Drawdowns, SetCurrentDrawdown(permille)
      PROVE  StateMatchesPortfolio'
  BY <1>6 DEF SetCurrentDrawdown, Recalculate
<1>7. ASSUME NEW st \in Pausable, PauseStrategy(st) \/ ResumeStrategy(st)
      PROVE  StateMatchesPortfolio'
  BY <1>2, <1>7 DEF PauseStrategy, ResumeStrategy
<1>8. ASSUME NEW connected \in BOOLEAN, NEW latency \in Latencies,
             UpdateBrokerHealth(connected, latency)
      PROVE  StateMatchesPortfolio'
  BY <1>2, <1>8 DEF UpdateBrokerHealth, controlVars
<1>9. ASSUME NEW now \in Times, ClockStep(now) PROVE StateMatchesPortfolio'
  BY <1>2, <1>9 DEF ClockStep, controlVars
<1>10. ASSUME NEW d \in Decisions, NEW tick \in Ticks, Evaluate(d, tick)
       PROVE  StateMatchesPortfolio'
  BY <1>2, <1>10 DEF Evaluate, controlVars
<1>11. CASE UNCHANGED vars
  BY <1>2, <1>11 DEF vars, controlVars
<1> QED
  BY <1>3, <1>4, <1>5, <1>6, <1>7, <1>8, <1>9, <1>10, <1>11 DEF Next, Controls

(***************************************************************************)
(* The risk state evaluate() reads is never stale: it is always the one    *)
(* the rules of _recalculate_risk_state give the present portfolio and     *)
(* switches.                                                               *)
(***************************************************************************)
THEOREM StateIsCurrent == Spec => []StateMatchesPortfolio
BY InitStateMatches, NextStateMatches, PTL DEF Spec
----------------------------------------------------------------------------
(* The peak of the drawdown *)

(***************************************************************************)
(* Inductive: TypeOK makes the amounts comparable.                         *)
(***************************************************************************)
LEMMA NextPeak == TypeOK /\ PeakCoversEquity /\ [Next]_vars => PeakCoversEquity'
<1> SUFFICES ASSUME TypeOK, PeakCoversEquity, [Next]_vars PROVE PeakCoversEquity'
  OBVIOUS
<1>0. TypeOK'
  BY NextType
<1>1. Equity \in Int /\ Equity' \in Int /\ InitialEquity \in Int /\ peakDailyEquity \in Int
  BY <1>0, EquityIsInteger, NextEquityIsInteger, NumbersAssumption DEF TypeOK
<1>2. ASSUME UNCHANGED <<emergencyHalt, bookVars, peakDailyEquity>> PROVE PeakCoversEquity'
  BY <1>2 DEF PeakCoversEquity, Equity, DailyPnl, bookVars
<1>3. ASSUME Recalculate PROVE PeakCoversEquity'
  BY <1>1, <1>3 DEF Recalculate, PeakCoversEquity, Larger
<1>4. ASSUME NEW halted \in BOOLEAN, SetEmergencyHalt(halted) PROVE PeakCoversEquity'
  <2>1. CASE halted
    BY <1>4, <2>1 DEF SetEmergencyHalt, PeakCoversEquity
  <2>2. CASE ~halted
    BY <1>3, <1>4, <2>2 DEF SetEmergencyHalt
  <2> QED
    BY <2>1, <2>2
<1>5. ASSUME NEW enabled \in CloseOnlySettings, SetCloseOnlyMode(enabled) PROVE PeakCoversEquity'
  BY <1>2, <1>3, <1>5 DEF SetCloseOnlyMode, bookVars, stateVars
<1>6. ASSUME NEW s \in Symbols, NEW pnl \in Pnls, NEW mark \in Marks[s],
             UpdatePosition(s, mark, pnl)
      PROVE  PeakCoversEquity'
  BY <1>3, <1>6 DEF UpdatePosition
<1>7. ASSUME NEW permille \in Drawdowns, SetCurrentDrawdown(permille)
      PROVE  PeakCoversEquity'
  BY <1>3, <1>7 DEF SetCurrentDrawdown
<1>8. ASSUME NEW st \in Pausable, PauseStrategy(st) \/ ResumeStrategy(st)
      PROVE  PeakCoversEquity'
  BY <1>2, <1>8 DEF PauseStrategy, ResumeStrategy, stateVars
<1>9. ASSUME NEW connected \in BOOLEAN, NEW latency \in Latencies,
             UpdateBrokerHealth(connected, latency)
      PROVE  PeakCoversEquity'
  BY <1>2, <1>9 DEF UpdateBrokerHealth, controlVars, stateVars
<1>10. ASSUME NEW now \in Times, ClockStep(now) PROVE PeakCoversEquity'
  BY <1>2, <1>10 DEF ClockStep, controlVars, stateVars
<1>11. ASSUME NEW d \in Decisions, NEW tick \in Ticks, Evaluate(d, tick)
       PROVE  PeakCoversEquity'
  BY <1>2, <1>11 DEF Evaluate, controlVars, stateVars
<1>12. CASE UNCHANGED vars
  BY <1>2, <1>12 DEF vars, controlVars, stateVars
<1> QED
  BY <1>4, <1>5, <1>6, <1>7, <1>8, <1>9, <1>10, <1>11, <1>12 DEF Next, Controls

(***************************************************************************)
(* Outside an emergency halt the peak _recalculate_risk_state keeps is at  *)
(* least the present equity, so the drawdown it compares is never          *)
(* negative.                                                               *)
(***************************************************************************)
THEOREM PeakIsAPeak == Spec => []PeakCoversEquity
<1>1. Init => PeakCoversEquity
  BY InitTotals, NumbersAssumption DEF Init, PeakCoversEquity
<1> QED
  BY <1>1, InitType, NextType, NextPeak, PTL DEF Spec

----------------------------------------------------------------------------
(* Duplicate suppression *)

(***************************************************************************)
(* What the window rests on: an approved order has been registered, at its *)
(* last approval or later.                                                 *)
(***************************************************************************)
ApprovalsAreRegistered ==
  \A d \in Decisions : recentOrders[d] >= lastApproved[d]

(***************************************************************************)
(* An order evaluate() approves has passed the duplicate check, and has    *)
(* been registered.                                                        *)
(***************************************************************************)
LEMMA ApprovedIsNoDuplicate ==
  ASSUME NEW d, NEW tick
  PROVE  /\ Approves(d, tick) => Registers(d, tick)
         /\ Registers(d, tick) => ~IsDuplicate(d)
<1>1. RulesBeforeRegistration \subseteq DOMAIN Breaches(d, tick)
  BY DEF RulesBeforeRegistration, Breaches
<1>2. Breaches(d, tick).DUPLICATE_ORDER_SUPPRESSED = IsDuplicate(d)
  BY DEF Breaches
<1>3. "DUPLICATE_ORDER_SUPPRESSED" \in RulesBeforeRegistration
  BY DEF RulesBeforeRegistration
<1> QED
  BY <1>1, <1>2, <1>3 DEF Approves, Registers

(***************************************************************************)
(* A step leaves registrations and approvals alone or is an evaluation     *)
(* that lets one order through.                                            *)
(***************************************************************************)
LEMMA OrderSteps ==
  ASSUME [Next]_vars
  PROVE  \/ UNCHANGED orderVars
         \/ \E d \in Decisions, tick \in Ticks : Registers(d, tick) /\ Evaluate(d, tick)
<1>1. ASSUME NEW d \in Decisions, NEW tick \in Ticks, Evaluate(d, tick), ~Registers(d, tick)
      PROVE  UNCHANGED orderVars
  BY <1>1, ApprovedIsNoDuplicate DEF Evaluate, orderVars
<1> QED
  BY <1>1
     DEF Next, Controls, vars, orderVars, SetEmergencyHalt, SetCloseOnlyMode, PauseStrategy,
         ResumeStrategy, UpdateBrokerHealth, UpdatePosition, SetCurrentDrawdown, ClockStep

(***************************************************************************)
(* Registration times only grow: an order passes the duplicate check when  *)
(* the clock is a full window past its last registration.                  *)
(***************************************************************************)
LEMMA RegistrationAdvances ==
  ASSUME TypeOK, NEW d \in Decisions, NEW tick \in Ticks,
         Registers(d, tick), Evaluate(d, tick)
  PROVE  /\ \A e \in Decisions \ {d} : recentOrders'[e] = recentOrders[e]
         /\ recentOrders'[d] = clock
         /\ \/ recentOrders[d] = Never
            \/ clock - recentOrders[d] >= HardLimits.duplicate_window
         /\ recentOrders'[d] >= recentOrders[d]
<1>1. recentOrders' = [recentOrders EXCEPT ![d] = clock]
  BY DEF Evaluate
<1>2. \/ recentOrders[d] = Never
      \/ ~(clock - recentOrders[d] < HardLimits.duplicate_window)
  BY ApprovedIsNoDuplicate DEF IsDuplicate
<1>3. HardLimits.duplicate_window \in Nat
  BY NumbersAssumption DEF LimitNames
<1>4. clock \in Nat /\ recentOrders[d] \in Int
  BY NumbersAssumption DEF TypeOK, Times, Never
<1> QED
  BY <1>1, <1>2, <1>3, <1>4 DEF TypeOK, Never

(***************************************************************************)
(* Inductive together with TypeOK.                                         *)
(***************************************************************************)
LEMMA NextRegistered ==
  TypeOK /\ ApprovalsAreRegistered /\ [Next]_vars => ApprovalsAreRegistered'
<1> SUFFICES ASSUME TypeOK, ApprovalsAreRegistered, [Next]_vars
             PROVE  ApprovalsAreRegistered'
  OBVIOUS
<1>1. CASE UNCHANGED orderVars
  BY <1>1 DEF ApprovalsAreRegistered, orderVars
<1>2. ASSUME NEW d \in Decisions, NEW tick \in Ticks,
             Registers(d, tick), Evaluate(d, tick),
             NEW e \in Decisions
      PROVE  recentOrders'[e] >= lastApproved'[e]
  <2>1. lastApproved' = [lastApproved EXCEPT ![d] = clock] \/ lastApproved' = lastApproved
    BY <1>2 DEF Evaluate
  <2>2. /\ lastApproved[e] \in Int /\ recentOrders[e] \in Int /\ clock \in Int
        /\ recentOrders[e] >= lastApproved[e]
    BY NumbersAssumption DEF TypeOK, Times, Never, ApprovalsAreRegistered
  <2>3. CASE e = d
    BY <1>2, <2>1, <2>2, <2>3, RegistrationAdvances DEF TypeOK
  <2>4. CASE e # d
    <3>1. recentOrders'[e] = recentOrders[e]
      BY <1>2, <2>4, RegistrationAdvances
    <3>2. lastApproved'[e] = lastApproved[e]
      BY <2>1, <2>4 DEF TypeOK
    <3> QED
      BY <2>2, <3>1, <3>2
  <2> QED
    BY <2>3, <2>4
<1> QED
  BY <1>1, <1>2, OrderSteps DEF ApprovalsAreRegistered

(***************************************************************************)
(* An order is approved only a duplicate window after its last approval on *)
(* the wall clock, whatever the clock and every other order do in between. *)
(***************************************************************************)
THEOREM DuplicatesAreSuppressed == Spec => []ApprovalsAreSpaced
<1>1. Init => ApprovalsAreRegistered
  BY DEF Init, ApprovalsAreRegistered, Never
<1>2. TypeOK /\ ApprovalsAreRegistered => ApprovalsAreSpaced
  <2> SUFFICES ASSUME TypeOK, ApprovalsAreRegistered,
                      NEW d \in Decisions, NEW tick \in Ticks,
                      Approves(d, tick), lastApproved[d] # Never
               PROVE  clock - lastApproved[d] >= HardLimits.duplicate_window
    BY DEF ApprovalsAreSpaced
  <2>1. /\ lastApproved[d] \in Nat /\ recentOrders[d] \in Int /\ clock \in Int
        /\ recentOrders[d] >= lastApproved[d]
    BY NumbersAssumption DEF TypeOK, Times, Never, ApprovalsAreRegistered
  <2>2. recentOrders[d] # Never
    BY <2>1 DEF Never
  <2>3. HardLimits.duplicate_window \in Nat
    BY NumbersAssumption DEF LimitNames
  <2>4. ~IsDuplicate(d)
    BY DEF Approves, Breaches
  <2> QED
    BY <2>1, <2>2, <2>3, <2>4 DEF IsDuplicate
<1> QED
  BY <1>1, <1>2, InitType, NextType, NextRegistered, PTL DEF Spec
----------------------------------------------------------------------------
(* Approved growth fits the caps *)

(***************************************************************************)
(* Magnitudes of amounts of one sign add up.                               *)
(***************************************************************************)
LEMMA SameSignAdds ==
  ASSUME NEW p \in Nat, NEW a \in Int, NEW b \in Int,
         (a >= 0 /\ b >= 0) \/ (a <= 0 /\ b <= 0)
  PROVE  Abs((a + b) * p) = Abs(a * p) + Abs(b * p)
<1>1. (a + b) * p = a * p + b * p /\ a * p \in Int /\ b * p \in Int
  OBVIOUS
<1>2. CASE a >= 0 /\ b >= 0
  <2>1. a * p >= 0 /\ b * p >= 0
    BY <1>2
  <2> QED
    BY <1>1, <2>1 DEF Abs
<1>3. CASE a <= 0 /\ b <= 0
  <2>1. a * p <= 0 /\ b * p <= 0
    BY <1>3
  <2> QED
    BY <1>1, <2>1 DEF Abs
<1> QED
  BY <1>2, <1>3

(***************************************************************************)
(* The approval of an order that does not reduce a position, rule by rule. *)
(***************************************************************************)
LEMMA ApprovedGrowth ==
  ASSUME NEW d, NEW tick, ~IsReducing(d), Approves(d, tick)
  PROVE  /\ ~(d.quantity <= 0)
         /\ ~(/\ d.symbol \notin OpenSymbols(positions)
              /\ Cardinality(OpenSymbols(positions)) >= HardLimits.max_open_positions)
         /\ ~(MarketValue(positions)[d.symbol] + Notional(d, tick)
                > HardLimits.max_symbol_exposure)
         /\ ~ExceedsGroupLimit(d, tick)
         /\ ~(Exposure(positions, Symbols) + Notional(d, tick)
                > HardLimits.max_gross_exposure)
         /\ ~(Abs(NetExposure(positions) + SignedNotional(d, tick))
                > HardLimits.max_net_exposure)
<1> DEFINE B == Breaches(d, tick)
<1>1. /\ "INVALID_QUANTITY" \in DOMAIN B /\ "MAX_POSITIONS_BREACH" \in DOMAIN B
      /\ "SYMBOL_EXPOSURE_BREACH" \in DOMAIN B /\ "CORRELATION_LIMIT_BREACH" \in DOMAIN B
      /\ "GROSS_EXPOSURE_BREACH" \in DOMAIN B /\ "NET_EXPOSURE_BREACH" \in DOMAIN B
  BY DEF Breaches
<1>2. /\ ~B.INVALID_QUANTITY /\ ~B.MAX_POSITIONS_BREACH
      /\ ~B.SYMBOL_EXPOSURE_BREACH /\ ~B.CORRELATION_LIMIT_BREACH
      /\ ~B.GROSS_EXPOSURE_BREACH /\ ~B.NET_EXPOSURE_BREACH
  <2> HIDE DEF B
  <2> QED
    BY <1>1 DEF Approves, B
<1> QED
  BY <1>2 DEF Breaches

(***************************************************************************)
(* How a fill moves the values of one symbol: the market value by the      *)
(* order's notional, the signed value by its signed notional, and nothing  *)
(* else.                                                                   *)
(***************************************************************************)
LEMMA FillMovesOneSymbol ==
  ASSUME TypeOK, NEW d \in Decisions, NEW tick \in Ticks,
         ~IsReducing(d), PricedAtMark(d, tick), d.quantity > 0
  PROVE  /\ Booked(d, tick) \in [Symbols -> Position]
         /\ Notional(d, tick) \in Nat /\ SignedNotional(d, tick) \in Int
         /\ MarketValue(Booked(d, tick))[d.symbol]
              = MarketValue(positions)[d.symbol] + Notional(d, tick)
         /\ SignedValue(Booked(d, tick))[d.symbol]
              = SignedValue(positions)[d.symbol] + SignedNotional(d, tick)
         /\ \A s \in Symbols \ {d.symbol} :
              /\ MarketValue(Booked(d, tick))[s] = MarketValue(positions)[s]
              /\ SignedValue(Booked(d, tick))[s] = SignedValue(positions)[s]
              /\ Booked(d, tick)[s] = positions[s]
<1> DEFINE q == positions[d.symbol].quantity
           c == positions[d.symbol].current_price
           p == EffectivePrice(d, tick)
           x == SignedQuantity(d)
<1>1. d \in Decision
  BY SetsAssumption
<1>2. d.symbol \in Symbols /\ d.quantity \in Nat /\ d.side \in {"BUY", "SELL"} /\ d.price \in Nat
  BY <1>1 DEF Decision
<1>3. positions[d.symbol] \in Position /\ q \in Int /\ c \in Nat
  BY <1>2 DEF TypeOK, Position
<1>4. p \in Nat
  BY <1>2, SetsAssumption, NumbersAssumption DEF EffectivePrice, Tick
<1>5. x \in Int /\ ((q >= 0 /\ x >= 0) \/ (q <= 0 /\ x <= 0))
  BY <1>2, <1>3 DEF SignedQuantity, IsReducing
<1>6. q = 0 \/ c = p
  BY DEF PricedAtMark
<1>7. Booked(d, tick)[d.symbol].quantity = q + x /\ Booked(d, tick)[d.symbol].current_price = p
  BY <1>2, <1>3 DEF TypeOK, Booked, Position
<1>8. Booked(d, tick) \in [Symbols -> Position]
  BY <1>2, <1>3, <1>4, <1>5 DEF TypeOK, Booked, Position
<1>9. \A s \in Symbols \ {d.symbol} : Booked(d, tick)[s] = positions[s]
  BY DEF TypeOK, Booked
<1>10. /\ Notional(d, tick) = Abs(x * p) /\ Notional(d, tick) \in Nat
       /\ SignedNotional(d, tick) = x * p /\ SignedNotional(d, tick) \in Int
  <2> HIDE DEF p
  <2>1. d.quantity * p \in Nat /\ (-d.quantity) * p = -(d.quantity * p)
    BY <1>2, <1>4
  <2> QED
    BY <1>2, <2>1 DEF Notional, SignedNotional, SignedQuantity, Abs, p
<1>11. q * c = q * p
  BY <1>3, <1>4, <1>6
<1>12. Abs((q + x) * p) = Abs(q * c) + Abs(x * p) /\ (q + x) * p = q * c + x * p
  <2> HIDE DEF p, x, q, c
  <2>1. Abs((q + x) * p) = Abs(q * p) + Abs(x * p)
    BY <1>3, <1>4, <1>5, SameSignAdds
  <2> QED
    BY <1>3, <1>4, <1>5, <1>11, <2>1
<1> QED
  BY <1>2, <1>7, <1>8, <1>9, <1>10, <1>12 DEF MarketValue, SignedValue

(***************************************************************************)
(* In any well-typed state an approved order that does not reduce a        *)
(* position keeps every cap once it is filled at the mark.                 *)
(***************************************************************************)
LEMMA GrowthFitsCaps == TypeOK => ApprovedGrowthFitsCaps
<1> SUFFICES ASSUME TypeOK, NEW d \in Decisions, NEW tick \in Ticks,
                    ~IsReducing(d), PricedAtMark(d, tick), Approves(d, tick)
             PROVE  WithinCaps(Booked(d, tick), d.symbol)
  BY DEF ApprovedGrowthFitsCaps
<1> DEFINE book == Booked(d, tick)
           n == Notional(d, tick)
<1>1. d \in Decision /\ d.symbol \in Symbols /\ d.quantity \in Int
  BY SetsAssumption DEF Decision
<1>2. d.quantity > 0
  BY <1>1, ApprovedGrowth
<1>3. /\ book \in [Symbols -> Position] /\ n \in Nat /\ SignedNotional(d, tick) \in Int
      /\ MarketValue(book)[d.symbol] = MarketValue(positions)[d.symbol] + n
      /\ SignedValue(book)[d.symbol] = SignedValue(positions)[d.symbol] + SignedNotional(d, tick)
      /\ \A s \in Symbols \ {d.symbol} :
           /\ MarketValue(book)[s] = MarketValue(positions)[s]
           /\ SignedValue(book)[s] = SignedValue(positions)[s]
           /\ book[s] = positions[s]
  BY <1>2, FillMovesOneSymbol
<1> HIDE DEF book, n
<1>4. /\ \A s \in Symbols : MarketValue(book)[s] \in Int /\ SignedValue(book)[s] \in Int
      /\ \A s \in Symbols : MarketValue(positions)[s] \in Int /\ SignedValue(positions)[s] \in Int
  BY <1>3, TotalsAreIntegers DEF TypeOK
<1>5. /\ HardLimits.max_symbol_exposure \in Nat /\ HardLimits.max_gross_exposure \in Nat
      /\ HardLimits.max_net_exposure \in Nat /\ HardLimits.max_correlated_exposure \in Nat
      /\ HardLimits.max_open_positions \in Nat
  BY NumbersAssumption DEF LimitNames
<1>6. ASSUME NEW S \in SUBSET Symbols, d.symbol \in S
      PROVE  Exposure(book, S) = Exposure(positions, S) + n /\ Exposure(positions, S) \in Int
  <2>1. IsFiniteSet(S)
    BY FS_Subset, SetsAssumption
  <2>2. Exposure(book, S)
          = Exposure(positions, S) - MarketValue(positions)[d.symbol] + MarketValue(book)[d.symbol]
    BY <1>3, <1>4, <1>6, <2>1, SumPointUpdate DEF Exposure
  <2>3. Exposure(positions, S) \in Int
    BY <1>4, <2>1, SumType DEF Exposure
  <2> QED
    BY <1>1, <1>3, <1>4, <2>2, <2>3
<1>7. NetExposure(book) = NetExposure(positions) + SignedNotional(d, tick)
  <2>1. NetExposure(book)
          = NetExposure(positions) - SignedValue(positions)[d.symbol] + SignedValue(book)[d.symbol]
    BY <1>1, <1>3, <1>4, SetsAssumption, SumPointUpdate DEF NetExposure
  <2>2. NetExposure(positions) \in Int
    BY <1>4, SetsAssumption, SumType DEF NetExposure
  <2> QED
    BY <1>1, <1>3, <1>4, <2>1, <2>2
<1>8. MarketValue(book)[d.symbol] <= HardLimits.max_symbol_exposure
  BY <1>1, <1>3, <1>4, <1>5, ApprovedGrowth DEF n
<1>9. Exposure(book, Symbols) <= HardLimits.max_gross_exposure
  BY <1>1, <1>3, <1>5, <1>6, ApprovedGrowth DEF n
<1>10. Abs(NetExposure(book)) <= HardLimits.max_net_exposure
  <2>1. ~(Abs(NetExposure(book)) > HardLimits.max_net_exposure)
    BY <1>7, ApprovedGrowth
  <2>2. Abs(NetExposure(book)) \in Int
    BY <1>3, <1>4, SetsAssumption, SumType DEF NetExposure, Abs
  <2> QED
    BY <1>5, <2>1, <2>2
<1>11. ASSUME NEW group \in CorrelationGroups, d.symbol \in group
       PROVE  Exposure(book, group) <= HardLimits.max_correlated_exposure
  <2>1. group \in SUBSET Symbols
    BY SetsAssumption
  <2>2. ~(Exposure(positions, group) + n > HardLimits.max_correlated_exposure)
    BY <1>11, ApprovedGrowth DEF ExceedsGroupLimit, n
  <2> QED
    BY <1>3, <1>5, <1>6, <1>11, <2>1, <2>2
<1>12. Cardinality(OpenSymbols(book))
         <= Larger(HardLimits.max_open_positions, Cardinality(OpenSymbols(positions)))
  <2> DEFINE before == OpenSymbols(positions)
  <2>1. IsFiniteSet(before) /\ OpenSymbols(book) \subseteq before \cup {d.symbol}
    BY <1>3, SetsAssumption, FS_Subset DEF OpenSymbols
  <2>2. IsFiniteSet(before \cup {d.symbol})
    BY <2>1, FS_AddElement
  <2>3. Cardinality(OpenSymbols(book)) <= Cardinality(before \cup {d.symbol})
    BY <2>1, <2>2, FS_Subset
  <2>4. /\ Cardinality(before \cup {d.symbol}) \in Nat /\ Cardinality(before) \in Nat
        /\ Cardinality(OpenSymbols(book)) \in Nat
    BY <2>1, <2>2, FS_Subset, FS_CardinalityType
  <2>5. CASE d.symbol \in before
    <3>1. before \cup {d.symbol} = before
      BY <2>5
    <3>2. Cardinality(OpenSymbols(book)) <= Cardinality(before)
      BY <2>3, <3>1
    <3> HIDE DEF before
    <3>3. Cardinality(before) <= Larger(HardLimits.max_open_positions, Cardinality(before))
      BY <1>5, <2>4 DEF Larger
    <3>4. Larger(HardLimits.max_open_positions, Cardinality(before)) \in Nat
      BY <1>5, <2>4 DEF Larger
    <3> QED
      BY <2>4, <3>2, <3>3, <3>4 DEF before
  <2>6. CASE d.symbol \notin before
    <3>1. Cardinality(before \cup {d.symbol}) = Cardinality(before) + 1
      BY <2>1, <2>6, FS_AddElement
    <3>2. ~(Cardinality(before) >= HardLimits.max_open_positions)
      BY <2>6, ApprovedGrowth
    <3> QED
      BY <1>5, <2>3, <2>4, <3>1, <3>2 DEF Larger
  <2> QED
    BY <2>5, <2>6
<1> QED
  BY <1>8, <1>9, <1>10, <1>11, <1>12 DEF WithinCaps, book

(***************************************************************************)
(* What the projections of evaluate() are for: an approved order that does *)
(* not reduce a position keeps the symbol, group, gross and net caps and   *)
(* the cap on open positions.                                              *)
(***************************************************************************)
THEOREM ApprovedGrowthIsCapped == Spec => []ApprovedGrowthFitsCaps
BY TypeCorrect, GrowthFitsCaps, PTL
=============================================================================
