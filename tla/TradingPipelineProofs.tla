----------------------- MODULE TradingPipelineProofs -----------------------
(***************************************************************************)
(* Theorems about TradingPipeline for any number of feed threads,          *)
(* strategies and orders, and for every bound.                             *)
(***************************************************************************)
EXTENDS TradingPipeline, RiskDProofs

OrderStages == {"evaluate", "journal verdict", "send", "journal fill"}

(***************************************************************************)
(* A thread past "scan" has an order of the strategy it is at, for a tick  *)
(* that came in; the verdict it carries is positive only once there is     *)
(* one.                                                                    *)
(***************************************************************************)
OrdersInHand ==
  \A f \in Feeders :
    /\ worker[f].stage # "idle" => worker[f].tick \in 1 .. MaxTicks /\ worker[f].at >= 1
    /\ worker[f].stage \in OrderStages =>
         /\ worker[f].order \in Decisions
         /\ worker[f].at \in DOMAIN registry
         /\ worker[f].order.strategy_id = registry[worker[f].at]
    /\ worker[f].stage \in {"send", "journal fill"} => worker[f].approved
    /\ worker[f].stage \in {"scan", "evaluate"} => ~worker[f].approved

TypeInv == TypeOK /\ PipelineTypeOK /\ OrdersInHand

(***************************************************************************)
(* Every step of the pipeline is a step of RiskD, a construction of it, or *)
(* leaves it alone.                                                        *)
(***************************************************************************)
LEMMA RiskDSteps ==
  ASSUME TypeOK, PipelineTypeOK, OrdersInHand, [PipelineNext]_pvars
  PROVE  [Next]_vars \/ Construct
<1>1. ASSUME NEW f \in Feeders, EvaluateOrder(f) PROVE Next
  <2>1. worker[f].order \in Decisions
    BY <1>1 DEF EvaluateOrder, OrdersInHand, OrderStages
  <2>2. NoTick \in Ticks
    BY PipelineAssumption
  <2> QED
    BY <1>1, <2>1, <2>2 DEF EvaluateOrder, Next
<1>2. ASSUME OperateRiskD PROVE Next
  BY <1>2 DEF OperateRiskD, Next
<1>3. ASSUME Restart PROVE Construct
  BY <1>3 DEF Restart
<1>4. ASSUME NEW f \in Feeders, IngestTick(f) \/ (FeederStep(f) /\ ~EvaluateOrder(f))
      PROVE  UNCHANGED vars
  BY <1>4
     DEF IngestTick, FeederStep, RegistryChanged, FinishTick, SkipDisabled, StrategyPasses,
         StrategyRaises, StrategyDecides, AbandonTick, ScanUnchanged, RecordVerdict,
         SendOrder, RecordFill
<1>5. ASSUME NEW st \in Strategies, Register(st) PROVE UNCHANGED vars
  BY <1>5 DEF Register
<1>6. ASSUME NEW st \in Strategies, NEW on \in BOOLEAN, SetEnabled(st, on)
      PROVE  UNCHANGED vars
  BY <1>6 DEF SetEnabled
<1>7. CASE UNCHANGED pvars
  BY <1>7 DEF pvars
<1> QED
  BY <1>1, <1>2, <1>3, <1>4, <1>5, <1>6, <1>7 DEF PipelineNext

(***************************************************************************)
(* RiskD keeps its types within the pipeline, restarts included.           *)
(***************************************************************************)
LEMMA RiskDTypeKept ==
  ASSUME TypeOK, PipelineTypeOK, OrdersInHand, [PipelineNext]_pvars
  PROVE  TypeOK'
<1>1. CASE [Next]_vars
  BY <1>1, NextType
<1>2. CASE Construct
  <2>1. positions' \in [Symbols -> Position]
    BY <1>2 DEF Construct, Position, NoPosition
  <2>2. broker' \in [connected : BOOLEAN, latency : Nat]
    BY <1>2 DEF Construct
  <2>3. 0 \in PnlRange /\ InitialEquity \in Int
    BY NumbersAssumption DEF PnlRange
  <2> QED
    BY <1>2, <2>1, <2>2, <2>3 DEF Construct, TypeOK, RiskStates
<1> QED
  BY <1>1, <1>2, RiskDSteps

(***************************************************************************)
(* The identity of the order a thread has in hand.                         *)
(***************************************************************************)
LEMMA OrderIdType ==
  ASSUME PipelineTypeOK, OrdersInHand, NEW f \in Feeders, worker[f].stage \in OrderStages
  PROVE  OrderId(f) \in Ids
<1>1. worker[f].order \in Decision
  BY SetsAssumption DEF OrdersInHand
<1>2. worker[f].tick \in 1 .. MaxTicks
  BY DEF OrdersInHand, OrderStages
<1> QED
  BY <1>1, <1>2 DEF OrderId, Ids, Decision, PipelineTypeOK

(***************************************************************************)
(* Writing a line keeps the ledger's type.                                 *)
(***************************************************************************)
Lines == [event : {"RISK_EVALUATION", "BROKER_EXECUTION"}, id : Ids, approved : BOOLEAN]

LEMMA RecordType ==
  ASSUME PipelineTypeOK, NEW line \in Lines, Record(line)
  PROVE  ledger' \in Seq(Lines) /\ unwritten' \subseteq Lines
<1>1. ledger \in Seq(Lines) /\ unwritten \subseteq Lines
  BY DEF PipelineTypeOK, Lines
<1>2. CASE ledger' = Append(ledger, line) /\ UNCHANGED unwritten
  BY <1>1, <1>2
<1>3. CASE unwritten' = unwritten \cup {line} /\ UNCHANGED ledger
  BY <1>1, <1>3
<1> QED
  BY <1>2, <1>3 DEF Record

(***************************************************************************)
(* The initial state is well typed and no thread has an order.             *)
(***************************************************************************)
LEMMA PipelineInitType == PipelineInit => TypeInv
<1> SUFFICES ASSUME PipelineInit PROVE TypeInv
  OBVIOUS
<1>1. TypeOK
  BY InitType DEF PipelineInit
<1>2. worker \in [Feeders -> Worker]
  BY PipelineAssumption DEF PipelineInit, Worker, Idle, Stages
<1>3. PipelineTypeOK
  BY <1>2, PipelineAssumption DEF PipelineInit, PipelineTypeOK, NoLeaks
<1>4. OrdersInHand
  BY DEF PipelineInit, OrdersInHand, Idle, OrderStages
<1> QED
  BY <1>1, <1>3, <1>4 DEF TypeInv

(***************************************************************************)
(* How the two kinds of step a walk over the registry is made of keep the  *)
(* invariant: one thread changes, the registry does not.                   *)
(***************************************************************************)
LEMMA WalkType ==
  ASSUME TypeInv, NEW f \in Feeders, NEW w \in Worker,
         worker' = [worker EXCEPT ![f] = w],
         ~w.approved, w.stage \in {"idle", "scan"},
         w.stage # "idle" => w.tick \in 1 .. MaxTicks /\ w.at >= 1,
         UNCHANGED registry
  PROVE  worker' \in [Feeders -> Worker] /\ OrdersInHand'
<1>1. worker' \in [Feeders -> Worker]
  BY DEF TypeInv, PipelineTypeOK
<1>2. OrdersInHand'
  <2> SUFFICES ASSUME NEW g \in Feeders
               PROVE  /\ worker'[g].stage # "idle" =>
                           worker'[g].tick \in 1 .. MaxTicks /\ worker'[g].at >= 1
                      /\ worker'[g].stage \in OrderStages =>
                           /\ worker'[g].order \in Decisions
                           /\ worker'[g].at \in DOMAIN registry
                           /\ worker'[g].order.strategy_id = registry[worker'[g].at]
                      /\ worker'[g].stage \in {"send", "journal fill"} => worker'[g].approved
                      /\ worker'[g].stage \in {"scan", "evaluate"} => ~worker'[g].approved
    BY DEF OrdersInHand
  <2>1. CASE g = f
    BY <2>1 DEF TypeInv, PipelineTypeOK, OrderStages
  <2>2. CASE g # f
    <3>1. worker'[g] = worker[g]
      BY <2>2 DEF TypeInv, PipelineTypeOK
    <3> QED
      BY <3>1 DEF TypeInv, OrdersInHand
  <2> QED
    BY <2>1, <2>2
<1> QED
  BY <1>1, <1>2

(***************************************************************************)
(* The same for a step that leaves the thread with an order in hand.       *)
(***************************************************************************)
LEMMA OrderStepType ==
  ASSUME TypeInv, NEW f \in Feeders, NEW w \in Worker,
         worker' = [worker EXCEPT ![f] = w],
         worker[f].stage # "idle", w.tick = worker[f].tick,
         w.stage \in OrderStages, w.order \in Decisions,
         w.at >= 1, w.at \in DOMAIN registry, w.order.strategy_id = registry[w.at],
         w.stage \in {"send", "journal fill"} => w.approved,
         w.stage = "evaluate" => ~w.approved,
         UNCHANGED registry
  PROVE  worker' \in [Feeders -> Worker] /\ OrdersInHand'
<1>1. worker' \in [Feeders -> Worker]
  BY DEF TypeInv, PipelineTypeOK
<1>2. OrdersInHand'
  <2> SUFFICES ASSUME NEW g \in Feeders
               PROVE  /\ worker'[g].stage # "idle" =>
                           worker'[g].tick \in 1 .. MaxTicks /\ worker'[g].at >= 1
                      /\ worker'[g].stage \in OrderStages =>
                           /\ worker'[g].order \in Decisions
                           /\ worker'[g].at \in DOMAIN registry
                           /\ worker'[g].order.strategy_id = registry[worker'[g].at]
                      /\ worker'[g].stage \in {"send", "journal fill"} => worker'[g].approved
                      /\ worker'[g].stage \in {"scan", "evaluate"} => ~worker'[g].approved
    BY DEF OrdersInHand
  <2>1. CASE g = f
    <3>1. worker'[g] = w
      BY <2>1 DEF TypeInv, PipelineTypeOK
    <3>2. worker[f].tick \in 1 .. MaxTicks
      BY DEF TypeInv, OrdersInHand
    <3> QED
      BY <3>1, <3>2 DEF OrderStages
  <2>2. CASE g # f
    <3>1. worker'[g] = worker[g]
      BY <2>2 DEF TypeInv, PipelineTypeOK
    <3> QED
      BY <3>1 DEF TypeInv, OrdersInHand
  <2> QED
    BY <2>1, <2>2
<1> QED
  BY <1>1, <1>2

(***************************************************************************)
(* Every step of the pipeline keeps the types and the orders in hand.      *)
(***************************************************************************)
LEMMA PipelineNextType == TypeInv /\ [PipelineNext]_pvars => TypeInv'
<1> SUFFICES ASSUME TypeInv, [PipelineNext]_pvars PROVE TypeInv'
  OBVIOUS
<1>0. TypeOK /\ PipelineTypeOK /\ OrdersInHand /\ TypeOK'
  BY RiskDTypeKept DEF TypeInv
<1> DEFINE Rest == /\ registry' \in Seq(Strategies) /\ enabled' \in [Strategies -> BOOLEAN]
                   /\ ticks' \in 0 .. MaxTicks
                   /\ ledger' \in Seq(Lines) /\ unwritten' \subseteq Lines
                   /\ fills' \subseteq [id : Ids, order : Decisions]
                   /\ restarts' \in 0 .. MaxRestarts
                   /\ verdicts' \subseteq [id : Ids, approved : BOOLEAN]
                   /\ due' \in [Feeders -> SUBSET Strategies]
                   /\ sentUnderHalt' \in [Feeders -> Nat]
<1>1. ASSUME Rest, worker' \in [Feeders -> Worker], OrdersInHand' PROVE TypeInv'
  BY <1>0, <1>1 DEF TypeInv, PipelineTypeOK, Lines
<1>2. /\ registry \in Seq(Strategies) /\ enabled \in [Strategies -> BOOLEAN]
      /\ ticks \in 0 .. MaxTicks
      /\ ledger \in Seq(Lines) /\ unwritten \subseteq Lines
      /\ fills \subseteq [id : Ids, order : Decisions]
      /\ restarts \in 0 .. MaxRestarts
      /\ verdicts \subseteq [id : Ids, approved : BOOLEAN]
      /\ due \in [Feeders -> SUBSET Strategies]
      /\ sentUnderHalt \in [Feeders -> Nat]
      /\ worker \in [Feeders -> Worker]
      /\ Registered \subseteq Strategies
  BY <1>0 DEF PipelineTypeOK, Lines, Registered
<1>3. Idle \in Worker /\ Idle.stage = "idle" /\ ~Idle.approved
  BY PipelineAssumption DEF Idle, Worker, Stages
<1>4. ASSUME NEW f \in Feeders, IngestTick(f) PROVE TypeInv'
  <2> DEFINE w == [Idle EXCEPT !.stage = "scan", !.tick = ticks + 1,
                               !.at = 1, !.size = Len(registry)]
  <2>1. ticks + 1 \in 1 .. MaxTicks
    BY <1>2, <1>4, PipelineAssumption DEF IngestTick
  <2>2. w \in Worker /\ w.stage = "scan" /\ ~w.approved /\ w.tick = ticks + 1 /\ w.at = 1
    <3>1. ticks + 1 \in 0 .. MaxTicks /\ Len(registry) \in Nat
      BY <1>2, <2>1, PipelineAssumption
    <3> QED
      BY <1>3, <3>1 DEF Worker, Stages
  <2>3. worker' = [worker EXCEPT ![f] = w] /\ UNCHANGED registry
    BY <1>4 DEF IngestTick, strategyVars
  <2>4. Rest
    BY <1>2, <1>4, <2>1 DEF IngestTick, strategyVars, journalVars
  <2> HIDE DEF w, Rest
  <2> QED
    <3>1. w.tick \in 1 .. MaxTicks /\ w.at >= 1
      BY <2>1, <2>2
    <3> QED
      BY <1>1, <2>2, <2>3, <2>4, <3>1, WalkType
<1>5. ASSUME NEW f \in Feeders, AbandonTick(f) \/ FinishTick(f) PROVE TypeInv'
  <2>1. worker' = [worker EXCEPT ![f] = Idle] /\ UNCHANGED registry
    BY <1>5 DEF AbandonTick, FinishTick, ScanUnchanged, strategyVars
  <2>2. Rest
    BY <1>2, <1>5 DEF AbandonTick, FinishTick, ScanUnchanged, strategyVars, journalVars
  <2> HIDE DEF Rest
  <2> QED
    BY <1>1, <1>3, <2>1, <2>2, WalkType
<1>6. ASSUME NEW f \in Feeders, SkipDisabled(f) \/ StrategyPasses(f) PROVE TypeInv'
  <2> DEFINE w == [worker[f] EXCEPT !.at = @ + 1]
  <2>1. worker[f] \in Worker /\ worker[f].stage = "scan" /\ ~worker[f].approved
        /\ worker[f].tick \in 1 .. MaxTicks /\ worker[f].at >= 1
    BY <1>0, <1>2, <1>6 DEF SkipDisabled, StrategyPasses, AtStrategy, OrdersInHand
  <2>2. w \in Worker /\ w.stage = "scan" /\ ~w.approved /\ w.tick \in 1 .. MaxTicks
        /\ w.at >= 1
    BY <2>1 DEF Worker
  <2>3. worker' = [worker EXCEPT ![f] = w] /\ UNCHANGED registry
    BY <1>6 DEF SkipDisabled, StrategyPasses, ScanUnchanged, strategyVars
  <2>4. Rest
    BY <1>2, <1>6 DEF SkipDisabled, StrategyPasses, ScanUnchanged, strategyVars, journalVars
  <2> HIDE DEF w, Rest
  <2> QED
    BY <1>1, <2>2, <2>3, <2>4, WalkType
<1>7. ASSUME NEW f \in Feeders, NEW d \in Decisions, StrategyDecides(f, d) PROVE TypeInv'
  <2> DEFINE w == [worker[f] EXCEPT !.stage = "evaluate", !.order = d]
  <2>1. /\ worker[f] \in Worker /\ worker[f].stage = "scan" /\ ~worker[f].approved
        /\ worker[f].at <= worker[f].size /\ worker[f].size = Len(registry)
        /\ d.strategy_id = registry[worker[f].at] /\ worker[f].at >= 1
    BY <1>0, <1>2, <1>7 DEF StrategyDecides, AtStrategy, OrdersInHand
  <2>2. worker[f].at \in DOMAIN registry
    BY <1>2, <2>1 DEF Worker
  <2>3. /\ w \in Worker /\ w.stage = "evaluate" /\ ~w.approved /\ w.order = d
        /\ w.at = worker[f].at /\ w.tick = worker[f].tick
    BY <2>1 DEF Worker, Stages
  <2>4. worker' = [worker EXCEPT ![f] = w] /\ UNCHANGED registry
    BY <1>7 DEF StrategyDecides, ScanUnchanged, strategyVars
  <2>5. Rest
    BY <1>2, <1>7 DEF StrategyDecides, ScanUnchanged, strategyVars, journalVars
  <2> HIDE DEF w, Rest
  <2> QED
    BY <1>1, <2>1, <2>2, <2>3, <2>4, <2>5, OrderStepType DEF OrderStages
<1>8. ASSUME NEW f \in Feeders, worker[f].stage \in OrderStages
      PROVE  /\ worker[f] \in Worker /\ worker[f].stage # "idle"
             /\ worker[f].order \in Decisions /\ worker[f].at \in DOMAIN registry
             /\ worker[f].at >= 1 /\ worker[f].tick \in 1 .. MaxTicks
             /\ worker[f].order.strategy_id = registry[worker[f].at]
             /\ OrderId(f) \in Ids
             /\ NextStrategy(worker[f]) \in Worker
             /\ NextStrategy(worker[f]).stage = "scan" /\ ~NextStrategy(worker[f]).approved
             /\ NextStrategy(worker[f]).tick = worker[f].tick
             /\ NextStrategy(worker[f]).at >= 1
  <2>1. /\ worker[f] \in Worker /\ worker[f].stage # "idle"
        /\ worker[f].order \in Decisions /\ worker[f].at \in DOMAIN registry
        /\ worker[f].at >= 1 /\ worker[f].tick \in 1 .. MaxTicks
        /\ worker[f].order.strategy_id = registry[worker[f].at]
    BY <1>0, <1>2, <1>8 DEF OrdersInHand, OrderStages
  <2>2. OrderId(f) \in Ids
    BY <1>0, <1>8, OrderIdType
  <2>3. /\ NextStrategy(worker[f]) \in Worker
        /\ NextStrategy(worker[f]).stage = "scan" /\ ~NextStrategy(worker[f]).approved
        /\ NextStrategy(worker[f]).tick = worker[f].tick
        /\ NextStrategy(worker[f]).at >= 1
    <3>1. worker[f].at + 1 \in Nat /\ worker[f].at + 1 >= 1
      BY <2>1 DEF Worker
    <3> QED
      BY <2>1, <3>1 DEF NextStrategy, Worker, Stages
  <2> QED
    BY <2>1, <2>2, <2>3
<1>9. ASSUME NEW f \in Feeders, EvaluateOrder(f) PROVE TypeInv'
  <2> DEFINE ok == Approves(worker[f].order, NoTick)
             w == [worker[f] EXCEPT !.stage = "journal verdict", !.approved = ok]
  <2>1. worker[f].stage = "evaluate" /\ worker[f].stage \in OrderStages
    BY <1>9 DEF EvaluateOrder, OrderStages
  <2>2. ok \in BOOLEAN
    BY DEF Approves
  <2>3. /\ w \in Worker /\ w.stage = "journal verdict" /\ w.order = worker[f].order
        /\ w.at = worker[f].at /\ w.tick = worker[f].tick
    <3> HIDE DEF ok
    <3> QED
      BY <1>8, <2>1, <2>2 DEF Worker, Stages
  <2>4. worker' = [worker EXCEPT ![f] = w] /\ UNCHANGED registry
    BY <1>9 DEF EvaluateOrder, strategyVars
  <2>5. Rest
    <3>1. verdicts' = verdicts \cup {[id |-> OrderId(f), approved |-> ok]}
      BY <1>9 DEF EvaluateOrder
    <3>2. verdicts' \subseteq [id : Ids, approved : BOOLEAN]
      BY <1>2, <1>8, <2>1, <2>2, <3>1
    <3> QED
      BY <1>2, <1>9, <3>2 DEF EvaluateOrder, strategyVars, journalVars
  <2> HIDE DEF ok, w, Rest
  <2> QED
    BY <1>1, <1>8, <2>1, <2>3, <2>4, <2>5, OrderStepType DEF OrderStages
<1>10. ASSUME NEW f \in Feeders, RecordVerdict(f) PROVE TypeInv'
  <2>1. worker[f].stage = "journal verdict" /\ worker[f].stage \in OrderStages
    BY <1>10 DEF RecordVerdict, OrderStages
  <2>2. VerdictLine(OrderId(f), worker[f].approved) \in Lines
    BY <1>8, <2>1 DEF VerdictLine, Lines, Worker
  <2>3. ledger' \in Seq(Lines) /\ unwritten' \subseteq Lines
    BY <1>0, <1>10, <2>2, RecordType DEF RecordVerdict
  <2>4. Rest
    BY <1>2, <1>10, <2>3 DEF RecordVerdict, strategyVars
  <2>5. UNCHANGED registry
    BY <1>10 DEF RecordVerdict, strategyVars
  <2> HIDE DEF Rest
  <2>6. CASE worker[f].approved
    <3> DEFINE w == [worker[f] EXCEPT !.stage = "send"]
    <3>1. /\ w \in Worker /\ w.stage = "send" /\ w.approved /\ w.order = worker[f].order
          /\ w.at = worker[f].at /\ w.tick = worker[f].tick
      BY <1>8, <2>1, <2>6 DEF Worker, Stages
    <3>2. worker' = [worker EXCEPT ![f] = w]
      BY <1>10, <2>6 DEF RecordVerdict
    <3> HIDE DEF w
    <3> QED
      BY <1>1, <1>8, <2>1, <2>4, <2>5, <3>1, <3>2, OrderStepType DEF OrderStages
  <2>7. CASE ~worker[f].approved
    <3>1. worker' = [worker EXCEPT ![f] = NextStrategy(worker[f])]
      BY <1>10, <2>7 DEF RecordVerdict
    <3> QED
      BY <1>1, <1>8, <2>1, <2>4, <2>5, <3>1, WalkType
  <2> QED
    BY <2>6, <2>7
<1>11. ASSUME NEW f \in Feeders, SendOrder(f) PROVE TypeInv'
  <2> DEFINE w == [worker[f] EXCEPT !.stage = "journal fill"]
  <2>1. worker[f].stage = "send" /\ worker[f].stage \in OrderStages /\ worker[f].approved
    BY <1>0, <1>11 DEF SendOrder, OrderStages, OrdersInHand
  <2>2. /\ w \in Worker /\ w.stage = "journal fill" /\ w.approved
        /\ w.order = worker[f].order /\ w.at = worker[f].at /\ w.tick = worker[f].tick
    BY <1>8, <2>1 DEF Worker, Stages
  <2>3. worker' = [worker EXCEPT ![f] = w] /\ UNCHANGED registry
    BY <1>11 DEF SendOrder, strategyVars
  <2>4. Rest
    <3>1. fills' \subseteq [id : Ids, order : Decisions]
      <4>1. [id |-> OrderId(f), order |-> worker[f].order] \in [id : Ids, order : Decisions]
        BY <1>8, <2>1
      <4>2. fills' = fills \cup {[id |-> OrderId(f), order |-> worker[f].order]}
        BY <1>11 DEF SendOrder
      <4> QED
        BY <1>2, <4>1, <4>2
    <3>2. sentUnderHalt' \in [Feeders -> Nat]
      <4>1. \/ sentUnderHalt' = sentUnderHalt
            \/ sentUnderHalt' = [sentUnderHalt EXCEPT ![f] = @ + 1]
        BY <1>11 DEF SendOrder
      <4> QED
        BY <1>2, <4>1
    <3> QED
      BY <1>2, <1>11, <3>1, <3>2 DEF SendOrder, strategyVars, journalVars
  <2> HIDE DEF w, Rest
  <2> QED
    BY <1>1, <1>8, <2>1, <2>2, <2>3, <2>4, OrderStepType DEF OrderStages
<1>12. ASSUME NEW f \in Feeders, RecordFill(f) PROVE TypeInv'
  <2>1. worker[f].stage = "journal fill" /\ worker[f].stage \in OrderStages
    BY <1>12 DEF RecordFill, OrderStages
  <2>2. FillLine(OrderId(f)) \in Lines
    BY <1>8, <2>1 DEF FillLine, Lines
  <2>3. ledger' \in Seq(Lines) /\ unwritten' \subseteq Lines
    BY <1>0, <1>12, <2>2, RecordType DEF RecordFill
  <2>4. Rest
    BY <1>2, <1>12, <2>3 DEF RecordFill, strategyVars
  <2>5. worker' = [worker EXCEPT ![f] = NextStrategy(worker[f])] /\ UNCHANGED registry
    BY <1>12 DEF RecordFill, strategyVars
  <2> HIDE DEF Rest
  <2> QED
    BY <1>1, <1>8, <2>1, <2>4, <2>5, WalkType
<1>13. CASE OperateRiskD
  <2>1. Rest
    BY <1>2, <1>13 DEF OperateRiskD, strategyVars, journalVars, NoLeaks
  <2>2. UNCHANGED <<worker, registry>>
    BY <1>13 DEF OperateRiskD, strategyVars
  <2> HIDE DEF Rest
  <2> QED
    BY <1>0, <1>1, <1>2, <2>1, <2>2 DEF OrdersInHand
<1>14. ASSUME NEW st \in Strategies, Register(st) PROVE TypeInv'
  <2>1. Rest
    BY <1>2, <1>14 DEF Register, journalVars
  <2>2. DOMAIN registry \subseteq DOMAIN registry' /\ \A i \in DOMAIN registry : registry'[i] = registry[i]
    BY <1>2, <1>14 DEF Register
  <2>3. UNCHANGED worker
    BY <1>14 DEF Register
  <2> HIDE DEF Rest
  <2> QED
    BY <1>0, <1>1, <1>2, <2>1, <2>2, <2>3 DEF OrdersInHand
<1>15. ASSUME NEW st \in Strategies, NEW on \in BOOLEAN, SetEnabled(st, on) PROVE TypeInv'
  <2>1. Rest
    BY <1>2, <1>15 DEF SetEnabled, journalVars
  <2>2. UNCHANGED <<worker, registry>>
    BY <1>15 DEF SetEnabled
  <2> HIDE DEF Rest
  <2> QED
    BY <1>0, <1>1, <1>2, <2>1, <2>2 DEF OrdersInHand
<1>16. CASE Restart
  <2>1. Rest
    BY <1>2, <1>16, PipelineAssumption DEF Restart, journalVars, NoLeaks
  <2>2. worker' \in [Feeders -> Worker] /\ OrdersInHand'
    BY <1>3, <1>16 DEF Restart, OrdersInHand, OrderStages
  <2> HIDE DEF Rest
  <2> QED
    BY <1>1, <2>1, <2>2
<1>17. CASE UNCHANGED pvars
  <2>1. Rest
    BY <1>2, <1>17 DEF pvars, strategyVars, journalVars
  <2>2. UNCHANGED <<worker, registry>>
    BY <1>17 DEF pvars, strategyVars
  <2> HIDE DEF Rest
  <2> QED
    BY <1>0, <1>1, <1>2, <2>1, <2>2 DEF OrdersInHand
<1>18. ASSUME NEW f \in Feeders, FeederStep(f) PROVE TypeInv'
  <2>1. CASE RegistryChanged(f) \/ StrategyRaises(f) \/ FinishTick(f)
    BY <1>5, <2>1 DEF RegistryChanged, StrategyRaises
  <2> QED
    BY <1>6, <1>7, <1>9, <1>10, <1>11, <1>12, <1>18, <2>1 DEF FeederStep
<1> QED
  BY <1>4, <1>13, <1>14, <1>15, <1>16, <1>17, <1>18 DEF PipelineNext

(***************************************************************************)
(* The pipeline's objects keep their types, and a thread past the registry *)
(* walk always has an order of the strategy it stands at.                  *)
(***************************************************************************)
THEOREM PipelineTypeCorrect == PipelineSpec => []PipelineTypeOK
BY PipelineInitType, PipelineNextType, PTL DEF PipelineSpec, TypeInv

----------------------------------------------------------------------------
(* The emergency halt *)

(***************************************************************************)
(* What a thread sent since the halt went on: at most one order, and none  *)
(* while it still holds an approval; nothing counts without a halt.        *)
(***************************************************************************)
LeaksInv ==
  \A f \in Feeders : /\ sentUnderHalt[f] \in {0, 1}
                     /\ sentUnderHalt[f] = 1 => emergencyHalt /\ ~HoldsApproval(f)

(***************************************************************************)
(* evaluate() refuses everything under an emergency halt.                  *)
(***************************************************************************)
LEMMA HaltRefuses ==
  ASSUME NEW d, NEW tick, emergencyHalt
  PROVE  ~Approves(d, tick)
BY DEF Approves, Breaches, Halted

(***************************************************************************)
(* A step of one thread that counts nothing and leaves the switches alone  *)
(* keeps LeaksInv if the thread has no approval after it, had one before   *)
(* it, or counts none.                                                     *)
(***************************************************************************)
LEMMA QuietStepKeepsLeaks ==
  ASSUME PipelineTypeOK, LeaksInv, NEW f \in Feeders,
         \A g \in Feeders \ {f} : worker'[g] = worker[g],
         UNCHANGED <<sentUnderHalt, emergencyHalt>>,
         HoldsApproval(f)' => HoldsApproval(f) \/ sentUnderHalt[f] = 0
  PROVE  LeaksInv'
<1> SUFFICES ASSUME NEW g \in Feeders
             PROVE  /\ sentUnderHalt'[g] \in {0, 1}
                    /\ sentUnderHalt'[g] = 1 => emergencyHalt' /\ ~HoldsApproval(g)'
  BY DEF LeaksInv
<1>1. CASE g = f
  BY <1>1 DEF LeaksInv
<1>2. CASE g # f
  <2>1. HoldsApproval(g)' = HoldsApproval(g)
    BY <1>2 DEF HoldsApproval
  <2> QED
    BY <2>1 DEF LeaksInv
<1> QED
  BY <1>1, <1>2

LEMMA NextLeaks == TypeInv /\ LeaksInv /\ [PipelineNext]_pvars => LeaksInv'
<1> SUFFICES ASSUME TypeInv, LeaksInv, [PipelineNext]_pvars PROVE LeaksInv'
  OBVIOUS
<1>0. PipelineTypeOK /\ worker \in [Feeders -> Worker] /\ sentUnderHalt \in [Feeders -> Nat]
  BY DEF TypeInv, PipelineTypeOK
<1>1. ASSUME NEW f \in Feeders,
             \/ IngestTick(f) \/ AbandonTick(f) \/ FinishTick(f) \/ SkipDisabled(f)
             \/ StrategyPasses(f) \/ \E d \in Decisions : StrategyDecides(f, d)
             \/ RecordFill(f)
      PROVE  LeaksInv'
  <2>1. \A g \in Feeders \ {f} : worker'[g] = worker[g]
    BY <1>0, <1>1 DEF IngestTick, AbandonTick, FinishTick, SkipDisabled, StrategyPasses,
                      StrategyDecides, RecordFill
  <2>2. UNCHANGED <<sentUnderHalt, emergencyHalt>>
    BY <1>1 DEF IngestTick, AbandonTick, FinishTick, SkipDisabled, StrategyPasses,
                StrategyDecides, RecordFill, ScanUnchanged, vars, controlVars
  <2>3. worker'[f].stage \in {"idle", "scan", "evaluate"}
    <3>1. CASE IngestTick(f) \/ AbandonTick(f) \/ FinishTick(f)
      <4>1. Idle \in Worker /\ Idle.stage = "idle"
        BY PipelineAssumption DEF Idle, Worker, Stages
      <4>2. [Idle EXCEPT !.stage = "scan", !.tick = ticks + 1, !.at = 1,
                         !.size = Len(registry)].stage = "scan"
        BY <4>1 DEF Worker
      <4> QED
        BY <1>0, <3>1, <4>1, <4>2 DEF IngestTick, AbandonTick, FinishTick
    <3>2. CASE SkipDisabled(f) \/ StrategyPasses(f)
      BY <1>0, <3>2 DEF SkipDisabled, StrategyPasses, AtStrategy, Worker
    <3>3. CASE \E d \in Decisions : StrategyDecides(f, d)
      BY <1>0, <3>3 DEF StrategyDecides, Worker
    <3>4. CASE RecordFill(f)
      BY <1>0, <3>4 DEF RecordFill, NextStrategy, Worker
    <3> QED
      BY <1>1, <3>1, <3>2, <3>3, <3>4
  <2> QED
    BY <1>0, <2>1, <2>2, <2>3, QuietStepKeepsLeaks DEF HoldsApproval
<1>2. ASSUME NEW f \in Feeders, EvaluateOrder(f) PROVE LeaksInv'
  <2>1. \A g \in Feeders \ {f} : worker'[g] = worker[g]
    BY <1>0, <1>2 DEF EvaluateOrder
  <2>2. UNCHANGED <<sentUnderHalt, emergencyHalt>>
    BY <1>2 DEF EvaluateOrder, Evaluate, controlVars
  <2>3. worker'[f].stage = "journal verdict"
        /\ worker'[f].approved = Approves(worker[f].order, NoTick)
    <3> DEFINE ok == Approves(worker[f].order, NoTick)
    <3>1. worker' = [worker EXCEPT ![f].stage = "journal verdict", ![f].approved = ok]
      BY <1>2 DEF EvaluateOrder
    <3> HIDE DEF ok
    <3>2. worker'[f].stage = "journal verdict" /\ worker'[f].approved = ok
      BY <1>0, <3>1 DEF Worker
    <3> QED
      BY <3>2 DEF ok
  <2>4. CASE emergencyHalt
    BY <1>0, <2>1, <2>2, <2>3, <2>4, HaltRefuses, QuietStepKeepsLeaks DEF HoldsApproval
  <2>5. CASE ~emergencyHalt
    <3>1. sentUnderHalt[f] = 0
      BY <2>5 DEF LeaksInv
    <3> QED
      BY <1>0, <2>1, <2>2, <3>1, QuietStepKeepsLeaks
  <2> QED
    BY <2>4, <2>5
<1>3. ASSUME NEW f \in Feeders, RecordVerdict(f) PROVE LeaksInv'
  <2>1. \A g \in Feeders \ {f} : worker'[g] = worker[g]
    BY <1>0, <1>3 DEF RecordVerdict
  <2>2. UNCHANGED <<sentUnderHalt, emergencyHalt>>
    BY <1>3 DEF RecordVerdict, vars, controlVars
  <2>3. HoldsApproval(f)' => HoldsApproval(f)
    BY <1>0, <1>3 DEF RecordVerdict, HoldsApproval, NextStrategy, Worker
  <2> QED
    BY <1>0, <2>1, <2>2, <2>3, QuietStepKeepsLeaks
<1>4. ASSUME NEW f \in Feeders, SendOrder(f) PROVE LeaksInv'
  <2> SUFFICES ASSUME NEW g \in Feeders
               PROVE  /\ sentUnderHalt'[g] \in {0, 1}
                      /\ sentUnderHalt'[g] = 1 => emergencyHalt' /\ ~HoldsApproval(g)'
    BY DEF LeaksInv
  <2>1. emergencyHalt' = emergencyHalt
    BY <1>4 DEF SendOrder, vars, controlVars
  <2>2. sentUnderHalt[f] = 0
    BY <1>4 DEF SendOrder, LeaksInv, HoldsApproval
  <2>3. CASE g = f
    <3>1. worker'[g].stage = "journal fill"
      BY <1>0, <1>4, <2>3 DEF SendOrder, Worker
    <3>2. CASE emergencyHalt
      <4>1. sentUnderHalt' = [sentUnderHalt EXCEPT ![f] = @ + 1]
        BY <1>4, <3>2 DEF SendOrder
      <4>2. sentUnderHalt'[g] = 1
        BY <1>0, <2>2, <2>3, <4>1
      <4> QED
        BY <2>1, <3>1, <3>2, <4>2 DEF HoldsApproval
    <3>3. CASE ~emergencyHalt
      <4>1. sentUnderHalt'[g] = 0
        BY <1>4, <2>2, <2>3, <3>3 DEF SendOrder
      <4> QED
        BY <4>1
    <3> QED
      BY <3>2, <3>3
  <2>4. CASE g # f
    <3>1. worker'[g] = worker[g] /\ sentUnderHalt'[g] = sentUnderHalt[g]
      BY <1>0, <1>4, <2>4 DEF SendOrder
    <3> QED
      BY <2>1, <3>1 DEF LeaksInv, HoldsApproval
  <2> QED
    BY <2>3, <2>4
<1>5. CASE OperateRiskD
  <2>1. worker' = worker /\ (emergencyHalt' => sentUnderHalt' = sentUnderHalt)
        /\ (~emergencyHalt' => sentUnderHalt' = NoLeaks)
    BY <1>5 DEF OperateRiskD
  <2>2. CASE emergencyHalt'
    BY <2>1, <2>2 DEF LeaksInv, HoldsApproval
  <2>3. CASE ~emergencyHalt'
    BY <2>1, <2>3 DEF LeaksInv, NoLeaks
  <2> QED
    BY <2>2, <2>3
<1>6. CASE Restart
  BY <1>6 DEF Restart, LeaksInv, NoLeaks
<1>7. ASSUME UNCHANGED <<worker, sentUnderHalt, emergencyHalt>> PROVE LeaksInv'
  BY <1>7 DEF LeaksInv, HoldsApproval
<1>8. ASSUME NEW f \in Feeders, FeederStep(f) PROVE LeaksInv'
  BY <1>1, <1>2, <1>3, <1>4, <1>8 DEF FeederStep, RegistryChanged, StrategyRaises
<1>9. ASSUME NEW st \in Strategies, Register(st) PROVE LeaksInv'
  BY <1>7, <1>9 DEF Register, vars, controlVars
<1>10. ASSUME NEW st \in Strategies, NEW on \in BOOLEAN, SetEnabled(st, on) PROVE LeaksInv'
  BY <1>7, <1>10 DEF SetEnabled, vars, controlVars
<1>11. CASE UNCHANGED pvars
  BY <1>7, <1>11 DEF pvars, vars, controlVars
<1> QED
  BY <1>1, <1>5, <1>6, <1>8, <1>9, <1>10, <1>11 DEF PipelineNext

(***************************************************************************)
(* A halt leaks one order per feed thread at most, for any number of       *)
(* threads.  It follows from evaluate() refusing everything under a halt:  *)
(* a thread can only send the approval it already held.                    *)
(***************************************************************************)
THEOREM HaltLeakIsBounded == PipelineSpec => []HaltLeaksOneOrderPerThread
<1>1. PipelineInit => LeaksInv
  BY DEF PipelineInit, LeaksInv, NoLeaks
<1>2. LeaksInv => HaltLeaksOneOrderPerThread
  BY DEF LeaksInv, HaltLeaksOneOrderPerThread
<1> QED
  BY <1>1, <1>2, PipelineInitType, PipelineNextType, NextLeaks, PTL DEF PipelineSpec

----------------------------------------------------------------------------
(* Finished ticks *)

(***************************************************************************)
(* A thread with state w that still owes the strategies D its tick: they   *)
(* are enabled, and lie ahead of it in the registry unless that has grown  *)
(* since the tick came in, in which case the thread will drop the tick.    *)
(* An idle thread owes nothing, and the registry never shrinks in a run.   *)
(***************************************************************************)
Ahead(w, i) == i > w.at \/ (w.stage = "scan" /\ i = w.at)

OnTheWay(w, D, reg, en) ==
  /\ w.stage = "idle" => D = {}
  /\ w.size <= Len(reg)
  /\ \A st \in D : en[st]
  /\ w.stage # "idle" /\ Len(reg) = w.size
     => \A st \in D : \E i \in DOMAIN reg : Ahead(w, i) /\ reg[i] = st

WalkInv == \A f \in Feeders : OnTheWay(worker[f], due[f], registry, enabled)

(***************************************************************************)
(* What one thread does to its own place and its own debt concerns no      *)
(* other thread.                                                           *)
(***************************************************************************)
LEMMA OneThreadWalks ==
  ASSUME TypeInv, WalkInv, NEW f \in Feeders, NEW w, NEW D,
         worker' = [worker EXCEPT ![f] = w], due' = [due EXCEPT ![f] = D],
         UNCHANGED strategyVars,
         OnTheWay(w, D, registry, enabled)
  PROVE  WalkInv'
<1>1. worker \in [Feeders -> Worker] /\ due \in [Feeders -> SUBSET Strategies]
  BY DEF TypeInv, PipelineTypeOK
<1>2. registry' = registry /\ enabled' = enabled
  BY DEF strategyVars
<1> SUFFICES ASSUME NEW g \in Feeders
             PROVE  OnTheWay(worker'[g], due'[g], registry', enabled')
  BY DEF WalkInv
<1>3. CASE g = f
  BY <1>1, <1>2, <1>3
<1>4. CASE g # f
  <2>1. worker'[g] = worker[g] /\ due'[g] = due[g]
    BY <1>1, <1>4
  <2> QED
    BY <1>2, <2>1 DEF WalkInv
<1> QED
  BY <1>3, <1>4

(***************************************************************************)
(* Past a strategy that has run or is disabled, the rest is still ahead.   *)
(***************************************************************************)
LEMMA WalkPasses ==
  ASSUME TypeInv, NEW w \in Worker, NEW v \in Worker, NEW D \in SUBSET Strategies,
         OnTheWay(w, D, registry, enabled),
         w.stage # "idle", v.stage # "idle", v.size = w.size,
         NEW E \in SUBSET D,
         Len(registry) = w.size => \A i \in DOMAIN registry :
           Ahead(w, i) /\ registry[i] \in E => Ahead(v, i)
  PROVE  OnTheWay(v, E, registry, enabled)
BY DEF OnTheWay

LEMMA NextWalk == TypeInv /\ WalkInv /\ [PipelineNext]_pvars => WalkInv'
<1> SUFFICES ASSUME TypeInv, WalkInv, [PipelineNext]_pvars PROVE WalkInv'
  OBVIOUS
<1>0. /\ registry \in Seq(Strategies) /\ enabled \in [Strategies -> BOOLEAN]
      /\ worker \in [Feeders -> Worker] /\ due \in [Feeders -> SUBSET Strategies]
      /\ \A f \in Feeders : due[f] = [due EXCEPT ![f] = due[f]][f]
      /\ \A f \in Feeders : due = [due EXCEPT ![f] = due[f]]
  BY DEF TypeInv, PipelineTypeOK
<1>1. Idle \in Worker /\ Idle.stage = "idle" /\ Idle.size = 0
  BY PipelineAssumption DEF Idle, Worker, Stages
<1>2. OnTheWay(Idle, {}, registry, enabled)
  BY <1>0, <1>1 DEF OnTheWay
<1>3. ASSUME NEW f \in Feeders, IngestTick(f) PROVE WalkInv'
  <2> DEFINE w == [Idle EXCEPT !.stage = "scan", !.tick = ticks + 1,
                               !.at = 1, !.size = Len(registry)]
             D == {st \in Registered : enabled[st]}
  <2>1. worker' = [worker EXCEPT ![f] = w] /\ due' = [due EXCEPT ![f] = D]
        /\ UNCHANGED strategyVars
    BY <1>3 DEF IngestTick
  <2>2. w.stage = "scan" /\ w.at = 1 /\ w.size = Len(registry)
    BY DEF Idle
  <2>3. \A st \in D : enabled[st] /\ \E i \in DOMAIN registry : registry[i] = st
    BY DEF Registered
  <2>4. \A i \in DOMAIN registry : i \in Nat /\ i >= 1
    BY <1>0
  <2> HIDE DEF w, D
  <2>5. OnTheWay(w, D, registry, enabled)
    <3>1. \A i \in DOMAIN registry : Ahead(w, i)
      BY <2>2, <2>4 DEF Ahead
    <3>2. w.size <= Len(registry)
      BY <1>0, <2>2
    <3>3. w.stage # "idle"
      BY <2>2
    <3> QED
      BY <2>3, <3>1, <3>2, <3>3 DEF OnTheWay
  <2> QED
    BY <2>1, <2>5, OneThreadWalks
<1>4. ASSUME NEW f \in Feeders, AbandonTick(f) PROVE WalkInv'
  BY <1>2, <1>4, OneThreadWalks DEF AbandonTick, ScanUnchanged
<1>5. ASSUME NEW f \in Feeders, FinishTick(f) PROVE WalkInv'
  <2>1. worker[f] \in Worker /\ worker[f].stage = "scan" /\ Len(registry) = worker[f].size
        /\ worker[f].at > worker[f].size
    BY <1>0, <1>5 DEF FinishTick
  <2>2. \A i \in DOMAIN registry : ~Ahead(worker[f], i)
    BY <1>0, <2>1 DEF Ahead, Worker
  <2>3. due[f] = {}
    BY <2>1, <2>2 DEF WalkInv, OnTheWay
  <2>4. worker' = [worker EXCEPT ![f] = Idle] /\ due' = [due EXCEPT ![f] = {}]
        /\ UNCHANGED strategyVars
    BY <1>0, <1>5, <2>3 DEF FinishTick, ScanUnchanged
  <2> QED
    BY <1>2, <2>4, OneThreadWalks
<1>6. ASSUME NEW f \in Feeders, SkipDisabled(f) \/ StrategyPasses(f) PROVE WalkInv'
  <2> DEFINE v == [worker[f] EXCEPT !.at = @ + 1]
             E == IF enabled[registry[worker[f].at]] THEN due[f] \ {registry[worker[f].at]}
                  ELSE due[f]
  <2>1. worker[f] \in Worker /\ worker[f].stage = "scan"
        /\ OnTheWay(worker[f], due[f], registry, enabled)
    BY <1>0, <1>6 DEF SkipDisabled, StrategyPasses, AtStrategy, WalkInv
  <2>2. v \in Worker /\ v.stage = "scan" /\ v.at = worker[f].at + 1
        /\ v.size = worker[f].size
    BY <2>1 DEF Worker
  <2>3. worker' = [worker EXCEPT ![f] = v] /\ due' = [due EXCEPT ![f] = E]
        /\ UNCHANGED strategyVars
    BY <1>0, <1>6 DEF SkipDisabled, StrategyPasses, ScanUnchanged
  <2>4. E \in SUBSET due[f] /\ registry[worker[f].at] \notin E
    BY <2>1 DEF OnTheWay
  <2>5. worker[f].at \in Nat
    BY <2>1 DEF Worker
  <2> HIDE DEF v, E
  <2>6. \A i \in DOMAIN registry :
          Ahead(worker[f], i) /\ registry[i] \in E => Ahead(v, i)
    BY <1>0, <2>2, <2>4, <2>5 DEF Ahead
  <2>7. v.stage # "idle" /\ worker[f].stage # "idle" /\ due[f] \in SUBSET Strategies
    BY <1>0, <2>1, <2>2
  <2>8. OnTheWay(v, E, registry, enabled)
    BY <2>1, <2>2, <2>4, <2>6, <2>7, WalkPasses
  <2> QED
    BY <2>3, <2>8, OneThreadWalks
<1>7. ASSUME NEW f \in Feeders, NEW d \in Decisions, StrategyDecides(f, d) PROVE WalkInv'
  <2> DEFINE v == [worker[f] EXCEPT !.stage = "evaluate", !.order = d]
             E == due[f] \ {registry[worker[f].at]}
  <2>1. worker[f] \in Worker /\ worker[f].stage = "scan"
        /\ OnTheWay(worker[f], due[f], registry, enabled)
    BY <1>0, <1>7 DEF StrategyDecides, AtStrategy, WalkInv
  <2>2. v \in Worker /\ v.stage = "evaluate" /\ v.at = worker[f].at
        /\ v.size = worker[f].size
    BY <2>1 DEF Worker, Stages
  <2>3. worker' = [worker EXCEPT ![f] = v] /\ due' = [due EXCEPT ![f] = E]
        /\ UNCHANGED strategyVars
    BY <1>7 DEF StrategyDecides, ScanUnchanged
  <2>4. E \in SUBSET due[f] /\ registry[worker[f].at] \notin E
    OBVIOUS
  <2>5. worker[f].at \in Nat
    BY <2>1 DEF Worker
  <2> HIDE DEF v, E
  <2>6. \A i \in DOMAIN registry :
          Ahead(worker[f], i) /\ registry[i] \in E => Ahead(v, i)
    BY <1>0, <2>2, <2>4, <2>5 DEF Ahead
  <2>7. v.stage # "idle" /\ worker[f].stage # "idle" /\ due[f] \in SUBSET Strategies
    BY <1>0, <2>1, <2>2
  <2>8. OnTheWay(v, E, registry, enabled)
    BY <2>1, <2>2, <2>4, <2>6, <2>7, WalkPasses
  <2> QED
    BY <2>3, <2>8, OneThreadWalks
<1>8. ASSUME NEW f \in Feeders, NEW v \in Worker, worker[f].stage \in OrderStages,
             worker' = [worker EXCEPT ![f] = v], UNCHANGED <<strategyVars, due>>,
             v.stage # "idle", v.size = worker[f].size,
             \/ v.stage \in OrderStages /\ v.at = worker[f].at
             \/ v.stage = "scan" /\ v.at = worker[f].at + 1
      PROVE  WalkInv'
  <2>1. worker[f] \in Worker /\ worker[f].at \in Nat /\ worker[f].stage \notin {"idle", "scan"}
        /\ OnTheWay(worker[f], due[f], registry, enabled)
    BY <1>0, <1>8 DEF WalkInv, OrderStages, Worker
  <2>2. \A i \in DOMAIN registry : Ahead(worker[f], i) => Ahead(v, i)
    BY <1>0, <1>8, <2>1 DEF Ahead
  <2>3. OnTheWay(v, due[f], registry, enabled)
    BY <1>0, <1>8, <2>1, <2>2, WalkPasses
  <2>4. due' = [due EXCEPT ![f] = due[f]]
    BY <1>0, <1>8
  <2> QED
    BY <1>8, <2>3, <2>4, OneThreadWalks
<1>9. ASSUME NEW f \in Feeders, worker[f].stage \in OrderStages
      PROVE  /\ worker[f] \in Worker /\ worker[f].at \in Nat
             /\ NextStrategy(worker[f]) \in Worker
             /\ NextStrategy(worker[f]).stage = "scan"
             /\ NextStrategy(worker[f]).size = worker[f].size
             /\ NextStrategy(worker[f]).at = worker[f].at + 1
  <2>1. worker[f] \in Worker
    BY <1>0
  <2>2. worker[f].at \in Nat
    BY <2>1 DEF Worker
  <2>3. NextStrategy(worker[f]) \in Worker
    <3>1. worker[f].at + 1 \in Nat
      BY <2>2
    <3> QED
      BY <2>1, <3>1 DEF NextStrategy, Worker, Stages
  <2>4. NextStrategy(worker[f]).stage = "scan" /\ NextStrategy(worker[f]).at = worker[f].at + 1
        /\ NextStrategy(worker[f]).size = worker[f].size
    BY <2>1 DEF NextStrategy, Worker
  <2> QED
    BY <2>1, <2>2, <2>3, <2>4
<1>10. ASSUME NEW f \in Feeders, EvaluateOrder(f) PROVE WalkInv'
  <2> DEFINE ok == Approves(worker[f].order, NoTick)
             v == [worker[f] EXCEPT !.stage = "journal verdict", !.approved = ok]
  <2>1. worker[f].stage \in OrderStages /\ worker[f] \in Worker
    BY <1>0, <1>10 DEF EvaluateOrder, OrderStages
  <2>2. worker' = [worker EXCEPT ![f] = v] /\ UNCHANGED <<strategyVars, due>>
    BY <1>10 DEF EvaluateOrder
  <2>3. ok \in BOOLEAN
    BY DEF Approves
  <2> HIDE DEF ok
  <2>4. v \in Worker /\ v.stage = "journal verdict" /\ v.at = worker[f].at
        /\ v.size = worker[f].size
    BY <2>1, <2>3 DEF Worker, Stages
  <2> HIDE DEF v
  <2> QED
    BY <1>8, <2>1, <2>2, <2>4 DEF OrderStages
<1>11. ASSUME NEW f \in Feeders, RecordVerdict(f) PROVE WalkInv'
  <2> DEFINE v == [worker[f] EXCEPT !.stage = "send"]
  <2>1. worker[f].stage \in OrderStages /\ UNCHANGED <<strategyVars, due>>
    BY <1>11 DEF RecordVerdict, OrderStages
  <2>2. v \in Worker /\ v.stage = "send" /\ v.at = worker[f].at /\ v.size = worker[f].size
    BY <1>9, <2>1 DEF Worker, Stages
  <2>3. CASE worker[f].approved
    <3>1. worker' = [worker EXCEPT ![f] = v]
      BY <1>11, <2>3 DEF RecordVerdict
    <3> HIDE DEF v
    <3> QED
      BY <1>8, <2>1, <2>2, <3>1 DEF OrderStages
  <2>4. CASE ~worker[f].approved
    <3>1. worker' = [worker EXCEPT ![f] = NextStrategy(worker[f])]
      BY <1>11, <2>4 DEF RecordVerdict
    <3> QED
      BY <1>8, <1>9, <2>1, <3>1
  <2> QED
    BY <2>3, <2>4
<1>12. ASSUME NEW f \in Feeders, SendOrder(f) PROVE WalkInv'
  <2> DEFINE v == [worker[f] EXCEPT !.stage = "journal fill"]
  <2>1. worker[f].stage \in OrderStages /\ UNCHANGED <<strategyVars, due>>
        /\ worker' = [worker EXCEPT ![f] = v]
    BY <1>12 DEF SendOrder, OrderStages
  <2>2. v \in Worker /\ v.stage = "journal fill" /\ v.at = worker[f].at
        /\ v.size = worker[f].size
    BY <1>9, <2>1 DEF Worker, Stages
  <2> HIDE DEF v
  <2> QED
    BY <1>8, <2>1, <2>2 DEF OrderStages
<1>13. ASSUME NEW f \in Feeders, RecordFill(f) PROVE WalkInv'
  <2>1. worker[f].stage \in OrderStages /\ UNCHANGED <<strategyVars, due>>
        /\ worker' = [worker EXCEPT ![f] = NextStrategy(worker[f])]
    BY <1>13 DEF RecordFill, OrderStages
  <2> QED
    BY <1>8, <1>9, <2>1
<1>14. ASSUME NEW st \in Strategies, Register(st) PROVE WalkInv'
  <2> SUFFICES ASSUME NEW f \in Feeders
               PROVE  OnTheWay(worker[f], due[f], registry', enabled')
    BY <1>14 DEF Register, WalkInv
  <2>1. OnTheWay(worker[f], due[f], registry, enabled) /\ worker[f].size \in Nat
        /\ due[f] \in SUBSET Strategies
    BY <1>0 DEF WalkInv, Worker
  <2>2. \A x \in due[f] : enabled'[x]
    <3>1. \A x \in due[f] : x \in Strategies /\ enabled[x]
      BY <2>1 DEF OnTheWay
    <3> QED
      BY <1>0, <1>14, <3>1 DEF Register
  <2>3. CASE st \in Registered
    <3>1. registry' = registry
      BY <1>14, <2>3 DEF Register
    <3> QED
      BY <2>1, <2>2, <3>1 DEF OnTheWay
  <2>4. CASE st \notin Registered
    <3>1. Len(registry') = Len(registry) + 1
      BY <1>0, <1>14, <2>4 DEF Register
    <3>2. worker[f].size < Len(registry')
      BY <1>0, <2>1, <3>1 DEF OnTheWay
    <3> QED
      BY <2>1, <2>2, <3>2 DEF OnTheWay
  <2> QED
    BY <2>3, <2>4
<1>15. ASSUME NEW st \in Strategies, NEW on \in BOOLEAN, SetEnabled(st, on) PROVE WalkInv'
  <2> SUFFICES ASSUME NEW f \in Feeders
               PROVE  OnTheWay(worker[f], due'[f], registry, enabled')
    BY <1>15 DEF SetEnabled, WalkInv
  <2>1. OnTheWay(worker[f], due[f], registry, enabled) /\ due[f] \in SUBSET Strategies
    BY <1>0 DEF WalkInv
  <2>2. due'[f] \subseteq due[f] /\ \A x \in due'[f] : enabled'[x]
    <3>1. \A x \in due[f] : x \in Strategies /\ enabled[x]
      BY <2>1 DEF OnTheWay
    <3>2. CASE on
      BY <1>0, <1>15, <3>1, <3>2 DEF SetEnabled
    <3>3. CASE ~on
      <4>1. due'[f] = due[f] \ {st}
        BY <1>15, <3>3 DEF SetEnabled
      <4>2. \A x \in Strategies \ {st} : enabled'[x] = enabled[x]
        BY <1>0, <1>15 DEF SetEnabled
      <4> QED
        BY <3>1, <4>1, <4>2
    <3> QED
      BY <3>2, <3>3
  <2> QED
    BY <2>1, <2>2 DEF OnTheWay
<1>16. CASE Restart
  <2>1. \A f \in Feeders : worker'[f] = Idle /\ due'[f] = {} /\ registry' = <<>>
    BY <1>16 DEF Restart
  <2>2. \A en : OnTheWay(Idle, {}, <<>>, en)
    BY <1>1 DEF OnTheWay
  <2> QED
    BY <2>1, <2>2 DEF WalkInv
<1>17. ASSUME UNCHANGED <<worker, due, registry, enabled>> PROVE WalkInv'
  BY <1>17 DEF WalkInv
<1>18. ASSUME NEW f \in Feeders, FeederStep(f) PROVE WalkInv'
  BY <1>4, <1>5, <1>6, <1>7, <1>10, <1>11, <1>12, <1>13, <1>18
     DEF FeederStep, RegistryChanged, StrategyRaises
<1>19. CASE OperateRiskD
  BY <1>17, <1>19 DEF OperateRiskD, strategyVars
<1>20. CASE UNCHANGED pvars
  BY <1>17, <1>20 DEF pvars, strategyVars
<1> QED
  BY <1>3, <1>14, <1>15, <1>16, <1>18, <1>19, <1>20 DEF PipelineNext

(***************************************************************************)
(* The walk over the registry (trading/subsystem.py, process_tick of       *)
(* StrategyD) leaves no strategy out: whatever is registered, enabled or   *)
(* disabled by others meanwhile, a thread that comes to the end of a tick  *)
(* has run every strategy that was enabled when the tick came in and has   *)
(* stayed so.                                                              *)
(***************************************************************************)
THEOREM FinishedTicksLeaveNoneOut == PipelineSpec => []FinishedTicksAreComplete
<1>1. PipelineInit => WalkInv
  <2>1. Idle.stage = "idle" /\ Idle.size = 0
    BY DEF Idle
  <2> QED
    BY <2>1 DEF PipelineInit, WalkInv, OnTheWay
<1>2. WalkInv => FinishedTicksAreComplete
  BY DEF WalkInv, OnTheWay, FinishedTicksAreComplete
<1> QED
  BY <1>1, <1>2, PipelineInitType, PipelineNextType, NextWalk, PTL DEF PipelineSpec
=============================================================================
