-------------------------- MODULE OrderGateProofs --------------------------
(***************************************************************************)
(* TradingPipeline implements OrderGate, and its ledger explains every     *)
(* fill, for any number of feed threads, strategies, ticks and restarts.   *)
(***************************************************************************)
EXTENDS TradingPipelineProofs

Unmoved(f) == \A g \in Feeders \ {f} : worker'[g] = worker[g]

JudgedStages == {"journal verdict", "send", "journal fill"}

(***************************************************************************)
(* The strategies a thread's present tick has been through: those before   *)
(* the one it stands at, and that one once RiskD has judged its order.     *)
(***************************************************************************)
Visited(f) ==
  {registry[i] : i \in {j \in DOMAIN registry :
                          \/ j < worker[f].at
                          \/ j = worker[f].at /\ worker[f].stage \in JudgedStages}}

\* Threads work on different ticks, all of which have come in.
TicksAreShared ==
  \A f \in Feeders :
    worker[f].stage # "idle" =>
      /\ worker[f].tick <= ticks
      /\ \A g \in Feeders \ {f} :
           worker[g].stage # "idle" => worker[g].tick # worker[f].tick

\* Verdicts are about this run's ticks or about an earlier run.
VerdictsArePast ==
  \A v \in verdicts :
    v.id.run < restarts \/ (v.id.run = restarts /\ v.id.tick <= ticks)

\* On its present tick a thread has verdicts on visited strategies only.
VerdictsAreVisited ==
  \A f \in Feeders, v \in verdicts :
    /\ worker[f].stage # "idle"
    /\ v.id.run = restarts /\ v.id.tick = worker[f].tick
    => v.id.strategy \in Visited(f)

RegistryIsInjective ==
  \A i, j \in DOMAIN registry : registry[i] = registry[j] => i = j

GateInv == TicksAreShared /\ VerdictsArePast /\ VerdictsAreVisited /\ RegistryIsInjective

(***************************************************************************)
(* A thread that keeps its tick and only adds to what it has visited keeps *)
(* the invariant when the verdicts stay the same.                          *)
(***************************************************************************)
LEMMA WalkKeepsGate ==
  ASSUME TypeInv, GateInv, NEW f \in Feeders, Unmoved(f),
         UNCHANGED <<registry, ticks, restarts, verdicts>>,
         \/ worker'[f].stage = "idle"
         \/ /\ worker[f].stage # "idle"
            /\ worker'[f].tick = worker[f].tick
            /\ Visited(f) \subseteq Visited(f)'
  PROVE  GateInv'
<1>1. TicksAreShared'
  <2> SUFFICES ASSUME NEW g \in Feeders, worker'[g].stage # "idle"
               PROVE  /\ worker'[g].tick <= ticks
                      /\ \A h \in Feeders \ {g} :
                           worker'[h].stage # "idle" => worker'[h].tick # worker'[g].tick
    BY DEF TicksAreShared
  <2>1. \A h \in Feeders : worker'[h].stage # "idle" =>
          worker[h].stage # "idle" /\ worker'[h].tick = worker[h].tick
    BY DEF Unmoved
  <2> QED
    BY <2>1 DEF GateInv, TicksAreShared
<1>2. VerdictsArePast' /\ RegistryIsInjective'
  BY DEF GateInv, VerdictsArePast, RegistryIsInjective
<1>3. VerdictsAreVisited'
  <2> SUFFICES ASSUME NEW g \in Feeders, NEW v \in verdicts, worker'[g].stage # "idle",
                      v.id.run = restarts, v.id.tick = worker'[g].tick
               PROVE  v.id.strategy \in Visited(g)'
    BY DEF VerdictsAreVisited
  <2>1. CASE g = f
    BY <2>1 DEF GateInv, VerdictsAreVisited
  <2>2. CASE g # f
    <3>1. worker'[g] = worker[g]
      BY <2>2 DEF Unmoved
    <3>2. Visited(g)' = Visited(g)
      BY <3>1 DEF Visited
    <3> QED
      BY <3>1, <3>2 DEF GateInv, VerdictsAreVisited
  <2> QED
    BY <2>1, <2>2
<1> QED
  BY <1>1, <1>2, <1>3 DEF GateInv

(***************************************************************************)
(* What a verdict adds: its order is of the thread's tick and strategy.    *)
(***************************************************************************)
LEMMA VerdictStep ==
  ASSUME TypeInv, NEW f \in Feeders, EvaluateOrder(f)
  PROVE  /\ Unmoved(f) /\ UNCHANGED <<registry, ticks, restarts>>
         /\ worker[f].stage = "evaluate" /\ worker'[f].stage = "journal verdict"
         /\ worker'[f].tick = worker[f].tick /\ worker'[f].at = worker[f].at
         /\ worker'[f].order = worker[f].order
         /\ worker'[f].approved = Approves(worker[f].order, NoTick)
         /\ verdicts' = verdicts \cup {[id |-> OrderId(f),
                                        approved |-> Approves(worker[f].order, NoTick)]}
         /\ worker[f].at \in DOMAIN registry
         /\ OrderId(f) = [run |-> restarts, tick |-> worker[f].tick,
                          strategy |-> registry[worker[f].at]]
<1> DEFINE ok == Approves(worker[f].order, NoTick)
<1>1. worker \in [Feeders -> Worker]
  BY DEF TypeInv, PipelineTypeOK
<1>2. /\ worker[f].stage = "evaluate"
      /\ worker' = [worker EXCEPT ![f].stage = "journal verdict", ![f].approved = ok]
      /\ verdicts' = verdicts \cup {[id |-> OrderId(f), approved |-> ok]}
  BY DEF EvaluateOrder
<1>3. UNCHANGED <<registry, ticks, restarts>>
  BY DEF EvaluateOrder, strategyVars
<1>4. /\ worker[f].at \in DOMAIN registry
      /\ worker[f].order.strategy_id = registry[worker[f].at]
  BY <1>2 DEF TypeInv, OrdersInHand, OrderStages
<1> HIDE DEF ok
<1>5. /\ Unmoved(f) /\ worker'[f].stage = "journal verdict"
      /\ worker'[f].tick = worker[f].tick /\ worker'[f].at = worker[f].at
      /\ worker'[f].order = worker[f].order /\ worker'[f].approved = ok
  BY <1>1, <1>2 DEF Unmoved, Worker
<1>6. OrderId(f) = [run |-> restarts, tick |-> worker[f].tick,
                    strategy |-> registry[worker[f].at]]
  BY <1>4 DEF OrderId
<1> QED
  BY <1>2, <1>3, <1>4, <1>5, <1>6 DEF ok

LEMMA VerdictKeepsGate ==
  ASSUME TypeInv, GateInv, NEW f \in Feeders, EvaluateOrder(f)
  PROVE  GateInv'
<1> DEFINE v0 == [id |-> OrderId(f), approved |-> Approves(worker[f].order, NoTick)]
<1>1. /\ Unmoved(f) /\ UNCHANGED <<registry, ticks, restarts>>
      /\ worker[f].stage # "idle" /\ worker'[f].stage = "journal verdict"
      /\ worker'[f].tick = worker[f].tick /\ worker'[f].at = worker[f].at
      /\ verdicts' = verdicts \cup {v0}
      /\ worker[f].at \in DOMAIN registry
  BY VerdictStep
<1>2. /\ v0.id.run = restarts /\ v0.id.tick = worker[f].tick
      /\ v0.id.strategy = registry[worker[f].at]
  <2>1. v0.id = OrderId(f)
    OBVIOUS
  <2>2. OrderId(f) = [run |-> restarts, tick |-> worker[f].tick,
                      strategy |-> registry[worker[f].at]]
    BY VerdictStep
  <2> HIDE DEF v0
  <2> QED
    BY <2>1, <2>2
<1> HIDE DEF v0
<1>3. TicksAreShared'
  <2>1. \A h \in Feeders : worker'[h].stage # "idle" =>
          worker[h].stage # "idle" /\ worker'[h].tick = worker[h].tick
    BY <1>1 DEF Unmoved
  <2> QED
    BY <1>1, <2>1 DEF GateInv, TicksAreShared
<1>4. VerdictsArePast'
  <2>1. worker[f].tick <= ticks
    BY <1>1 DEF GateInv, TicksAreShared
  <2> QED
    BY <1>1, <1>2, <2>1 DEF GateInv, VerdictsArePast
<1>5. VerdictsAreVisited'
  <2> SUFFICES ASSUME NEW g \in Feeders, NEW v \in verdicts', worker'[g].stage # "idle",
                      v.id.run = restarts, v.id.tick = worker'[g].tick
               PROVE  v.id.strategy \in Visited(g)'
    BY <1>1 DEF VerdictsAreVisited
  <2>1. CASE g = f
    <3>1. Visited(f) \subseteq Visited(f)' /\ registry[worker[f].at] \in Visited(f)'
      BY <1>1 DEF Visited, JudgedStages
    <3>2. CASE v = v0
      BY <1>2, <2>1, <3>1, <3>2
    <3>3. CASE v \in verdicts
      BY <1>1, <2>1, <3>1, <3>3 DEF GateInv, VerdictsAreVisited
    <3> QED
      BY <1>1, <3>2, <3>3
  <2>2. CASE g # f
    <3>1. worker'[g] = worker[g]
      BY <1>1, <2>2 DEF Unmoved
    <3>2. Visited(g)' = Visited(g)
      BY <1>1, <3>1 DEF Visited
    <3>3. v \in verdicts
      BY <1>1, <1>2, <2>2, <3>1 DEF GateInv, TicksAreShared
    <3> QED
      BY <3>1, <3>2, <3>3 DEF GateInv, VerdictsAreVisited
  <2> QED
    BY <2>1, <2>2
<1>6. RegistryIsInjective'
  BY <1>1 DEF GateInv, RegistryIsInjective
<1> QED
  BY <1>3, <1>4, <1>5, <1>6 DEF GateInv

(***************************************************************************)
(* A new tick has a number above all those seen in this run.               *)
(***************************************************************************)
LEMMA TickKeepsGate ==
  ASSUME TypeInv, GateInv, NEW f \in Feeders, IngestTick(f)
  PROVE  GateInv'
<1>1. /\ Unmoved(f) /\ UNCHANGED <<registry, restarts, verdicts>> /\ ticks' = ticks + 1
      /\ worker'[f].tick = ticks + 1
  <2>1. worker \in [Feeders -> Worker]
    BY DEF TypeInv, PipelineTypeOK
  <2>2. Idle \in Worker
    BY PipelineAssumption DEF Idle, Worker, Stages
  <2> QED
    BY <2>1, <2>2 DEF IngestTick, Unmoved, strategyVars, Worker
<1>2. ticks \in Nat
  BY DEF TypeInv, PipelineTypeOK
<1>3. \A g \in Feeders : worker[g].tick \in Nat
  BY DEF TypeInv, PipelineTypeOK, Worker
<1>4. TicksAreShared'
  <2> SUFFICES ASSUME NEW g \in Feeders, worker'[g].stage # "idle"
               PROVE  /\ worker'[g].tick <= ticks + 1
                      /\ \A h \in Feeders \ {g} :
                           worker'[h].stage # "idle" => worker'[h].tick # worker'[g].tick
    BY <1>1 DEF TicksAreShared
  <2>1. \A h \in Feeders \ {f} : worker'[h].stage # "idle" =>
          worker[h].stage # "idle" /\ worker'[h].tick = worker[h].tick
          /\ worker'[h].tick <= ticks
    BY <1>1 DEF Unmoved, GateInv, TicksAreShared
  <2>2. CASE g = f
    BY <1>1, <1>2, <1>3, <2>1, <2>2
  <2>3. CASE g # f
    BY <1>1, <1>2, <1>3, <2>1, <2>3 DEF GateInv, TicksAreShared
  <2> QED
    BY <2>2, <2>3
<1>5. \A v \in verdicts : v.id.tick \in Nat
  BY DEF TypeInv, PipelineTypeOK, Ids
<1>6. VerdictsArePast'
  BY <1>1, <1>2, <1>5 DEF GateInv, VerdictsArePast
<1>7. VerdictsAreVisited'
  <2> SUFFICES ASSUME NEW g \in Feeders, NEW v \in verdicts, worker'[g].stage # "idle",
                      v.id.run = restarts, v.id.tick = worker'[g].tick
               PROVE  v.id.strategy \in Visited(g)'
    BY <1>1 DEF VerdictsAreVisited
  <2>1. v.id.tick <= ticks /\ v.id.tick \in Nat
    <3>1. restarts \in Nat
      BY PipelineAssumption DEF TypeInv, PipelineTypeOK
    <3> QED
      BY <1>5, <3>1 DEF GateInv, VerdictsArePast
  <2>2. g # f
    BY <1>1, <1>2, <2>1
  <2>3. worker'[g] = worker[g]
    BY <1>1, <2>2 DEF Unmoved
  <2>4. Visited(g)' = Visited(g)
    BY <1>1, <2>3 DEF Visited
  <2> QED
    BY <2>3, <2>4 DEF GateInv, VerdictsAreVisited
<1>8. RegistryIsInjective'
  BY <1>1 DEF GateInv, RegistryIsInjective
<1> QED
  BY <1>4, <1>6, <1>7, <1>8 DEF GateInv

(***************************************************************************)
(* A strategy that is new to the registry goes to its end.                 *)
(***************************************************************************)
LEMMA RegistrationKeepsGate ==
  ASSUME TypeInv, GateInv, NEW st \in Strategies, Register(st)
  PROVE  GateInv'
<1>1. UNCHANGED <<worker, ticks, restarts, verdicts>>
  BY DEF Register
<1>2. registry \in Seq(Strategies)
  BY DEF TypeInv, PipelineTypeOK
<1>3. /\ DOMAIN registry \subseteq DOMAIN registry'
      /\ \A i \in DOMAIN registry : registry'[i] = registry[i]
      /\ RegistryIsInjective'
  <2>1. CASE st \in Registered
    BY <2>1 DEF Register, GateInv, RegistryIsInjective
  <2>2. CASE st \notin Registered
    <3>1. registry' = Append(registry, st)
      BY <2>2 DEF Register
    <3>2. \A i \in DOMAIN registry : registry[i] # st
      BY <2>2 DEF Registered
    <3>3. \A i \in DOMAIN registry' : /\ i \in DOMAIN registry => registry'[i] = registry[i]
                                      /\ i \notin DOMAIN registry =>
                                           i = Len(registry) + 1 /\ registry'[i] = st
      BY <1>2, <3>1
    <3>4. DOMAIN registry \subseteq DOMAIN registry'
      BY <1>2, <3>1
    <3> QED
      BY <3>2, <3>3, <3>4 DEF GateInv, RegistryIsInjective
  <2> QED
    BY <2>1, <2>2
<1>4. \A f \in Feeders : Visited(f) \subseteq Visited(f)'
  BY <1>1, <1>3 DEF Visited
<1>5. VerdictsAreVisited'
  BY <1>1, <1>4 DEF GateInv, VerdictsAreVisited
<1>6. TicksAreShared' /\ VerdictsArePast'
  BY <1>1 DEF GateInv, TicksAreShared, VerdictsArePast
<1> QED
  BY <1>3, <1>5, <1>6 DEF GateInv

(***************************************************************************)
(* NextStrategy moves on by one and keeps the tick.                        *)
(***************************************************************************)
LEMMA NextStrategyFields ==
  ASSUME NEW w \in Worker
  PROVE  /\ NextStrategy(w).stage = "scan" /\ NextStrategy(w).tick = w.tick
         /\ NextStrategy(w).at = w.at + 1
BY DEF NextStrategy, Worker

(***************************************************************************)
(* How the other steps of a feed thread move it.                           *)
(***************************************************************************)
LEMMA ThreadMoves ==
  ASSUME TypeInv, NEW f \in Feeders,
         \/ AbandonTick(f) \/ FinishTick(f) \/ SkipDisabled(f) \/ StrategyPasses(f)
         \/ \E d \in Decisions : StrategyDecides(f, d)
         \/ RecordVerdict(f) \/ SendOrder(f) \/ RecordFill(f)
  PROVE  /\ Unmoved(f) /\ UNCHANGED <<registry, ticks, restarts, verdicts>>
         /\ \/ worker'[f].stage = "idle"
            \/ /\ worker[f].stage # "idle"
               /\ worker'[f].tick = worker[f].tick
               /\ \/ worker'[f].at = worker[f].at + 1
                  \/ /\ worker'[f].at = worker[f].at
                     /\ worker[f].stage \in JudgedStages => worker'[f].stage \in JudgedStages
<1>1. worker \in [Feeders -> Worker] /\ Idle.stage = "idle"
  BY DEF TypeInv, PipelineTypeOK, Idle
<1>2. UNCHANGED <<registry, ticks, restarts, verdicts>>
  BY DEF AbandonTick, FinishTick, SkipDisabled, StrategyPasses, StrategyDecides,
         ScanUnchanged, RecordVerdict, SendOrder, RecordFill, strategyVars
<1>3. Unmoved(f)
  BY <1>1 DEF Unmoved, AbandonTick, FinishTick, SkipDisabled, StrategyPasses,
              StrategyDecides, RecordVerdict, SendOrder, RecordFill
<1>4. CASE AbandonTick(f) \/ FinishTick(f)
  <2>1. worker' = [worker EXCEPT ![f] = Idle]
    BY <1>4 DEF AbandonTick, FinishTick
  <2> QED
    BY <1>1, <1>2, <1>3, <2>1
<1>5. CASE SkipDisabled(f) \/ StrategyPasses(f)
  <2>1. worker' = [worker EXCEPT ![f].at = @ + 1] /\ worker[f].stage = "scan"
    BY <1>5 DEF SkipDisabled, StrategyPasses, AtStrategy
  <2> QED
    BY <1>1, <1>2, <1>3, <2>1 DEF Worker
<1>6. CASE \E d \in Decisions : StrategyDecides(f, d)
  <2>1. PICK d \in Decisions : StrategyDecides(f, d)
    BY <1>6
  <2>2. /\ worker[f].stage = "scan"
        /\ worker' = [worker EXCEPT ![f].stage = "evaluate", ![f].order = d]
    BY <2>1 DEF StrategyDecides, AtStrategy
  <2>3. /\ worker'[f].stage = "evaluate" /\ worker'[f].tick = worker[f].tick
        /\ worker'[f].at = worker[f].at
    BY <1>1, <2>2 DEF Worker
  <2> QED
    BY <1>2, <1>3, <2>2, <2>3 DEF JudgedStages
<1>7. CASE RecordVerdict(f)
  <2>1. worker[f].stage = "journal verdict"
    BY <1>7 DEF RecordVerdict
  <2>2. CASE worker[f].approved
    <3>1. worker'[f] = [worker[f] EXCEPT !.stage = "send"]
      BY <1>1, <1>7, <2>2 DEF RecordVerdict
    <3> QED
      BY <1>1, <1>2, <1>3, <2>1, <3>1 DEF Worker, JudgedStages
  <2>3. CASE ~worker[f].approved
    <3>1. worker'[f] = NextStrategy(worker[f])
      BY <1>1, <1>7, <2>3 DEF RecordVerdict
    <3> QED
      BY <1>1, <1>2, <1>3, <2>1, <3>1, NextStrategyFields
  <2> QED
    BY <2>2, <2>3
<1>8. CASE SendOrder(f)
  BY <1>1, <1>2, <1>3, <1>8 DEF SendOrder, Worker, JudgedStages
<1>9. CASE RecordFill(f)
  <2>1. worker[f].stage = "journal fill" /\ worker'[f] = NextStrategy(worker[f])
    BY <1>1, <1>9 DEF RecordFill
  <2> QED
    BY <1>1, <1>2, <1>3, <2>1, NextStrategyFields
<1> QED
  BY <1>4, <1>5, <1>6, <1>7, <1>8, <1>9

LEMMA NextGateInv == TypeInv /\ GateInv /\ [PipelineNext]_pvars => GateInv'
<1> SUFFICES ASSUME TypeInv, GateInv, [PipelineNext]_pvars PROVE GateInv'
  OBVIOUS
<1>1. ASSUME NEW f \in Feeders,
             \/ AbandonTick(f) \/ FinishTick(f) \/ SkipDisabled(f) \/ StrategyPasses(f)
             \/ \E d \in Decisions : StrategyDecides(f, d)
             \/ RecordVerdict(f) \/ SendOrder(f) \/ RecordFill(f)
      PROVE  GateInv'
  <2>1. /\ Unmoved(f) /\ UNCHANGED <<registry, ticks, restarts, verdicts>>
        /\ \/ worker'[f].stage = "idle"
           \/ /\ worker[f].stage # "idle"
              /\ worker'[f].tick = worker[f].tick
              /\ \/ worker'[f].at = worker[f].at + 1
                 \/ /\ worker'[f].at = worker[f].at
                    /\ worker[f].stage \in JudgedStages => worker'[f].stage \in JudgedStages
    BY <1>1, ThreadMoves
  <2>2. worker[f].at \in Nat /\ DOMAIN registry \subseteq Nat
    BY DEF TypeInv, PipelineTypeOK, Worker
  <2>3. worker'[f].stage # "idle" => Visited(f) \subseteq Visited(f)'
    BY <2>1, <2>2 DEF Visited
  <2> QED
    BY <2>1, <2>3, WalkKeepsGate
<1>2. ASSUME NEW f \in Feeders, FeederStep(f) PROVE GateInv'
  BY <1>1, <1>2, VerdictKeepsGate DEF FeederStep, RegistryChanged, StrategyRaises
<1>3. ASSUME UNCHANGED <<worker, registry, ticks, restarts, verdicts>> PROVE GateInv'
  BY <1>3 DEF GateInv, TicksAreShared, VerdictsArePast, VerdictsAreVisited, Visited,
              RegistryIsInjective
<1>4. CASE OperateRiskD
  BY <1>3, <1>4 DEF OperateRiskD, strategyVars
<1>5. ASSUME NEW st \in Strategies, NEW on \in BOOLEAN, SetEnabled(st, on) PROVE GateInv'
  BY <1>3, <1>5 DEF SetEnabled
<1>6. CASE Restart
  <2>1. /\ restarts' = restarts + 1 /\ registry' = <<>> /\ verdicts' = verdicts
        /\ \A f \in Feeders : worker'[f].stage = "idle"
    BY <1>6 DEF Restart, Idle
  <2>2. restarts \in Nat /\ \A v \in verdicts : v.id.run \in Nat
    BY PipelineAssumption DEF TypeInv, PipelineTypeOK, Ids
  <2> QED
    BY <2>1, <2>2 DEF GateInv, TicksAreShared, VerdictsArePast, VerdictsAreVisited,
                      RegistryIsInjective
<1>7. CASE UNCHANGED pvars
  BY <1>3, <1>7 DEF pvars, strategyVars
<1> QED
  BY <1>2, <1>4, <1>5, <1>6, <1>7, TickKeepsGate, RegistrationKeepsGate DEF PipelineNext

(***************************************************************************)
(* The approved orders, when one thread moves and keeps, gains or drops    *)
(* its approval.                                                           *)
(***************************************************************************)
LEMMA ApprovedOrdersFollow ==
  ASSUME NEW f \in Feeders, Unmoved(f), UNCHANGED restarts
  PROVE  /\ (HoldsApproval(f)' <=> HoldsApproval(f)) /\ OrderId(f)' = OrderId(f)
              => ApprovedOrders' = ApprovedOrders
         /\ ~HoldsApproval(f) /\ ~HoldsApproval(f)' => ApprovedOrders' = ApprovedOrders
         /\ ~HoldsApproval(f) /\ HoldsApproval(f)' /\ OrderId(f)' = OrderId(f)
              => ApprovedOrders' = ApprovedOrders \cup {OrderId(f)}
         /\ /\ HoldsApproval(f) /\ ~HoldsApproval(f)'
            /\ (\A g \in Feeders \ {f} : HoldsApproval(g) => OrderId(g) # OrderId(f))
            => ApprovedOrders' = ApprovedOrders \ {OrderId(f)}
<1>1. \A g \in Feeders \ {f} : /\ HoldsApproval(g)' = HoldsApproval(g)
                               /\ OrderId(g)' = OrderId(g)
  BY DEF Unmoved, HoldsApproval, OrderId
<1> DEFINE After(o) == \E g \in Feeders : HoldsApproval(g)' /\ OrderId(g)' = o
           Before(o) == \E g \in Feeders : HoldsApproval(g) /\ OrderId(g) = o
           Others(o) == \E g \in Feeders \ {f} : HoldsApproval(g) /\ OrderId(g) = o
<1>2. /\ \A o : o \in ApprovedOrders' <=> After(o)
      /\ \A o : o \in ApprovedOrders <=> Before(o)
  BY DEF ApprovedOrders
<1>3. /\ \A o : Before(o) <=> Others(o) \/ (HoldsApproval(f) /\ OrderId(f) = o)
      /\ \A o : After(o) <=> Others(o) \/ (HoldsApproval(f)' /\ OrderId(f)' = o)
  BY <1>1
<1> HIDE DEF Before, After
<1>4. ASSUME HoldsApproval(f)' <=> HoldsApproval(f), OrderId(f)' = OrderId(f)
      PROVE  ApprovedOrders' = ApprovedOrders
  BY <1>2, <1>3, <1>4
<1>5. ASSUME ~HoldsApproval(f), ~HoldsApproval(f)' PROVE ApprovedOrders' = ApprovedOrders
  BY <1>2, <1>3, <1>5
<1>6. ASSUME ~HoldsApproval(f), HoldsApproval(f)', OrderId(f)' = OrderId(f)
      PROVE  ApprovedOrders' = ApprovedOrders \cup {OrderId(f)}
  BY <1>2, <1>3, <1>6
<1>7. ASSUME HoldsApproval(f), ~HoldsApproval(f)',
             \A g \in Feeders \ {f} : HoldsApproval(g) => OrderId(g) # OrderId(f)
      PROVE  ApprovedOrders' = ApprovedOrders \ {OrderId(f)}
  BY <1>2, <1>3, <1>7
<1> QED
  BY <1>4, <1>5, <1>6, <1>7

(***************************************************************************)
(* Every step of the pipeline is one of the gate or leaves it alone.       *)
(***************************************************************************)
LEMMA EvaluationIsAVerdict ==
  ASSUME TypeInv, GateInv, NEW f \in Feeders, EvaluateOrder(f)
  PROVE  Gate!Refuse(OrderId(f)) \/ Gate!Approve(OrderId(f))
<1> DEFINE ok == Approves(worker[f].order, NoTick)
<1>1. /\ Unmoved(f) /\ UNCHANGED restarts
      /\ worker[f].stage = "evaluate" /\ worker'[f].stage = "journal verdict"
      /\ worker'[f].tick = worker[f].tick /\ worker'[f].order = worker[f].order
      /\ worker'[f].approved = ok
      /\ worker[f].at \in DOMAIN registry
  BY VerdictStep
<1>1a. verdicts' = verdicts \cup {[id |-> OrderId(f), approved |-> ok]}
  BY VerdictStep
<1>1b. OrderId(f) = [run |-> restarts, tick |-> worker[f].tick,
                     strategy |-> registry[worker[f].at]]
  BY VerdictStep
<1> HIDE DEF ok
<1>2. OrderId(f) \notin JudgedOrders
  <2> SUFFICES ASSUME NEW v \in verdicts, v.id = OrderId(f) PROVE FALSE
    BY DEF JudgedOrders
  <2>1. /\ v.id.run = restarts /\ v.id.tick = worker[f].tick
        /\ v.id.strategy = registry[worker[f].at]
    BY <1>1b
  <2>2. registry[worker[f].at] \in Visited(f)
    BY <1>1, <2>1 DEF GateInv, VerdictsAreVisited
  <2>3. PICK i \in DOMAIN registry : i < worker[f].at /\ registry[i] = registry[worker[f].at]
    BY <1>1, <2>2 DEF Visited, JudgedStages
  <2>4. i = worker[f].at
    BY <1>1, <2>3 DEF GateInv, RegistryIsInjective
  <2>5. worker[f].at \in Nat
    BY DEF TypeInv, PipelineTypeOK, Worker
  <2> QED
    BY <2>3, <2>4, <2>5
<1>3. JudgedOrders' = JudgedOrders \cup {OrderId(f)} /\ FilledOrders' = FilledOrders
  <2>1. fills' = fills
    BY DEF EvaluateOrder
  <2> DEFINE v0 == [id |-> OrderId(f), approved |-> ok]
  <2>2. verdicts' = verdicts \cup {v0} /\ v0.id = OrderId(f)
    BY <1>1a
  <2> HIDE DEF v0
  <2>3. /\ \A o : o \in JudgedOrders <=> \E v \in verdicts : v.id = o
        /\ \A o : o \in JudgedOrders' <=> \E v \in verdicts' : v.id = o
    BY DEF JudgedOrders
  <2>4. FilledOrders' = FilledOrders
    BY <2>1 DEF FilledOrders
  <2> QED
    BY <2>2, <2>3, <2>4
<1>4. ~HoldsApproval(f) /\ OrderId(f)' = OrderId(f) /\ (HoldsApproval(f)' <=> ok)
  BY <1>1 DEF HoldsApproval, OrderId
<1>5. CASE ok
  <2>1. ApprovedOrders' = ApprovedOrders \cup {OrderId(f)}
    BY <1>1, <1>4, <1>5, ApprovedOrdersFollow
  <2> QED
    BY <1>2, <1>3, <2>1 DEF Gate!Approve
<1>6. CASE ~ok
  <2>1. ApprovedOrders' = ApprovedOrders
    BY <1>1, <1>4, <1>6, ApprovedOrdersFollow
  <2> QED
    BY <1>2, <1>3, <2>1 DEF Gate!Refuse
<1> QED
  BY <1>5, <1>6

LEMMA SendingIsAFill ==
  ASSUME TypeInv, GateInv, NEW f \in Feeders, SendOrder(f)
  PROVE  Gate!Fill(OrderId(f))
<1>1. /\ Unmoved(f) /\ UNCHANGED <<restarts, verdicts>>
  BY ThreadMoves
<1>2. worker[f].stage = "send" /\ worker'[f].stage = "journal fill"
      /\ fills' = fills \cup {[id |-> OrderId(f), order |-> worker[f].order]}
  BY DEF SendOrder, TypeInv, PipelineTypeOK, Worker
<1>3. HoldsApproval(f) /\ ~HoldsApproval(f)'
  BY <1>2 DEF HoldsApproval
<1>4. ASSUME NEW g \in Feeders \ {f}, HoldsApproval(g) PROVE OrderId(g) # OrderId(f)
  <2>1. worker[g].stage # "idle" /\ worker[f].stage # "idle"
    BY <1>2, <1>4 DEF HoldsApproval
  <2>2. worker[g].tick # worker[f].tick
    BY <2>1 DEF GateInv, TicksAreShared
  <2>3. OrderId(g).tick = worker[g].tick /\ OrderId(f).tick = worker[f].tick
    BY DEF OrderId
  <2> QED
    BY <2>2, <2>3
<1>5. ApprovedOrders' = ApprovedOrders \ {OrderId(f)}
  BY <1>1, <1>3, <1>4, ApprovedOrdersFollow
<1>6. OrderId(f) \in ApprovedOrders
  BY <1>3 DEF ApprovedOrders
<1>7. JudgedOrders' = JudgedOrders /\ FilledOrders' = FilledOrders \cup {OrderId(f)}
  <2> DEFINE x0 == [id |-> OrderId(f), order |-> worker[f].order]
  <2>1. fills' = fills \cup {x0} /\ x0.id = OrderId(f)
    BY <1>2
  <2> HIDE DEF x0
  <2>2. /\ \A o : o \in FilledOrders <=> \E x \in fills : x.id = o
        /\ \A o : o \in FilledOrders' <=> \E x \in fills' : x.id = o
    BY DEF FilledOrders
  <2>3. JudgedOrders' = JudgedOrders
    BY <1>1 DEF JudgedOrders
  <2> QED
    BY <2>1, <2>2, <2>3
<1> QED
  BY <1>5, <1>6, <1>7 DEF Gate!Fill

LEMMA NextRefines ==
  TypeInv /\ GateInv /\ [PipelineNext]_pvars => [Gate!GateNext]_Gate!gateVars
<1> SUFFICES ASSUME TypeInv, GateInv, [PipelineNext]_pvars
             PROVE  [Gate!GateNext]_Gate!gateVars
  OBVIOUS
<1> DEFINE Stutter == UNCHANGED <<JudgedOrders, ApprovedOrders, FilledOrders>>
<1>0. worker \in [Feeders -> Worker]
  BY DEF TypeInv, PipelineTypeOK
<1>1. ASSUME NEW f \in Feeders, Unmoved(f), UNCHANGED <<restarts, verdicts, fills>>,
             \/ ~HoldsApproval(f) /\ ~HoldsApproval(f)'
             \/ (HoldsApproval(f)' <=> HoldsApproval(f)) /\ OrderId(f)' = OrderId(f)
      PROVE  Stutter
  <2>1. ApprovedOrders' = ApprovedOrders
    BY <1>1, ApprovedOrdersFollow
  <2> QED
    BY <1>1, <2>1 DEF JudgedOrders, FilledOrders
<1>2. ASSUME NEW f \in Feeders,
             \/ IngestTick(f) \/ AbandonTick(f) \/ FinishTick(f) \/ SkipDisabled(f)
             \/ StrategyPasses(f) \/ \E d \in Decisions : StrategyDecides(f, d)
             \/ RecordFill(f)
      PROVE  worker'[f].stage \in {"idle", "scan", "evaluate"} /\ Unmoved(f)
             /\ UNCHANGED <<restarts, verdicts, fills>>
  <2>1. Idle \in Worker /\ Idle.stage = "idle"
    BY PipelineAssumption DEF Idle, Worker, Stages
  <2>2. CASE IngestTick(f)
    <3>1. [Idle EXCEPT !.stage = "scan", !.tick = ticks + 1, !.at = 1,
                       !.size = Len(registry)].stage = "scan"
      BY <2>1 DEF Worker
    <3> QED
      BY <1>0, <2>2, <3>1 DEF IngestTick, Unmoved
  <2>3. CASE AbandonTick(f) \/ FinishTick(f)
    BY <1>0, <2>1, <2>3 DEF AbandonTick, FinishTick, Unmoved, ScanUnchanged
  <2>4. CASE SkipDisabled(f) \/ StrategyPasses(f)
    BY <1>0, <2>4 DEF SkipDisabled, StrategyPasses, Unmoved, ScanUnchanged, AtStrategy, Worker
  <2>5. CASE \E d \in Decisions : StrategyDecides(f, d)
    BY <1>0, <2>5 DEF StrategyDecides, Unmoved, ScanUnchanged, Worker
  <2>6. CASE RecordFill(f)
    <3>1. worker'[f] = NextStrategy(worker[f])
      BY <1>0, <2>6 DEF RecordFill
    <3> QED
      BY <1>0, <2>6, <3>1, NextStrategyFields DEF RecordFill, Unmoved
  <2> QED
    BY <1>2, <2>2, <2>3, <2>4, <2>5, <2>6
<1>3. ASSUME NEW f \in Feeders,
             \/ IngestTick(f) \/ RegistryChanged(f) \/ StrategyRaises(f) \/ FinishTick(f)
             \/ SkipDisabled(f) \/ StrategyPasses(f)
             \/ \E d \in Decisions : StrategyDecides(f, d)
             \/ RecordFill(f)
      PROVE  Stutter
  <2>1. worker[f].stage \in {"idle", "scan", "journal fill"}
    BY <1>3 DEF IngestTick, RegistryChanged, StrategyRaises, FinishTick, SkipDisabled,
                StrategyPasses, StrategyDecides, RecordFill, AtStrategy
  <2>2. worker'[f].stage \in {"idle", "scan", "evaluate"} /\ Unmoved(f)
        /\ UNCHANGED <<restarts, verdicts, fills>>
    BY <1>2, <1>3 DEF RegistryChanged, StrategyRaises
  <2>3. ~HoldsApproval(f) /\ ~HoldsApproval(f)'
    BY <2>1, <2>2 DEF HoldsApproval
  <2> QED
    BY <1>1, <2>2, <2>3
<1>4. ASSUME NEW f \in Feeders, RecordVerdict(f) PROVE Stutter
  <2>1. Unmoved(f) /\ UNCHANGED <<restarts, verdicts, fills>>
    BY <1>0, <1>4, ThreadMoves DEF RecordVerdict
  <2>2. worker[f].stage = "journal verdict"
    BY <1>4 DEF RecordVerdict
  <2>3. CASE worker[f].approved
    <3>1. worker'[f] = [worker[f] EXCEPT !.stage = "send"]
      BY <1>0, <1>4, <2>3 DEF RecordVerdict
    <3>2. /\ worker'[f].stage = "send" /\ worker'[f].tick = worker[f].tick
          /\ worker'[f].order = worker[f].order
      BY <1>0, <3>1 DEF Worker
    <3>3. HoldsApproval(f) /\ HoldsApproval(f)' /\ OrderId(f)' = OrderId(f)
      BY <2>1, <2>2, <2>3, <3>2 DEF HoldsApproval, OrderId
    <3> QED
      BY <1>1, <2>1, <3>3
  <2>4. CASE ~worker[f].approved
    <3>1. worker'[f] = NextStrategy(worker[f])
      BY <1>0, <1>4, <2>4 DEF RecordVerdict
    <3>2. worker'[f].stage = "scan"
      BY <1>0, <3>1, NextStrategyFields
    <3>3. ~HoldsApproval(f) /\ ~HoldsApproval(f)'
      BY <2>2, <2>4, <3>2 DEF HoldsApproval
    <3> QED
      BY <1>1, <2>1, <3>3
  <2> QED
    BY <2>3, <2>4
<1>5. ASSUME UNCHANGED <<worker, restarts, verdicts, fills>> PROVE Stutter
  BY <1>5 DEF JudgedOrders, ApprovedOrders, FilledOrders, HoldsApproval, OrderId
<1>6. ASSUME OperateRiskD PROVE Stutter
  BY <1>5, <1>6 DEF OperateRiskD
<1>7. ASSUME NEW st \in Strategies, Register(st) PROVE Stutter
  BY <1>5, <1>7 DEF Register
<1>8. ASSUME NEW st \in Strategies, NEW on \in BOOLEAN, SetEnabled(st, on) PROVE Stutter
  BY <1>5, <1>8 DEF SetEnabled
<1>9. ASSUME UNCHANGED pvars PROVE Stutter
  BY <1>5, <1>9 DEF pvars
<1>10. CASE Restart
  <2>1. \A f \in Feeders : worker'[f].stage = "idle"
    BY <1>10 DEF Restart, Idle
  <2>2. ApprovedOrders' = {}
    BY <2>1 DEF ApprovedOrders, HoldsApproval
  <2>3. JudgedOrders' = JudgedOrders /\ FilledOrders' = FilledOrders
    BY <1>10 DEF Restart, JudgedOrders, FilledOrders
  <2> QED
    BY <2>2, <2>3 DEF Gate!Forget, Gate!GateNext
<1>11. ASSUME Stutter PROVE [Gate!GateNext]_Gate!gateVars
  BY <1>11 DEF Gate!gateVars
<1>12. ASSUME NEW f \in Feeders, EvaluateOrder(f) \/ SendOrder(f)
       PROVE  Gate!GateNext
  <2>1. worker[f].stage \in OrderStages
    BY <1>12 DEF EvaluateOrder, SendOrder, OrderStages
  <2>2. OrderId(f) \in Ids
    BY <2>1, OrderIdType DEF TypeInv
  <2> QED
    BY <1>12, <2>2, EvaluationIsAVerdict, SendingIsAFill DEF Gate!GateNext
<1> HIDE DEF Stutter
<1>13. ASSUME NEW f \in Feeders, IngestTick(f) \/ FeederStep(f)
       PROVE  Gate!GateNext \/ Stutter
  BY <1>3, <1>4, <1>12, <1>13 DEF FeederStep
<1> QED
  BY <1>6, <1>7, <1>8, <1>9, <1>10, <1>11, <1>13 DEF PipelineNext

(***************************************************************************)
(* The pipeline implements the gate: an order is judged at most once and   *)
(* filled at most once, on its own approval, whatever threads, operator,   *)
(* failing journal and restarts do.                                        *)
(***************************************************************************)
THEOREM PipelineImplementsGate == PipelineSpec => ImplementsGate
<1>1. PipelineInit => GateInv /\ Gate!GateInit
  <2>1. ASSUME PipelineInit PROVE GateInv
    BY <2>1 DEF PipelineInit, GateInv, TicksAreShared, VerdictsArePast, VerdictsAreVisited,
                RegistryIsInjective, Idle
  <2>2. ASSUME PipelineInit PROVE Gate!GateInit
    BY <2>2 DEF PipelineInit, Gate!GateInit, JudgedOrders, ApprovedOrders, FilledOrders,
                HoldsApproval, Idle
  <2> QED
    BY <2>1, <2>2
<1> QED
  BY <1>1, PipelineInitType, PipelineNextType, NextGateInv, NextRefines, PTL
     DEF PipelineSpec, ImplementsGate, Gate!GateSpec

----------------------------------------------------------------------------
(* The ledger *)

Approval(id) == VerdictLine(id, TRUE)

\* The positive verdict on an order was written before line n, or its write failed.
Explained(lines, lost, id, n) ==
  \/ Approval(id) \in lost
  \/ \E j \in 1 .. n - 1 : lines[j] = Approval(id)

LedgerInv ==
  /\ \A i \in 1 .. Len(ledger) :
       ledger[i].event = "BROKER_EXECUTION" => Explained(ledger, unwritten, ledger[i].id, i)
  /\ \A f \in Feeders :
       worker[f].stage \in {"send", "journal fill"} =>
         Explained(ledger, unwritten, OrderId(f), Len(ledger) + 1)

(***************************************************************************)
(* Writing a line at the end, or losing it, leaves explanations valid; a   *)
(* verdict that is written or lost explains its order from then on.        *)
(***************************************************************************)
LEMMA AppendKeepsExplanations ==
  ASSUME NEW n \in Nat, NEW m \in Nat, n <= m,
         NEW old, NEW new, NEW lost, NEW lost2, NEW line,
         \A i \in 1 .. n : new[i] = old[i],
         \A i \in 1 .. m : i \notin 1 .. n => i = n + 1 /\ new[i] = line,
         lost \subseteq lost2,
         line \in lost2 \/ (m = n + 1 /\ new[m] = line)
  PROVE  /\ \A id : \A i, j \in Nat : i - 1 <= n /\ i <= j /\ Explained(old, lost, id, i)
                                  => Explained(new, lost2, id, j)
         /\ \A id : Explained(old, lost, id, n + 1) => Explained(new, lost2, id, m + 1)
         /\ \A id : line = Approval(id) => Explained(new, lost2, id, m + 1)
<1>1. ASSUME NEW id, NEW i \in Nat, NEW j \in Nat, i - 1 <= n, i <= j,
             Explained(old, lost, id, i)
      PROVE  Explained(new, lost2, id, j)
  BY <1>1 DEF Explained
<1>2. ASSUME NEW id, line = Approval(id) PROVE Explained(new, lost2, id, m + 1)
  BY <1>2 DEF Explained
<1>3. ASSUME NEW id, Explained(old, lost, id, n + 1)
      PROVE  Explained(new, lost2, id, m + 1)
  BY <1>3 DEF Explained
<1> QED
  BY <1>1, <1>2, <1>3

\* A fill line may be written only when the fill is explained.
FillExplained(line) ==
  line.event = "BROKER_EXECUTION" => Explained(ledger, unwritten, line.id, Len(ledger) + 1)

\* A thread goes on to the broker only when the line is its approval.
SendsFollow(line) ==
  \A f \in Feeders :
    worker'[f].stage \in {"send", "journal fill"} =>
      \/ worker[f].stage \in {"send", "journal fill"} /\ OrderId(f)' = OrderId(f)
      \/ line = Approval(OrderId(f)')

LEMMA RecordKeepsLedger ==
  ASSUME TypeInv, LedgerInv, NEW line \in Lines, Record(line),
         FillExplained(line), SendsFollow(line)
  PROVE  LedgerInv'
<1> DEFINE n == Len(ledger)
           m == Len(ledger')
<1>1. /\ n \in Nat /\ m \in Nat /\ n <= m
      /\ \A i \in 1 .. n : ledger'[i] = ledger[i]
      /\ \A i \in 1 .. m : i \notin 1 .. n => i = n + 1 /\ ledger'[i] = line
      /\ unwritten \subseteq unwritten'
      /\ line \in unwritten' \/ (m = n + 1 /\ ledger'[m] = line)
  <2>1. ledger \in Seq(Lines)
    BY DEF TypeInv, PipelineTypeOK, Lines
  <2>2. CASE ledger' = Append(ledger, line) /\ UNCHANGED unwritten
    BY <2>1, <2>2
  <2>3. CASE unwritten' = unwritten \cup {line} /\ UNCHANGED ledger
    BY <2>1, <2>3
  <2> QED
    BY <2>2, <2>3 DEF Record
<1>2. /\ \A i \in 1 .. n : ledger[i].event = "BROKER_EXECUTION"
           => Explained(ledger, unwritten, ledger[i].id, i)
      /\ \A f \in Feeders : worker[f].stage \in {"send", "journal fill"}
           => Explained(ledger, unwritten, OrderId(f), n + 1)
      /\ line.event = "BROKER_EXECUTION" => Explained(ledger, unwritten, line.id, n + 1)
  BY DEF LedgerInv, FillExplained
<1> SUFFICES /\ \A i \in 1 .. m : ledger'[i].event = "BROKER_EXECUTION"
                  => Explained(ledger', unwritten', ledger'[i].id, i)
             /\ \A f \in Feeders : worker'[f].stage \in {"send", "journal fill"}
                  => Explained(ledger', unwritten', OrderId(f)', m + 1)
  BY DEF LedgerInv
<1> HIDE DEF n, m
<1>3. /\ \A id : \A i, j \in Nat : i - 1 <= n /\ i <= j /\ Explained(ledger, unwritten, id, i)
                               => Explained(ledger', unwritten', id, j)
      /\ \A id : Explained(ledger, unwritten, id, n + 1)
                   => Explained(ledger', unwritten', id, m + 1)
      /\ \A id : line = Approval(id) => Explained(ledger', unwritten', id, m + 1)
  BY <1>1, AppendKeepsExplanations
<1>4. ASSUME NEW i \in 1 .. m, ledger'[i].event = "BROKER_EXECUTION"
      PROVE  Explained(ledger', unwritten', ledger'[i].id, i)
  <2>1. i \in Nat /\ i - 1 <= n /\ i <= i
    BY <1>1
  <2>2. Explained(ledger, unwritten, ledger'[i].id, i)
    <3>1. CASE i \in 1 .. n
      <4>1. ledger'[i] = ledger[i]
        BY <1>1, <3>1
      <4> QED
        BY <1>2, <1>4, <3>1, <4>1
    <3>2. CASE i \notin 1 .. n
      <4>1. i = n + 1 /\ ledger'[i] = line
        BY <1>1, <3>2
      <4> QED
        BY <1>2, <1>4, <4>1
    <3> QED
      BY <3>1, <3>2
  <2> QED
    BY <1>3, <2>1, <2>2
<1>5. ASSUME NEW f \in Feeders, worker'[f].stage \in {"send", "journal fill"}
      PROVE  Explained(ledger', unwritten', OrderId(f)', m + 1)
  <2>2. CASE worker[f].stage \in {"send", "journal fill"} /\ OrderId(f)' = OrderId(f)
    <3>1. Explained(ledger, unwritten, OrderId(f)', n + 1)
      BY <1>2, <2>2
    <3> QED
      BY <1>3, <3>1
  <2>3. CASE line = Approval(OrderId(f)')
    BY <1>3, <2>3
  <2> QED
    BY <1>5, <2>2, <2>3 DEF SendsFollow
<1> QED
  BY <1>4, <1>5

LEMMA NextLedger == TypeInv /\ LedgerInv /\ [PipelineNext]_pvars => LedgerInv'
<1> SUFFICES ASSUME TypeInv, LedgerInv, [PipelineNext]_pvars PROVE LedgerInv'
  OBVIOUS
<1>0. worker \in [Feeders -> Worker] /\ PipelineTypeOK /\ OrdersInHand
  BY DEF TypeInv, PipelineTypeOK
<1>1. ASSUME UNCHANGED <<ledger, unwritten>>,
             \A f \in Feeders : worker'[f].stage \in {"send", "journal fill"} =>
               worker[f].stage \in {"send", "journal fill"} /\ OrderId(f)' = OrderId(f)
      PROVE  LedgerInv'
  BY <1>1 DEF LedgerInv, Explained
<1>2. ASSUME UNCHANGED <<ledger, unwritten, worker, restarts>> PROVE LedgerInv'
  BY <1>1, <1>2 DEF OrderId
<1>3. ASSUME NEW f \in Feeders, Unmoved(f), UNCHANGED restarts
      PROVE  \A g \in Feeders \ {f} : worker'[g] = worker[g] /\ OrderId(g)' = OrderId(g)
  BY <1>3 DEF Unmoved, OrderId
<1>4. ASSUME NEW f \in Feeders,
             \/ IngestTick(f) \/ RegistryChanged(f) \/ StrategyRaises(f) \/ FinishTick(f)
             \/ SkipDisabled(f) \/ StrategyPasses(f)
             \/ \E d \in Decisions : StrategyDecides(f, d)
             \/ EvaluateOrder(f) \/ SendOrder(f)
      PROVE  LedgerInv'
  <2>1. UNCHANGED <<ledger, unwritten, restarts>>
    BY <1>4 DEF IngestTick, RegistryChanged, StrategyRaises, AbandonTick, FinishTick,
                SkipDisabled, StrategyPasses, StrategyDecides, ScanUnchanged,
                EvaluateOrder, SendOrder, journalVars
  <2> SUFFICES Unmoved(f) /\ (worker'[f].stage \in {"send", "journal fill"} =>
                 worker[f].stage \in {"send", "journal fill"} /\ OrderId(f)' = OrderId(f))
    BY <1>1, <1>3, <2>1
  <2>2. Idle \in Worker /\ Idle.stage = "idle"
    BY PipelineAssumption DEF Idle, Worker, Stages
  <2>3. CASE IngestTick(f)
    <3>1. [Idle EXCEPT !.stage = "scan", !.tick = ticks + 1, !.at = 1,
                       !.size = Len(registry)].stage = "scan"
      BY <2>2 DEF Worker
    <3> QED
      BY <1>0, <2>3, <3>1 DEF IngestTick, Unmoved
  <2>4. CASE RegistryChanged(f) \/ StrategyRaises(f) \/ FinishTick(f)
    BY <1>0, <2>2, <2>4 DEF RegistryChanged, StrategyRaises, AbandonTick, FinishTick, Unmoved
  <2>5. CASE SkipDisabled(f) \/ StrategyPasses(f)
    BY <1>0, <2>5 DEF SkipDisabled, StrategyPasses, Unmoved, AtStrategy, Worker
  <2>6. CASE \E d \in Decisions : StrategyDecides(f, d)
    BY <1>0, <2>6 DEF StrategyDecides, Unmoved, Worker
  <2>7. CASE EvaluateOrder(f)
    BY <2>7, VerdictStep
  <2>8. CASE SendOrder(f)
    <3>1. /\ worker[f].stage = "send" /\ worker'[f].tick = worker[f].tick
          /\ worker'[f].order = worker[f].order /\ Unmoved(f)
      BY <1>0, <2>8 DEF SendOrder, Worker, Unmoved
    <3> QED
      BY <2>1, <3>1 DEF OrderId
  <2> QED
    BY <1>4, <2>3, <2>4, <2>5, <2>6, <2>7, <2>8
<1>5. ASSUME NEW f \in Feeders, RecordVerdict(f) PROVE LedgerInv'
  <2> DEFINE line == VerdictLine(OrderId(f), worker[f].approved)
  <2>1. /\ worker[f].stage = "journal verdict" /\ worker[f].stage \in OrderStages
        /\ Record(line)
    BY <1>5 DEF RecordVerdict, OrderStages
  <2>2. line \in Lines /\ FillExplained(line)
    BY <1>0, <2>1, OrderIdType DEF VerdictLine, Lines, Worker, FillExplained
  <2>3. Unmoved(f) /\ UNCHANGED restarts
    BY <1>5, ThreadMoves
  <2>4. SendsFollow(line)
    <3>1. CASE ~worker[f].approved
      <4>1. worker'[f] = NextStrategy(worker[f])
        BY <1>0, <1>5, <3>1 DEF RecordVerdict
      <4>2. worker'[f].stage = "scan"
        BY <1>0, <4>1, NextStrategyFields
      <4> QED
        BY <1>3, <2>3, <4>2 DEF SendsFollow
    <3>2. CASE worker[f].approved
      <4>1. worker'[f] = [worker[f] EXCEPT !.stage = "send"]
        BY <1>0, <1>5, <3>2 DEF RecordVerdict
      <4>2. worker'[f].tick = worker[f].tick /\ worker'[f].order = worker[f].order
        BY <1>0, <4>1 DEF Worker
      <4>3. OrderId(f)' = OrderId(f)
        BY <2>3, <4>2 DEF OrderId
      <4>4. worker[f].approved = TRUE
        BY <1>0, <3>2 DEF Worker
      <4>5. line = Approval(OrderId(f)')
        BY <4>3, <4>4 DEF Approval
      <4> QED
        BY <1>3, <2>3, <4>5 DEF SendsFollow
    <3> QED
      BY <3>1, <3>2
  <2> HIDE DEF line
  <2> QED
    BY <2>1, <2>2, <2>4, RecordKeepsLedger
<1>6. ASSUME NEW f \in Feeders, RecordFill(f) PROVE LedgerInv'
  <2> DEFINE line == FillLine(OrderId(f))
  <2>1. /\ worker[f].stage = "journal fill" /\ worker[f].stage \in OrderStages
        /\ Record(line)
    BY <1>0, <1>6 DEF RecordFill, OrderStages
  <2>2. line \in Lines /\ line.id = OrderId(f)
    BY <1>0, <2>1, OrderIdType DEF FillLine, Lines
  <2>3. Unmoved(f) /\ UNCHANGED restarts
    BY <1>6, ThreadMoves
  <2>4. SendsFollow(line)
    <3>0. worker'[f] = NextStrategy(worker[f])
      BY <1>0, <1>6 DEF RecordFill
    <3>1. worker'[f].stage = "scan"
      BY <1>0, <3>0, NextStrategyFields
    <3> QED
      BY <1>3, <2>3, <3>1 DEF SendsFollow
  <2> HIDE DEF line
  <2>5. FillExplained(line)
    BY <2>1, <2>2 DEF FillExplained, LedgerInv
  <2> QED
    BY <2>1, <2>2, <2>4, <2>5, RecordKeepsLedger
<1>7. CASE OperateRiskD
  BY <1>2, <1>7 DEF OperateRiskD, journalVars
<1>8. ASSUME NEW st \in Strategies, Register(st) PROVE LedgerInv'
  BY <1>2, <1>8 DEF Register, journalVars
<1>9. ASSUME NEW st \in Strategies, NEW on \in BOOLEAN, SetEnabled(st, on) PROVE LedgerInv'
  BY <1>2, <1>9 DEF SetEnabled, journalVars
<1>10. CASE Restart
  <2>1. \A f \in Feeders : worker'[f].stage = "idle"
    BY <1>10 DEF Restart, Idle
  <2> QED
    BY <1>1, <1>10, <2>1 DEF Restart, journalVars
<1>11. CASE UNCHANGED pvars
  BY <1>2, <1>11 DEF pvars, journalVars
<1>12. ASSUME NEW f \in Feeders, IngestTick(f) \/ FeederStep(f) PROVE LedgerInv'
  BY <1>4, <1>5, <1>6, <1>12 DEF FeederStep
<1> QED
  BY <1>7, <1>8, <1>9, <1>10, <1>11, <1>12 DEF PipelineNext

(***************************************************************************)
(* The ledger explains every fill line, also when lines are lost and the   *)
(* process restarts: a thread reaches the broker only through the line of  *)
(* its approval.                                                           *)
(***************************************************************************)
THEOREM LedgerExplainsFills == PipelineSpec => []FillsFollowVerdicts
<1>1. PipelineInit => LedgerInv
  <2> SUFFICES ASSUME PipelineInit PROVE LedgerInv
    OBVIOUS
  <2>1. \A f \in Feeders : worker[f].stage = "idle"
    BY DEF PipelineInit, Idle
  <2>2. 1 .. Len(ledger) = {}
    BY DEF PipelineInit
  <2> QED
    BY <2>1, <2>2 DEF LedgerInv
<1>2. TypeInv /\ LedgerInv => FillsFollowVerdicts
  <2> SUFFICES ASSUME TypeInv, LedgerInv, NEW i \in DOMAIN ledger,
                      ledger[i].event = "BROKER_EXECUTION"
               PROVE  \/ VerdictLine(ledger[i].id, TRUE) \in unwritten
                      \/ \E j \in 1 .. i - 1 : ledger[j] = VerdictLine(ledger[i].id, TRUE)
    BY DEF FillsFollowVerdicts
  <2>1. ledger \in Seq(Lines)
    BY DEF TypeInv, PipelineTypeOK, Lines
  <2>2. i \in 1 .. Len(ledger)
    BY <2>1
  <2>3. Explained(ledger, unwritten, ledger[i].id, i)
    BY <2>2 DEF LedgerInv
  <2> QED
    BY <2>3 DEF Explained, Approval
<1> QED
  BY <1>1, <1>2, PipelineInitType, PipelineNextType, NextLedger, PTL DEF PipelineSpec
=============================================================================
