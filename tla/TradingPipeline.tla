-------------------------- MODULE TradingPipeline --------------------------
(***************************************************************************)
(* The trading pipeline of trading/subsystem.py around RiskD: feed threads *)
(* bring ticks in, StrategyD runs the registered strategies on each tick,  *)
(* ExecutionD takes an order to RiskD, the journal and the broker.         *)
(*                                                                         *)
(* Only RiskD takes a lock.  A thread can be overtaken between any two of  *)
(* its calls into the shared objects, by other feed threads and by the     *)
(* operator, so each call is a step of its own.  The process may die       *)
(* between two steps; what survives is the journal file and what the       *)
(* broker has filled.                                                      *)
(*                                                                         *)
(* Abstractions:                                                           *)
(*  - a strategy's eval_fn is external: it returns nothing, raises, or     *)
(*    returns any of its orders; a registration without one is skipped     *)
(*    like a disabled one;                                                 *)
(*  - an order is identified by its process run, tick and strategy.  The   *)
(*    code's fill line carries the broker's order id instead; here lines   *)
(*    keep the identity for the sake of the properties;                    *)
(*  - the ledger is the RISK_EVALUATION and BROKER_EXECUTION lines of the  *)
(*    journal file.  The STRATEGY_* lines, trading modes and parameters    *)
(*    steer nothing here and are left out.                                 *)
(***************************************************************************)
EXTENDS RiskD, Sequences

CONSTANTS
  Feeders,           \* the feed threads
  NoOrder,           \* a feed thread has no order in hand
  MaxTicks,          \* bound: ticks in the first run, one less in each later one
  MaxRestarts,       \* bound: restarts of the process
  MaxWriteFailures   \* bound: journal lines that fail to reach the file

ASSUME PipelineAssumption ==
  /\ NoTick \in Ticks
  /\ NoOrder \notin Decision
  /\ MaxTicks \in Nat /\ MaxRestarts \in Nat /\ MaxWriteFailures \in Nat

VARIABLES
  registry,       \* StrategyD.strategies, the keys in insertion order
  enabled,        \* the enabled flag of each registration
  worker,         \* what each feed thread is doing
  ticks,          \* how many ticks came in, in this run of the process
  ledger,         \* the pipeline's lines of the journal file
  fills,          \* orders in BrokerD.executions, over all runs of the process
  restarts,       \* history: how often the process was restarted
  unwritten,      \* history: lines whose write failed
  verdicts,       \* history: RiskD's verdict on each order
  due,            \* history: strategies that still have to see a thread's tick
  sentUnderHalt   \* history: orders each thread sent since the halt went on

strategyVars == <<registry, enabled>>
journalVars == <<ledger, unwritten>>
pvars == <<vars, strategyVars, worker, ticks, journalVars, fills, restarts,
           verdicts, due, sentUnderHalt>>

Ids == [run : 0 .. MaxRestarts, tick : 1 .. MaxTicks, strategy : Strategies]
Stages == {"idle", "scan", "evaluate", "journal verdict", "send", "journal fill"}
Worker == [stage : Stages, tick : 0 .. MaxTicks, at : Nat, size : Nat,
           order : Decisions \cup {NoOrder}, approved : BOOLEAN]
Idle == [stage |-> "idle", tick |-> 0, at |-> 0, size |-> 0,
         order |-> NoOrder, approved |-> FALSE]

\* Mutant: the fill line names the strategy only.
FillLineOfStrategy(id) == [event |-> "BROKER_EXECUTION", id |-> id.strategy, approved |-> TRUE]

VerdictLine(id, ok) == [event |-> "RISK_EVALUATION", id |-> id, approved |-> ok]
FillLine(id) == [event |-> "BROKER_EXECUTION", id |-> id, approved |-> TRUE]

OrderId(f) ==
  [run |-> restarts, tick |-> worker[f].tick, strategy |-> worker[f].order.strategy_id]

NoLeaks == [f \in Feeders |-> 0]

----------------------------------------------------------------------------
(* MarketD and StrategyD *)

Registered == {registry[i] : i \in DOMAIN registry}

(***************************************************************************)
(* A tick comes in and the thread starts to walk over the registry, which  *)
(* it expects to keep its size.                                            *)
(***************************************************************************)
IngestTick(f) ==
  /\ worker[f].stage = "idle"
  /\ ticks < MaxTicks - restarts
  /\ ticks' = ticks + 1
  /\ worker' = [worker EXCEPT ![f] = [Idle EXCEPT !.stage = "scan", !.tick = ticks + 1,
                                                  !.at = 1, !.size = Len(registry)]]
  /\ due' = [due EXCEPT ![f] = {st \in Registered : enabled[st]}]
  /\ UNCHANGED <<vars, strategyVars, journalVars, fills, restarts, verdicts, sentUnderHalt>>

ScanUnchanged ==
  UNCHANGED <<vars, strategyVars, ticks, journalVars, fills, restarts, verdicts,
              sentUnderHalt>>

\* The thread drops the rest of the tick; ingest_raw swallows the exception.
AbandonTick(f) ==
  /\ worker' = [worker EXCEPT ![f] = Idle]
  /\ due' = [due EXCEPT ![f] = {}]
  /\ ScanUnchanged

(***************************************************************************)
(* "dictionary changed size during iteration": a strategy was registered   *)
(* while this thread was under way.                                        *)
(***************************************************************************)
RegistryChanged(f) ==
  /\ worker[f].stage = "scan"
  /\ Len(registry) # worker[f].size
  /\ AbandonTick(f)

AtStrategy(f) ==
  /\ worker[f].stage = "scan"
  /\ Len(registry) = worker[f].size
  /\ worker[f].at <= worker[f].size

\* Mutant: the walk ends before the last strategy.
FinishTickEarly(f) ==
  /\ worker[f].stage = "scan"
  /\ Len(registry) = worker[f].size
  /\ worker[f].at >= worker[f].size
  /\ worker' = [worker EXCEPT ![f] = Idle]
  /\ UNCHANGED due
  /\ ScanUnchanged

FinishTick(f) ==
  /\ worker[f].stage = "scan"
  /\ Len(registry) = worker[f].size
  /\ worker[f].at > worker[f].size
  /\ worker' = [worker EXCEPT ![f] = Idle]
  /\ UNCHANGED due
  /\ ScanUnchanged

\* Mutant: a disabled strategy is waited for.
SkipDisabledInPlace(f) ==
  /\ AtStrategy(f)
  /\ ~enabled[registry[worker[f].at]]
  /\ UNCHANGED <<worker, due>>
  /\ ScanUnchanged

SkipDisabled(f) ==
  /\ AtStrategy(f)
  /\ ~enabled[registry[worker[f].at]]
  /\ worker' = [worker EXCEPT ![f].at = @ + 1]
  /\ UNCHANGED due
  /\ ScanUnchanged

(***************************************************************************)
(* An enabled strategy is run on the tick: it has nothing to do, raises,   *)
(* or comes back with an order, which is stamped with its id.              *)
(***************************************************************************)
StrategyPasses(f) ==
  /\ AtStrategy(f)
  /\ enabled[registry[worker[f].at]]
  /\ worker' = [worker EXCEPT ![f].at = @ + 1]
  /\ due' = [due EXCEPT ![f] = @ \ {registry[worker[f].at]}]
  /\ ScanUnchanged

StrategyRaises(f) ==
  /\ AtStrategy(f)
  /\ enabled[registry[worker[f].at]]
  /\ AbandonTick(f)

StrategyDecides(f, d) ==
  /\ AtStrategy(f)
  /\ enabled[registry[worker[f].at]]
  /\ d.strategy_id = registry[worker[f].at]
  /\ worker' = [worker EXCEPT ![f].stage = "evaluate", ![f].order = d]
  /\ due' = [due EXCEPT ![f] = @ \ {registry[worker[f].at]}]
  /\ ScanUnchanged

----------------------------------------------------------------------------
(* ExecutionD, BrokerD and JournalD *)

(***************************************************************************)
(* JournalD.record appends a line; a failed write is swallowed.            *)
(***************************************************************************)
Record(line) ==
  \/ /\ ledger' = Append(ledger, line)
     /\ UNCHANGED unwritten
  \/ /\ Cardinality(unwritten) < MaxWriteFailures
     /\ unwritten' = unwritten \cup {line}
     /\ UNCHANGED ledger

NextStrategy(w) == [w EXCEPT !.stage = "scan", !.at = @ + 1,
                             !.order = NoOrder, !.approved = FALSE]

(***************************************************************************)
(* ExecutionD asks RiskD without a market tick.                            *)
(***************************************************************************)
EvaluateOrder(f) ==
  /\ worker[f].stage = "evaluate"
  /\ Evaluate(worker[f].order, NoTick)
  /\ LET ok == Approves(worker[f].order, NoTick) IN
       /\ worker' = [worker EXCEPT ![f].stage = "journal verdict", ![f].approved = ok]
       /\ verdicts' = verdicts \cup {[id |-> OrderId(f), approved |-> ok]}
  /\ UNCHANGED <<strategyVars, ticks, journalVars, fills, restarts, due, sentUnderHalt>>

\* Mutant: the verdict is not looked at.
RecordVerdictAndSend(f) ==
  /\ worker[f].stage = "journal verdict"
  /\ Record(VerdictLine(OrderId(f), worker[f].approved))
  /\ worker' = [worker EXCEPT ![f].stage = "send"]
  /\ UNCHANGED <<vars, strategyVars, ticks, fills, restarts, verdicts, due, sentUnderHalt>>

\* Mutant: only refusals are journaled.
RecordRefusal(f) ==
  /\ worker[f].stage = "journal verdict"
  /\ \/ worker[f].approved /\ UNCHANGED journalVars
     \/ ~worker[f].approved /\ Record(VerdictLine(OrderId(f), FALSE))
  /\ worker' = [worker EXCEPT ![f] = IF @.approved THEN [@ EXCEPT !.stage = "send"]
                                     ELSE NextStrategy(@)]
  /\ UNCHANGED <<vars, strategyVars, ticks, fills, restarts, verdicts, due, sentUnderHalt>>

RecordVerdict(f) ==
  /\ worker[f].stage = "journal verdict"
  /\ Record(VerdictLine(OrderId(f), worker[f].approved))
  /\ worker' = [worker EXCEPT ![f] = IF @.approved THEN [@ EXCEPT !.stage = "send"]
                                     ELSE NextStrategy(@)]
  /\ UNCHANGED <<vars, strategyVars, ticks, fills, restarts, verdicts, due, sentUnderHalt>>

(***************************************************************************)
(* RiskD is not asked again: the halt may have gone on since the verdict.  *)
(***************************************************************************)
SendOrder(f) ==
  /\ worker[f].stage = "send"
  /\ fills' = fills \cup {[id |-> OrderId(f), order |-> worker[f].order]}
  /\ worker' = [worker EXCEPT ![f].stage = "journal fill"]
  /\ sentUnderHalt' = IF emergencyHalt THEN [sentUnderHalt EXCEPT ![f] = @ + 1]
                      ELSE sentUnderHalt
  /\ UNCHANGED <<vars, strategyVars, ticks, journalVars, restarts, verdicts, due>>

RecordFill(f) ==
  /\ worker[f].stage = "journal fill"
  /\ Record(FillLine(OrderId(f)))
  /\ worker' = [worker EXCEPT ![f] = NextStrategy(@)]
  /\ UNCHANGED <<vars, strategyVars, ticks, fills, restarts, verdicts, due, sentUnderHalt>>

----------------------------------------------------------------------------
(* The operator, and restarts *)

(***************************************************************************)
(* Any method of RiskD other than evaluate.                                *)
(***************************************************************************)
OperateRiskD ==
  /\ Controls
  /\ sentUnderHalt' = IF emergencyHalt' THEN sentUnderHalt ELSE NoLeaks
  /\ UNCHANGED <<strategyVars, worker, ticks, journalVars, fills, restarts, verdicts, due>>

(***************************************************************************)
(* Registering a known id replaces its entry, which keeps its place and is *)
(* enabled again.                                                          *)
(***************************************************************************)
Register(st) ==
  /\ registry' = IF st \in Registered THEN registry ELSE Append(registry, st)
  /\ enabled' = [enabled EXCEPT ![st] = TRUE]
  /\ UNCHANGED <<vars, worker, ticks, journalVars, fills, restarts, verdicts, due,
                 sentUnderHalt>>

SetEnabled(st, on) ==
  /\ st \in Registered
  /\ enabled' = [enabled EXCEPT ![st] = on]
  /\ due' = IF on THEN due ELSE [f \in Feeders |-> due[f] \ {st}]
  /\ UNCHANGED <<vars, registry, worker, ticks, journalVars, fills, restarts, verdicts,
                 sentUnderHalt>>

(***************************************************************************)
(* The process dies and is started anew: new objects, RiskD included.      *)
(***************************************************************************)
Restart ==
  /\ restarts < MaxRestarts
  /\ restarts' = restarts + 1
  /\ Construct
  /\ registry' = <<>>
  /\ enabled' = [st \in Strategies |-> FALSE]
  /\ worker' = [f \in Feeders |-> Idle]
  /\ ticks' = 0
  /\ due' = [f \in Feeders |-> {}]
  /\ sentUnderHalt' = NoLeaks
  /\ UNCHANGED <<journalVars, fills, verdicts>>

----------------------------------------------------------------------------
(* The specification *)

PipelineInit ==
  /\ Init
  /\ registry = <<>>
  /\ enabled = [st \in Strategies |-> FALSE]
  /\ worker = [f \in Feeders |-> Idle]
  /\ ticks = 0
  /\ due = [f \in Feeders |-> {}]
  /\ sentUnderHalt = NoLeaks
  /\ ledger = <<>> /\ unwritten = {}
  /\ fills = {} /\ verdicts = {} /\ restarts = 0

FeederStep(f) ==
  \/ RegistryChanged(f)
  \/ FinishTick(f)
  \/ SkipDisabled(f)
  \/ StrategyPasses(f)
  \/ StrategyRaises(f)
  \/ \E d \in Decisions : StrategyDecides(f, d)
  \/ EvaluateOrder(f)
  \/ RecordVerdict(f)
  \/ SendOrder(f)
  \/ RecordFill(f)

PipelineNext ==
  \/ \E f \in Feeders : IngestTick(f) \/ FeederStep(f)
  \/ OperateRiskD
  \/ \E st \in Strategies : Register(st)
  \/ \E st \in Strategies, on \in BOOLEAN : SetEnabled(st, on)
  \/ Restart

PipelineSpec == PipelineInit /\ [][PipelineNext]_pvars

(***************************************************************************)
(* A feed thread that can run is run: the operating system schedules every *)
(* thread, and an eval_fn comes back.  Nothing makes ticks arrive.         *)
(***************************************************************************)
FairPipelineSpec == PipelineSpec /\ \A f \in Feeders : WF_pvars(FeederStep(f))

----------------------------------------------------------------------------
(* Properties *)

(***************************************************************************)
(* Types of the pipeline's own state.                                      *)
(***************************************************************************)
PipelineTypeOK ==
  /\ registry \in Seq(Strategies)
  /\ enabled \in [Strategies -> BOOLEAN]
  /\ worker \in [Feeders -> Worker]
  /\ ticks \in 0 .. MaxTicks
  /\ ledger \in Seq([event : {"RISK_EVALUATION", "BROKER_EXECUTION"},
                     id : Ids, approved : BOOLEAN])
  /\ unwritten \subseteq [event : {"RISK_EVALUATION", "BROKER_EXECUTION"},
                          id : Ids, approved : BOOLEAN]
  /\ fills \subseteq [id : Ids, order : Decisions]
  /\ restarts \in 0 .. MaxRestarts
  /\ verdicts \subseteq [id : Ids, approved : BOOLEAN]
  /\ due \in [Feeders -> SUBSET Strategies]
  /\ sentUnderHalt \in [Feeders -> Nat]

HoldsApproval(f) ==
  \/ worker[f].stage = "journal verdict" /\ worker[f].approved
  \/ worker[f].stage = "send"

JudgedOrders == {v.id : v \in verdicts}
ApprovedOrders == {OrderId(f) : f \in {g \in Feeders : HoldsApproval(g)}}
FilledOrders == {x.id : x \in fills}

(***************************************************************************)
(* The pipeline implements the gate: whatever the threads, the operator    *)
(* and the restarts do, an order is judged once, and filled only on its    *)
(* own approval and only once.                                             *)
(***************************************************************************)
Gate == INSTANCE OrderGate WITH
  Orders <- Ids, judged <- JudgedOrders, approved <- ApprovedOrders, filled <- FilledOrders

ImplementsGate == Gate!GateSpec

(***************************************************************************)
(* Emergency halt under concurrency: evaluate() and send_order() are not   *)
(* one atomic step, so a halt does not stop what RiskD has approved, but   *)
(* each feed thread sends at most the one order it held when the halt went *)
(* on.                                                                     *)
(***************************************************************************)
HaltLeaksOneOrderPerThread == \A f \in Feeders : sentUnderHalt[f] <= 1

(***************************************************************************)
(* The ledger explains every fill: a fill line comes after the positive    *)
(* verdict on the same order, unless writing the verdict failed.           *)
(***************************************************************************)
FillsFollowVerdicts ==
  \A i \in DOMAIN ledger :
    ledger[i].event = "BROKER_EXECUTION" =>
      LET verdict == VerdictLine(ledger[i].id, TRUE) IN
        \/ verdict \in unwritten
        \/ \E j \in 1 .. i - 1 : ledger[j] = verdict

(***************************************************************************)
(* A thread that gets through a tick has run every strategy that was       *)
(* enabled when the tick came in and has not been disabled since; only an  *)
(* abandoned tick leaves strategies out.                                   *)
(***************************************************************************)
FinishedTicksAreComplete ==
  \A f \in Feeders : worker[f].stage = "idle" => due[f] = {}

(***************************************************************************)
(* Every tick is worked off, however strategies come, go and raise in the  *)
(* meantime: with ImplementsGate, what RiskD has approved is filled unless *)
(* the process dies first.                                                 *)
(***************************************************************************)
TicksAreWorkedOff == \A f \in Feeders : worker[f].stage # "idle" ~> worker[f].stage = "idle"

(***************************************************************************)
(* "Emergency Halt: Instant, manual or automated trade suspension", "Zero  *)
(* new risk allowed" (docs/architecture/RISKD_SAFETY_BOUNDARY.md): the     *)
(* broker fills nothing while RiskD is HALTED.                             *)
(***************************************************************************)
NoFillWhileHalted == [][fills' # fills => riskState # "HALTED"]_pvars

(***************************************************************************)
(* "Maximum Positions: Limits total open positions across the entire       *)
(* portfolio" (docs/architecture/RISKD_SAFETY_BOUNDARY.md): the orders the *)
(* broker has filled never add up to more open positions than the cap.     *)
(***************************************************************************)
NetFilled(s) ==
  SumFunctionOnSet([x \in fills |-> SignedQuantity(x.order)],
                   {x \in fills : x.order.symbol = s})
FilledPositionsWithinCap ==
  Cardinality({s \in Symbols : NetFilled(s) # 0}) <= HardLimits.max_open_positions

(***************************************************************************)
(* "Every state transition ... is synchronously journaled via JournalD"    *)
(* (docs/architecture/TRADING_SUBSYSTEM.md): when no thread is at work,    *)
(* every fill has its line in the ledger.                                  *)
(***************************************************************************)
FillsAreJournaled ==
  (\A f \in Feeders : worker[f].stage = "idle")
  => \A x \in fills : \E i \in DOMAIN ledger : ledger[i] = FillLine(x.id)
=============================================================================
