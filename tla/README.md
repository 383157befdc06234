# KAIROS OS: verification project

TLA+ models of the parts of KAIROS that keep state and can get it wrong, model-checked with TLC on
small instances, and theorems about them proved with TLAPS for every instance. Paths are relative to
the repository root.

- [The system](#the-system)
- [What is modelled](#what-is-modelled)
- [Runs](#runs), [bounds](#bounds), [fairness](#fairness)
- [Proofs](#proofs)
- [What the checks found](#what-the-checks-found)
- [What is not modelled](#what-is-not-modelled)
- [Plan](#plan)

## The system

KAIROS is a set of Python programs on top of a Linux distribution. The parts, the state each keeps,
and what makes each correct:

| Part | State | Operations | Correct when |
|---|---|---|---|
| RiskD (`trading/riskd.py`) | risk state, halt and close-only switches, paused strategies, positions, realized P&L, peak equity, recent orders, broker health; one lock | halt, close-only, pause/resume, broker health, position updates, `evaluate` | the risk state is never stale; the drawdown has a real peak; an approved order fits the caps; nothing is approved twice within a window |
| Trading pipeline (`trading/subsystem.py`) | MarketD's counter and last ticks, StrategyD's registrations, BrokerD's executions, JournalD's file; no lock | ingest a tick, register, enable/disable, process a decision | an order is judged once, filled at most once and on its own approval; a halt stops trading; the ledger explains the fills; no strategy is silently left out |
| Adaptive Evolution (`adaptive/aei.py`, `adaptive/adaptive_wheel.py`) | active configuration (memory only), adaptation records (memory and one file each), knowledge (memory and a line file), wheel (memory and a file) | adaptation cycle, rollback | what is on disk about an adaptation was learnt before; a rollback is final and restores what was there |
| Plugin platform (`plugins/manager.py`) | installed plugins (memory and one file each), fixed catalog | install, remove, enable, disable, load | the file of a plugin says what the last SUCCESS answer said, whichever process gave it; a manager that has loaded knows the same; an altered manifest is not enabled |
| kairos-sysd (`scripts/services/kairos_sysd.py`) | a socket file, an audit log, the singletons of the parts above | one request at a time: receive, authorize, log, dispatch, answer | every request is answered; what was done is in the log; the daemon and in-process clients do not overwrite each other |
| AI platform (`ai/platform.py`, `trading/risk_gatekeeper.py`) | a process's list of audit records, the history file | the proposal pipeline: agent, policy, gatekeeper, engine, record | an order is authorized, earned, sent once and recorded; the answer is true of it |
| Installer (`installer/kairos_installer.py`) | the disks, the mounts on /mnt, the mapping `kairos-root`, the answers of the user | questions, confirmation, 19 installation steps, boot loader, health check, first boot | only the disk typed for changes, nothing in a dry run; a clean session puts all it makes on that disk and closes it |
| Recovery (`recovery/`, `system/recovery/engine.py`, `bin/kairos-recovery`) | the default subvolume, read at the next boot | previous version, rollback of an update, repair | a rollback chooses a snapshot without the update, and the next boot starts it |
| Research, isolation, observability, shell, probes, build | none that outlives a call | pure functions, readers, renderers | - |

How they interact. A feed thread calls `MarketD.ingest_raw`, which calls `StrategyD.on_tick`, which
runs the strategies and hands their orders to `ExecutionD.process_decision`; that asks RiskD, writes
the verdict to JournalD, calls BrokerD and writes the fill. All of it is by direct calls on shared
objects; only RiskD has a lock. Operators and command-line tools reach the other parts through
kairos-sysd, a single-threaded daemon behind a Unix socket, or in their own process when the socket
does not exist. Parts that persist do so with plain files: opened for writing (which empties them),
written, and every error ignored. Nothing is restarted in place: a process that dies starts anew from
its files, and RiskD and the pipeline have none.

The hard behaviours are therefore: threads overtaking each other between RiskD's verdict and the
broker; a halt in between; registrations while a tick is worked off; the wall clock stepping back
under the duplicate window; a crash between two writes; a write that fails and is ignored; rollbacks
out of order; the daemon and a client at the files of one plugin; a client that goes away before its
answer; a client that connects and says nothing; an installation step that fails and is continued past,
or an installer that is interrupted and run again over what it left mounted; an order sent and its
record lost. `PROJECT.json` lists each hazard with its line and the property aimed at it.

## What is modelled

| Module | Models | Uses |
|---|---|---|
| `RiskD` | `trading/riskd.py`, whole | |
| `OrderGate` | what the pipeline promises about an order (abstract) | |
| `TradingPipeline` | `trading/subsystem.py` around RiskD | `EXTENDS RiskD`; `INSTANCE OrderGate` as refinement mapping |
| `AdaptiveEvolution` | `adaptive/aei.py`, `adaptive/adaptive_wheel.py` | |
| `PluginPlatform` | `plugins/manager.py` in its processes, with the socket and the loop of `scripts/services/kairos_sysd.py` | |
| `AgentPlatform` | `ai/platform.py`, `trading/risk_gatekeeper.py`, and the daemon that serves them: socket, loop, authorization, audit log and the privileged handlers of `kairos_sysd.py` | |
| `Installer` | `installer/kairos_installer.py`, one session or several without a reboot in between | |
| `Recovery` | the machine around it: boots, updates, snapshots, `recovery/kairos_recovery.py` and `system/recovery/engine.py` | `EXTENDS Installer` |
| `MCRiskD`, `MCTradingPipeline`, `MCAdaptiveEvolution`, `MCPluginPlatform`, `MCAgentPlatform`, `MCRecovery` | small instances for TLC | |
| `FiniteSums` | facts about `SumFunctionOnSet`, which the exposures are built from | |
| `RiskDProofs`, `TradingPipelineProofs`, `OrderGateProofs` | theorems | each extends the one before |
| `AdaptiveEvolutionProofs`, `PluginPlatformProofs`, `AgentPlatformProofs` | theorems | each extends the module it is about |
| `RecoveryProofs` | theorems about `Recovery` and `Installer` | `EXTENDS Recovery` |

**RiskD.** One variable per field of the object (named after it without the underscore), one action
per public method; each is atomic because the method holds the object's lock throughout. The setter
of the drawdown (`SetCurrentDrawdown`) takes no lock in the code; it is one step all the same, since
nothing but a test calls it and no thread is between its assignments then. The clock is
a variable that `ClockStep` may set to any time, since the code reads `time.time()`. `Breaches` has
one Boolean per rule of `evaluate` under the code's own rejection code; an order is approved when none
holds, and it registers in `recentOrders` when none of the rules tried before the registration holds,
as in the code. Amounts are integers and ratios are compared as products. `lastApproved` is a history
variable, read by one property only.

**TradingPipeline.** Each feed thread has a record `worker[f]` with its place in the code: scanning the
registry, and then for each order evaluate, journal the verdict, send, journal the fill. Each call into
a shared object is a step, so other threads, the operator and a crash can come between any two.
A registration during a scan changes the size of the dictionary and ends the other thread's tick by an
exception that `ingest_raw` swallows (`RegistryChanged`); a strategy that raises does the same
(`StrategyRaises`). A strategy without an `eval_fn` is skipped like a disabled one. `Restart` gives
new objects; the journal file and what the broker filled remain. `Record` may fail and is ignored, as
in `JournalD.record`. A strategy's `eval_fn` is external: nothing, an exception, or any of its orders.

**OrderGate** is the promise: judge an order at most once, fill it at most once, only on its own
approval. `ImplementsGate` is the refinement, with the verdicts, the approvals the threads hold and the
fills as the mapping.

**AdaptiveEvolution.** `job` is the request the daemon works on and its place in the code. A cycle turns
the wheel four times (each turn saves a file), deploys and memorizes, empties the record's file, writes
it, and turns the wheel to its end; a rollback restores, memorizes, rewrites the file and turns the
wheel. `Crash` may come between any two of these; what remains are the record files (one may be cut
off), the knowledge file (a line may be cut off, and the next is then glued to it) and the wheel's file
(replaced atomically). `Start` is the constructor: it reads all of these, and passes over in silence a
file that cannot be opened or not be read to its end. A knowledge file is then known up to some line
(`unread` has the others), a record is not in memory (`missing`), the wheel begins anew, and a process
that finds no record puts in the seed, over whatever the seed's file holds. The candidate of a target is
a literal in the code, so a slice of the configuration is "default" or "evolved"; the test and
monitoring metrics are literals that always pass, so the rejecting branches of the cycle are unreachable
and not modelled.

**PluginPlatform.** A process (`worker[h]`) is the daemon or a client that works in-process because
the socket's path did not exist when it looked; each has a manager of its own, the daemon one for its
life, a client one for its only request. All share the files, without a lock. A request that the daemon
takes is loaded for, applied in memory, written (the file is made or emptied, then written) or unlinked,
and answered; every one of these is a step. What the model keeps of files is what decides who reads
what: an emptied file is unreadable until the text is in it, a shorter text over a longer one leaves the
end of the longer, and a process that holds the file open while another removes it writes to nothing.
A failed open, write or unlink is ignored, as in the code. Loading lists the files and reads them one by
one, passing over what has gone, cannot be parsed, or could not be opened or read, and installs the
defaults when none was loaded. The daemon serves one connection at a time and
others queue; a client that is interrupted leaves its request behind, and the answer to it ends the
daemon (`FailToAnswer`: `sendall` raises and so does the answer of the exception handler). A killed
daemon leaves its socket or has it cleaned up by the service manager. `promised` and `excused`, and
`clean` and `unsure` in a process, are history: what was answered, which changes met a fault or
another process, and which plugins another process touched since the listing or the manager itself
failed to read.

**AgentPlatform.** `worker[h]` is the daemon or a client and its place in the handling of a request, as
in `PluginPlatform`; here the daemon's loop is taken apart further: a client connects and speaks in two
steps, one `recv` may not read a request whole (`FailToParse`), the answer to an outgrowing one is not
read whole by its client, and authorization, the handler, the send to the broker, the record and the
answer are steps between which a process may be killed. A proposal goes through the agent's rule
(`Side`, `Quantity`), the quarantine of news, the policy (`evaluate_proposal`), the gatekeeper
(`evaluate`) and the engine, which asks the gatekeeper again; scores of the wrong type raise where the
code compares or formats them (`Raises`, `RiskRaises`). The audit history is a sequence of lines with or
without an end: a record appended to a line that was cut short makes one unreadable line with it, and
`ReadableRecords` stops there. A platform that loads the file has some beginning of these records: all
of them, unless opening or reading fails, which the code ignores (`WithRecords`). The handlers that
report success without doing anything are one action, `Answer`, with the refusals they do have.
`halted`, `excused` and a process's `missed` are history (`missed`: the records a platform failed to
read, and those others added since).

**Installer.** A session is a program: for each step of `phase_install` and the later phases a queue of
commands, built from the answers when the step begins (`CommandsOf`). A command takes effect on the
machine (`content`, `mapper`, `mnt`, `bare`), or fails because the machine does not allow it
(`Possible`), or fails for a reason of its own; a failure is ignored, or raises and asks "Continue
anyway?", as the code does for that command. What a session leaves behind (an open mapping, stacked
mounts on /mnt, files in the bare directory) is where the next one starts. Files go wherever /mnt leads
at that moment (`Store`), which is how files meant for a disk come to lie in the live system. The EFI
and the boot partition are kept with what lies on them: `bootctl` puts the loader on the EFI partition
if one is mounted at /mnt/efi, the entries go there too, and `pacstrap` puts the kernel on the partition
mounted at /mnt/boot. `grub-install` and `grub-mkconfig` run in the chroot and fail unless the package
is there, which no profile lists.

**Recovery** puts the installer into the life of a machine: it boots the live system or a disk, a system
is updated (with a snapshot before), and recovery picks snapshots and sets the default subvolume. What
boots is what the installer's entries name, if the loader, the entries and the kernel are where the
firmware and the loader look (`Missing`). Since no installation has them all, somebody may add them by
hand (`AddMissing`, external), and only such a disk boots. Updates, snapshots and boots are external:
the code only reads the snapshots and the journal they leave; the journal may be unreadable, and then
"Rollback Update" takes the newest snapshot.

## Runs

| Run | Expected | Shows |
|---|---|---|
| `riskd` | pass | every interleaving of operator controls, accounting, clock steps and orders: `StateMatchesPortfolio`, `PeakCoversEquity`, `ApprovedGrowthFitsCaps`, `ApprovalsAreSpaced` |
| `close_only` | violation | close-only mode approves an order larger than the position it reduces |
| `pipeline` | pass | two threads, two strategies, a failing journal write, a restart: `ImplementsGate`, `HaltLeaksOneOrderPerThread`, `FillsFollowVerdicts`, `FinishedTicksAreComplete` |
| `pipeline_live` | pass | every tick is worked off while strategies come, go and raise (`TicksAreWorkedOff`) |
| `halt_race` | violation | an order is filled while RiskD is HALTED |
| `fills_unaccounted` | violation | the filled orders exceed the cap on open positions |
| `ledger_gap` | violation | a fill is missing from the ledger |
| `adaptive` | pass | cycles, rollbacks, crashes and a failing write or read: `OutcomesAreRemembered`, `KnowledgeIsReadBack`, `RollbacksAreFinal`, `EvolutionsAreBacked`, `OrderlyRollbacksRestore` |
| `adaptive_rollback` | violation | after rolling back two adaptations oldest first, the rolled-back candidate is in force |
| `plugins` | pass | the daemon, a client in-process or over the socket, failing reads and writes, interrupts, kills and restarts: `PromisesAreKept`, `MemoryIsCurrent`, `RequestsEnd` |
| `agents` | pass | the daemon and two clients, a kill, an interrupt or a failing read or write: `OrdersAreEarned`, `OrdersAreRecorded`, `AnswersAreTrue`, `RecordsAreReadBack`, `WorkIsLogged`, `ProtectionsHold`, `RecordsStay`, `RequestsAreAnswered`, `HaltsDoNotReachAgents` |
| `installer` | pass | two disks, dry and real sessions, a failure, a second session or a completion by hand, then boots, an update and recovery: `DisksChangeOnConsent`, `CleanSessionsCloseAll`, `CleanInstallsAreOnTheDisk`, `CleanInstallsDoNotBoot`, `SuccessIsNotAboutTheDisk`, `RollbacksChooseThePast`, `RollbacksDoNotBoot`, `ConfirmedSessionsEnd` |

`ApprovedGrowthFitsCaps` speaks of orders priced at the book's mark: the code adds the order at its own
price to positions at theirs, and the two are the same sum only then. `FinishedTicksAreComplete` and
`TicksAreWorkedOff` are about one thread's tick from both ends: a tick that is not abandoned has reached
every strategy that stayed enabled, and every tick comes to an end. `RollbacksAreFinal` excepts records
with a write that failed or was cut off, because the code ignores the failure and the old file speaks
at the next start, and a seed put in over a record file no start could read; `unpersisted` collects
exactly those. In memory it excepts besides what the running process could not read (`missing`), as
`KnowledgeIsReadBack` does for lines (`unread`). `PromisesAreKept`
likewise excepts plugins whose last change could not be written, ran next to another process's change
of the same plugin, was cut short, or was overtaken by the installation of the defaults: nothing in the
code protects these, and everything else holds. In particular two processes that change *different*
plugins never disturb each other, and a change whose neighbours are over is as good as one made alone.
`MemoryIsCurrent` says the same of the copies in memory: the daemon's copy of a plugin is right as long
as no other process has touched that plugin since the daemon listed the files and its own reading of
the file did not fail; `RecordsAreReadBack` makes the same exception for the audit history.
`ApprovalsAreSpaced` is about what would be approved now: the state it speaks of is the one before the
second approval, so that a repetition at the very same clock reading, which would change no variable,
is seen.

Four properties hold and say what ought not to: `CleanInstallsDoNotBoot` (an installation without a
failure leaves a disk that lacks exactly what the property names), `SuccessIsNotAboutTheDisk`,
`RollbacksDoNotBoot` and `HaltsDoNotReachAgents` (an approved proposal is sent after a confirmed halt,
whatever else happens). They are stated this way round because each is true of every behaviour, which is
stronger than one counterexample, and each is a finding below. `OrdersAreRecorded`, `WorkIsLogged` and
`ProtectionsHold` except what `excused` collects: the writes that failed, the records appended to a cut
line or never reached by a killed process, and the package requests whose catalog could not be read.
`RequestsAreAnswered` has one escape, a client that connects and never speaks; nothing else, a broken
pipe included, holds a client up for ever.

### Bounds

- `riskd`: two correlated symbols, one strategy, one buy that grows and one market sale; limits that one
  or two orders use up, so each cap is met from both sides; a clock of three instants with a window of
  two, so both a step back and an expired window occur; realized P&L in -5..5 with a daily loss limit
  of 10, which unrealized losses complete. With these the state reaches NORMAL, CAUTION, RESTRICTED
  and HALTED by loss, by drawdown and by switch.
- `pipeline`: two threads and two ticks are the least in which one thread overtakes another between
  verdict and fill; one restart, one failed write. The accounting feed is silent because nothing in the
  repository drives it (this is the finding `fills_unaccounted`). Feed threads are symmetric in the
  safety run only.
- `pipeline_live`: the same without restart and failing writes, without symmetry.
- `adaptive`: one target the generator changes and one it does not, two cycles (an adaptation on top of
  another), four knowledge lines (both deployed and both rolled back), one failing write or read, any
  number of crashes.
- `plugins`: a default and another plugin, with every operation between them; the daemon and one client
  slot. One slot still gives three requests at a time: an interrupted client leaves its request with the
  daemon and the slot is used again, so a request in service, one queued (`Backlog` 1) and one client
  at work in-process occur together. Two clients in-process at once do not occur; the pair that can
  collide is the daemon with a client, which take the same steps. No bound on the number of requests,
  kills, restarts and faults.
- `agents`: two clients, ten requests chosen so that each outcome of the pipeline is met (an approved
  order with a fitting and an outgrowing answer, a quarantined one, one refused by the gatekeeper, one
  that raises), each role is granted and denied, and every protection is asked for. Two requests in all
  and one mishap (kill, interrupt, failed read or write): enough for a halt before a proposal, two
  appends racing, a record behind a cut line, a restart that reads the history back, and a request
  overtaken by a silent client. More than two appends differ only in length.
- `installer`: two disks, so that the mapping left open may be another disk's; one mishap (a second
  session, a command's own failure, or what is missing added by hand, which counts as a session of its
  own; the failures the machine forces are not counted). A system completed by hand is therefore not
  installed over in this run, and the one mishap of a disk that boots is its completion; one
  update and two snapshots, so that the snapshot of the update is not always the last one.

### Fairness

`pipeline_live` assumes weak fairness of each feed thread's own step, because the operating
system schedules every thread and an `eval_fn` returns. Nothing is assumed of the arrival of ticks, of
the operator or of RiskD's callers. `evaluate` is one step, so lock starvation is not considered.

`plugins` assumes weak fairness of `Serve`, the next step of the daemon: the daemon is scheduled and its
calls on files return. It is not assumed that anybody restarts a daemon that has died; `RequestsEnd`
holds because its clients then see the connection break. A client that connects and never sends would
keep the daemon in `recv` for ever (`kairos_sysd.py:976`); `client_request` always sends, and other
programs on the socket are outside this module (`agents` has them).

`agents` assumes the same of its `Serve` and nothing of the clients: one may connect and never speak,
and `RequestsAreAnswered` says what then follows.

`installer` assumes that the installer goes on (each command is run with a timeout) and that the user
answers "Continue anyway?"; the questions and the confirmation may be left open for ever.

## Proofs

Every invariant and every action property of the runs that pass is proved, for every value of the
constants satisfying the named assumptions (finite symbols, orders of the declared form, positive
limits, bounds in Nat, processes and disks distinct from the markers "nobody" and "no disk"):

- **RiskD**: `TypeCorrect`; `StateIsCurrent`; `PeakIsAPeak`; `DuplicatesAreSuppressed`;
  `ApprovedGrowthIsCapped`. The last needs that the sum over a book with one entry changed is the old
  sum with that entry exchanged: `FiniteSums` proves this for `SumFunctionOnSet`, with finite-set facts
  and no induction over data. `DuplicatesAreSuppressed` rests on the invariant that the last approval of
  an order is not after its last registration: every approval registers, and what registered within the
  window, or at a later reading of a clock set back, is not approved.
- **Pipeline**: `PipelineTypeCorrect` (with the invariant that a thread past the scan has an order in
  hand); `HaltLeakIsBounded` (a thread that has sent its order under the halt holds no approval, because
  RiskD approves nothing while HALTED, and RiskD is HALTED whenever the halt is on: this is
  `StateIsCurrent`); `PipelineImplementsGate` (identities of orders in hand are pairwise distinct because
  ticks in hand are, and a verdict on an order belongs to a tick and registry index already passed);
  `LedgerExplainsFills` (an order about to be sent has its positive verdict in the ledger or among the
  lines that failed); `FinishedTicksLeaveNoneOut` (`WalkInv`: the strategies a thread still owes its tick
  are enabled and lie ahead of its place in the registry, unless the registry has grown since the tick
  came in, and then the thread drops the tick at its next look).
- **Adaptive Evolution**: `EngineTypesCorrect`; `KnowledgeComesBack`; `RollbackIsMemory`;
  `AnsweredRollbacksAreFinal`; `WheelCountsNoMore`; `OrderlyRollbacksDoRestore`. Under all of them lies
  what the request in hand is (`JobInv`) and that an adaptation leaves no trace before its cycle deploys
  it (`FreshInv`), so that an identity is never used twice. Knowledge is read back up to the first line
  that does not parse; that there is such a longest prefix follows from `<` on the naturals being
  well-founded. A record file holds an outcome only if memory did, and memory only if it was known,
  which a crash between the writes keeps, since knowledge is written first (`MemoryIsRemembered`,
  `WrittenOut`). The wheel counts a deployment after it is known, and one in hand is not counted yet
  (`CountInv`). The snapshots of the deployments not undone form a stack: the first replaced the
  default, the others an evolved slice (`StackInv`), so taking them back from the top finds what was
  there.
- **Plugin platform**: `PluginTypesCorrect`; `PluginPromisesAreKept`; `PluginMemoryIsCurrent`.
  `PromisesAreKept` alone says nothing while somebody is at a plugin, so `PromiseInv` says what holds
  then: a default being installed is excused; a change still marked clean is the only one at its plugin,
  and its file has come exactly as far as it has (open and empty before the write, holding the outcome
  before the answer). A lemma for each kind of step (quiet, begun, own, answering) keeps this for one
  plugin, and each action is one of these kinds at its own plugin and quiet at the others. That an answer
  of the daemon removes nobody at work needs a third invariant, `Waits`: a request in service or queued
  belongs to a client that waits for it alone, or to nobody. `MemoryIsCurrent` speaks of managers that
  have loaded; `MemoryInv` says what a manager knows while it reads the files one by one: whoever is at
  a plugin since the listing, or could not be read, is `unsure`, and what it has read otherwise is what
  was promised.
- **AI agent platform**: `AgentTypesCorrect`; `AgentOrdersAreRecorded`; `AgentRecordsStay`;
  `AgentOrdersAreEarned`; `AgentAnswersAreTrue`; `AgentWorkIsLogged`; `AgentProtectionsHold`;
  `AgentRecordsAreReadBack`. The types are the shape of each process (it holds a request exactly while it
  works, no connection while it rests) and of the files; that loading returns a list at all needs that a
  largest readable prefix exists, by well-foundedness again. `OrdersAreRecorded` is kept with two more
  parts: a last line that was cut short is of a request excused then, so that spoiling it loses no
  record that counts (`RecordInv`); and a connection with a client belongs to it alone, while it waits
  (`Ties`), so that no client that speaks changes the request the daemon is recording. The next four
  have one invariant, `Story`: what broker, log and answers say of the request a process holds, stage by
  stage (nothing before authorization, a verdict logged and no order before the send, an order earned at
  the send, a justified answer after it). It is kept because a request is held by one process or one
  connection only (`HeldApart`), so that a step of any other spares it. What a platform read back stays
  in its memory, and what it does not have was added by somebody else since.
- **Installer and Recovery**: `MachineTypesCorrect`; `InstallerAsksFirst`; `VerificationMissesTheDisk`;
  `CleanSessionsDoClose`; `CleanInstallsReachTheDisk`; `CleanInstallsNeedAHand`;
  `RollbacksLeaveUpdates`; `RollbacksAreToThePast`. The types need that the live system's directory
  stays under whatever is mounted on it (`LayersOK`) and where a session can be (`Placed`).
  `DisksChangeOnConsent` is kept with `ConsentInv`: what is mapped or mounted is the disk the user typed
  the phrase for, or was open before the session (`leftover`). `HealthInv` keeps what the health check
  saw until the session ends; What a rollback has promised is compared with what boots later, so that
  what lies between must be known: `Current` says that a running disk runs the system on it, `History`
  that snapshots are listed in the order of their versions, none newer than the system, and that the one
  the journal names is older; `Promised` that a promise is of a disk whose system is no older than it,
  and newer when the journal was followed. The three theorems about sessions that nothing disturbs share
  one invariant, `CleanInv`: what is mapped, mounted, formatted and filed after each command of each of
  the 24 steps (`Story0` to `Story24`; steps 6 to 18, which only file, are one case). One lemma for each
  step says that its next command either succeeds as the story tells or is one that may do nothing, and
  one for each boundary that the next step's commands start where the last step left off. This is where
  the order of closing the container and writing the boot entries shows: after step 19 an encrypted disk
  is `Off` (`Again`), and `Story21` files the entries elsewhere. The kernel is in the story from step 6
  on, on the boot partition, and the loader and the entries are on the EFI partition only where the
  remount of step 20 succeeds.

A theorem about steps is proved action by action; each step that leaves the variables of a conjunct
alone is dismissed by one lemma. Left to TLC: the liveness properties, which are outside the prover's
reach (`TicksAreWorkedOff`, `RequestsEnd`, `RequestsAreAnswered`, `HaltsDoNotReachAgents`,
`ConfirmedSessionsEnd`), and of course the violations.

## What the checks found

1. In close-only mode an order of the opposite side passes whatever its size (`riskd.py:410`), against
   "Only allows orders that strictly reduce existing exposure".
2. A halt does not stop an order already approved (`subsystem.py:335`). The bound that does hold, one
   order per feed thread, is proved.
3. Fills never reach RiskD's book, so the caps on positions and exposure never bite in the pipeline.
4. The ledger can lack a fill: a failed write is ignored.
5. Rolling back two adaptations of one target oldest first leaves the rolled-back candidate in force.
6. No installation without a failure leaves a disk that boots. Encrypted, which the installer
   recommends: its last step closes the mapping that the boot loader phase then mounts from
   (`kairos_installer.py:1868`), so neither loader nor entries are installed. Unencrypted by UEFI: the
   entries name `/vmlinuz-kairos` on the EFI partition, the kernel is on the ext4 partition /boot
   (1944). Without UEFI: no profile lists GRUB, whose programs run in the chroot (461-567, 1989).
7. The health check runs after everything was unmounted and looks below /mnt, so a real installation
   without a failure exits with 2 (`kairos_installer.py:2062`).
8. After a failed step and "Continue anyway?" the root file system is made on whatever the mapping
   `kairos-root` stands for, another disk's container included (`kairos_installer.py:1332`).
9. A rollback sets the default subvolume, and the boot entries name `subvol=@`: the updated system boots
   again (`kairos_recovery.py:372`). The engine's rollback changes nothing at all.
10. `risk.halt` is confirmed and halts nothing, the agents included (`kairos_sysd.py:626`).
11. The record of an order sent by an agent can be missing for good (`ai/platform.py:385`).

Further disagreements met while reading, for which there is no run: the SAFE state is never set and
RESTRICTED does not clamp sizes (`RISKD_SAFETY_BOUNDARY.md`, section on states); PAPER and LIVE
strategies go to the same broker; a cycle for feature selection raises because the slice is a list;
`forced_signal` is appended behind the observed signals and so never becomes the primary one when any
other is observed; `kairos-sysd` answers SUCCESS to `risk.halt` without touching RiskD; when the last
plugin has been removed the next start installs and enables the defaults again, against "remove"
(`docs/architecture/PLUGIN_PLATFORM.md:116`); a plugin's ERROR state (line 98 there) is never set; the
shipped unit's `ProtectSystem=strict` leaves the storage directory read-only, so the daemon's writes
fail and are ignored; a client that is interrupted while it waits ends the daemon with its broken pipe.

Of the installer: `kairos-firstboot.service` is enabled before it is written, and written below the
unmounted /mnt; the size of a disk is checked against the default profile, since the profile is asked
for later; "Quant Research" is cut to "Quant", which is no profile, and ends the installer; at the end
of standard input the password question repeats for ever. Of the daemon: `network.set_dns` and
`users.lock_account` are allowed and have no handler, `logs.query` has one and is not allowed
(`scripts/apps/kairos_apps.py:373` asks for it); `package.remove` protects nothing when the catalog
cannot be read; stopping riskd is refused and restarting it is not; the audit log's header promises a
result per line and none is logged. Of recovery: nothing in the repository writes the update journal
that "Rollback Update" reads.

## What is not modelled

Of kairos-sysd, the handlers that only read, and the text of answers. The research environment is
floating-point arithmetic over series in one call. Application isolation is a table with generators of
command lines. Observability, probes, shell and applications read, format and print. The service
programs write a file of literals and exit. Build, boot and
release scripts run outside the system.

Within the modelled parts: journal lines other than verdicts and fills; strategy parameters and modes;
latencies inside reports; the text of reasons; the AEI security gate, a pure check the fixed candidates
always pass; two processes running the adaptive engine on the same files; plugin requests that are
refused by authorization or only read; manifests altered on disk (nobody but the manager writes them, so
a verification never fails); a storage directory that cannot be made; the host of example plugins
(`plugins/plugin_host.py`), which checks a set inclusion; the contents of the installer's files where no
later step or boot reads them, its language, keyboard, account and package questions, and its fallback
to debootstrap where there is no pacstrap; recovery's diagnostics, accounts, networking, "System
Restore" and shell, which leave disks and subvolumes alone; `ai/` agents' texts and the agent harness,
which builds one fixed order.

## Plan

1. `RiskD`, `TradingPipeline`, `OrderGate`: modelled, checked, all safety properties and the refinement
   proved.
2. `AdaptiveEvolution`, `PluginPlatform`, `AgentPlatform`: modelled, checked, all safety properties
   proved.
3. `Installer`, `Recovery`: modelled, checked, all safety properties proved. `RecoveryProofs` is by far
   the longest module, and most of it is the story of a clean session; a shorter telling (one lemma for
   the commands that steps share) is the next improvement.
4. Left for theorems that no run asks for: the abstract counterparts of the platforms (a request is
   answered once; a plugin's file is a register), as refinements beside `OrderGate`.
