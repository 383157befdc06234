--------------------------- MODULE AgentPlatform ---------------------------
(***************************************************************************)
(* The AI agent platform of ai/platform.py with the risk gatekeeper of     *)
(* trading/risk_gatekeeper.py, as its processes run them: the daemon of    *)
(* scripts/services/kairos_sysd.py, which authorizes, logs and serves one  *)
(* connection at a time and keeps one platform, and the clients, which do  *)
(* the same in-process when the socket does not exist.  All platforms      *)
(* share the audit history, a file they append to without a lock.          *)
(*                                                                         *)
(* Abstractions:                                                           *)
(*  - a request is known by its number, records and orders by the request  *)
(*    they come from; scores are in hundredths;                            *)
(*  - a line is appended by one write, so two of them never mix, but a     *)
(*    full disk may cut one short;                                         *)
(*  - connects to a socket nobody listens on change nothing and are left   *)
(*    out; so are the handlers of other modules' components;               *)
(*  - the broker gateway is what ExecutionEngine reports as sent.          *)
(***************************************************************************)
EXTENDS Integers, Sequences, FiniteSets, SequencesExt

CONSTANTS
  Users,        \* accounts, Root among them
  Root,
  Groups,       \* the groups of each account
  Requests,     \* what clients may ask for
  Text,         \* a value of the wrong type, where a number belongs
  Clients,      \* slots for client processes, each with one request
  Daemon,
  Nobody,       \* stands for a client that has gone away
  Backlog,      \* connections that may wait to be accepted
  MaxRequests,  \* bound on requests
  MaxMishaps    \* bound on failed accesses to files and killed processes

ASSUME ProcessesAssumption == Daemon \notin Clients /\ Nobody \notin Clients \cup {Daemon}
ASSUME BoundsAssumption == Backlog \in Nat /\ MaxRequests \in Nat /\ MaxMishaps \in Nat
ASSUME UsersAssumption == Root \in Users /\ Groups \in [Users -> SUBSET STRING]

VARIABLES
  socket,     \* whether the socket's path exists
  queue,      \* connections the daemon has not accepted yet
  worker,     \* each process: its place in the code, connection and platform
  asked,      \* the requests made, in order
  answers,    \* the answer of each request
  log,        \* the lines of the daemon's audit log: request and verdict
  history,    \* the lines of ai_audit.jsonl
  broker,     \* the orders sent to the broker gateway
  halted,     \* history: whether a trading halt has been confirmed
  excused,    \* history: requests whose traces may be missing
  mishaps     \* history: failed accesses and killed processes

historyVars == <<halted, excused, mishaps>>
vars == <<socket, queue, worker, asked, answers, log, history, broker, historyVars>>

Hosts == Clients \cup {Daemon}

----------------------------------------------------------------------------
(* Requests *)

Agents == {"vincent", "xiphos", "watcher", "researcher", "scheduler"}

(***************************************************************************)
(* What an agent is asked to judge: news that is absent, clean or matches  *)
(* a suspicious pattern, the scores, and the price, 0 when it is null.     *)
(***************************************************************************)
Input == [agent : Agents \cup {"unknown"}, news : {"none", "clean", "suspicious"},
          imbalance : Int \cup {Text}, momentum : Int \cup {Text}, price : Int \cup {Text}]

(***************************************************************************)
(* Of a request that is not for an agent, its subject: a service, or a     *)
(* package by what the catalog says of it and what it is to replace.       *)
(* An outsized request is not read whole by the daemon's single recv; an   *)
(* outgrowing one has an answer that the client's recv does not read whole.*)
(***************************************************************************)
Subjects == {"none", "riskd", "feedd", "core", "ordinary", "experimental",
             "experimental for core", "unlisted"}
Sizes == {"fits", "outgrowing", "outsized"}

TraderActions ==
  {"display.set_scale", "audio.set_volume", "audio.toggle_mute", "trading.strategy_toggle",
   "trading.strategy_mode", "trading.journal_logs", "risk.halt", "risk.close_only",
   "risk.pause_strategy", "risk.resume_strategy", "plugin.enable", "plugin.disable",
   "agent.propose", "adaptive.trigger_cycle", "startup.toggle"}
AdminActions ==
  {"settings.set_profile", "network.restart_interface", "network.set_dns",
   "users.lock_account", "storage.create_snapshot", "security.reload_firewall",
   "updates.rollback", "services.start", "services.stop", "services.restart",
   "package.install", "package.remove", "package.update", "risk.modify_limits",
   "plugin.install", "plugin.remove", "adaptive.rollback"}
ResearchActions == {"research.run_experiment"}
\* The actions anyone may ask for only read; those of this module stand for all.
OpenActions == {"agent.list", "agent.info", "agent.audit_log", "risk.status"}
Whitelist == TraderActions \cup AdminActions \cup ResearchActions \cup OpenActions

\* Actions with a handler in dispatch_action, which the whitelist misses, and the reverse.
Unlisted == {"logs.query"}
NoHandler == {"network.set_dns", "users.lock_account"}

\* The handlers of other components: their effects are in the modules of those.
Elsewhere == {"plugin.enable", "plugin.disable", "plugin.install", "plugin.remove",
              "adaptive.trigger_cycle", "adaptive.rollback", "research.run_experiment"}

Request == [user : Users, action : (Whitelist \cup Unlisted) \ Elsewhere, input : Input,
            subject : Subjects, size : Sizes]
ASSUME RequestsAssumption == Requests \subseteq Request

Numbers == 1..Len(asked)

----------------------------------------------------------------------------
(* Authorization *)

(***************************************************************************)
(* The role an action requires: the daemon refuses what is not listed, a   *)
(* client in-process takes it for an administrator's.                      *)
(***************************************************************************)
Role(h, action) ==
  CASE action \in OpenActions -> "any"
    [] action \in TraderActions -> "trader"
    [] action \in ResearchActions -> "research"
    [] action \in AdminActions -> "admin"
    [] OTHER -> IF h = Daemon THEN "none" ELSE "admin"

Sufficient == [admin |-> {"wheel"}, research |-> {"research", "wheel"},
               trader |-> {"trader", "wheel", "research"}]

check_authorization(user, role) ==
  \/ user = Root
  \/ role = "any"
  \/ role \in DOMAIN Sufficient /\ Groups[user] \cap Sufficient[role] # {}

Authorized(h, r) == LET role == Role(h, r.action) IN
                    role # "none" /\ check_authorization(r.user, role)

----------------------------------------------------------------------------
(* What the agents make of an input *)

PermissionTier == {"READ", "ANALYZE", "PROPOSE", "REQUEST", "EXECUTE"}
Permissions == [a \in Agents |-> {"READ", "ANALYZE", "PROPOSE"}]

\* Mutant: sanitized news is used whatever was detected in it.
NothingDetected(i) == FALSE

Quarantined(i) == i.news = "suspicious"

(***************************************************************************)
(* A score of the wrong type raises where it is compared or formatted;     *)
(* what an agent does not look at cannot.                                  *)
(***************************************************************************)
Raises(i) ==
  /\ ~Quarantined(i)
  /\ \/ i.agent = "xiphos" /\ i.imbalance = Text
     \/ i.agent = "researcher" /\ i.momentum = Text
     \/ i.agent = "vincent" /\ \/ i.imbalance = Text
                               \/ ~(i.imbalance > 10) /\ i.momentum = Text

Side(i) ==
  CASE i.agent = "vincent" -> IF i.imbalance > 10 \/ i.momentum > 20 THEN "BUY" ELSE "HOLD"
    [] i.agent = "xiphos" -> IF i.imbalance > 5 THEN "BUY"
                             ELSE IF i.imbalance < -5 THEN "SELL" ELSE "HOLD"
    [] i.agent = "researcher" -> IF i.momentum > 10 THEN "BUY" ELSE "HOLD"
    [] OTHER -> "HOLD"

Quantity == [vincent |-> 5, xiphos |-> 3, watcher |-> 0, researcher |-> 4, scheduler |-> 0]

Proposes(i) == ~Quarantined(i) /\ Side(i) # "HOLD" /\ Quantity[i.agent] > 0

evaluate_proposal(i) ==
  /\ "PROPOSE" \in Permissions[i.agent]
  /\ "EXECUTE" \notin Permissions[i.agent]
  /\ Quantity[i.agent] > 0
  /\ Side(i) \in {"BUY", "SELL"}

----------------------------------------------------------------------------
(* The risk gatekeeper, made anew for every proposal *)

MaxPositionSize == 100
MaxDrawdown == 30       \* per mille
CurrentDrawdown == 5    \* per mille, never updated

\* Comparing the price of a limit order is where a price of the wrong type raises.
RiskRaises(i) == i.price = Text

evaluate(i) ==
  /\ CurrentDrawdown < MaxDrawdown
  /\ Quantity[i.agent] <= MaxPositionSize
  /\ i.price > 0

\* Mutant: the pipeline leaves the verdict to the execution engine.
PolicyOnly(i) == evaluate_proposal(i)

Approved(i) == evaluate_proposal(i) /\ evaluate(i)

----------------------------------------------------------------------------
(* The handlers without a platform *)

\* Mutant: the package's own protection is not looked at.
RemovesAnything(r) == FALSE

StopRefused(r) == r.action = "services.stop" /\ r.subject = "riskd"
InstallRefused(r) ==
  r.action = "package.install" /\ r.subject \in {"unlisted", "experimental for core"}
RemovalRefused(r) == r.action = "package.remove" /\ r.subject = "core"

\* All others report success; none of them does what it reports.
Refuses(r) ==
  \/ r.action \in NoHandler \cup {"risk.modify_limits"}
  \/ StopRefused(r) \/ InstallRefused(r) \/ RemovalRefused(r)

\* Without the catalog nothing can be installed, and anything can be removed.
RefusesBlindly(r) == r.action = "package.install"

PlatformActions == {"agent.propose", "agent.list", "agent.info", "agent.audit_log"}

----------------------------------------------------------------------------
(* Processes and files *)

NoConnection == [client |-> Nobody, nr |-> 0]
Connection == [client : Clients \cup {Nobody}, nr : 0..MaxRequests]

Replies == {"none", "success", "completed", "blocked", "error", "denied"}
Busy == {"dispatch", "send", "record", "answer"}
Stages == Busy \cup {"gone", "connected", "waiting", "free", "receive"}

(***************************************************************************)
(* A process: its connection (its own request, in-process), the answer it  *)
(* has come to, its platform's audit_records and whether they are loaded.  *)
(* History: the records it failed to read and those others have made since.*)
(***************************************************************************)
Worker == [stage : Stages, connection : Connection, reply : Replies,
           loaded : BOOLEAN, memory : Seq(Nat), missed : SUBSET Nat]
Gone == [stage |-> "gone", connection |-> NoConnection, reply |-> "none",
         loaded |-> FALSE, memory |-> <<>>, missed |-> {}]

Number(h) == worker[h].connection.nr
Asked(h) == asked[Number(h)]
At(h, stage) == worker[h].stage = stage

\* A line of the history: the record in it, 0 if it cannot be read, and its end.
Line == [nr : Nat, ended : BOOLEAN]

Cut == history # <<>> /\ ~Last(history).ended

\* Mutant: the file is opened for writing, not for appending.
Overwrite(nr, ended) == <<[nr |-> nr, ended |-> ended]>>

\* What is appended to a line without an end makes one unreadable line with it.
WithLine(nr, ended) ==
  IF Cut THEN Append(Front(history), [nr |-> 0, ended |-> ended])
  ELSE Append(history, [nr |-> nr, ended |-> ended])

\* Mutant: the history is not loaded.
NoRecords == <<>>

\* Loading stops at the first line that cannot be read.
ReadableRecords ==
  LET whole == {k \in 0..Len(history) : \A j \in 1..k : history[j].nr # 0}
      upto == CHOOSE k \in whole : \A j \in whole : j <= k
  IN [k \in 1..upto |-> history[k].nr]

Mishap == mishaps < MaxMishaps /\ mishaps' = mishaps + 1
Excuse(file, nr) == excused' = excused \cup {<<file, nr>>}

----------------------------------------------------------------------------
(* Making requests *)

\* A client that finds no socket works in-process.
AskInProcess(c, r) ==
  /\ At(c, "gone") /\ ~socket /\ Len(asked) < MaxRequests
  /\ asked' = Append(asked, r)
  /\ answers' = Append(answers, "none")
  /\ worker' = [worker EXCEPT ![c] =
       [Gone EXCEPT !.stage = "receive",
                    !.connection = [client |-> c, nr |-> Len(asked) + 1]]]
  /\ UNCHANGED <<socket, queue, log, history, broker, historyVars>>

Connect(c) ==
  /\ At(c, "gone") /\ socket /\ ~At(Daemon, "gone") /\ Len(queue) < Backlog
  /\ worker' = [worker EXCEPT ![c].stage = "connected"]
  /\ queue' = Append(queue, [client |-> c, nr |-> 0])
  /\ UNCHANGED <<socket, asked, answers, log, history, broker, historyVars>>

\* What client c does to its connection, wherever that is.
OnConnection(c, x) == IF x.client = c THEN [x EXCEPT !.nr = Len(asked) + 1] ELSE x

\* The client sends its request; nothing says when.
Speak(c, r) ==
  /\ At(c, "connected") /\ Len(asked) < MaxRequests
  /\ asked' = Append(asked, r)
  /\ answers' = Append(answers, "none")
  /\ worker' = [worker EXCEPT ![c].stage = "waiting",
                              ![Daemon].connection = OnConnection(c, @)]
  /\ queue' = [k \in DOMAIN queue |-> OnConnection(c, queue[k])]
  /\ UNCHANGED <<socket, log, history, broker, historyVars>>

Accept ==
  /\ At(Daemon, "free") /\ queue # <<>>
  /\ worker' = [worker EXCEPT ![Daemon].stage = "receive",
                              ![Daemon].connection = Head(queue)]
  /\ queue' = Tail(queue)
  /\ UNCHANGED <<socket, asked, answers, log, history, broker, historyVars>>

\* Mutant: the connection of the last request is kept.
KeepConnection == [worker[Daemon] EXCEPT !.stage = "free", !.reply = "none"]

\* What the daemon keeps between requests.
Free == [worker[Daemon] EXCEPT !.stage = "free", !.connection = NoConnection,
                               !.reply = "none"]

\* Mutant: a connection that had nothing to read is read again.
ReceiveAgain ==
  /\ At(Daemon, "receive") /\ worker[Daemon].connection = NoConnection
  /\ worker' = [worker EXCEPT ![Daemon] = Free]
  /\ queue' = <<NoConnection>> \o queue
  /\ UNCHANGED <<socket, asked, answers, log, history, broker, historyVars>>

\* The client hung up without a word.
ReceiveEmpty ==
  /\ At(Daemon, "receive") /\ worker[Daemon].connection = NoConnection
  /\ worker' = [worker EXCEPT ![Daemon] = Free]
  /\ UNCHANGED <<socket, queue, asked, answers, log, history, broker, historyVars>>

----------------------------------------------------------------------------
(* Serving a request *)

\* h goes on to the stage with an answer in hand.
Proceed(h, stage, reply) ==
  worker' = [worker EXCEPT ![h].stage = stage, ![h].reply = reply]

\* recv blocks until there is something to read.
Received(h) == At(h, "receive") /\ Number(h) # 0

\* The daemon cannot parse what one recv did not read whole.
FailToParse ==
  /\ Received(Daemon) /\ Asked(Daemon).size = "outsized"
  /\ Proceed(Daemon, "answer", "error")
  /\ UNCHANGED <<socket, queue, asked, answers, log, history, broker, historyVars>>

\* Mutant: only refusals are logged.
LogRefusal(nr, authorized) ==
  /\ log' = IF authorized THEN log ELSE Append(log, <<nr, authorized>>)
  /\ UNCHANGED <<excused, mishaps>>

\* log_audit_event: a failed write is ignored.
log_audit_event(nr, authorized) ==
  \/ /\ log' = Append(log, <<nr, authorized>>)
     /\ UNCHANGED <<excused, mishaps>>
  \/ /\ Mishap
     /\ Excuse("log", nr)
     /\ UNCHANGED log

Authorize(h) ==
  /\ Received(h) /\ (h = Daemon => Asked(h).size # "outsized")
  /\ log_audit_event(Number(h), Authorized(h, Asked(h)))
  /\ IF Authorized(h, Asked(h)) THEN Proceed(h, "dispatch", "none")
     ELSE Proceed(h, "answer", "denied")
  /\ UNCHANGED <<socket, queue, asked, answers, history, broker, halted>>

(***************************************************************************)
(* A handler that answers without a platform: a halt is confirmed and      *)
(* nothing is halted.  A package catalog that cannot be read is an empty   *)
(* one.                                                                    *)
(***************************************************************************)
Answer(h) ==
  /\ At(h, "dispatch") /\ Asked(h).action \notin PlatformActions
  /\ \/ /\ Proceed(h, "answer", IF Refuses(Asked(h)) THEN "error" ELSE "success")
        /\ halted' = (halted \/ Asked(h).action = "risk.halt")
        /\ UNCHANGED <<excused, mishaps>>
     \/ /\ Asked(h).action \in {"package.install", "package.remove"} /\ Mishap
        /\ Proceed(h, "answer", IF RefusesBlindly(Asked(h)) THEN "error" ELSE "success")
        /\ Excuse("catalog", Number(h))
        /\ UNCHANGED halted
  /\ UNCHANGED <<socket, queue, asked, answers, log, history, broker>>

\* The first request that needs a platform makes it.
MakesPlatform(h) ==
  At(h, "dispatch") /\ Asked(h).action \in PlatformActions /\ ~worker[h].loaded

\* Process w has read the first k of these records and misses the others.
WithRecords(w, k) ==
  [w EXCEPT !.loaded = TRUE, !.memory = SubSeq(ReadableRecords, 1, k),
            !.missed = @ \cup {ReadableRecords[j] : j \in (k + 1)..Len(ReadableRecords)}]

\* A file that cannot be opened, or read to its end, is ignored from there on.
get_ai_platform(h) ==
  /\ MakesPlatform(h)
  /\ \E k \in 0..Len(ReadableRecords) :
       /\ worker' = [worker EXCEPT ![h] = WithRecords(@, k)]
       /\ IF k = Len(ReadableRecords) THEN UNCHANGED mishaps ELSE Mishap
  /\ UNCHANGED <<socket, queue, asked, answers, log, history, broker, halted, excused>>

\* The directory cannot be made: there is no platform, and no answer but an error.
FailToLoad(h) ==
  /\ MakesPlatform(h) /\ Mishap
  /\ Proceed(h, "answer", "error")
  /\ UNCHANGED <<socket, queue, asked, answers, log, history, broker, halted, excused>>

----------------------------------------------------------------------------
(* The pipeline *)

HasPlatform(h) == At(h, "dispatch") /\ worker[h].loaded

Consult(h) ==
  /\ HasPlatform(h) /\ Asked(h).action \in PlatformActions \ {"agent.propose"}
  /\ Proceed(h, "answer",
       IF Asked(h).action = "agent.info" /\ Asked(h).input.agent \notin Agents
       THEN "error" ELSE "success")
  /\ UNCHANGED <<socket, queue, asked, answers, log, history, broker, historyVars>>

Proposing(h) == HasPlatform(h) /\ Asked(h).action = "agent.propose"

\* An agent there is, and an input that no step of the pipeline raises on.
Sound(i) == /\ i.agent \in Agents /\ ~Raises(i)
            /\ Proposes(i) /\ evaluate_proposal(i) => ~RiskRaises(i)

\* An unknown agent, or a value of the wrong type: an error and no record.
FailToEvaluate(h) ==
  /\ Proposing(h) /\ ~Sound(Asked(h).input)
  /\ Proceed(h, "answer", "error")
  /\ UNCHANGED <<socket, queue, asked, answers, log, history, broker, historyVars>>

\* An agent that holds, or whose news are quarantined.
NoProposal(h) ==
  /\ Proposing(h) /\ Sound(Asked(h).input) /\ ~Proposes(Asked(h).input)
  /\ Proceed(h, "record", "completed")
  /\ UNCHANGED <<socket, queue, asked, answers, log, history, broker, historyVars>>

\* Refused by the policy or by the gatekeeper.
Block(h) ==
  /\ Proposing(h) /\ Sound(Asked(h).input) /\ Proposes(Asked(h).input)
  /\ ~Approved(Asked(h).input)
  /\ Proceed(h, "record", "blocked")
  /\ UNCHANGED <<socket, queue, asked, answers, log, history, broker, historyVars>>

\* Mutant: nothing is approved after a halt.
ApproveUnlessHalted(h) ==
  /\ Proposing(h) /\ Sound(Asked(h).input) /\ Proposes(Asked(h).input)
  /\ Approved(Asked(h).input)
  /\ IF halted THEN Proceed(h, "record", "blocked") ELSE Proceed(h, "send", "success")
  /\ UNCHANGED <<socket, queue, asked, answers, log, history, broker, historyVars>>

\* Approved by both.
Approve(h) ==
  /\ Proposing(h) /\ Sound(Asked(h).input) /\ Proposes(Asked(h).input)
  /\ Approved(Asked(h).input)
  /\ Proceed(h, "send", "success")
  /\ UNCHANGED <<socket, queue, asked, answers, log, history, broker, historyVars>>

\* Mutant: an order that was sent is not recorded.
SendOnly(h) ==
  /\ At(h, "send")
  /\ broker' = IF evaluate(Asked(h).input) THEN Append(broker, Number(h)) ELSE broker
  /\ Proceed(h, "answer", worker[h].reply)
  /\ UNCHANGED <<socket, queue, asked, answers, log, history, historyVars>>

\* execute_decision: the engine asks the gatekeeper again; SUCCESS is answered anyway.
Send(h) ==
  /\ At(h, "send")
  /\ broker' = IF evaluate(Asked(h).input) THEN Append(broker, Number(h)) ELSE broker
  /\ Proceed(h, "record", worker[h].reply)
  /\ UNCHANGED <<socket, queue, asked, answers, log, history, historyVars>>

(***************************************************************************)
(* _record_audit: the record goes to the list and to the file; a line that *)
(* could not be written, or not to its end, is ignored.                    *)
(***************************************************************************)
Record(h) ==
  /\ At(h, "record")
  /\ worker' = [g \in Hosts |->
       IF g = h THEN [worker[g] EXCEPT !.stage = "answer", !.memory = Append(@, Number(h))]
       ELSE IF worker[g].loaded THEN [worker[g] EXCEPT !.missed = @ \cup {Number(h)}]
       ELSE worker[g]]
  /\ \/ /\ history' = WithLine(Number(h), TRUE)
        /\ excused' = IF Cut THEN excused \cup {<<"history", Number(h)>>} ELSE excused
        /\ UNCHANGED mishaps
     \/ /\ Mishap
        /\ \/ \E nr \in {0, Number(h)} : history' = WithLine(nr, FALSE)
           \/ UNCHANGED history
        /\ Excuse("history", Number(h))
  /\ UNCHANGED <<socket, queue, asked, answers, log, broker, halted>>

----------------------------------------------------------------------------
(* Answers, and the life of the processes *)

ReturnAnswer(c) ==
  /\ At(c, "answer")
  /\ answers' = [answers EXCEPT ![Number(c)] = worker[c].reply]
  /\ worker' = [worker EXCEPT ![c] = Gone]
  /\ UNCHANGED <<socket, queue, asked, log, history, broker, historyVars>>

\* A client that has not read its answer whole reports a failure to communicate.
SendAnswer ==
  LET x == worker[Daemon].connection IN
  /\ At(Daemon, "answer") /\ x.client # Nobody
  /\ \/ answers' = [answers EXCEPT ![x.nr] = worker[Daemon].reply]
     \/ /\ Asked(Daemon).size = "outgrowing"
        /\ worker[Daemon].reply \in {"success", "completed", "blocked"}
        /\ answers' = [answers EXCEPT ![x.nr] = "lost"]
  /\ worker' = [worker EXCEPT ![Daemon] = Free, ![x.client] = Gone]
  /\ UNCHANGED <<socket, queue, asked, log, history, broker, historyVars>>

\* Requests of waiting clients, which fail when the daemon goes.
Stranded == {x.nr : x \in {y \in Range(queue) \cup {worker[Daemon].connection} :
                             y.client # Nobody}}

\* The daemon goes, and what it was connected to.
EndDaemon ==
  /\ worker' = [g \in Hosts |-> IF g = Daemon \/ worker[g].stage \in {"connected", "waiting"}
                                THEN Gone ELSE worker[g]]
  /\ queue' = <<>>
  /\ answers' = [n \in Numbers |-> IF n \in Stranded THEN "lost" ELSE answers[n]]
  /\ UNCHANGED <<asked, log, history, broker, halted>>

\* The client has gone away: sendall raises, twice, and the daemon's loop ends.
FailToAnswer ==
  /\ At(Daemon, "answer") /\ worker[Daemon].connection.client = Nobody
  /\ EndDaemon
  /\ socket' = FALSE
  /\ UNCHANGED <<excused, mishaps>>

Unrecorded(h) == IF At(h, "record") THEN {<<"history", Number(h)>>} ELSE {}

\* Killed; the socket stays, or the service manager cleans it up.
KillDaemon ==
  /\ ~At(Daemon, "gone") /\ Mishap
  /\ EndDaemon
  /\ socket' \in BOOLEAN
  /\ excused' = excused \cup Unrecorded(Daemon)

StartDaemon ==
  /\ At(Daemon, "gone")
  /\ worker' = [worker EXCEPT ![Daemon].stage = "free"]
  /\ socket' = TRUE
  /\ UNCHANGED <<queue, asked, answers, log, history, broker, historyVars>>

Forget(c, x) == IF x.client = c THEN [x EXCEPT !.client = Nobody] ELSE x

\* A client is interrupted; what it sent to the daemon stays sent.
Interrupt(c) ==
  /\ ~At(c, "gone") /\ Mishap
  /\ worker' = [worker EXCEPT ![c] = Gone, ![Daemon].connection = Forget(c, @)]
  /\ queue' = [k \in DOMAIN queue |-> Forget(c, queue[k])]
  /\ excused' = excused \cup Unrecorded(c)
  /\ UNCHANGED <<socket, asked, answers, log, history, broker, halted>>

----------------------------------------------------------------------------

Init ==
  /\ socket = FALSE
  /\ queue = <<>>
  /\ worker = [h \in Hosts |-> Gone]
  /\ asked = <<>>
  /\ answers = <<>>
  /\ log = <<>>
  /\ history = <<>>
  /\ broker = <<>>
  /\ halted = FALSE
  /\ excused = {}
  /\ mishaps = 0

Work(h) ==
  \/ Authorize(h) \/ Answer(h) \/ get_ai_platform(h) \/ FailToLoad(h)
  \/ Consult(h) \/ FailToEvaluate(h) \/ NoProposal(h) \/ Block(h) \/ Approve(h)
  \/ Send(h) \/ Record(h)

Serve ==
  \/ Accept \/ ReceiveEmpty \/ FailToParse
  \/ Work(Daemon) \/ SendAnswer \/ FailToAnswer

Next ==
  \/ Serve
  \/ \E c \in Clients :
       \/ \E r \in Requests : AskInProcess(c, r) \/ Speak(c, r)
       \/ Connect(c)
       \/ Work(c)
       \/ ReturnAnswer(c)
       \/ Interrupt(c)
  \/ KillDaemon
  \/ StartDaemon

(***************************************************************************)
(* The daemon is scheduled, and no call it makes blocks for ever but the   *)
(* recv from a client that says nothing.  Clients owe it nothing.          *)
(***************************************************************************)
Spec == Init /\ [][Next]_vars /\ WF_vars(Serve)

----------------------------------------------------------------------------
(* Properties *)

(***************************************************************************)
(* Types: besides the sets the variables range over, a process is busy     *)
(* exactly when it has a request in hand, and only clients wait.           *)
(***************************************************************************)
AgentTypeOK ==
  /\ socket \in BOOLEAN
  /\ queue \in Seq(Connection)
  /\ worker \in [Hosts -> Worker]
  /\ \A h \in Hosts :
       /\ At(h, "connected") \/ At(h, "waiting") => h # Daemon
       /\ At(h, "free") => h = Daemon
       /\ worker[h].stage \in Busy => Number(h) \in Numbers
       /\ worker[h].stage \notin Busy \cup {"receive"} => worker[h].connection = NoConnection
  /\ asked \in Seq(Requests)
  /\ answers \in Seq(Replies \cup {"lost"}) /\ Len(answers) = Len(asked)
  /\ log \in Seq(Numbers \X BOOLEAN)
  /\ history \in Seq(Line)
  /\ broker \in Seq(Numbers)
  /\ halted \in BOOLEAN
  /\ excused \subseteq {"log", "history", "catalog"} \X Numbers
  /\ mishaps \in 0..MaxMishaps

(***************************************************************************)
(* An order reaches the broker only for a trader's request, whichever      *)
(* process served it, on input without suspicious news, to one of the      *)
(* agents that trade, at a positive price, and only once                   *)
(* (docs/architecture/AI_AGENT_PLATFORM.md:24, platform.py:404-408).       *)
(***************************************************************************)
OrdersAreEarned ==
  /\ IsInjective(broker)
  /\ \A n \in Range(broker) :
       LET r == asked[n] IN
       /\ r.action = "agent.propose"
       /\ r.user = Root \/ Groups[r.user] \cap {"trader", "research", "wheel"} # {}
       /\ r.input.agent \in {"vincent", "xiphos", "researcher"}
       /\ r.input.news # "suspicious" /\ r.input.price > 0

(***************************************************************************)
(* The record of every order sent can be read from the audit history once  *)
(* its process is past recording, unless the write failed, was added to a  *)
(* line without an end, or never came as the process was killed            *)
(* (platform.py:376-386 and 561; AI_AGENT_PLATFORM.md:85 has no "unless"). *)
(***************************************************************************)
OrdersAreRecorded ==
  \A n \in Range(broker) :
    \/ \E k \in DOMAIN history : history[k].nr = n
    \/ <<"history", n>> \in excused
    \/ \E h \in Hosts : At(h, "record") /\ Number(h) = n

(***************************************************************************)
(* A client that is told SUCCESS of a proposal has an order at the broker, *)
(* although the engine's verdict is not looked at; one that is told of     *)
(* anything else has none, whichever step failed.  Only a lost answer says *)
(* nothing (platform.py:396-566, kairos_sysd.py:971-1000).                 *)
(***************************************************************************)
AnswersAreTrue ==
  \A n \in Numbers :
    /\ answers[n] = "success" /\ asked[n].action = "agent.propose" => n \in Range(broker)
    /\ answers[n] \in {"completed", "blocked", "error", "denied"} => n \notin Range(broker)

(***************************************************************************)
(* A platform has in memory every record that can be read from the file,   *)
(* over restarts, but for those that follow an unreadable line, those that *)
(* other processes made since it was loaded, and those it came to when its *)
(* reading failed (platform.py:361-386, 567-568: agent.audit_log answers   *)
(* from memory).                                                           *)
(***************************************************************************)
RecordsAreReadBack ==
  \A h \in Hosts : worker[h].loaded =>
    \A k \in DOMAIN history :
      \/ history[k].nr \in {0} \cup Range(worker[h].memory) \cup worker[h].missed
      \/ \E j \in 1..k : history[j].nr = 0

(***************************************************************************)
(* Whatever was done is in the daemon's audit log as authorized, and what  *)
(* was denied as denied, whichever process did it and whenever it died,    *)
(* unless that line could not be written (kairos_sysd.py:142-155,          *)
(* 939-946, 985-994).                                                      *)
(***************************************************************************)
WorkIsLogged ==
  \A n \in Numbers :
    /\ n \in Range(broker) \/ answers[n] \in {"success", "completed", "blocked"}
         => <<n, TRUE>> \in Range(log) \/ <<"log", n>> \in excused
    /\ answers[n] = "denied" => \/ <<n, FALSE>> \in Range(log) /\ <<n, TRUE>> \notin Range(log)
                               \/ <<"log", n>> \in excused

(***************************************************************************)
(* Nobody, root included, daemon or not, is told SUCCESS of stopping RiskD *)
(* or of changing its limits, nor of removing a core package while the     *)
(* catalog can be read (kairos_sysd.py:360-365, 474-492, 648-654).         *)
(***************************************************************************)
ProtectionsHold ==
  \A n \in Numbers : answers[n] = "success" =>
    /\ asked[n].action # "risk.modify_limits"
    /\ asked[n].action = "services.stop" => asked[n].subject # "riskd"
    /\ asked[n].action = "package.remove" /\ asked[n].subject = "core"
         => <<"catalog", n>> \in excused

(***************************************************************************)
(* No step of any process changes or removes a line of the audit history   *)
(* that has its end (platform.py:376-386, "immutable audit log").          *)
(***************************************************************************)
RecordsStay ==
  [][\A k \in DOMAIN history : history[k].ended =>
       k \in DOMAIN history' /\ history'[k] = history[k]]_vars

(***************************************************************************)
(* Every client that has sent its request gets an answer or loses the      *)
(* daemon, unless the daemon is held for ever by a client that connected   *)
(* and says nothing: nothing else may hold it (kairos_sysd.py:971-1000).   *)
(***************************************************************************)
HeldBySilence ==
  At(Daemon, "receive") /\ Number(Daemon) = 0 /\ worker[Daemon].connection.client # Nobody

RequestsAreAnswered ==
  <>[]HeldBySilence \/ \A c \in Clients : At(c, "waiting") ~> ~At(c, "waiting")

(***************************************************************************)
(* A halt that was confirmed with SUCCESS does not reach the agents: an    *)
(* approved proposal that the daemon has before it is sent to the broker   *)
(* all the same, unless the daemon is killed (kairos_sysd.py:626-634 and   *)
(* platform.py:480: the gatekeeper is a new one each time).                *)
(***************************************************************************)
HaltsDoNotReachAgents ==
  \A n \in 1..MaxRequests :
    (halted /\ Proposing(Daemon) /\ Number(Daemon) = n /\ Sound(asked[n].input)
       /\ Proposes(asked[n].input) /\ Approved(asked[n].input))
      ~> (n \in Range(broker) \/ At(Daemon, "gone"))
=============================================================================
