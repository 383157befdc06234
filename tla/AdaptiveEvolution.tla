-------------------------- MODULE AdaptiveEvolution --------------------------
(***************************************************************************)
(* Adaptive Evolution Intelligence: the adaptation cycle and the rollback  *)
(* of adaptive/aei.py, and the wheel of adaptive/adaptive_wheel.py they    *)
(* turn.  The daemon serves one request at a time, so nothing runs next to *)
(* a cycle; but the process may die between any two of its writes, and     *)
(* then only the files remain.                                             *)
(*                                                                         *)
(* Abstractions:                                                           *)
(*  - the candidate of a target is the same in every cycle, so a target's  *)
(*    slice of the configuration is "default" or "evolved";                *)
(*  - test metrics and realized performance are literals that always pass, *)
(*    so no cycle is rejected and none rolls itself back;                  *)
(*  - a cycle that observes no signal, or whose baseline slice is a list   *)
(*    (feature selection, where dict() raises), changes nothing and is     *)
(*    left out;                                                            *)
(*  - adaptation ids are numbered in the order the clock gives them.       *)
(***************************************************************************)
EXTENDS Integers, Sequences, FiniteSets, SequencesExt

CONSTANTS
  Targets,     \* the permitted targets whose slice is a dictionary
  Inert,       \* those the generator proposes no change for
  SeedTarget,  \* strategy weights, the target of the seed record
  MaxCycles,   \* bound: adaptation cycles
  MaxLines,    \* bound: lines of the knowledge file
  MaxFailures  \* bound: writes that fail and reads of a file that fail

ASSUME TargetsAssumption == Inert \subseteq Targets /\ SeedTarget \in Targets \ Inert
ASSUME BoundsAssumption == MaxCycles \in Nat /\ MaxLines \in Nat /\ MaxFailures \in Nat

VARIABLES
  config,      \* active_config, the slice of each target
  records,     \* active_adaptations
  knowledge,   \* knowledge_entries of the memory bank
  wheel,       \* the wheel's state and evolution count
  job,         \* the request being served
  recordFile,  \* the file of each record
  log,         \* aei_knowledge.jsonl
  wheelFile,   \* adaptive_wheel_state.json
  cycles,      \* cycles begun, in all runs of the process
  failures,    \* history: writes and reads of a file that failed
  unsaved,     \* history: entries the knowledge file has not got
  unpersisted, \* history: records whose file was not written, cut off or overwritten
  unread,      \* history: lines of the file a failed read kept from this run
  missing,     \* history: records whose file this run could not read
  answered,    \* history: rollbacks whose caller got an answer
  stack,       \* history: per target, deployments of this run not undone yet
  disordered   \* history: targets with a rollback out of order in this run

memoryVars == <<config, records, knowledge, wheel>>
fileVars == <<recordFile, log, wheelFile>>
lossVars == <<unsaved, unpersisted, unread, missing>>
historyVars == <<failures, lossVars, answered, stack, disordered>>
vars == <<memoryVars, job, fileVars, cycles, historyVars>>

Seed == 0
Ids == Seed .. MaxCycles
Slices == {"default", "evolved"}
NoSnapshot == "no snapshot"
Record == [target : Targets, snapshot : Slices \cup {NoSnapshot},
           lifecycle : {"BASELINE", "DEPLOYED", "ROLLED_BACK"}]
SeedRecord == [target |-> SeedTarget, snapshot |-> NoSnapshot, lifecycle |-> "BASELINE"]
NoFile == [lifecycle |-> "no file"]
Torn == [lifecycle |-> "cut off"]

Entry == [id : Ids, outcome : {"ACCEPTED_ACTIVE", "ROLLED_BACK"}]
Cut == [outcome |-> "cut off"]      \* a line that was not written to its end
Garbled == [outcome |-> "garbled"]  \* the same, with another entry glued to it

CycleStates == <<"OBSERVING", "DIAGNOSING", "TESTING", "VALIDATING">>
WheelStates == Range(CycleStates) \cup {"IDLE", "EVOLUTION_COMPLETE", "ROLLBACK"}
Defaults == [t \in Targets |-> "default"]
Undeployed == [t \in Targets |-> <<>>]
NewWheel == [state |-> "IDLE", evolutions |-> 0]
Stages == {"down", "idle", "memorize", "open", "dump", "turn"} \cup Range(CycleStates)
Job == [kind : {"none", "seed", "cycle", "rollback"}, stage : Stages,
        target : Targets, id : Ids]
Idle == [kind |-> "none", stage |-> "idle", target |-> SeedTarget, id |-> Seed]
Down == [Idle EXCEPT !.stage = "down"]

----------------------------------------------------------------------------
(* The files *)

WriteFails == failures < MaxFailures /\ failures' = failures + 1

Readable(id) == recordFile[id] \in Record
Lines == Range(log)

\* Mutant: the file is read from its end, up to the first line without an outcome.
LatestKnowledge ==
  LET Clean(n) == \A i \in n .. Len(log) : log[i] \in Entry IN
  SubSeq(log, CHOOSE n \in 1 .. Len(log) + 1 : Clean(n) /\ (n > 1 => ~Clean(n - 1)), Len(log))

(***************************************************************************)
(* _load_memory reads up to the first line it cannot parse.                *)
(***************************************************************************)
LoadedKnowledge ==
  LET Clean(n) == \A i \in 1 .. n : log[i] \in Entry IN
  SubSeq(log, 1, CHOOSE n \in 0 .. Len(log) : Clean(n) /\ (n < Len(log) => ~Clean(n + 1)))

\* Mutant: the entry is kept in memory only.
RememberOnly(entry) ==
  /\ knowledge' = Append(knowledge, entry)
  /\ UNCHANGED <<log, unsaved, failures>>

(***************************************************************************)
(* record_knowledge: remembered in any case; the line may fail to reach    *)
(* the file, reach it in part, or end up glued to a part of an older one.  *)
(***************************************************************************)
RecordKnowledge(entry) ==
  /\ knowledge' = Append(knowledge, entry)
  /\ \/ /\ log # <<>> => Last(log) # Cut
        /\ log' = Append(log, entry)
        /\ UNCHANGED <<unsaved, failures>>
     \/ /\ log # <<>> /\ Last(log) = Cut
        /\ log' = Append(Front(log), Garbled)
        /\ unsaved' = unsaved \cup {entry}
        /\ UNCHANGED failures
     \/ /\ WriteFails
        /\ \/ UNCHANGED log
           \/ (log # <<>> => Last(log) # Cut) /\ log' = Append(log, Cut)
        /\ unsaved' = unsaved \cup {entry}

\* Mutant: a candidate counts once it is being validated.
TransitionCountingCandidates(state) ==
  /\ wheel' = [state |-> state,
               evolutions |-> IF state = "VALIDATING" THEN wheel.evolutions + 1
                              ELSE wheel.evolutions]
  /\ \/ wheelFile' = wheel' /\ UNCHANGED failures
     \/ WriteFails /\ UNCHANGED wheelFile

(***************************************************************************)
(* transition_to: the wheel turns to the state's sector and is saved by an *)
(* atomic replacement of its file, whose failure is ignored.               *)
(***************************************************************************)
TransitionTo(state) ==
  /\ wheel' = [state |-> state,
               evolutions |-> IF state = "EVOLUTION_COMPLETE" /\ wheel.state # state
                              THEN wheel.evolutions + 1 ELSE wheel.evolutions]
  /\ \/ wheelFile' = wheel' /\ UNCHANGED failures
     \/ WriteFails /\ UNCHANGED wheelFile

----------------------------------------------------------------------------
(* The life of the process *)

\* Mutant: every file that exists is taken for a record.
Existing == {id \in Ids : recordFile[id] # NoFile}

Loadable == {id \in Ids : Readable(id)}

(***************************************************************************)
(* The constructor: defaults for the configuration, the files for all      *)
(* else.  A file that cannot be opened, or not be read to its end, is      *)
(* passed over in silence: lines, records or the wheel's state are then    *)
(* missing from this run.  Without any record the seed is put in, over     *)
(* what its file may hold.                                                 *)
(***************************************************************************)
Start ==
  /\ job.stage = "down"
  /\ \E readable \in {LoadedKnowledge}, loadable \in {Loadable} :
     \E lines \in 0 .. Len(readable), loaded \in SUBSET loadable,
        read \in {wheelFile, NewWheel} :
       /\ failures' = failures + Cardinality(loadable \ loaded)
                      + (IF lines = Len(readable) THEN 0 ELSE 1)
                      + (IF read = wheelFile THEN 0 ELSE 1)
       /\ failures' <= MaxFailures
       /\ config' = Defaults
       /\ knowledge' = SubSeq(readable, 1, lines)
       /\ wheel' = read
       /\ \/ /\ loaded # {}
             /\ records' = [id \in loaded |-> recordFile[id]]
             /\ job' = Idle
             /\ UNCHANGED unpersisted
          \/ /\ loaded = {}
             /\ records' = [id \in {Seed} |-> SeedRecord]
             /\ job' = [Idle EXCEPT !.kind = "seed", !.stage = "open"]
             /\ unpersisted' = unpersisted \cup (loadable \cap {Seed})
       /\ unread' = lines + 1 .. Len(readable)
       /\ missing' = loadable \ loaded
       /\ stack' = Undeployed
       /\ disordered' = {}
       /\ UNCHANGED <<fileVars, cycles, unsaved, answered>>

(***************************************************************************)
(* The process dies: only the files remain.                                *)
(***************************************************************************)
Crash ==
  /\ job.stage # "down"
  /\ job' = Down
  /\ config' = Defaults /\ records' = <<>> /\ knowledge' = <<>> /\ wheel' = NewWheel
  /\ unread' = {} /\ missing' = {} /\ stack' = Undeployed /\ disordered' = {}
  /\ unpersisted' = IF job.stage \in {"open", "dump"} THEN unpersisted \cup {job.id}
                    ELSE unpersisted
  /\ UNCHANGED <<fileVars, cycles, failures, unsaved, answered>>

----------------------------------------------------------------------------
(* The adaptation cycle and the rollback *)

BeginCycle(t) ==
  /\ job = Idle
  /\ cycles < MaxCycles /\ Len(log) < MaxLines
  /\ cycles' = cycles + 1
  /\ job' = [kind |-> "cycle", stage |-> CycleStates[1], target |-> t, id |-> cycles + 1]
  /\ UNCHANGED <<memoryVars, fileVars, historyVars>>

(***************************************************************************)
(* The wheel follows the cycle through its stages, one save after another. *)
(***************************************************************************)
TurnWheel ==
  \E i \in DOMAIN CycleStates :
    /\ job.stage = CycleStates[i]
    /\ TransitionTo(CycleStates[i])
    /\ job' = [job EXCEPT !.stage = IF i < Len(CycleStates) THEN CycleStates[i + 1]
                                    ELSE "memorize"]
    /\ UNCHANGED <<config, records, knowledge, recordFile, log, cycles, lossVars,
                   answered, stack, disordered>>

\* Mutant: the snapshot is taken after the candidate was put in.
DeploySnapshottingLate ==
  LET t == job.target IN
  /\ job.kind = "cycle" /\ job.stage = "memorize"
  /\ config' = IF t \in Inert THEN config ELSE [config EXCEPT ![t] = "evolved"]
  /\ RecordKnowledge([id |-> job.id, outcome |-> "ACCEPTED_ACTIVE"])
  /\ records' = [id \in DOMAIN records \cup {job.id} |->
                   IF id = job.id
                   THEN [target |-> t, snapshot |-> config'[t], lifecycle |-> "DEPLOYED"]
                   ELSE records[id]]
  /\ job' = [job EXCEPT !.stage = "open"]
  /\ stack' = [stack EXCEPT ![t] = Append(@, job.id)]
  /\ UNCHANGED <<wheel, recordFile, wheelFile, cycles, unpersisted, unread, missing,
                 answered, disordered>>

(***************************************************************************)
(* The candidate becomes the active configuration, the outcome becomes     *)
(* knowledge, and the record joins the others, with the slice it replaced. *)
(***************************************************************************)
Deploy ==
  LET t == job.target IN
  /\ job.kind = "cycle" /\ job.stage = "memorize"
  /\ config' = IF t \in Inert THEN config ELSE [config EXCEPT ![t] = "evolved"]
  /\ RecordKnowledge([id |-> job.id, outcome |-> "ACCEPTED_ACTIVE"])
  /\ records' = [id \in DOMAIN records \cup {job.id} |->
                   IF id = job.id
                   THEN [target |-> t, snapshot |-> config[t], lifecycle |-> "DEPLOYED"]
                   ELSE records[id]]
  /\ job' = [job EXCEPT !.stage = "open"]
  /\ stack' = [stack EXCEPT ![t] = Append(@, job.id)]
  /\ UNCHANGED <<wheel, recordFile, wheelFile, cycles, unpersisted, unread, missing,
                 answered, disordered>>

\* Mutant: the lifecycle is changed after the record was written.
RollBackWithoutMarking(id) ==
  LET r == records[id] IN
  /\ job = Idle
  /\ Len(log) < MaxLines
  /\ config' = IF r.snapshot = NoSnapshot THEN config
               ELSE [config EXCEPT ![r.target] = r.snapshot]
  /\ RecordKnowledge([id |-> id, outcome |-> "ROLLED_BACK"])
  /\ job' = [kind |-> "rollback", stage |-> "open", target |-> r.target, id |-> id]
  /\ UNCHANGED <<records, wheel, recordFile, wheelFile, cycles, unpersisted, unread,
                 missing, answered, stack, disordered>>

(***************************************************************************)
(* rollback_adaptation takes any record it has, in any order and as often  *)
(* as it is asked.  The seed has no snapshot: nothing is restored for it.  *)
(***************************************************************************)
RollBack(id) ==
  LET r == records[id]
      inOrder == stack[r.target] # <<>> /\ Last(stack[r.target]) = id IN
  /\ job = Idle
  /\ Len(log) < MaxLines
  /\ config' = IF r.snapshot = NoSnapshot THEN config
               ELSE [config EXCEPT ![r.target] = r.snapshot]
  /\ records' = [records EXCEPT ![id].lifecycle = "ROLLED_BACK"]
  /\ RecordKnowledge([id |-> id, outcome |-> "ROLLED_BACK"])
  /\ job' = [kind |-> "rollback", stage |-> "open", target |-> r.target, id |-> id]
  /\ stack' = IF inOrder THEN [stack EXCEPT ![r.target] = Front(@)] ELSE stack
  /\ disordered' = IF inOrder \/ id = Seed THEN disordered ELSE disordered \cup {r.target}
  /\ UNCHANGED <<wheel, recordFile, wheelFile, cycles, unpersisted, unread, missing,
                 answered>>

(***************************************************************************)
(* _persist_adaptation, first half: opening the file empties it.  When it  *)
(* cannot be opened the old contents stay and nobody is told.              *)
(***************************************************************************)
OpenRecordFile ==
  /\ job.stage = "open"
  /\ \/ /\ recordFile' = [recordFile EXCEPT ![job.id] = Torn]
        /\ job' = [job EXCEPT !.stage = "dump"]
        /\ UNCHANGED <<unpersisted, failures>>
     \/ /\ WriteFails
        /\ job' = [job EXCEPT !.stage = "turn"]
        /\ unpersisted' = unpersisted \cup {job.id}
        /\ UNCHANGED recordFile
  /\ UNCHANGED <<memoryVars, log, wheelFile, cycles, unsaved, unread, missing, answered,
                 stack, disordered>>

(***************************************************************************)
(* Second half: the record is written out, or the disk is full.            *)
(***************************************************************************)
DumpRecord ==
  /\ job.stage = "dump"
  /\ job' = [job EXCEPT !.stage = "turn"]
  /\ \/ /\ recordFile' = [recordFile EXCEPT ![job.id] = records[job.id]]
        /\ UNCHANGED <<unpersisted, failures>>
     \/ /\ WriteFails
        /\ unpersisted' = unpersisted \cup {job.id}
        /\ UNCHANGED recordFile
  /\ UNCHANGED <<memoryVars, log, wheelFile, cycles, unsaved, unread, missing, answered,
                 stack, disordered>>

(***************************************************************************)
(* The wheel shows the outcome and the caller gets the answer; the seed is *)
(* put in without either.                                                  *)
(***************************************************************************)
Finish ==
  /\ job.stage = "turn"
  /\ CASE job.kind = "seed" -> UNCHANGED <<wheel, wheelFile, failures>>
       [] job.kind = "cycle" -> TransitionTo("EVOLUTION_COMPLETE")
       [] job.kind = "rollback" -> TransitionTo("ROLLBACK")
  /\ job' = Idle
  /\ answered' = IF job.kind = "rollback" THEN answered \cup {job.id} ELSE answered
  /\ UNCHANGED <<config, records, knowledge, recordFile, log, cycles, lossVars,
                 stack, disordered>>

----------------------------------------------------------------------------
(* The specification *)

Init ==
  /\ job = Down
  /\ config = Defaults /\ records = <<>> /\ knowledge = <<>> /\ wheel = NewWheel
  /\ unread = {} /\ missing = {} /\ stack = Undeployed /\ disordered = {}
  /\ recordFile = [id \in Ids |-> NoFile]
  /\ log = <<>>
  /\ wheelFile = NewWheel
  /\ cycles = 0 /\ failures = 0
  /\ unsaved = {} /\ unpersisted = {} /\ answered = {}

Next ==
  \/ Start
  \/ Crash
  \/ \E t \in Targets : BeginCycle(t)
  \/ TurnWheel
  \/ Deploy
  \/ \E id \in DOMAIN records : RollBack(id)
  \/ OpenRecordFile
  \/ DumpRecord
  \/ Finish

Spec == Init /\ [][Next]_vars

----------------------------------------------------------------------------
(* Properties *)

(***************************************************************************)
(* Types of the engine's memory, of its files and of the request.          *)
(***************************************************************************)
TypeOK ==
  /\ config \in [Targets -> Slices]
  /\ DOMAIN records \subseteq Ids
  /\ \A id \in DOMAIN records : records[id] \in Record
  /\ knowledge \in Seq(Entry)
  /\ wheel \in [state : WheelStates, evolutions : Nat]
  /\ job \in Job
  /\ recordFile \in [Ids -> Record \cup {NoFile, Torn}]
  /\ log \in Seq(Entry \cup {Cut, Garbled})
  /\ wheelFile \in [state : WheelStates, evolutions : Nat]
  /\ cycles \in 0 .. MaxCycles /\ failures \in 0 .. MaxFailures
  /\ unsaved \subseteq Entry
  /\ unpersisted \subseteq Ids /\ unread \subseteq Nat /\ missing \subseteq Ids
  /\ answered \subseteq Ids
  /\ stack \in [Targets -> Seq(Ids)]
  /\ disordered \subseteq Targets

Known(id, outcome) ==
  LET entry == [id |-> id, outcome |-> outcome] IN entry \in Lines \cup unsaved

(***************************************************************************)
(* "Rollback is memory": whatever a record file says about an adaptation,  *)
(* the knowledge file has said before, so that a crash never leaves a      *)
(* deployment or a rollback on disk that nothing was learnt from.  Only an *)
(* entry the file system refused is missing.                               *)
(***************************************************************************)
OutcomesAreRemembered ==
  \A id \in Ids : Readable(id) =>
    /\ recordFile[id].lifecycle = "DEPLOYED" => Known(id, "ACCEPTED_ACTIVE")
    /\ recordFile[id].lifecycle = "ROLLED_BACK" => Known(id, "ROLLED_BACK")

(***************************************************************************)
(* Over crashes and restarts, the running process knows every entry of the *)
(* knowledge file but those behind a line it cannot parse and those a      *)
(* failed read kept from it when it started, and nothing that the file has *)
(* neither got nor been refused (aei.py:199-220): what it learns after a   *)
(* cut-off line is lost to the next run only.                              *)
(***************************************************************************)
KnowledgeIsReadBack ==
  job.stage # "down" =>
    /\ Range(knowledge) \subseteq Lines \cup unsaved
    /\ \A i \in DOMAIN log :
         \/ log[i] \in Range(knowledge)
         \/ i \in unread
         \/ \E j \in 1 .. i : log[j] \notin Entry

(***************************************************************************)
(* A rollback the caller was told of is final: no crash, restart, later    *)
(* rollback or cycle brings the adaptation back as deployed, neither in    *)
(* memory nor on disk.  Only a write of its record that failed, or the     *)
(* seed put in over a file no start could read, undoes it on disk, and the *)
(* process does not know of it when it could not read its record.          *)
(***************************************************************************)
RollbacksAreFinal ==
  \A id \in answered \ unpersisted :
    /\ \/ Readable(id) /\ recordFile[id].lifecycle = "ROLLED_BACK"
       \/ job.stage = "dump" /\ job.id = id
    /\ job.stage # "down" /\ id \notin missing =>
         id \in DOMAIN records /\ records[id].lifecycle = "ROLLED_BACK"

(***************************************************************************)
(* The wheel's evolution counter never runs ahead of the evolutions: over  *)
(* all crashes it counts no more than the accepted adaptations.            *)
(***************************************************************************)
Accepted == {id \in Ids : Known(id, "ACCEPTED_ACTIVE")}
EvolutionsAreBacked ==
  wheel.evolutions <= Cardinality(Accepted) /\ wheelFile.evolutions <= Cardinality(Accepted)

(***************************************************************************)
(* As long as the rollbacks of a target come in the reverse order of its   *)
(* deployments, its configuration is the one those still deployed amount   *)
(* to, and the default when none is left.                                  *)
(***************************************************************************)
OrderlyRollbacksRestore ==
  job.stage # "down" =>
    \A t \in Targets \ disordered :
      config[t] = IF stack[t] = <<>> \/ t \in Inert THEN "default" ELSE "evolved"

(***************************************************************************)
(* "Adaptation restored to baseline" (adaptive/aei.py): when all           *)
(* adaptations of a target are rolled back, its configuration is the       *)
(* default one.                                                            *)
(***************************************************************************)
RolledBackMeansBaseline ==
  job.stage = "idle" =>
    \A t \in Targets :
      (\A id \in DOMAIN records : records[id].target = t => records[id].lifecycle # "DEPLOYED")
      => config[t] = "default"
=============================================================================
