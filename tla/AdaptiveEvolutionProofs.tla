---------------------- MODULE AdaptiveEvolutionProofs -----------------------
(***************************************************************************)
(* Proofs about AdaptiveEvolution: all its safety properties, over any     *)
(* number of cycles, crashes and failing writes.                           *)
(***************************************************************************)
EXTENDS AdaptiveEvolution, FiniteSetTheorems, WellFoundedInduction, SequenceTheorems, TLAPS

----------------------------------------------------------------------------
(* Constants and files *)

LEMMA IdFacts ==
  /\ MaxCycles \in Nat /\ MaxFailures \in Nat
  /\ Ids = 0 .. MaxCycles /\ Seed = 0 /\ Seed \in Ids
  /\ SeedTarget \in Targets /\ SeedTarget \notin Inert
BY BoundsAssumption, TargetsAssumption DEF Ids, Seed

LEMMA LinesApart ==
  /\ Cut \notin Entry /\ Garbled \notin Entry
  /\ NoFile \notin Record /\ Torn \notin Record /\ NoFile # Torn
<1>1. /\ Cut.outcome = "cut off" /\ Garbled.outcome = "garbled"
      /\ \A e \in Entry : e.outcome \in {"ACCEPTED_ACTIVE", "ROLLED_BACK"}
  BY DEF Cut, Garbled, Entry
<1>2. /\ NoFile.lifecycle = "no file" /\ Torn.lifecycle = "cut off"
      /\ \A r \in Record : r.lifecycle \in {"BASELINE", "DEPLOYED", "ROLLED_BACK"}
  BY DEF NoFile, Torn, Record
<1> QED BY <1>1, <1>2

LEMMA SeedFacts ==
  /\ SeedRecord \in Record
  /\ SeedRecord.lifecycle = "BASELINE" /\ SeedRecord.snapshot = NoSnapshot
BY IdFacts DEF SeedRecord, Record

LEMMA Appended ==
  ASSUME NEW S, NEW s \in Seq(S), NEW x \in S
  PROVE  /\ Append(s, x) \in Seq(S) /\ Len(Append(s, x)) = Len(s) + 1
         /\ Append(s, x)[Len(s) + 1] = x
         /\ \A k \in DOMAIN s : k \in DOMAIN Append(s, x) /\ Append(s, x)[k] = s[k]
         /\ \A k \in DOMAIN Append(s, x) : k \in DOMAIN s \/ k = Len(s) + 1
         /\ Len(s) + 1 \in DOMAIN Append(s, x) /\ Len(s) + 1 \notin DOMAIN s
         /\ Append(s, x) # <<>>
OBVIOUS

LEMMA FrontFacts ==
  ASSUME NEW S, NEW s \in Seq(S), s # <<>>
  PROVE  /\ Front(s) \in Seq(S) /\ Len(Front(s)) = Len(s) - 1 /\ Len(s) \in Nat \ {0}
         /\ DOMAIN Front(s) = 1 .. Len(s) - 1 /\ DOMAIN s = 1 .. Len(s)
         /\ \A k \in 1 .. Len(s) - 1 : Front(s)[k] = s[k]
         /\ Last(s) = s[Len(s)] /\ Len(s) \in DOMAIN s
<1>1. Len(s) \in Nat /\ DOMAIN s = 1 .. Len(s) /\ Len(s) # 0 BY LenProperties
<1>2. /\ Front(s) \in Seq(S) /\ Len(Front(s)) = Len(s) - 1
      /\ \A k \in 1 .. Len(s) - 1 : Front(s)[k] = s[k]
  BY <1>1, SubSeqProperties DEF Front
<1>3. DOMAIN Front(s) = 1 .. Len(s) - 1 BY <1>2, LenProperties
<1> QED BY <1>1, <1>2, <1>3 DEF Last

\* The last line gives way to another.
LEMMA LastReplaced ==
  ASSUME NEW S, NEW s \in Seq(S), s # <<>>, NEW x \in S
  PROVE  /\ Append(Front(s), x) \in Seq(S)
         /\ DOMAIN Append(Front(s), x) = DOMAIN s
         /\ \A k \in DOMAIN s : IF k = Len(s) THEN Append(Front(s), x)[k] = x
                                ELSE Append(Front(s), x)[k] = s[k]
<1> DEFINE F == Front(s)
           H == Append(F, x)
<1>1. /\ F \in Seq(S) /\ Len(F) = Len(s) - 1 /\ Len(s) \in Nat \ {0}
      /\ DOMAIN F = 1 .. Len(s) - 1 /\ DOMAIN s = 1 .. Len(s)
      /\ \A k \in 1 .. Len(s) - 1 : F[k] = s[k]
  BY FrontFacts
<1> HIDE DEF F
<1>2. /\ H \in Seq(S) /\ Len(H) = Len(F) + 1 /\ H[Len(F) + 1] = x
      /\ \A k \in DOMAIN F : H[k] = F[k]
  BY <1>1, Appended
<1> HIDE DEF H
<1>3. DOMAIN H = 1 .. Len(H) BY <1>2, LenProperties
<1>4. Len(H) = Len(s) /\ Len(F) + 1 = Len(s) BY <1>1, <1>2
<1>5. \A k \in DOMAIN s : k = Len(s) \/ k \in 1 .. Len(s) - 1 BY <1>1
<1> QED BY <1>1, <1>2, <1>3, <1>4, <1>5 DEF F, H

(***************************************************************************)
(* What any of the outcomes of record_knowledge does to the knowledge, in  *)
(* memory and in the file.                                                 *)
(***************************************************************************)
Filed == {e \in Entry : e \in Lines \cup unsaved}

Remembered(entry) ==
  /\ knowledge' = Append(knowledge, entry)
  /\ Filed' = Filed \cup {entry}
  /\ \A i \in DOMAIN log :
       i \in DOMAIN log' /\ (log'[i] = log[i] \/ (log[i] \notin Entry /\ log'[i] \notin Entry))
  /\ \A i \in DOMAIN log' : i \in DOMAIN log \/ log'[i] = entry \/ log'[i] \notin Entry

LEMMA KnowledgeIsRecorded ==
  ASSUME TypeOK, NEW entry \in Entry, RecordKnowledge(entry)
  PROVE  /\ Remembered(entry)
         /\ knowledge' \in Seq(Entry)
         /\ log' \in Seq(Entry \cup {Cut, Garbled})
         /\ unsaved' \subseteq Entry
         /\ failures' \in 0 .. MaxFailures
<1> DEFINE L == Entry \cup {Cut, Garbled}
<1>1. /\ log \in Seq(L) /\ knowledge \in Seq(Entry) /\ unsaved \subseteq Entry
      /\ failures \in 0 .. MaxFailures /\ MaxFailures \in Nat
  BY IdFacts DEF TypeOK
<1>2. /\ entry \in L /\ Cut \in L /\ Garbled \in L
      /\ Cut \notin Entry /\ Garbled \notin Entry
  BY LinesApart
<1> HIDE DEF L
<1>3. knowledge' = Append(knowledge, entry) /\ knowledge' \in Seq(Entry)
  BY <1>1, Appended DEF RecordKnowledge
<1>4. WriteFails => failures' \in 0 .. MaxFailures BY <1>1 DEF WriteFails
<1>5. ASSUME NEW x \in L, log' = Append(log, x),
             \/ x = entry /\ unsaved' = unsaved
             \/ x \notin Entry /\ unsaved' = unsaved \cup {entry}
      PROVE  Remembered(entry) /\ log' \in Seq(L) /\ unsaved' \subseteq Entry
  <2>1. /\ log' \in Seq(L) /\ log'[Len(log) + 1] = x /\ Len(log) + 1 \in DOMAIN log'
        /\ \A k \in DOMAIN log : k \in DOMAIN log' /\ log'[k] = log[k]
        /\ \A k \in DOMAIN log' : k \in DOMAIN log \/ k = Len(log) + 1
    BY <1>1, <1>5, Appended
  <2>2. Lines' = Lines \cup {x} BY <2>1 DEF Lines, Range
  <2>3. Filed' = Filed \cup {entry} BY <1>1, <1>5, <2>2 DEF Filed
  <2> QED BY <1>1, <1>3, <1>5, <2>1, <2>3 DEF Remembered
<1>6. CASE log' = Append(log, entry) /\ UNCHANGED <<unsaved, failures>>
  BY <1>1, <1>2, <1>3, <1>5, <1>6 DEF L
<1>7. CASE /\ log # <<>> /\ Last(log) = Cut
           /\ log' = Append(Front(log), Garbled)
           /\ unsaved' = unsaved \cup {entry} /\ UNCHANGED failures
  <2>1. /\ log' \in Seq(L) /\ DOMAIN log' = DOMAIN log
        /\ \A k \in DOMAIN log : IF k = Len(log) THEN log'[k] = Garbled ELSE log'[k] = log[k]
    BY <1>1, <1>2, <1>7, LastReplaced
  <2>2. Len(log) \in DOMAIN log /\ log[Len(log)] = Cut
    BY <1>1, <1>7, FrontFacts
  <2>3. \A e \in Entry : e \in Lines' <=> e \in Lines
    BY <1>2, <2>1, <2>2 DEF Lines, Range
  <2>4. Filed' = Filed \cup {entry} BY <1>7, <2>3 DEF Filed
  <2>5. unsaved' \subseteq Entry BY <1>1, <1>7
  <2> QED BY <1>1, <1>2, <1>3, <1>7, <2>1, <2>2, <2>4, <2>5 DEF Remembered, L
<1>8. CASE WriteFails /\ UNCHANGED log /\ unsaved' = unsaved \cup {entry}
  <2>1. Filed' = Filed \cup {entry} BY <1>8 DEF Filed, Lines
  <2>2. unsaved' \subseteq Entry BY <1>1, <1>8
  <2> QED BY <1>1, <1>3, <1>4, <1>8, <2>1, <2>2 DEF Remembered, L
<1>9. CASE WriteFails /\ log' = Append(log, Cut) /\ unsaved' = unsaved \cup {entry}
  BY <1>1, <1>2, <1>3, <1>4, <1>5, <1>9 DEF L
<1> QED BY <1>6, <1>7, <1>8, <1>9 DEF RecordKnowledge

(***************************************************************************)
(* _load_memory finds a longest prefix of entries: the lengths up to the   *)
(* end of the file that are too long to load, or all of it, have a         *)
(* smallest.  A read that fails ends after any number of its lines.        *)
(***************************************************************************)
LEMMA KnowledgeIsLoaded ==
  ASSUME log \in Seq(Entry \cup {Cut, Garbled})
  PROVE  /\ LoadedKnowledge \in Seq(Entry)
         /\ \A lines \in 0 .. Len(LoadedKnowledge) :
              LET read == SubSeq(LoadedKnowledge, 1, lines) IN
              /\ read \in Seq(Entry) /\ Range(read) \subseteq Lines
              /\ \A i \in DOMAIN log : \/ log[i] \in Range(read)
                                     \/ i \in lines + 1 .. Len(LoadedKnowledge)
                                     \/ \E j \in 1 .. i : log[j] \notin Entry
<1> DEFINE N == Len(log)
           Clean(n) == \A i \in 1 .. n : log[i] \in Entry
           Longest(n) == Clean(n) /\ (n < N => ~Clean(n + 1))
           end == CHOOSE n \in 0 .. N : Longest(n)
           stops == {n \in Nat : n >= N \/ ~Clean(n + 1)}
<1>1. N \in Nat /\ DOMAIN log = 1 .. N BY LenProperties
<1>2. \E n \in 0 .. N : Longest(n)
  <2>1. N \in stops /\ stops \in SUBSET Nat BY <1>1
  <2>2. \E m \in stops : \A n \in stops : m <= n
    <3> DEFINE R == OpToRel(<, Nat)
    <3>1. IsWellFoundedOn(R, Nat) BY NatLessThanWellFounded
    <3>2. \A m, n \in Nat : m < n => <<m, n>> \in R BY DEF OpToRel
    <3> HIDE DEF R, stops
    <3>3. PICK m \in stops : \A n \in stops : ~ (<<n, m>> \in R) BY <2>1, <3>1, WFMin
    <3>4. ASSUME NEW n \in stops PROVE m <= n
      <4>1. m \in Nat /\ n \in Nat BY <2>1
      <4>2. ~ (n < m) BY <3>2, <3>3, <4>1
      <4> QED BY <4>1, <4>2
    <3> QED BY <3>4
  <2>3. PICK m \in stops : \A n \in stops : m <= n BY <2>2
  <2>4. m \in 0 .. N BY <1>1, <2>1, <2>3
  <2>5. \A n \in 0 .. m : Clean(n)
    <3>1. ASSUME NEW i \in 1 .. m, log[i] \notin Entry PROVE FALSE
      <4>1. i - 1 \in Nat /\ i - 1 < m /\ (i - 1) + 1 = i /\ i \in 1 .. i BY <2>4
      <4>2. ~Clean((i - 1) + 1) BY <3>1, <4>1
      <4>3. i - 1 \in stops BY <4>1, <4>2
      <4> QED BY <2>3, <2>4, <4>1, <4>3
    <3> QED BY <2>4, <3>1
  <2>6. Longest(m) BY <1>1, <2>3, <2>4, <2>5
  <2> QED BY <2>4, <2>6
<1>3. end \in 0 .. N /\ Longest(end) BY <1>2
<1> HIDE DEF end
<1>4. LoadedKnowledge = SubSeq(log, 1, end) BY DEF LoadedKnowledge, end
<1>5. /\ end \in Nat /\ end <= N /\ \A i \in 1 .. end : i \in 1 .. N /\ log[i] \in Entry
  BY <1>1, <1>3
<1>6. /\ Len(SubSeq(log, 1, end)) = end
      /\ SubSeq(log, 1, end) \in Seq(Entry \cup {Cut, Garbled})
      /\ \A i \in 1 .. end : SubSeq(log, 1, end)[i] = log[i]
  BY <1>1, <1>5, SubSeqProperties
<1>7. DOMAIN LoadedKnowledge = 1 .. end BY <1>4, <1>6, LenProperties
<1>8. LoadedKnowledge = [i \in 1 .. end |-> log[i]]
  BY <1>4, <1>6, <1>7, LenProperties
<1>9. LoadedKnowledge \in Seq(Entry) BY <1>5, <1>8
<1>10. Len(LoadedKnowledge) = end BY <1>5, <1>7, <1>9, LenProperties
<1>11. ASSUME NEW lines \in 0 .. end
       PROVE  LET read == SubSeq(LoadedKnowledge, 1, lines) IN
              /\ read \in Seq(Entry) /\ Range(read) \subseteq Lines
              /\ \A i \in DOMAIN log : \/ log[i] \in Range(read)
                                     \/ i \in lines + 1 .. end
                                     \/ \E j \in 1 .. i : log[j] \notin Entry
  <2> DEFINE read == SubSeq(LoadedKnowledge, 1, lines)
  <2>1. lines \in Nat /\ lines <= end BY <1>5
  <2>2. /\ read \in Seq(Entry) /\ Len(read) = lines
        /\ \A i \in 1 .. lines : read[i] = LoadedKnowledge[i]
    BY <1>5, <1>9, <1>10, <2>1, SubSeqProperties
  <2> HIDE DEF read
  <2>3. DOMAIN read = 1 .. lines BY <2>2, LenProperties
  <2>4. \A i \in 1 .. lines : read[i] = log[i] /\ i \in DOMAIN log
    BY <1>1, <1>5, <1>8, <2>1, <2>2
  <2>5. Range(read) \subseteq Lines BY <2>3, <2>4 DEF Lines, Range
  <2>6. ASSUME NEW i \in DOMAIN log
        PROVE  \/ log[i] \in Range(read)
               \/ i \in lines + 1 .. end
               \/ \E j \in 1 .. i : log[j] \notin Entry
    <3>1. CASE i <= lines
      <4>1. i \in 1 .. lines BY <1>1, <2>1, <3>1
      <4> QED BY <2>3, <2>4, <4>1 DEF Range
    <3>2. CASE lines < i /\ i <= end BY <1>1, <2>1, <3>2
    <3>3. CASE end < i
      <4>1. ~Clean(end + 1) BY <1>1, <1>3, <1>5, <3>3
      <4>2. PICK j \in 1 .. end + 1 : log[j] \notin Entry BY <4>1
      <4>3. j \in 1 .. i BY <1>1, <1>5, <3>3
      <4> QED BY <4>2, <4>3
    <3> QED BY <1>1, <1>5, <2>1, <3>1, <3>2, <3>3
  <2> QED BY <2>2, <2>5, <2>6 DEF read
<1> QED BY <1>9, <1>10, <1>11

----------------------------------------------------------------------------
(* Requests and identities *)

Begun == job.stage \in {"OBSERVING", "DIAGNOSING", "TESTING", "VALIDATING", "memorize"}
Writing == job.stage \in {"open", "dump", "turn"}
Outcome == [seed |-> "BASELINE", cycle |-> "DEPLOYED", rollback |-> "ROLLED_BACK"]

(***************************************************************************)
(* The request in hand: a cycle has the newest identity, and what is being *)
(* written is a record in memory with the request's outcome.               *)
(***************************************************************************)
JobInv ==
  /\ job.kind = "none" <=> job.stage \in {"down", "idle"}
  /\ Begun => job.kind = "cycle"
  /\ job.kind = "cycle" => job.id = cycles /\ cycles # 0
  /\ job.kind = "seed" => job.id = Seed
  /\ Writing => /\ job.id \in DOMAIN records
                /\ job.kind # "none" /\ records[job.id].lifecycle = Outcome[job.kind]

(***************************************************************************)
(* An adaptation has left no trace before its cycle has come to deploying. *)
(***************************************************************************)
Used(id) ==
  \/ id \in DOMAIN records \/ recordFile[id] # NoFile
  \/ Known(id, "ACCEPTED_ACTIVE")
FreshInv == \A id \in Ids : Used(id) => id <= cycles /\ (Begun => id # job.id)

IInv == TypeOK /\ JobInv /\ FreshInv

(***************************************************************************)
(* What a record in memory says is known as well.                          *)
(***************************************************************************)
MemoryIsRemembered ==
  \A id \in DOMAIN records :
    /\ records[id].lifecycle = "DEPLOYED" => Known(id, "ACCEPTED_ACTIVE")
    /\ records[id].lifecycle = "ROLLED_BACK" => Known(id, "ROLLED_BACK")

(***************************************************************************)
(* Once written out, the record of the request in hand is the one in       *)
(* memory.                                                                 *)
(***************************************************************************)
WrittenOut ==
  job.stage = "turn" /\ job.id \notin unpersisted => recordFile[job.id] = records[job.id]

(***************************************************************************)
(* A record the process could not read has its file, and no other place in *)
(* memory than the seed put in for it.                                     *)
(***************************************************************************)
MissingInv ==
  \A id \in missing :
    recordFile[id] # NoFile /\ (id \in DOMAIN records => id \in unpersisted)

(***************************************************************************)
(* A deployment is counted only after it has become known.                 *)
(***************************************************************************)
Uncounted == IF job.kind = "cycle" /\ Writing THEN 1 ELSE 0
CountInv ==
  /\ wheel.evolutions + Uncounted <= Cardinality(Accepted)
  /\ wheelFile.evolutions + Uncounted <= Cardinality(Accepted)

(***************************************************************************)
(* The snapshots of the deployments not undone yet: the k-th of a target   *)
(* replaced the default if it was the first, an evolved slice otherwise.   *)
(***************************************************************************)
Slice(t, depth) == IF depth = 0 \/ t \in Inert THEN "default" ELSE "evolved"

StackInv ==
  job.stage # "down" =>
    \A t \in Targets \ disordered :
      /\ config[t] = Slice(t, Len(stack[t]))
      /\ \A k \in DOMAIN stack[t] :
           /\ stack[t][k] \in DOMAIN records
           /\ records[stack[t][k]].target = t
           /\ records[stack[t][k]].snapshot = Slice(t, k - 1)

SeedHasNoSnapshot ==
  /\ Seed \in DOMAIN records => records[Seed].snapshot = NoSnapshot
  /\ Readable(Seed) => recordFile[Seed].snapshot = NoSnapshot

----------------------------------------------------------------------------
(* Types, requests and identities are kept *)

LEMMA StageFacts ==
  /\ CycleStates = <<"OBSERVING", "DIAGNOSING", "TESTING", "VALIDATING">>
  /\ DOMAIN CycleStates = 1 .. 4 /\ Len(CycleStates) = 4
  /\ Range(CycleStates) = {"OBSERVING", "DIAGNOSING", "TESTING", "VALIDATING"}
  /\ \A i \in 1 .. 4 : CycleStates[i] \in WheelStates /\ CycleStates[i] \in Stages
  /\ Stages = {"down", "idle", "memorize", "open", "dump", "turn",
               "OBSERVING", "DIAGNOSING", "TESTING", "VALIDATING"}
<1>1. DOMAIN CycleStates = 1 .. 4 /\ Len(CycleStates) = 4 BY DEF CycleStates
<1>2. 1 .. 4 = {1, 2, 3, 4} OBVIOUS
<1>3. /\ CycleStates[1] = "OBSERVING" /\ CycleStates[2] = "DIAGNOSING"
      /\ CycleStates[3] = "TESTING" /\ CycleStates[4] = "VALIDATING"
  BY DEF CycleStates
<1>4. Range(CycleStates) = {"OBSERVING", "DIAGNOSING", "TESTING", "VALIDATING"}
  BY <1>1, <1>2, <1>3 DEF Range
<1> QED BY <1>1, <1>2, <1>3, <1>4 DEF WheelStates, Stages, CycleStates

LEMMA JobFacts ==
  /\ Idle \in Job /\ Idle.kind = "none" /\ Idle.stage = "idle"
  /\ Down \in Job /\ Down.kind = "none" /\ Down.stage = "down"
BY IdFacts, StageFacts DEF Idle, Down, Job

\* What a process starts with.
LEMMA NewFacts ==
  /\ Defaults \in [Targets -> Slices] /\ Undeployed \in [Targets -> Seq(Ids)]
  /\ NewWheel \in [state : WheelStates, evolutions : Nat] /\ NewWheel.evolutions = 0
  /\ <<>> \in Seq(Entry)
<1>1. <<>> \in Seq(Ids) /\ <<>> \in Seq(Entry) OBVIOUS
<1>2. Undeployed = [t \in Targets |-> <<>>] BY DEF Undeployed
<1>3. Undeployed \in [Targets -> Seq(Ids)] BY <1>1, <1>2
<1> QED BY <1>1, <1>3 DEF Defaults, Slices, NewWheel, WheelStates

LEMMA TransitionFacts ==
  ASSUME TypeOK, NEW state \in WheelStates, TransitionTo(state)
  PROVE  /\ wheel' \in [state : WheelStates, evolutions : Nat]
         /\ wheelFile' \in [state : WheelStates, evolutions : Nat]
         /\ failures' \in 0 .. MaxFailures
         /\ wheelFile' = wheel' \/ wheelFile' = wheelFile
         /\ wheel'.evolutions = wheel.evolutions \/
              (state = "EVOLUTION_COMPLETE" /\ wheel'.evolutions = wheel.evolutions + 1)
BY IdFacts DEF TypeOK, TransitionTo, WriteFails

LEMMA FailureFacts ==
  ASSUME TypeOK, WriteFails
  PROVE  failures' \in 0 .. MaxFailures
BY IdFacts DEF TypeOK, WriteFails

\* Known, in the set of all that is filed.
LEMMA KnownFacts ==
  ASSUME TypeOK, NEW id \in Ids, NEW outcome \in {"ACCEPTED_ACTIVE", "ROLLED_BACK"}
  PROVE  /\ [id |-> id, outcome |-> outcome] \in Entry
         /\ Known(id, outcome) <=> [id |-> id, outcome |-> outcome] \in Filed
BY DEF Known, Filed, Entry

LEMMA InitTypes == Init => IInv
<1> SUFFICES ASSUME Init PROVE IInv OBVIOUS
<1>1. TypeOK
  <2>1. wheel \in [state : WheelStates, evolutions : Nat] /\ wheelFile = wheel
    BY DEF Init, NewWheel, WheelStates
  <2>2. /\ config \in [Targets -> Slices] /\ job \in Job
        /\ recordFile \in [Ids -> Record \cup {NoFile, Torn}]
    BY JobFacts DEF Init, Slices, Defaults
  <2>3. knowledge = <<>> /\ log = <<>> /\ stack = [t \in Targets |-> <<>>]
    BY DEF Init, Undeployed
  <2>4. /\ knowledge \in Seq(Entry) /\ log \in Seq(Entry \cup {Cut, Garbled})
        /\ stack \in [Targets -> Seq(Ids)]
    BY <2>3
  <2>5. DOMAIN records = {} BY DEF Init
  <2> QED BY <2>1, <2>2, <2>4, <2>5, IdFacts DEF Init, TypeOK
<1>2. JobInv BY JobFacts DEF Init, JobInv, Begun, Writing
<1>3. FreshInv
  <2>1. \A id \in Ids : ~Known(id, "ACCEPTED_ACTIVE")
    BY DEF Init, Known, Lines, Range
  <2> QED BY <2>1 DEF Init, FreshInv, Used
<1> QED BY <1>1, <1>2, <1>3 DEF IInv

LEMMA StartFacts ==
  ASSUME IInv, Start
  PROVE  /\ job.stage = "down"
         /\ config' = Defaults /\ stack' = Undeployed /\ disordered' = {}
         /\ UNCHANGED <<recordFile, log, wheelFile, cycles, unsaved, answered>>
         /\ failures' \in 0 .. MaxFailures
         /\ wheel' \in {wheelFile, NewWheel}
         /\ \E lines \in 0 .. Len(LoadedKnowledge) :
              /\ knowledge' = SubSeq(LoadedKnowledge, 1, lines)
              /\ unread' = lines + 1 .. Len(LoadedKnowledge)
         /\ missing' \subseteq Loadable
         /\ \/ /\ records' = [id \in Loadable \ missing' |-> recordFile[id]]
               /\ job' = Idle /\ unpersisted' = unpersisted
            \/ /\ records' = [id \in {Seed} |-> SeedRecord]
               /\ job' = [Idle EXCEPT !.kind = "seed", !.stage = "open"]
               /\ missing' = Loadable
               /\ unpersisted' = unpersisted \cup (Loadable \cap {Seed})
<1>0. PICK readable \in {LoadedKnowledge}, loadable \in {Loadable} :
        \E lines \in 0 .. Len(readable), loaded \in SUBSET loadable,
           read \in {wheelFile, NewWheel} :
          /\ failures' = failures + Cardinality(loadable \ loaded)
                         + (IF lines = Len(readable) THEN 0 ELSE 1)
                         + (IF read = wheelFile THEN 0 ELSE 1)
          /\ failures' <= MaxFailures
          /\ config' = Defaults
          /\ knowledge' = SubSeq(readable, 1, lines)
          /\ wheel' = read
          /\ \/ /\ loaded # {}
                /\ records' = [id \in loaded |-> recordFile[id]]
                /\ job' = Idle
                /\ UNCHANGED unpersisted
             \/ /\ loaded = {}
                /\ records' = [id \in {Seed} |-> SeedRecord]
                /\ job' = [Idle EXCEPT !.kind = "seed", !.stage = "open"]
                /\ unpersisted' = unpersisted \cup (loadable \cap {Seed})
          /\ unread' = lines + 1 .. Len(readable)
          /\ missing' = loadable \ loaded
          /\ stack' = Undeployed
          /\ disordered' = {}
          /\ UNCHANGED <<fileVars, cycles, unsaved, answered>>
  BY Zenon DEF Start
<1>1. readable = LoadedKnowledge /\ loadable = Loadable OBVIOUS
<1>2. PICK lines \in 0 .. Len(readable), loaded \in SUBSET loadable,
           read \in {wheelFile, NewWheel} :
        /\ failures' = failures + Cardinality(loadable \ loaded)
                         + (IF lines = Len(readable) THEN 0 ELSE 1)
                         + (IF read = wheelFile THEN 0 ELSE 1)
        /\ failures' <= MaxFailures
        /\ wheel' = read
        /\ knowledge' = SubSeq(readable, 1, lines)
        /\ unread' = lines + 1 .. Len(readable)
        /\ missing' = loadable \ loaded
        /\ \/ /\ records' = [id \in loaded |-> recordFile[id]]
              /\ job' = Idle /\ unpersisted' = unpersisted
           \/ /\ loaded = {}
              /\ records' = [id \in {Seed} |-> SeedRecord]
              /\ job' = [Idle EXCEPT !.kind = "seed", !.stage = "open"]
              /\ unpersisted' = unpersisted \cup (loadable \cap {Seed})
  BY <1>0
<1>3. Cardinality(loadable \ loaded) \in Nat
  <2>1. IsFiniteSet(Ids) BY IdFacts, FS_Interval DEF Ids
  <2>2. loadable \ loaded \subseteq Ids BY <1>1 DEF Loadable
  <2> QED BY <2>1, <2>2, FS_Subset, FS_CardinalityType
<1>4. failures' \in 0 .. MaxFailures BY <1>2, <1>3, IdFacts DEF IInv, TypeOK
<1>5. loaded = loadable \ missing' BY <1>2
<1>6. loaded = {} => missing' = loadable BY <1>2
<1>7. /\ job.stage = "down"
      /\ config' = Defaults /\ stack' = Undeployed /\ disordered' = {}
      /\ UNCHANGED <<recordFile, log, wheelFile, cycles, unsaved, answered>>
  BY DEF Start, fileVars
<1>8. \E k \in 0 .. Len(LoadedKnowledge) :
        /\ knowledge' = SubSeq(LoadedKnowledge, 1, k)
        /\ unread' = k + 1 .. Len(LoadedKnowledge)
  BY <1>1, <1>2
<1>9. /\ missing' \subseteq Loadable
      /\ \/ /\ records' = [id \in Loadable \ missing' |-> recordFile[id]]
            /\ job' = Idle /\ unpersisted' = unpersisted
         \/ /\ records' = [id \in {Seed} |-> SeedRecord]
            /\ job' = [Idle EXCEPT !.kind = "seed", !.stage = "open"]
            /\ missing' = Loadable
            /\ unpersisted' = unpersisted \cup (Loadable \cap {Seed})
  BY <1>1, <1>2, <1>5, <1>6
<1> QED BY <1>2, <1>4, <1>7, <1>8, <1>9

\* The lines the process knows of after it has started.
LEMMA StartReads ==
  ASSUME IInv, Start
  PROVE  /\ knowledge' \in Seq(Entry) /\ unread' \subseteq Nat
         /\ Range(knowledge') \subseteq Lines
         /\ \A i \in DOMAIN log : \/ log[i] \in Range(knowledge')
                                \/ i \in unread'
                                \/ \E j \in 1 .. i : log[j] \notin Entry
<1>1. PICK lines \in 0 .. Len(LoadedKnowledge) :
        /\ knowledge' = SubSeq(LoadedKnowledge, 1, lines)
        /\ unread' = lines + 1 .. Len(LoadedKnowledge)
  BY StartFacts
<1>2. unread' \subseteq Nat BY <1>1
<1> QED BY <1>1, <1>2, KnowledgeIsLoaded DEF IInv, TypeOK

LEMMA StartKeepsTypes ==
  ASSUME IInv, Start
  PROVE  IInv'
<1>0. TypeOK BY DEF IInv
<1>1. /\ config' \in [Targets -> Slices] /\ stack' \in [Targets -> Seq(Ids)]
      /\ disordered' \subseteq Targets /\ wheel' \in [state : WheelStates, evolutions : Nat]
  BY <1>0, NewFacts, StartFacts DEF TypeOK
<1>2. knowledge' \in Seq(Entry) /\ unread' \subseteq Nat BY StartReads
<1>3. /\ UNCHANGED <<recordFile, log, wheelFile, cycles, unsaved, answered>>
      /\ failures' \in 0 .. MaxFailures /\ missing' \subseteq Ids
  BY StartFacts DEF Loadable
<1>4. \A id \in Ids : Known(id, "ACCEPTED_ACTIVE")' = Known(id, "ACCEPTED_ACTIVE")
  BY <1>3 DEF Known, Lines
<1>5. CASE /\ records' = [id \in Loadable \ missing' |-> recordFile[id]]
           /\ job' = Idle /\ unpersisted' = unpersisted
  <2>1. /\ DOMAIN records' \subseteq Loadable /\ Loadable \subseteq Ids
        /\ \A id \in DOMAIN records' : records'[id] \in Record /\ recordFile[id] # NoFile
    BY <1>5, LinesApart DEF Loadable, Readable
  <2>2. TypeOK' BY <1>0, <1>1, <1>2, <1>3, <1>5, <2>1, JobFacts DEF TypeOK
  <2>3. JobInv' BY <1>5, JobFacts DEF JobInv, Begun, Writing
  <2>4. FreshInv' BY <1>3, <1>4, <1>5, <2>1, JobFacts DEF IInv, FreshInv, Used, Begun
  <2> QED BY <2>2, <2>3, <2>4 DEF IInv
<1>6. CASE /\ records' = [id \in {Seed} |-> SeedRecord]
           /\ job' = [Idle EXCEPT !.kind = "seed", !.stage = "open"]
           /\ unpersisted' = unpersisted \cup (Loadable \cap {Seed})
  <2>1. /\ DOMAIN records' = {Seed} /\ records'[Seed] = SeedRecord BY <1>6
  <2>2. /\ job' \in Job /\ job'.kind = "seed" /\ job'.stage = "open" /\ job'.id = Seed
    BY <1>6, IdFacts, StageFacts DEF Job, Idle
  <2>3. unpersisted' \subseteq Ids BY <1>0, <1>6, IdFacts DEF TypeOK
  <2>4. TypeOK' BY <1>0, <1>1, <1>2, <1>3, <2>1, <2>2, <2>3, SeedFacts, IdFacts DEF TypeOK
  <2>5. JobInv' BY <2>1, <2>2, SeedFacts DEF JobInv, Begun, Writing, Outcome
  <2>6. FreshInv'
    BY <1>0, <1>3, <1>4, <2>1, <2>2, IdFacts DEF IInv, FreshInv, Used, Begun, TypeOK
  <2> QED BY <2>4, <2>5, <2>6 DEF IInv
<1> QED BY <1>5, <1>6, StartFacts

LEMMA CrashFacts ==
  ASSUME Crash
  PROVE  /\ job.stage # "down" /\ job' = Down
         /\ config' = Defaults /\ DOMAIN records' = {} /\ knowledge' = <<>>
         /\ wheel' = NewWheel
         /\ unread' = {} /\ missing' = {} /\ stack' = Undeployed /\ disordered' = {}
         /\ unpersisted' = IF job.stage \in {"open", "dump"} THEN unpersisted \cup {job.id}
                           ELSE unpersisted
         /\ UNCHANGED <<recordFile, log, wheelFile, cycles, failures, unsaved, answered>>
BY DEF Crash, fileVars

LEMMA CrashKeepsTypes ==
  ASSUME IInv, Crash
  PROVE  IInv'
<1>1. config' \in [Targets -> Slices] /\ wheel' \in [state : WheelStates, evolutions : Nat]
  BY CrashFacts, NewFacts
<1>2. knowledge' \in Seq(Entry) /\ stack' \in [Targets -> Seq(Ids)]
  BY CrashFacts, NewFacts
<1>3. unpersisted' \subseteq Ids BY CrashFacts DEF IInv, TypeOK, Job
<1>4. TypeOK' BY <1>1, <1>2, <1>3, CrashFacts, JobFacts DEF IInv, TypeOK
<1>5. JobInv' BY CrashFacts, JobFacts DEF JobInv, Begun, Writing
<1>6. FreshInv' BY CrashFacts, JobFacts DEF IInv, FreshInv, Used, Begun, Known, Lines
<1> QED BY <1>4, <1>5, <1>6 DEF IInv

LEMMA BeginKeepsTypes ==
  ASSUME IInv, NEW t \in Targets, BeginCycle(t)
  PROVE  IInv'
<1>1. /\ UNCHANGED <<config, records, knowledge, wheel, recordFile, log, wheelFile,
                    failures, unsaved, unpersisted, unread, missing, answered, stack,
                    disordered>>
      /\ job' = [kind |-> "cycle", stage |-> "OBSERVING", target |-> t, id |-> cycles + 1]
      /\ cycles' = cycles + 1 /\ cycles < MaxCycles
  BY StageFacts DEF BeginCycle, memoryVars, fileVars, historyVars, lossVars, CycleStates
<1>2. cycles \in Nat /\ cycles' \in 0 .. MaxCycles /\ cycles + 1 \in Ids
  BY <1>1, IdFacts DEF IInv, TypeOK
<1>3. job' \in Job /\ job'.kind = "cycle" /\ job'.stage = "OBSERVING" /\ job'.id = cycles + 1
  BY <1>1, <1>2, StageFacts DEF Job
<1>4. TypeOK' BY <1>1, <1>2, <1>3 DEF IInv, TypeOK
<1>5. JobInv' BY <1>1, <1>2, <1>3 DEF JobInv, Begun, Writing
<1>6. FreshInv'
  <2>1. ASSUME NEW id \in Ids, Used(id)' PROVE id <= cycles
    <3>1. Used(id) BY <1>1, <2>1 DEF Used, Known, Lines
    <3> QED BY <3>1 DEF IInv, FreshInv
  <2>2. \A id \in Ids : id <= cycles => id <= cycles + 1 /\ id # cycles + 1
    BY <1>2, IdFacts
  <2> QED BY <1>1, <1>3, <2>1, <2>2 DEF FreshInv
<1> QED BY <1>4, <1>5, <1>6 DEF IInv

LEMMA TurnFacts ==
  ASSUME IInv, TurnWheel
  PROVE  /\ \E state \in WheelStates \ {"EVOLUTION_COMPLETE"} : TransitionTo(state)
         /\ job' \in Job /\ Begun /\ Begun'
         /\ job'.kind = job.kind /\ job'.id = job.id /\ job'.target = job.target
         /\ UNCHANGED <<config, records, knowledge, recordFile, log, cycles, unsaved,
                        unpersisted, unread, missing, answered, stack, disordered>>
<1>1. PICK i \in 1 .. 4 :
        /\ job.stage = CycleStates[i] /\ TransitionTo(CycleStates[i])
        /\ job' = [job EXCEPT !.stage = IF i < 4 THEN CycleStates[i + 1] ELSE "memorize"]
        /\ UNCHANGED <<config, records, knowledge, recordFile, log, cycles, unsaved,
                       unpersisted, unread, missing, answered, stack, disordered>>
  BY StageFacts DEF TurnWheel, lossVars
<1>2. i \in {1, 2, 3, 4} OBVIOUS
<1>3. \A j \in {1, 2, 3, 4} : CycleStates[j] \in {"OBSERVING", "DIAGNOSING", "TESTING", "VALIDATING"}
  BY DEF CycleStates
<1>4. CycleStates[i] \in WheelStates \ {"EVOLUTION_COMPLETE"} BY <1>2, <1>3, StageFacts
<1> DEFINE next == IF i < 4 THEN CycleStates[i + 1] ELSE "memorize"
<1>5. next \in {"OBSERVING", "DIAGNOSING", "TESTING", "VALIDATING", "memorize"}
  BY <1>2, <1>3
<1>6. next \in Stages BY <1>5, StageFacts
<1> HIDE DEF next
<1>7. job' = [job EXCEPT !.stage = next] /\ job \in Job BY <1>1 DEF next, IInv, TypeOK
<1>8. /\ job' \in Job /\ job'.stage = next
      /\ job'.kind = job.kind /\ job'.id = job.id /\ job'.target = job.target
  BY <1>6, <1>7 DEF Job
<1> QED BY <1>1, <1>2, <1>3, <1>4, <1>5, <1>8 DEF Begun

LEMMA TurnKeepsTypes ==
  ASSUME IInv, TurnWheel
  PROVE  IInv'
<1>1. /\ job' \in Job /\ Begun /\ Begun'
      /\ job'.kind = job.kind /\ job'.id = job.id
      /\ UNCHANGED <<config, records, knowledge, recordFile, log, cycles, unsaved,
                     unpersisted, unread, missing, answered, stack, disordered>>
  BY TurnFacts
<1>2. TypeOK'
  <2>1. PICK state \in WheelStates : TransitionTo(state) BY TurnFacts
  <2> QED BY <1>1, <2>1, TransitionFacts DEF IInv, TypeOK
<1>3. JobInv' BY <1>1 DEF IInv, JobInv, Begun, Writing
<1>4. FreshInv' BY <1>1 DEF IInv, FreshInv, Used, Known, Lines
<1> QED BY <1>2, <1>3, <1>4 DEF IInv

LEMMA DeployFacts ==
  ASSUME IInv, Deploy
  PROVE  /\ job.id \in Ids /\ job.id # Seed /\ job.target \in Targets /\ job.kind = "cycle"
         /\ Begun /\ job.id = cycles
         /\ job.id \notin DOMAIN records /\ recordFile[job.id] = NoFile
         /\ ~Known(job.id, "ACCEPTED_ACTIVE")
         /\ \E e \in Entry : /\ e.id = job.id /\ e.outcome = "ACCEPTED_ACTIVE"
                             /\ RecordKnowledge(e)
         /\ config' = IF job.target \in Inert THEN config
                      ELSE [config EXCEPT ![job.target] = "evolved"]
         /\ DOMAIN records' = DOMAIN records \cup {job.id}
         /\ \A id \in DOMAIN records : records'[id] = records[id]
         /\ records'[job.id] \in Record
         /\ records'[job.id].lifecycle = "DEPLOYED" /\ records'[job.id].target = job.target
         /\ records'[job.id].snapshot = config[job.target]
         /\ job' \in Job /\ job'.stage = "open" /\ job'.kind = job.kind /\ job'.id = job.id
         /\ stack' = [stack EXCEPT ![job.target] = Append(@, job.id)]
         /\ UNCHANGED <<wheel, recordFile, wheelFile, cycles, unpersisted, unread, missing,
                        answered, disordered>>
<1> DEFINE r == [target |-> job.target, snapshot |-> config[job.target], lifecycle |-> "DEPLOYED"]
           e == [id |-> job.id, outcome |-> "ACCEPTED_ACTIVE"]
<1>0. job \in Job /\ config \in [Targets -> Slices] BY DEF IInv, TypeOK
<1>1. /\ job.id \in Ids /\ job.target \in Targets /\ job.kind = "cycle"
      /\ job.stage = "memorize" /\ Begun
  BY <1>0 DEF Deploy, Job, Begun
<1>2. job.id = cycles /\ job.id # Seed BY <1>1, IdFacts DEF IInv, JobInv
<1>3. /\ job.id \notin DOMAIN records /\ recordFile[job.id] = NoFile
      /\ ~Known(job.id, "ACCEPTED_ACTIVE")
  BY <1>1 DEF IInv, FreshInv, Used
<1>4. /\ e \in Entry /\ e.id = job.id /\ e.outcome = "ACCEPTED_ACTIVE" /\ RecordKnowledge(e)
  BY <1>1 DEF Deploy, Entry
<1>5. r \in Record /\ r.lifecycle = "DEPLOYED" /\ r.target = job.target
      /\ r.snapshot = config[job.target]
  BY <1>0, <1>1 DEF Record
<1>6. records' = [id \in DOMAIN records \cup {job.id} |-> IF id = job.id THEN r ELSE records[id]]
  BY DEF Deploy
<1> HIDE DEF r, e
<1>7. /\ DOMAIN records' = DOMAIN records \cup {job.id} /\ records'[job.id] = r
      /\ \A id \in DOMAIN records : records'[id] = records[id]
  BY <1>3, <1>6
<1>8. job' \in Job /\ job'.stage = "open" /\ job'.kind = job.kind /\ job'.id = job.id
  BY <1>0, StageFacts DEF Deploy, Job
<1>9. /\ config' = IF job.target \in Inert THEN config
                   ELSE [config EXCEPT ![job.target] = "evolved"]
      /\ stack' = [stack EXCEPT ![job.target] = Append(@, job.id)]
      /\ UNCHANGED <<wheel, recordFile, wheelFile, cycles, unpersisted, unread, missing,
                        answered, disordered>>
  BY DEF Deploy
<1> QED BY <1>1, <1>2, <1>3, <1>4, <1>5, <1>7, <1>8, <1>9

\* What becomes known by an entry of an outcome.
LEMMA NewlyKnown ==
  ASSUME TypeOK, TypeOK', NEW e \in Entry, Remembered(e)
  PROVE  \A id \in Ids, outcome \in {"ACCEPTED_ACTIVE", "ROLLED_BACK"} :
           Known(id, outcome)' <=> Known(id, outcome) \/ (e.id = id /\ e.outcome = outcome)
<1>1. ASSUME NEW id \in Ids, NEW outcome \in {"ACCEPTED_ACTIVE", "ROLLED_BACK"}
      PROVE  Known(id, outcome)' <=> Known(id, outcome) \/ (e.id = id /\ e.outcome = outcome)
  <2> DEFINE k == [id |-> id, outcome |-> outcome]
  <2>1. k \in Entry /\ (k = e <=> (e.id = id /\ e.outcome = outcome)) BY DEF Entry
  <2>2. Known(id, outcome) <=> k \in Filed BY <2>1 DEF Known, Filed
  <2>3. Known(id, outcome)' <=> k \in Filed' BY <2>1 DEF Known, Filed
  <2>4. Filed' = Filed \cup {e} BY DEF Remembered
  <2> HIDE DEF k
  <2> QED BY <2>1, <2>2, <2>3, <2>4
<1> QED BY <1>1

LEMMA DeployKeepsTypes ==
  ASSUME IInv, Deploy
  PROVE  IInv'
<1> DEFINE j == job.id
           t == job.target
<1>1. /\ j \in Ids /\ t \in Targets /\ job.kind = "cycle" /\ j = cycles /\ j # Seed
      /\ DOMAIN records' = DOMAIN records \cup {j}
      /\ \A id \in DOMAIN records : records'[id] = records[id]
      /\ records'[j] \in Record /\ records'[j].lifecycle = "DEPLOYED"
      /\ job' \in Job /\ job'.stage = "open" /\ job'.kind = "cycle" /\ job'.id = j
      /\ UNCHANGED <<wheel, recordFile, wheelFile, cycles, unpersisted, unread, missing,
                        answered, disordered>>
  BY DeployFacts
<1>2. PICK e \in Entry : e.id = j /\ e.outcome = "ACCEPTED_ACTIVE" /\ RecordKnowledge(e)
  BY DeployFacts
<1>3. /\ Remembered(e) /\ knowledge' \in Seq(Entry) /\ unsaved' \subseteq Entry
      /\ log' \in Seq(Entry \cup {Cut, Garbled}) /\ failures' \in 0 .. MaxFailures
  BY <1>2, KnowledgeIsRecorded DEF IInv
<1>4. config' \in [Targets -> Slices]
  <2>1. config' = config \/ config' = [config EXCEPT ![t] = "evolved"] BY DeployFacts
  <2> QED BY <2>1 DEF IInv, TypeOK, Slices
<1>5. stack' \in [Targets -> Seq(Ids)]
  <2>1. stack \in [Targets -> Seq(Ids)] /\ stack' = [stack EXCEPT ![t] = Append(stack[t], j)]
    BY DeployFacts DEF IInv, TypeOK
  <2>2. Append(stack[t], j) \in Seq(Ids) BY <1>1, <2>1, Appended
  <2> QED BY <1>1, <2>1, <2>2
<1> HIDE DEF j, t
<1>6. TypeOK' BY <1>1, <1>3, <1>4, <1>5 DEF IInv, TypeOK
<1>7. JobInv' BY <1>1, IdFacts DEF JobInv, Begun, Writing, Outcome
<1>8. FreshInv'
  <2>1. ASSUME NEW id \in Ids, Used(id)' PROVE id <= cycles
    <3>1. Used(id) \/ id = j
      BY <1>1, <1>2, <1>3, <1>6, <2>1, NewlyKnown DEF Used, IInv
    <3>2. cycles <= cycles BY IdFacts DEF IInv, TypeOK
    <3> QED BY <1>1, <3>1, <3>2 DEF IInv, FreshInv
  <2>2. ~Begun' BY <1>1 DEF Begun
  <2> QED BY <1>1, <2>1, <2>2 DEF FreshInv
<1> QED BY <1>6, <1>7, <1>8 DEF IInv

LEMMA RollBackFacts ==
  ASSUME IInv, NEW id \in DOMAIN records, RollBack(id)
  PROVE  /\ id \in Ids /\ records[id] \in Record /\ job.stage = "idle" /\ job.kind = "none"
         /\ \E e \in Entry : e.id = id /\ e.outcome = "ROLLED_BACK" /\ RecordKnowledge(e)
         /\ DOMAIN records' = DOMAIN records
         /\ \A i \in DOMAIN records \ {id} : records'[i] = records[i]
         /\ records'[id] \in Record /\ records'[id].lifecycle = "ROLLED_BACK"
         /\ records'[id].target = records[id].target
         /\ records'[id].snapshot = records[id].snapshot
         /\ job' \in Job /\ job'.stage = "open" /\ job'.kind = "rollback" /\ job'.id = id
         /\ UNCHANGED <<wheel, recordFile, wheelFile, cycles, unpersisted, unread, missing,
                     answered>>
<1> DEFINE e == [id |-> id, outcome |-> "ROLLED_BACK"]
           r == records[id]
<1>1. id \in Ids /\ r \in Record BY DEF IInv, TypeOK
<1>2. e \in Entry /\ e.id = id /\ e.outcome = "ROLLED_BACK" /\ RecordKnowledge(e)
  BY <1>1 DEF RollBack, Entry
<1>3. r.target \in Targets BY <1>1 DEF Record
<1>4. /\ job' = [kind |-> "rollback", stage |-> "open", target |-> r.target, id |-> id]
      /\ records' = [records EXCEPT ![id].lifecycle = "ROLLED_BACK"]
      /\ job = Idle
      /\ UNCHANGED <<wheel, recordFile, wheelFile, cycles, unpersisted, unread, missing,
                     answered>>
  BY DEF RollBack
<1>5. job' \in Job /\ job'.stage = "open" /\ job'.kind = "rollback" /\ job'.id = id
  BY <1>1, <1>3, <1>4, StageFacts DEF Job
<1>6. /\ DOMAIN records' = DOMAIN records
      /\ \A i \in DOMAIN records \ {id} : records'[i] = records[i]
      /\ records'[id] = [r EXCEPT !.lifecycle = "ROLLED_BACK"]
  BY <1>4
<1>7. /\ records'[id] \in Record /\ records'[id].lifecycle = "ROLLED_BACK"
      /\ records'[id].target = r.target /\ records'[id].snapshot = r.snapshot
  BY <1>1, <1>6 DEF Record
<1> QED BY <1>1, <1>2, <1>4, <1>5, <1>6, <1>7, JobFacts

LEMMA RollBackKeepsTypes ==
  ASSUME IInv, NEW id \in DOMAIN records, RollBack(id)
  PROVE  IInv'
<1> DEFINE r == records[id]
<1>1. /\ id \in Ids /\ r \in Record
      /\ DOMAIN records' = DOMAIN records
      /\ \A i \in DOMAIN records \ {id} : records'[i] = records[i]
      /\ records'[id] \in Record /\ records'[id].lifecycle = "ROLLED_BACK"
      /\ job' \in Job /\ job'.stage = "open" /\ job'.kind = "rollback" /\ job'.id = id
      /\ UNCHANGED <<wheel, recordFile, wheelFile, cycles, unpersisted, unread, missing,
                     answered>>
  BY RollBackFacts
<1>2. PICK e \in Entry : e.id = id /\ e.outcome = "ROLLED_BACK" /\ RecordKnowledge(e)
  BY RollBackFacts
<1>3. /\ Remembered(e) /\ knowledge' \in Seq(Entry) /\ unsaved' \subseteq Entry
      /\ log' \in Seq(Entry \cup {Cut, Garbled}) /\ failures' \in 0 .. MaxFailures
  BY <1>2, KnowledgeIsRecorded DEF IInv
<1>4. r.target \in Targets /\ r.snapshot \in Slices \cup {NoSnapshot} BY <1>1 DEF Record
<1>5. config' \in [Targets -> Slices] BY <1>4 DEF RollBack, IInv, TypeOK
<1>6. stack' \in [Targets -> Seq(Ids)]
  <2>1. /\ stack \in [Targets -> Seq(Ids)]
        /\ \/ stack' = stack
           \/ stack[r.target] # <<>> /\ stack' = [stack EXCEPT ![r.target] = Front(stack[r.target])]
    BY DEF RollBack, IInv, TypeOK
  <2>2. stack[r.target] # <<>> => Front(stack[r.target]) \in Seq(Ids) BY <1>4, <2>1, FrontFacts
  <2> QED BY <1>4, <2>1, <2>2
<1>7. disordered' \subseteq Targets BY <1>4 DEF RollBack, IInv, TypeOK
<1> HIDE DEF r
<1>8. \A i \in DOMAIN records : records'[i] \in Record BY <1>1 DEF IInv, TypeOK
<1>9. TypeOK' BY <1>1, <1>3, <1>5, <1>6, <1>7, <1>8 DEF IInv, TypeOK
<1>10. JobInv' BY <1>1 DEF JobInv, Begun, Writing, Outcome
<1>11. FreshInv'
  <2>1. ASSUME NEW i \in Ids, Used(i)' PROVE i <= cycles
    <3>1. Used(i) BY <1>1, <1>2, <1>3, <1>9, <2>1, NewlyKnown DEF Used, IInv
    <3> QED BY <3>1 DEF IInv, FreshInv
  <2>2. ~Begun' BY <1>1 DEF Begun
  <2> QED BY <1>1, <2>1, <2>2 DEF FreshInv
<1> QED BY <1>9, <1>10, <1>11 DEF IInv

LEMMA WritingFacts ==
  ASSUME IInv, OpenRecordFile \/ DumpRecord
  PROVE  /\ job.id \in Ids /\ job.id \in DOMAIN records /\ records[job.id] \in Record
         /\ Writing /\ Writing' /\ ~Begun'
         /\ job' \in Job /\ job'.kind = job.kind /\ job'.id = job.id
         /\ UNCHANGED <<config, records, knowledge, wheel, log, wheelFile, cycles, unsaved,
                        unread, missing, answered, stack, disordered>>
         /\ \/ recordFile' = recordFile
            \/ recordFile' = [recordFile EXCEPT ![job.id] = Torn]
            \/ recordFile' = [recordFile EXCEPT ![job.id] = records[job.id]]
         /\ unpersisted' = unpersisted \/ unpersisted' = unpersisted \cup {job.id}
<1>1. job \in Job /\ job.id \in Ids BY DEF IInv, TypeOK, Job
<1>2. Writing BY DEF OpenRecordFile, DumpRecord, Writing
<1>3. job.id \in DOMAIN records /\ records[job.id] \in Record
  BY <1>2 DEF IInv, TypeOK, JobInv
<1>4. job' = [job EXCEPT !.stage = "dump"] \/ job' = [job EXCEPT !.stage = "turn"]
  BY DEF OpenRecordFile, DumpRecord
<1>5. /\ job' \in Job /\ job'.kind = job.kind /\ job'.id = job.id
      /\ job'.stage \in {"dump", "turn"}
  BY <1>1, <1>4, StageFacts DEF Job
<1>6. Writing' /\ ~Begun' BY <1>5 DEF Writing, Begun
<1>7. /\ UNCHANGED <<config, records, knowledge, wheel, log, wheelFile, cycles, unsaved,
                     unread, missing, answered, stack, disordered>>
      /\ \/ recordFile' = recordFile
         \/ recordFile' = [recordFile EXCEPT ![job.id] = Torn]
         \/ recordFile' = [recordFile EXCEPT ![job.id] = records[job.id]]
      /\ unpersisted' = unpersisted \/ unpersisted' = unpersisted \cup {job.id}
  BY DEF OpenRecordFile, DumpRecord, memoryVars
<1> QED BY <1>1, <1>2, <1>3, <1>5, <1>6, <1>7

LEMMA WritingKeepsTypes ==
  ASSUME IInv, OpenRecordFile \/ DumpRecord
  PROVE  IInv'
<1>1. failures' \in 0 .. MaxFailures
  BY FailureFacts DEF OpenRecordFile, DumpRecord, IInv, TypeOK
<1>2. recordFile' \in [Ids -> Record \cup {NoFile, Torn}] BY WritingFacts DEF IInv, TypeOK
<1>3. TypeOK' BY <1>1, <1>2, WritingFacts DEF IInv, TypeOK
<1>4. JobInv' BY WritingFacts DEF IInv, JobInv, Writing, Begun
<1>5. FreshInv'
  <2>1. ASSUME NEW id \in Ids, Used(id)' PROVE Used(id)
    <3>1. id = job.id \/ recordFile'[id] = recordFile[id] BY WritingFacts DEF IInv, TypeOK
    <3> QED BY <2>1, <3>1, WritingFacts DEF Used, Known, Lines
  <2> QED BY <2>1, WritingFacts DEF IInv, FreshInv
<1> QED BY <1>3, <1>4, <1>5 DEF IInv

LEMMA FinishFacts ==
  ASSUME IInv, Finish
  PROVE  /\ job.stage = "turn" /\ job.kind \in {"seed", "cycle", "rollback"}
         /\ \/ UNCHANGED <<wheel, wheelFile, failures>>
            \/ job.kind = "cycle" /\ TransitionTo("EVOLUTION_COMPLETE")
            \/ job.kind = "rollback" /\ TransitionTo("ROLLBACK")
         /\ job' = Idle
         /\ answered' = answered \/ (job.kind = "rollback" /\ answered' = answered \cup {job.id})
         /\ UNCHANGED <<config, records, knowledge, recordFile, log, cycles, unsaved,
                        unpersisted, unread, missing, stack, disordered>>
<1>1. job.stage = "turn" /\ Writing BY DEF Finish, Writing
<1>2. job.kind \in {"seed", "cycle", "rollback"} BY <1>1 DEF IInv, TypeOK, Job, JobInv
<1> QED BY <1>1, <1>2 DEF Finish, lossVars

LEMMA FinishKeepsTypes ==
  ASSUME IInv, Finish
  PROVE  IInv'
<1>1. /\ wheel' \in [state : WheelStates, evolutions : Nat]
      /\ wheelFile' \in [state : WheelStates, evolutions : Nat]
      /\ failures' \in 0 .. MaxFailures
  BY FinishFacts, TransitionFacts DEF IInv, TypeOK, WheelStates
<1>2. answered' \subseteq Ids BY FinishFacts DEF IInv, TypeOK, Job
<1>3. TypeOK' BY <1>1, <1>2, FinishFacts, JobFacts DEF IInv, TypeOK
<1>4. JobInv' BY FinishFacts, JobFacts DEF JobInv, Begun, Writing
<1>5. FreshInv'
  BY FinishFacts, JobFacts DEF IInv, FreshInv, Used, Begun, Known, Lines
<1> QED BY <1>3, <1>4, <1>5 DEF IInv

LEMMA TypesKept == IInv /\ [Next]_vars => IInv'
<1> SUFFICES ASSUME IInv, [Next]_vars PROVE IInv' OBVIOUS
<1>1. CASE UNCHANGED vars
  BY <1>1 DEF vars, memoryVars, fileVars, historyVars, lossVars, IInv, TypeOK, JobInv, FreshInv, Used,
              Begun, Writing, Known, Lines
<1> QED BY <1>1, StartKeepsTypes, CrashKeepsTypes, BeginKeepsTypes, TurnKeepsTypes,
           DeployKeepsTypes, RollBackKeepsTypes, WritingKeepsTypes, FinishKeepsTypes DEF Next

(***************************************************************************)
(* The types of the engine's memory, of its files and of the request it    *)
(* serves hold in every reachable state; with them, an adaptation has left *)
(* no trace before its cycle deploys it, so identities are not used twice  *)
(* over any number of crashes (aei.py:298-524).                            *)
(***************************************************************************)
THEOREM EngineTypesCorrect == Spec => []TypeOK
<1>1. Init => IInv BY InitTypes
<1>2. IInv /\ [Next]_vars => IInv' BY TypesKept
<1>3. IInv => TypeOK BY DEF IInv
<1> QED BY <1>1, <1>2, <1>3, PTL DEF Spec

----------------------------------------------------------------------------
(* What is known *)

\* The steps that neither deploy nor roll back, start the engine nor end it.
Quiet ==
  \/ (\E t \in Targets : BeginCycle(t)) \/ TurnWheel
  \/ OpenRecordFile \/ DumpRecord \/ Finish \/ UNCHANGED vars

LEMMA QuietFacts ==
  ASSUME IInv, Quiet
  PROVE  /\ UNCHANGED <<config, records, knowledge, log, unsaved, unread, missing, stack,
                        disordered>>
         /\ job'.stage # "down" => job.stage # "down"
<1>2. ASSUME NEW t \in Targets, BeginCycle(t)
      PROVE  /\ UNCHANGED <<config, records, knowledge, log, unsaved, unread, missing, stack,
                            disordered>>
             /\ job.stage # "down"
  BY <1>2, JobFacts DEF BeginCycle, memoryVars, fileVars, historyVars, lossVars
<1>3. CASE TurnWheel BY <1>3, TurnFacts DEF Begun
<1>4. CASE OpenRecordFile \/ DumpRecord BY <1>4, WritingFacts DEF Writing
<1>5. CASE Finish BY <1>5, FinishFacts
<1>6. CASE UNCHANGED vars BY <1>6 DEF vars, memoryVars, fileVars, historyVars, lossVars
<1> QED BY <1>2, <1>3, <1>4, <1>5, <1>6 DEF Quiet

LEMMA StepsByKind ==
  ASSUME [Next]_vars
  PROVE  Start \/ Crash \/ Deploy \/ (\E id \in DOMAIN records : RollBack(id)) \/ Quiet
BY DEF Next, Quiet

\* The two steps that learn something.
LEMMA LearningFacts ==
  ASSUME IInv, Deploy \/ \E id \in DOMAIN records : RollBack(id)
  PROVE  /\ job.stage # "down" /\ unread' = unread
         /\ \E e \in Entry : RecordKnowledge(e) /\ Remembered(e)
<1>1. CASE Deploy
  <2>1. PICK e \in Entry : RecordKnowledge(e) BY <1>1, DeployFacts
  <2> QED BY <1>1, <2>1, KnowledgeIsRecorded, DeployFacts DEF IInv, Begun
<1>2. ASSUME NEW id \in DOMAIN records, RollBack(id)
      PROVE  /\ job.stage # "down" /\ unread' = unread
             /\ \E e \in Entry : RecordKnowledge(e) /\ Remembered(e)
  <2>1. PICK e \in Entry : RecordKnowledge(e) BY <1>2, RollBackFacts
  <2> QED BY <1>2, <2>1, KnowledgeIsRecorded, RollBackFacts DEF IInv
<1> QED BY <1>1, <1>2

LEMMA ReadBackKept == IInv /\ KnowledgeIsReadBack /\ [Next]_vars => KnowledgeIsReadBack'
<1> SUFFICES ASSUME IInv, KnowledgeIsReadBack, [Next]_vars, job'.stage # "down"
             PROVE  /\ Range(knowledge') \subseteq Lines' \cup unsaved'
                    /\ \A i \in DOMAIN log' :
                         \/ log'[i] \in Range(knowledge')
                         \/ i \in unread'
                         \/ \E j \in 1 .. i : log'[j] \notin Entry
  BY DEF KnowledgeIsReadBack
<1>1. CASE Start
  <2>1. log' = log /\ unsaved' = unsaved /\ Lines' = Lines BY <1>1, StartFacts DEF Lines
  <2> QED BY <1>1, <2>1, StartReads
<1>2. CASE Deploy \/ \E id \in DOMAIN records : RollBack(id)
  <2>1. PICK e \in Entry : RecordKnowledge(e) /\ Remembered(e) BY <1>2, LearningFacts
  <2>2. /\ Range(knowledge) \subseteq Lines \cup unsaved
        /\ \A i \in DOMAIN log :
             \/ log[i] \in Range(knowledge)
             \/ i \in unread
             \/ \E j \in 1 .. i : log[j] \notin Entry
    BY <1>2, LearningFacts DEF KnowledgeIsReadBack
  <2>3. knowledge \in Seq(Entry) /\ knowledge' = Append(knowledge, e)
    BY <2>1 DEF IInv, TypeOK, Remembered
  <2>4. Range(knowledge') = Range(knowledge) \cup {e} /\ Range(knowledge) \subseteq Entry
    BY <2>3, Appended DEF Range
  <2>5. Range(knowledge') \subseteq Lines' \cup unsaved'
    <3>1. Range(knowledge) \subseteq Filed BY <2>2, <2>4 DEF Filed
    <3>2. Range(knowledge') \subseteq Filed' BY <2>1, <2>4, <3>1 DEF Remembered
    <3>3. Filed' \subseteq Lines' \cup unsaved' BY DEF Filed
    <3> QED BY <3>2, <3>3
  <2>6. DOMAIN log = 1 .. Len(log) /\ Len(log) \in Nat BY DEF IInv, TypeOK
  <2>7. ASSUME NEW i \in DOMAIN log'
        PROVE  \/ log'[i] \in Range(knowledge')
               \/ i \in unread'
               \/ \E j \in 1 .. i : log'[j] \notin Entry
    <3>1. log' \in Seq(Entry \cup {Cut, Garbled}) BY <2>1, KnowledgeIsRecorded DEF IInv
    <3>2. i \in 1 .. i BY <3>1
    <3>3. CASE log'[i] = e \/ log'[i] \notin Entry BY <2>4, <3>2, <3>3
    <3>4. CASE i \in DOMAIN log /\ log'[i] = log[i] /\ log[i] \in Range(knowledge)
      BY <2>4, <3>4
    <3>5. CASE i \in DOMAIN log /\ \E j \in 1 .. i : log[j] \notin Entry
      <4>1. PICK j \in 1 .. i : log[j] \notin Entry BY <3>5
      <4>2. j \in DOMAIN log BY <2>6, <3>5
      <4>3. log'[j] \notin Entry BY <2>1, <4>1, <4>2 DEF Remembered
      <4> QED BY <4>3
    <3>6. CASE i \in unread BY <1>2, <3>6, LearningFacts
    <3> QED BY <2>1, <2>2, <3>3, <3>4, <3>5, <3>6 DEF Remembered
  <2> QED BY <2>5, <2>7
<1>3. CASE Quiet
  <2>1. /\ knowledge' = knowledge /\ log' = log /\ unsaved' = unsaved /\ Lines' = Lines
        /\ unread' = unread /\ job.stage # "down"
    BY <1>3, QuietFacts DEF Lines
  <2> QED BY <2>1 DEF KnowledgeIsReadBack
<1>4. CASE Crash BY <1>4, CrashFacts, JobFacts
<1> QED BY <1>1, <1>2, <1>3, <1>4, StepsByKind

(***************************************************************************)
(* Over any number of crashes and of failing reads and writes the running  *)
(* engine knows all of the knowledge file up to the first line it cannot   *)
(* parse or its start failed to read, and nothing the file has neither got *)
(* nor been refused (aei.py:196-215).                                      *)
(***************************************************************************)
THEOREM KnowledgeComesBack == Spec => []KnowledgeIsReadBack
<1> DEFINE Inv == IInv /\ KnowledgeIsReadBack
<1>1. Init => Inv BY InitTypes, JobFacts DEF Init, KnowledgeIsReadBack
<1>2. Inv /\ [Next]_vars => Inv' BY TypesKept, ReadBackKept
<1>3. Inv => KnowledgeIsReadBack OBVIOUS
<1> HIDE DEF Inv
<1> QED BY <1>1, <1>2, <1>3, PTL DEF Spec

LEMMA OutcomesKept ==
  IInv /\ MemoryIsRemembered /\ OutcomesAreRemembered /\ [Next]_vars
    => MemoryIsRemembered' /\ OutcomesAreRemembered'
<1> DEFINE Keeps == \A id \in Ids, outcome \in {"ACCEPTED_ACTIVE", "ROLLED_BACK"} :
             Known(id, outcome) => Known(id, outcome)'
<1> SUFFICES ASSUME IInv, IInv', MemoryIsRemembered, OutcomesAreRemembered, [Next]_vars
             PROVE  MemoryIsRemembered' /\ OutcomesAreRemembered'
  BY TypesKept
<1>1. DOMAIN records \subseteq Ids BY DEF IInv, TypeOK
<1>2. CASE Start
  <2>1. UNCHANGED <<log, unsaved, recordFile>> BY <1>2, StartFacts
  <2>2. \A id, outcome : Known(id, outcome)' = Known(id, outcome) BY <2>1 DEF Known, Lines
  <2>3. OutcomesAreRemembered' BY <2>1, <2>2 DEF OutcomesAreRemembered, Readable
  <2>4. CASE records' = [id \in Loadable \ missing' |-> recordFile[id]]
    BY <2>2, <2>3, <2>4 DEF OutcomesAreRemembered, MemoryIsRemembered, Loadable
  <2>5. CASE records' = [id \in {Seed} |-> SeedRecord]
    BY <2>3, <2>5, SeedFacts DEF MemoryIsRemembered
  <2> QED BY <1>2, <2>3, <2>4, <2>5, StartFacts
<1>3. CASE Deploy
  <2>1. PICK e \in Entry : /\ e.id = job.id /\ e.outcome = "ACCEPTED_ACTIVE"
                           /\ RecordKnowledge(e) /\ Remembered(e)
    BY <1>3, DeployFacts, KnowledgeIsRecorded DEF IInv
  <2>2. Keeps BY <2>1, NewlyKnown DEF IInv
  <2>3. ASSUME NEW id \in Ids, id = job.id PROVE Known(id, "ACCEPTED_ACTIVE")'
    BY <2>1, <2>3, NewlyKnown DEF IInv
  <2>4. MemoryIsRemembered'
    BY <1>1, <1>3, <2>2, <2>3, DeployFacts DEF MemoryIsRemembered
  <2>5. OutcomesAreRemembered'
    BY <1>3, <2>2, DeployFacts DEF OutcomesAreRemembered, Readable
  <2> QED BY <2>4, <2>5
<1>4. ASSUME NEW i \in DOMAIN records, RollBack(i)
      PROVE  MemoryIsRemembered' /\ OutcomesAreRemembered'
  <2>1. PICK e \in Entry : /\ e.id = i /\ e.outcome = "ROLLED_BACK"
                           /\ RecordKnowledge(e) /\ Remembered(e)
    BY <1>4, RollBackFacts, KnowledgeIsRecorded DEF IInv
  <2>2. Keeps BY <2>1, NewlyKnown DEF IInv
  <2>3. Known(i, "ROLLED_BACK")' BY <1>1, <2>1, NewlyKnown DEF IInv
  <2>4. MemoryIsRemembered'
    BY <1>1, <1>4, <2>2, <2>3, RollBackFacts DEF MemoryIsRemembered
  <2>5. OutcomesAreRemembered'
    BY <1>4, <2>2, RollBackFacts DEF OutcomesAreRemembered, Readable
  <2> QED BY <2>4, <2>5
<1>5. CASE Quiet
  <2>1. UNCHANGED <<records, log, unsaved>> BY <1>5, QuietFacts
  <2>2. \A id, outcome : Known(id, outcome)' = Known(id, outcome) BY <2>1 DEF Known, Lines
  <2>3. MemoryIsRemembered' BY <2>1, <2>2 DEF MemoryIsRemembered
  <2>4. ASSUME NEW id \in Ids, Readable(id)'
        PROVE  \/ Readable(id) /\ recordFile'[id] = recordFile[id]
               \/ id \in DOMAIN records /\ recordFile'[id] = records[id]
    <3>1. CASE recordFile' = recordFile BY <2>4, <3>1 DEF Readable
    <3>2. CASE OpenRecordFile \/ DumpRecord
      <4>1. \/ recordFile' = recordFile
            \/ recordFile' = [recordFile EXCEPT ![job.id] = Torn]
            \/ recordFile' = [recordFile EXCEPT ![job.id] = records[job.id]]
        BY <3>2, WritingFacts
      <4>2. job.id \in DOMAIN records /\ recordFile \in [Ids -> Record \cup {NoFile, Torn}]
        BY <3>2, WritingFacts DEF IInv, TypeOK
      <4> QED BY <2>4, <4>1, <4>2, LinesApart DEF Readable
    <3> QED BY <1>5, <3>1, <3>2, TurnFacts, FinishFacts
         DEF Quiet, BeginCycle, fileVars, vars
  <2>5. OutcomesAreRemembered'
    BY <2>2, <2>4 DEF OutcomesAreRemembered, MemoryIsRemembered
  <2> QED BY <2>3, <2>5
<1>6. CASE Crash
  <2>1. UNCHANGED <<log, unsaved, recordFile>> /\ DOMAIN records' = {} BY <1>6, CrashFacts
  <2>2. \A id, outcome : Known(id, outcome)' = Known(id, outcome) BY <2>1 DEF Known, Lines
  <2>3. OutcomesAreRemembered' BY <2>1, <2>2 DEF OutcomesAreRemembered, Readable
  <2> QED BY <2>1, <2>3 DEF MemoryIsRemembered
<1> QED BY <1>2, <1>3, <1>4, <1>5, <1>6, StepsByKind

(***************************************************************************)
(* Whatever a record file says of an adaptation, the knowledge file had    *)
(* been told before: a crash between the two writes, over any number of    *)
(* runs, never leaves an outcome on disk that nothing was learnt from      *)
(* (aei.py:208-215, 311-317).                                              *)
(***************************************************************************)
THEOREM RollbackIsMemory == Spec => []OutcomesAreRemembered
<1> DEFINE Inv == IInv /\ MemoryIsRemembered /\ OutcomesAreRemembered
<1>1. Init => Inv
  <2>1. Init => MemoryIsRemembered BY DEF Init, MemoryIsRemembered
  <2>2. Init => OutcomesAreRemembered BY LinesApart DEF Init, OutcomesAreRemembered, Readable
  <2> QED BY <2>1, <2>2, InitTypes
<1>2. Inv /\ [Next]_vars => Inv' BY TypesKept, OutcomesKept
<1>3. Inv => OutcomesAreRemembered OBVIOUS
<1> HIDE DEF Inv
<1> QED BY <1>1, <1>2, <1>3, PTL DEF Spec

----------------------------------------------------------------------------
(* Rollbacks *)

LEMMA MissingKept == IInv /\ MissingInv /\ [Next]_vars => MissingInv'
<1> SUFFICES ASSUME IInv, MissingInv, [Next]_vars PROVE MissingInv' OBVIOUS
<1> USE DEF MissingInv
<1>1. CASE Start
  <2>1. /\ recordFile' = recordFile /\ missing' \subseteq Loadable
        /\ \/ DOMAIN records' = Loadable \ missing'
           \/ DOMAIN records' = {Seed} /\ unpersisted' = unpersisted \cup (Loadable \cap {Seed})
    BY <1>1, StartFacts
  <2> QED BY <2>1, LinesApart DEF Loadable, Readable
<1>2. CASE Crash BY <1>2, CrashFacts
<1>3. CASE Deploy BY <1>3, DeployFacts
<1>4. ASSUME NEW id \in DOMAIN records, RollBack(id) PROVE MissingInv'
  BY <1>4, RollBackFacts
<1>5. CASE OpenRecordFile \/ DumpRecord
  <2>1. /\ recordFile \in [Ids -> Record \cup {NoFile, Torn}] /\ missing \subseteq Ids
        /\ records' = records /\ missing' = missing /\ unpersisted \subseteq unpersisted'
        /\ records[job.id] # NoFile
    BY <1>5, WritingFacts, LinesApart DEF IInv, TypeOK
  <2> QED BY <1>5, <2>1, WritingFacts, LinesApart
<1>6. CASE Quiet /\ ~(OpenRecordFile \/ DumpRecord)
  <2>1. UNCHANGED <<recordFile, records, missing, unpersisted>>
    BY <1>6, TurnFacts, FinishFacts
       DEF Quiet, BeginCycle, memoryVars, fileVars, historyVars, lossVars, vars
  <2> QED BY <2>1
<1> QED BY <1>1, <1>2, <1>3, <1>4, <1>5, <1>6, StepsByKind

LEMMA FinalKept ==
  IInv /\ WrittenOut /\ MissingInv /\ RollbacksAreFinal /\ [Next]_vars
    => WrittenOut' /\ RollbacksAreFinal'
<1> SUFFICES ASSUME IInv, WrittenOut, MissingInv, RollbacksAreFinal, [Next]_vars
             PROVE  WrittenOut' /\ RollbacksAreFinal'
  OBVIOUS
<1>0. /\ recordFile \in [Ids -> Record \cup {NoFile, Torn}] /\ job \in Job /\ job.id \in Ids
      /\ answered \subseteq Ids /\ \A i \in DOMAIN records : records[i] \in Record
  BY DEF IInv, TypeOK, Job
<1> USE DEF WrittenOut, RollbacksAreFinal, Readable
<1>1. CASE Start
  <2>1. /\ UNCHANGED <<recordFile, answered>> /\ job.stage = "down"
        /\ unpersisted \subseteq unpersisted'
    BY <1>1, StartFacts
  <2>2. job'.stage \in {"idle", "open"}
    BY <1>1, StartFacts, JobFacts, StageFacts DEF Idle
  <2>3. ASSUME NEW id \in answered \ unpersisted
        PROVE  id \in Loadable /\ recordFile[id].lifecycle = "ROLLED_BACK"
    BY <1>0, <2>1, <2>3 DEF Loadable
  <2>4. \/ records' = [id \in Loadable \ missing' |-> recordFile[id]]
        \/ missing' = Loadable
    BY <1>1, StartFacts
  <2> QED BY <2>1, <2>2, <2>3, <2>4 DEF Loadable
<1>2. CASE Crash
  <2>1. UNCHANGED <<recordFile, answered>> BY <1>2, CrashFacts
  <2>2. job'.stage = "down" /\ unpersisted \subseteq unpersisted'
    BY <1>2, CrashFacts, JobFacts
  <2>3. job.stage = "dump" => job.id \in unpersisted' BY <1>2, CrashFacts
  <2> QED BY <2>1, <2>2, <2>3
<1>3. ASSUME NEW t \in Targets, BeginCycle(t) PROVE WrittenOut' /\ RollbacksAreFinal'
  <2>1. UNCHANGED <<recordFile, answered, records, unpersisted, missing>>
    BY <1>3 DEF BeginCycle, memoryVars, fileVars, historyVars, lossVars
  <2>2. job.stage = "idle" /\ job'.stage = "OBSERVING"
    BY <1>3, JobFacts DEF BeginCycle, CycleStates
  <2> QED BY <2>1, <2>2
<1>4. CASE TurnWheel
  BY <1>4, TurnFacts DEF Begun
<1>5. CASE Deploy
  <2>1. /\ job.id \notin DOMAIN records /\ job.stage # "down" /\ job.stage # "dump"
        /\ \A id \in DOMAIN records : id \in DOMAIN records' /\ records'[id] = records[id]
        /\ UNCHANGED <<recordFile, unpersisted, answered, missing>> /\ job'.stage = "open"
    BY <1>5, DeployFacts DEF Begun
  <2> QED BY <2>1
<1>6. ASSUME NEW i \in DOMAIN records, RollBack(i) PROVE WrittenOut' /\ RollbacksAreFinal'
  <2>1. /\ job.stage = "idle" /\ job'.stage = "open" /\ DOMAIN records' = DOMAIN records
        /\ \A id \in DOMAIN records : records'[id].lifecycle = "ROLLED_BACK"
                                     \/ records'[id] = records[id]
        /\ UNCHANGED <<recordFile, unpersisted, answered, missing>>
    BY <1>6, RollBackFacts
  <2> QED BY <2>1
<1>7. CASE OpenRecordFile \/ DumpRecord
  <2>1. /\ job.id \in DOMAIN records /\ records[job.id] \in Record /\ job'.id = job.id
        /\ UNCHANGED <<records, answered, missing>> /\ job.stage \in {"open", "dump"}
    BY <1>7, WritingFacts DEF OpenRecordFile, DumpRecord
  <2>2. \/ /\ job'.stage = "dump" /\ recordFile' = [recordFile EXCEPT ![job.id] = Torn]
           /\ unpersisted' = unpersisted
        \/ /\ job'.stage = "turn" /\ unpersisted' = unpersisted \cup {job.id}
           /\ recordFile' = recordFile
        \/ /\ job'.stage = "turn" /\ unpersisted' = unpersisted /\ job.stage = "dump"
           /\ recordFile' = [recordFile EXCEPT ![job.id] = records[job.id]]
    BY <1>0, <1>7 DEF OpenRecordFile, DumpRecord, Job
  <2>3. ASSUME NEW id \in answered \ unpersisted
        PROVE  /\ \/ id \in missing
                  \/ id \in DOMAIN records /\ records[id].lifecycle = "ROLLED_BACK"
               /\ id # job.id => recordFile[id] \in Record
                                /\ recordFile[id].lifecycle = "ROLLED_BACK"
    BY <2>1
  <2>4. WrittenOut' BY <1>0, <2>1, <2>2
  <2>8. job.id \notin unpersisted => job.id \notin missing BY <2>1 DEF MissingInv
  <2>5. ASSUME NEW id \in answered \ unpersisted, id \notin unpersisted'
        PROVE  \/ recordFile'[id] \in Record /\ recordFile'[id].lifecycle = "ROLLED_BACK"
               \/ job'.stage = "dump" /\ job'.id = id
    BY <1>0, <2>1, <2>2, <2>3, <2>5, <2>8
  <2>6. unpersisted \subseteq unpersisted' /\ job'.stage # "down" BY <2>2
  <2> QED BY <2>1, <2>3, <2>4, <2>5, <2>6
<1>8. CASE Finish
  <2>1. /\ job.stage = "turn" /\ job'.stage = "idle"
        /\ UNCHANGED <<recordFile, records, unpersisted, missing>>
        /\ answered' = answered \/ (job.kind = "rollback" /\ answered' = answered \cup {job.id})
    BY <1>8, FinishFacts, JobFacts
  <2>2. /\ job.id \in DOMAIN records
        /\ job.kind = "rollback" => records[job.id].lifecycle = "ROLLED_BACK"
    BY <2>1 DEF IInv, JobInv, Writing, Outcome
  <2>3. job.id \notin unpersisted => recordFile[job.id] = records[job.id] BY <2>1
  <2> QED BY <1>0, <2>1, <2>2, <2>3
<1>9. CASE UNCHANGED vars
  BY <1>9 DEF vars, memoryVars, fileVars, historyVars, lossVars
<1> QED BY <1>1, <1>2, <1>3, <1>4, <1>5, <1>6, <1>7, <1>8, <1>9 DEF Next

(***************************************************************************)
(* A rollback its caller was told of is final over any number of crashes,  *)
(* restarts, cycles and later rollbacks, in memory and on disk, unless a   *)
(* write of that record failed or was cut off, or a start could not read   *)
(* it (aei.py:275-317, 544-573).                                           *)
(***************************************************************************)
THEOREM AnsweredRollbacksAreFinal == Spec => []RollbacksAreFinal
<1> DEFINE Inv == IInv /\ WrittenOut /\ MissingInv /\ RollbacksAreFinal
<1>1. Init => Inv BY InitTypes, JobFacts DEF Init, WrittenOut, MissingInv, RollbacksAreFinal
<1>2. Inv /\ [Next]_vars => Inv' BY TypesKept, MissingKept, FinalKept
<1>3. Inv => RollbacksAreFinal OBVIOUS
<1> HIDE DEF Inv
<1> QED BY <1>1, <1>2, <1>3, PTL DEF Spec

----------------------------------------------------------------------------
(* The wheel's counter *)

LEMMA AcceptedFacts ==
  ASSUME TypeOK, TypeOK'
  PROVE  /\ Cardinality(Accepted) \in Nat /\ Cardinality(Accepted') \in Nat
         /\ Accepted \subseteq Accepted' => Cardinality(Accepted) <= Cardinality(Accepted')
         /\ \A id \in Accepted' \ Accepted :
              Accepted \subseteq Accepted' => Cardinality(Accepted) + 1 <= Cardinality(Accepted')
<1>1. IsFiniteSet(Ids) BY IdFacts, FS_Interval DEF Ids
<1>2. /\ IsFiniteSet(Accepted) /\ IsFiniteSet(Accepted')
      /\ Cardinality(Accepted) \in Nat /\ Cardinality(Accepted') \in Nat
  BY <1>1, FS_Subset, FS_CardinalityType DEF Accepted
<1>3. Accepted \subseteq Accepted' => Cardinality(Accepted) <= Cardinality(Accepted')
  BY <1>2, FS_Subset
<1>4. ASSUME NEW id \in Accepted' \ Accepted, Accepted \subseteq Accepted'
      PROVE  Cardinality(Accepted) + 1 <= Cardinality(Accepted')
  <2>1. Cardinality(Accepted \cup {id}) = Cardinality(Accepted) + 1
    BY <1>2, <1>4, FS_AddElement
  <2>2. Accepted \cup {id} \subseteq Accepted' BY <1>4
  <2>3. Cardinality(Accepted \cup {id}) <= Cardinality(Accepted') BY <1>2, <2>2, FS_Subset
  <2> QED BY <2>1, <2>3
<1> QED BY <1>2, <1>3, <1>4

LEMMA CountKept == IInv /\ CountInv /\ [Next]_vars => CountInv'
<1> SUFFICES ASSUME IInv, IInv', CountInv, [Next]_vars PROVE CountInv' BY TypesKept
<1>0. /\ wheel.evolutions \in Nat /\ wheelFile.evolutions \in Nat
      /\ wheel'.evolutions \in Nat /\ wheelFile'.evolutions \in Nat
      /\ Uncounted \in {0, 1} /\ Uncounted' \in {0, 1}
  BY DEF IInv, TypeOK, Uncounted
<1>1. /\ Cardinality(Accepted) \in Nat /\ Cardinality(Accepted)' \in Nat
      /\ Accepted \subseteq Accepted' => Cardinality(Accepted) <= Cardinality(Accepted)'
      /\ \A id \in Accepted' \ Accepted :
           Accepted \subseteq Accepted' => Cardinality(Accepted) + 1 <= Cardinality(Accepted)'
  BY AcceptedFacts DEF IInv
<1>2. CASE Start \/ Crash \/ Quiet
  <2>0. UNCHANGED <<log, unsaved>> BY <1>2, QuietFacts, StartFacts, CrashFacts
  <2>1. Accepted' = Accepted BY <2>0 DEF Accepted, Known, Lines
  <2>2. CASE Start
    <3>1. wheelFile' = wheelFile /\ wheel'.evolutions \in {wheelFile.evolutions, 0}
      BY <2>2, StartFacts DEF NewWheel
    <3>2. job.stage = "down" /\ job'.kind \in {"none", "seed"}
      BY <2>2, StartFacts, JobFacts, StageFacts DEF Idle
    <3>3. Uncounted = 0 /\ Uncounted' = 0 BY <3>2 DEF Uncounted, Writing
    <3> QED BY <1>0, <1>1, <2>1, <3>1, <3>3 DEF CountInv
  <2>3. CASE Crash
    <3>1. wheel'.evolutions = 0 /\ wheelFile' = wheelFile /\ job'.kind = "none"
      BY <2>3, CrashFacts, JobFacts DEF NewWheel
    <3>2. Uncounted' = 0 BY <3>1 DEF Uncounted
    <3> QED BY <1>0, <1>1, <2>1, <3>1, <3>2 DEF CountInv
  <2>4. ASSUME NEW t \in Targets, BeginCycle(t) PROVE CountInv'
    <3>1. wheel' = wheel /\ wheelFile' = wheelFile /\ job'.stage = "OBSERVING"
      BY <2>4 DEF BeginCycle, memoryVars, fileVars, CycleStates
    <3>2. Uncounted' = 0 BY <3>1 DEF Uncounted, Writing
    <3> QED BY <1>0, <1>1, <2>1, <3>1, <3>2 DEF CountInv
  <2>5. CASE TurnWheel
    <3>1. PICK state \in WheelStates \ {"EVOLUTION_COMPLETE"} : TransitionTo(state)
      BY <2>5, TurnFacts
    <3>2. wheel'.evolutions = wheel.evolutions /\ (wheelFile' = wheel' \/ wheelFile' = wheelFile)
      BY <3>1, TransitionFacts DEF IInv
    <3>3. Uncounted' = 0 BY <2>5, TurnFacts DEF Uncounted, Writing, Begun
    <3> QED BY <1>0, <1>1, <2>1, <3>2, <3>3 DEF CountInv
  <2>6. CASE OpenRecordFile \/ DumpRecord
    <3>1. Uncounted' = Uncounted BY <2>6, WritingFacts DEF Uncounted
    <3> QED BY <2>1, <2>6, <3>1, WritingFacts DEF CountInv
  <2>7. CASE Finish
    <3>1. Uncounted' = 0 BY <2>7, FinishFacts, JobFacts DEF Uncounted
    <3>2. CASE UNCHANGED <<wheel, wheelFile, failures>>
      BY <1>0, <1>1, <2>1, <3>1, <3>2 DEF CountInv
    <3>3. CASE job.kind = "rollback" /\ TransitionTo("ROLLBACK")
      <4>1. /\ wheel'.evolutions = wheel.evolutions
            /\ wheelFile' = wheel' \/ wheelFile' = wheelFile
        BY <3>3, TransitionFacts DEF IInv, WheelStates
      <4> QED BY <1>0, <1>1, <2>1, <3>1, <4>1 DEF CountInv
    <3>4. CASE job.kind = "cycle" /\ TransitionTo("EVOLUTION_COMPLETE")
      <4>1. /\ wheel'.evolutions \in {wheel.evolutions, wheel.evolutions + 1}
            /\ wheelFile' = wheel' \/ wheelFile' = wheelFile
        BY <3>4, TransitionFacts DEF IInv, WheelStates
      <4>2. Uncounted = 1 BY <2>7, <3>4, FinishFacts DEF Uncounted, Writing
      <4> QED BY <1>0, <1>1, <2>1, <3>1, <4>1, <4>2 DEF CountInv
    <3> QED BY <2>7, <3>2, <3>3, <3>4, FinishFacts
  <2>8. CASE UNCHANGED vars
    BY <2>1, <2>8 DEF vars, memoryVars, fileVars, CountInv, Uncounted, Writing
  <2> QED BY <1>2, <2>2, <2>3, <2>4, <2>5, <2>6, <2>7, <2>8 DEF Quiet
<1>3. CASE Deploy
  <2>1. PICK d \in Entry : /\ d.id = job.id /\ d.outcome = "ACCEPTED_ACTIVE"
                           /\ Remembered(d)
    BY <1>3, DeployFacts, KnowledgeIsRecorded DEF IInv
  <2>2. job.id \in Ids /\ job.id \notin Accepted BY <1>3, DeployFacts DEF Accepted
  <2>3. \A id \in Ids : /\ id = job.id => Known(id, "ACCEPTED_ACTIVE")'
                        /\ Known(id, "ACCEPTED_ACTIVE") => Known(id, "ACCEPTED_ACTIVE")'
    BY <2>1, NewlyKnown DEF IInv
  <2>4. job.id \in Accepted' /\ Accepted \subseteq Accepted' BY <2>2, <2>3 DEF Accepted
  <2>5. Cardinality(Accepted) + 1 <= Cardinality(Accepted)' BY <1>1, <2>2, <2>4
  <2>6. wheel' = wheel /\ wheelFile' = wheelFile /\ Uncounted = 0
    BY <1>3, DeployFacts DEF Uncounted, Writing, Begun
  <2> QED BY <1>0, <1>1, <2>5, <2>6 DEF CountInv
<1>4. ASSUME NEW id \in DOMAIN records, RollBack(id) PROVE CountInv'
  <2>1. PICK e \in Entry : Remembered(e)
    BY <1>4, RollBackFacts, KnowledgeIsRecorded DEF IInv
  <2>2. \A i \in Ids : Known(i, "ACCEPTED_ACTIVE") => Known(i, "ACCEPTED_ACTIVE")'
    BY <2>1, NewlyKnown DEF IInv
  <2>3. Accepted \subseteq Accepted' BY <2>2 DEF Accepted
  <2>4. wheel' = wheel /\ wheelFile' = wheelFile /\ job'.kind = "rollback"
    BY <1>4, RollBackFacts
  <2>5. Uncounted' = 0 BY <2>4 DEF Uncounted
  <2> QED BY <1>0, <1>1, <2>3, <2>4, <2>5 DEF CountInv
<1> QED BY <1>2, <1>3, <1>4, StepsByKind

(***************************************************************************)
(* The wheel never counts more evolutions than adaptations were accepted,  *)
(* in memory or in its file, whichever of the two writes a crash or a      *)
(* failure leaves out (adaptive_wheel.py:165-215, aei.py:405-527).         *)
(***************************************************************************)
THEOREM WheelCountsNoMore == Spec => []EvolutionsAreBacked
<1> DEFINE Inv == IInv /\ CountInv
<1>1. Init => Inv
  <2> SUFFICES ASSUME Init PROVE CountInv BY InitTypes
  <2>1. Cardinality(Accepted) \in Nat
    <3>1. IsFiniteSet(Ids) BY IdFacts, FS_Interval DEF Ids
    <3> QED BY <3>1, FS_Subset, FS_CardinalityType DEF Accepted
  <2>2. wheel.evolutions = 0 /\ wheelFile.evolutions = 0 /\ Uncounted = 0
    BY JobFacts DEF Init, NewWheel, Uncounted
  <2> QED BY <2>1, <2>2 DEF CountInv
<1>2. Inv /\ [Next]_vars => Inv' BY TypesKept, CountKept
<1>3. Inv => EvolutionsAreBacked
  <2> SUFFICES ASSUME IInv, CountInv PROVE EvolutionsAreBacked OBVIOUS
  <2>1. IsFiniteSet(Ids) BY IdFacts, FS_Interval DEF Ids
  <2>2. Cardinality(Accepted) \in Nat BY <2>1, FS_Subset, FS_CardinalityType DEF Accepted
  <2>3. wheel.evolutions \in Nat /\ wheelFile.evolutions \in Nat BY DEF IInv, TypeOK
  <2> QED BY <2>2, <2>3 DEF CountInv, Uncounted, EvolutionsAreBacked
<1> HIDE DEF Inv
<1> QED BY <1>1, <1>2, <1>3, PTL DEF Spec

----------------------------------------------------------------------------
(* Rollbacks in order *)

LEMMA SeedKept == IInv /\ SeedHasNoSnapshot /\ [Next]_vars => SeedHasNoSnapshot'
<1> SUFFICES ASSUME IInv, SeedHasNoSnapshot, [Next]_vars PROVE SeedHasNoSnapshot' OBVIOUS
<1>0. Seed \in Ids BY IdFacts
<1> USE DEF SeedHasNoSnapshot, Readable
<1>1. CASE Start
  <2>1. recordFile' = recordFile BY <1>1, StartFacts
  <2>2. CASE records' = [id \in Loadable \ missing' |-> recordFile[id]]
    BY <2>1, <2>2 DEF Loadable
  <2>3. CASE records' = [id \in {Seed} |-> SeedRecord] BY <2>1, <2>3, SeedFacts
  <2> QED BY <1>1, <2>2, <2>3, StartFacts
<1>2. CASE Deploy BY <1>2, DeployFacts
<1>3. ASSUME NEW id \in DOMAIN records, RollBack(id) PROVE SeedHasNoSnapshot'
  BY <1>3, RollBackFacts
<1>4. CASE Quiet
  <2>1. records' = records BY <1>4, QuietFacts
  <2>2. CASE OpenRecordFile \/ DumpRecord
    <3>1. recordFile \in [Ids -> Record \cup {NoFile, Torn}] BY DEF IInv, TypeOK
    <3>2. \/ recordFile'[Seed] = recordFile[Seed]
          \/ recordFile'[Seed] = Torn
          \/ job.id = Seed /\ recordFile'[Seed] = records[Seed] /\ Seed \in DOMAIN records
      BY <1>0, <2>2, <3>1, WritingFacts
    <3> QED BY <2>1, <3>2, LinesApart
  <2>3. recordFile' = recordFile \/ OpenRecordFile \/ DumpRecord
    BY <1>4, TurnFacts, FinishFacts DEF Quiet, BeginCycle, fileVars, vars
  <2> QED BY <2>1, <2>2, <2>3
<1>5. CASE Crash BY <1>5, CrashFacts
<1> QED BY <1>1, <1>2, <1>3, <1>4, <1>5, StepsByKind

\* What the stacks say of one target.
StackOf(t, c, st, recs) ==
  /\ c = Slice(t, Len(st))
  /\ \A k \in DOMAIN st : /\ st[k] \in DOMAIN recs /\ recs[st[k]].target = t
                         /\ recs[st[k]].snapshot = Slice(t, k - 1)

LEMMA StackInvByTarget ==
  StackInv <=> (job.stage # "down" =>
                  \A t \in Targets \ disordered : StackOf(t, config[t], stack[t], records))
BY DEF StackInv, StackOf

\* A stack outlives changes of records that keep targets and snapshots.
LEMMA StackStays ==
  ASSUME NEW t, NEW c, NEW st, NEW recs, NEW recs2, StackOf(t, c, st, recs),
         \A id \in DOMAIN recs : /\ id \in DOMAIN recs2 /\ recs2[id].target = recs[id].target
                               /\ recs2[id].snapshot = recs[id].snapshot
  PROVE  StackOf(t, c, st, recs2)
BY DEF StackOf

LEMMA StackGrows ==
  ASSUME NEW t, NEW c, NEW st \in Seq(Ids), NEW recs, NEW id \in Ids,
         StackOf(t, c, st, recs), id \in DOMAIN recs,
         recs[id].target = t, recs[id].snapshot = c,
         NEW d, d = IF t \in Inert THEN c ELSE "evolved"
  PROVE  StackOf(t, d, Append(st, id), recs)
<1> DEFINE s2 == Append(st, id)
<1>1. /\ Len(s2) = Len(st) + 1 /\ s2[Len(st) + 1] = id /\ Len(st) \in Nat
      /\ \A k \in DOMAIN st : s2[k] = st[k]
      /\ \A k \in DOMAIN s2 : k \in DOMAIN st \/ k = Len(st) + 1
  BY Appended
<1> HIDE DEF s2
<1>2. d = Slice(t, Len(s2)) BY <1>1 DEF StackOf, Slice
<1>3. ASSUME NEW k \in DOMAIN s2
      PROVE  /\ s2[k] \in DOMAIN recs /\ recs[s2[k]].target = t
             /\ recs[s2[k]].snapshot = Slice(t, k - 1)
  <2>1. CASE k \in DOMAIN st BY <1>1, <2>1 DEF StackOf
  <2>2. CASE k = Len(st) + 1
    <3>1. k - 1 = Len(st) BY <1>1, <2>2
    <3> QED BY <1>1, <2>2, <3>1 DEF StackOf
  <2> QED BY <1>1, <2>1, <2>2
<1> QED BY <1>2, <1>3 DEF StackOf, s2

LEMMA StackShrinks ==
  ASSUME NEW t, NEW c, NEW st \in Seq(Ids), st # <<>>, NEW recs, StackOf(t, c, st, recs)
  PROVE  /\ Last(st) \in DOMAIN recs /\ recs[Last(st)].snapshot # NoSnapshot
         /\ StackOf(t, recs[Last(st)].snapshot, Front(st), recs)
<1> DEFINE F == Front(st)
<1>1. /\ Len(F) = Len(st) - 1 /\ Len(st) \in Nat \ {0} /\ DOMAIN F = 1 .. Len(st) - 1
      /\ \A k \in 1 .. Len(st) - 1 : F[k] = st[k]
      /\ DOMAIN st = 1 .. Len(st) /\ Last(st) = st[Len(st)] /\ Len(st) \in DOMAIN st
  BY FrontFacts
<1> HIDE DEF F
<1>2. \A k \in DOMAIN F : k \in DOMAIN st /\ F[k] = st[k] BY <1>1
<1>3. /\ Last(st) \in DOMAIN recs /\ recs[Last(st)].snapshot = Slice(t, Len(F))
  BY <1>1 DEF StackOf
<1>4. Slice(t, Len(F)) # NoSnapshot BY DEF Slice, NoSnapshot
<1> QED BY <1>2, <1>3, <1>4 DEF StackOf, F

LEMMA StackKept ==
  IInv /\ SeedHasNoSnapshot /\ StackInv /\ [Next]_vars => StackInv'
<1> SUFFICES ASSUME IInv, SeedHasNoSnapshot, StackInv, [Next]_vars PROVE StackInv' OBVIOUS
<1> DEFINE Goal == \A t \in Targets \ disordered' :
                     StackOf(t, config'[t], stack'[t], records')
<1>0. /\ config \in [Targets -> Slices] /\ stack \in [Targets -> Seq(Ids)]
      /\ job.stage # "down" =>
           \A t \in Targets \ disordered : StackOf(t, config[t], stack[t], records)
  BY StackInvByTarget DEF IInv, TypeOK
<1>1. CASE Start
  <2>1. \A t \in Targets : config'[t] = "default" /\ stack'[t] = <<>>
    BY <1>1, StartFacts DEF Defaults, Undeployed
  <2>2. \A t : StackOf(t, "default", <<>>, records') BY DEF StackOf, Slice
  <2>3. Goal BY <2>1, <2>2
  <2> QED BY <2>3, StackInvByTarget DEF StackInv, StackOf
<1>2. CASE Deploy
  <2> DEFINE t == job.target
             d == IF t \in Inert THEN config[t] ELSE "evolved"
  <2>1. /\ t \in Targets /\ job.id \in Ids /\ job.stage # "down" /\ disordered' = disordered
        /\ config' = IF t \in Inert THEN config ELSE [config EXCEPT ![t] = "evolved"]
        /\ stack' = [stack EXCEPT ![t] = Append(stack[t], job.id)]
        /\ \A id \in DOMAIN records : id \in DOMAIN records' /\ records'[id] = records[id]
        /\ job.id \in DOMAIN records' /\ records'[job.id].target = t
        /\ records'[job.id].snapshot = config[t]
    BY <1>2, DeployFacts DEF Begun
  <2>2. /\ config'[t] = d /\ stack'[t] = Append(stack[t], job.id) /\ stack[t] \in Seq(Ids)
        /\ \A u \in Targets \ {t} : config'[u] = config[u] /\ stack'[u] = stack[u]
    BY <1>0, <2>1
  <2> HIDE DEF t
  <2>3. ASSUME NEW u \in Targets \ disordered'
        PROVE  StackOf(u, config'[u], stack'[u], records')
    <3>1. StackOf(u, config[u], stack[u], records') BY <1>0, <2>1, StackStays
    <3>2. CASE u = t BY <2>1, <2>2, <3>1, <3>2, StackGrows
    <3>3. CASE u # t BY <2>2, <3>1, <3>3
    <3> QED BY <3>2, <3>3
  <2> QED BY <2>3 DEF StackInv, StackOf
<1>3. ASSUME NEW id \in DOMAIN records, RollBack(id) PROVE StackInv'
  <2> DEFINE t == records[id].target
             x == records[id].snapshot
             inOrder == stack[t] # <<>> /\ Last(stack[t]) = id
  <2>1. /\ t \in Targets /\ id \in Ids /\ job.stage # "down"
        /\ \A i \in DOMAIN records : /\ i \in DOMAIN records'
                                     /\ records'[i].target = records[i].target
                                     /\ records'[i].snapshot = records[i].snapshot
    BY <1>3, RollBackFacts DEF Record
  <2>2. /\ config' = IF x = NoSnapshot THEN config ELSE [config EXCEPT ![t] = x]
        /\ stack' = IF inOrder THEN [stack EXCEPT ![t] = Front(stack[t])] ELSE stack
        /\ disordered' = IF inOrder \/ id = Seed THEN disordered ELSE disordered \cup {t}
    BY <1>3 DEF RollBack
  <2>3. ASSUME NEW u \in Targets \ disordered'
        PROVE  StackOf(u, config'[u], stack'[u], records')
    <3>1. u \notin disordered BY <2>2
    <3>2. StackOf(u, config[u], stack[u], records) BY <1>0, <2>1, <3>1
    <3>3. CASE u # t
      <4>1. config'[u] = config[u] /\ stack'[u] = stack[u] BY <1>0, <2>2, <3>3
      <4> QED BY <2>1, <3>2, <4>1, StackStays
    <3>4. CASE u = t /\ inOrder
      <4>1. stack[t] \in Seq(Ids) /\ stack[t] # <<>> /\ Last(stack[t]) = id
        BY <1>0, <2>1, <3>4
      <4>2. x # NoSnapshot /\ StackOf(t, x, Front(stack[t]), records)
        BY <3>2, <3>4, <4>1, StackShrinks
      <4>3. config'[t] = x /\ stack'[t] = Front(stack[t]) BY <1>0, <2>1, <2>2, <3>4, <4>2
      <4>4. StackOf(t, config'[t], stack'[t], records) BY <4>2, <4>3
      <4> HIDE DEF t
      <4>5. StackOf(t, config'[t], stack'[t], records') BY <2>1, <4>4, StackStays
      <4> QED BY <3>4, <4>5
    <3>5. CASE u = t /\ ~inOrder
      <4>1. id = Seed BY <2>2, <3>5
      <4>2. x = NoSnapshot BY <4>1 DEF SeedHasNoSnapshot
      <4>3. config' = config /\ stack' = stack BY <2>2, <3>5, <4>2
      <4> QED BY <2>1, <3>2, <4>3, StackStays
    <3> QED BY <3>3, <3>4, <3>5
  <2> QED BY <2>3 DEF StackInv, StackOf
<1>4. CASE Quiet
  BY <1>4, QuietFacts DEF StackInv
<1>5. CASE Crash BY <1>5, CrashFacts, JobFacts DEF StackInv
<1> QED BY <1>1, <1>2, <1>3, <1>4, <1>5, StepsByKind

(***************************************************************************)
(* As long as the rollbacks of a target come in the reverse order of its   *)
(* deployments, each finds in its record the slice that it has to restore, *)
(* however the targets alternate and whatever is written or not            *)
(* (aei.py:405-573).                                                       *)
(***************************************************************************)
THEOREM OrderlyRollbacksDoRestore == Spec => []OrderlyRollbacksRestore
<1> DEFINE Inv == IInv /\ SeedHasNoSnapshot /\ StackInv
<1>1. Init => Inv
  <2>1. Init => SeedHasNoSnapshot
    BY IdFacts, LinesApart DEF Init, SeedHasNoSnapshot, Readable
  <2>2. Init => StackInv BY JobFacts DEF Init, StackInv
  <2> QED BY <2>1, <2>2, InitTypes
<1>2. Inv /\ [Next]_vars => Inv' BY TypesKept, SeedKept, StackKept
<1>3. Inv => OrderlyRollbacksRestore
  <2> SUFFICES ASSUME IInv, StackInv, job.stage # "down", NEW t \in Targets \ disordered
               PROVE  config[t] = IF stack[t] = <<>> \/ t \in Inert THEN "default" ELSE "evolved"
    BY DEF OrderlyRollbacksRestore
  <2>1. stack[t] \in Seq(Ids) /\ config[t] = Slice(t, Len(stack[t]))
    BY DEF IInv, TypeOK, StackInv
  <2>2. Len(stack[t]) = 0 <=> stack[t] = <<>> BY <2>1
  <2> QED BY <2>1, <2>2 DEF Slice
<1> HIDE DEF Inv
<1> QED BY <1>1, <1>2, <1>3, PTL DEF Spec
=============================================================================
