------------------------ MODULE PluginPlatformProofs ------------------------
(***************************************************************************)
(* Proofs about PluginPlatform: its types, that promises are kept, and     *)
(* that a manager knows of those of others.                                *)
(***************************************************************************)
EXTENDS PluginPlatform, SequenceTheorems, TLAPS

----------------------------------------------------------------------------
(* Constants *)

\* What each operation makes of a plugin.
LEMMA Outcomes ==
  /\ Ops = {"install", "install_only", "enable", "disable", "remove"}
  /\ Outcome["install"] = "ENABLED" /\ Outcome["install_only"] = "INSTALLED"
  /\ Outcome["enable"] = "ENABLED" /\ Outcome["disable"] = "DISABLED"
  /\ Outcome["remove"] = "UNINSTALLED"
BY DEF Ops, Outcome

\* Only a removal leaves a plugin uninstalled.
LEMMA OutcomeStatus ==
  ASSUME NEW op \in Ops
  PROVE  /\ Outcome[op] \in Status
         /\ Outcome[op] = "UNINSTALLED" <=> op = "remove"
BY Outcomes DEF Status

LEMMA Sizes ==
  /\ DOMAIN Size = Status \ {"UNINSTALLED"}
  /\ \A s \in Status \ {"UNINSTALLED"} : Size[s] \in {7, 8, 9}
BY DEF Size, Status

LEMMA RequestFacts ==
  /\ \A r \in Request : r # NoRequest /\ r.op \in Ops /\ r.plugin \in Plugins
  /\ NoRequest \notin Request
BY Outcomes DEF Request, NoRequest

LEMMA GoneIsWorker ==
  /\ Gone \in Worker
  /\ Gone.stage = "gone" /\ Gone.request = NoRequest /\ Gone.pending = <<>>
  /\ \A p \in Plugins : Gone.memory[p] = "UNINSTALLED"
BY DEF Gone, Worker, Stages, Changing, Status

LEMMA DefaultsNonEmpty == Defaults \in Seq(Plugins) /\ Defaults # <<>>
BY DefaultsAssumption

----------------------------------------------------------------------------
(* The shape of a process *)

Subj(w) == IF w.pending # <<>> THEN Head(w.pending) ELSE w.request.plugin

(***************************************************************************)
(* A process in good shape: it has a request while it is at work, defaults *)
(* are pending only while they are installed, and what it is about to      *)
(* write is what its memory says.                                          *)
(***************************************************************************)
Good(w) ==
  /\ w \in Worker
  /\ w.request = NoRequest <=> w.stage \in {"gone", "free"}
  /\ w.pending # <<>> => w.stage \in {"default", "open", "write"}
  /\ w.stage = "default" => w.pending # <<>>
  /\ w.stage = "unlink" => w.request.op = "remove"
  /\ w.stage \in {"open", "write"} =>
       /\ w.memory[Subj(w)] # "UNINSTALLED"
       /\ w.pending = <<>> => w.memory[Subj(w)] = Outcome[w.request.op]

ShapeOf(w) ==
  /\ w \in [Hosts -> Worker]
  /\ \A h \in Hosts :
       /\ Good(w[h])
       /\ w[h].stage = "waiting" => h # Daemon
       /\ w[h].stage = "free" => h = Daemon

Shape == ShapeOf(worker)

\* A process at work changes a plugin of the catalog.
LEMMA SubjectIsPlugin ==
  ASSUME NEW w, Good(w), w.stage \notin {"gone", "free"}
  PROVE  /\ w.request \in Request
         /\ w.request.op \in Ops /\ w.request.plugin \in Plugins
         /\ Subj(w) \in Plugins
         /\ w.pending # <<>> => Head(w.pending) \in Plugins /\ Tail(w.pending) \in Seq(Plugins)
<1>1. w.request \in Request BY DEF Good, Worker
<1>2. w.request.op \in Ops /\ w.request.plugin \in Plugins BY <1>1, RequestFacts
<1>3. w.pending \in Seq(Plugins) BY DEF Good, Worker
<1>4. w.pending # <<>> => Head(w.pending) \in Plugins /\ Tail(w.pending) \in Seq(Plugins)
  BY <1>3
<1> QED BY <1>1, <1>2, <1>4 DEF Subj

LEMMA GoneIsGood == Good(Gone)
BY GoneIsWorker DEF Good

\* Beside its place, a process may be marked as disturbed at any time.
LEMMA MarkedIsGood ==
  ASSUME NEW w, Good(w), NEW b \in BOOLEAN, NEW S \in SUBSET Plugins
  PROVE  Good([w EXCEPT !.clean = b, !.unsure = S])
BY DEF Good, Worker, Subj

LEMMA UnlinkedIsGood ==
  ASSUME NEW w, Good(w)
  PROVE  Good([w EXCEPT !.linked = FALSE])
BY DEF Good, Worker, Subj

\* After a file a process is still in shape.
LEMMA AfterFileIsGood ==
  ASSUME NEW w, Good(w), w.stage \in {"open", "write"}, NEW b \in BOOLEAN
  PROVE  /\ Good(AfterFile(w))
         /\ Good(AfterFile([w EXCEPT !.clean = b]))
         /\ AfterFile(w).stage \in {"default", "apply", "answer"}
         /\ AfterFile([w EXCEPT !.clean = b]).stage \in {"default", "apply", "answer"}
<1>1. w.pending \in Seq(Plugins) BY DEF Good, Worker
<1>2. ASSUME NEW q \in Seq(Plugins), q # <<>>
      PROVE  Tail(q) # <<>> <=> Len(q) > 1
  <2>1. Tail(q) \in Seq(Plugins) /\ Len(Tail(q)) = Len(q) - 1 BY <1>2, HeadTailProperties
  <2>2. Tail(q) = <<>> <=> Len(Tail(q)) = 0 BY <2>1, EmptySeq
  <2>3. Len(q) \in Nat BY <1>2, LenProperties
  <2>4. Len(q) # 0 BY <1>2, EmptySeq
  <2> QED BY <2>1, <2>2, <2>3, <2>4
<1>3. w.pending # <<>> => (Tail(w.pending) # <<>> <=> Len(w.pending) > 1)
  BY <1>1, <1>2
<1> DEFINE v == [w EXCEPT !.clean = b]
<1>4. Good(v) /\ v.stage = w.stage /\ v.pending = w.pending
  BY DEF Good, Worker, Subj
<1>5. ASSUME NEW u, Good(u), u.stage \in {"open", "write"},
             u.pending # <<>> => (Tail(u.pending) # <<>> <=> Len(u.pending) > 1)
      PROVE  Good(AfterFile(u)) /\ AfterFile(u).stage \in {"default", "apply", "answer"}
  <2>1. u.request \in Request /\ u.request # NoRequest
    BY <1>5, SubjectIsPlugin, RequestFacts
  <2>2. CASE u.pending = <<>>
    BY <1>5, <2>1, <2>2 DEF Good, Worker, AfterFile, Stages, Changing
  <2>3. CASE u.pending # <<>>
    <3>1. Tail(u.pending) \in Seq(Plugins) BY <1>5, <2>3, SubjectIsPlugin
    <3>2. CASE Len(u.pending) > 1
      BY <1>5, <2>1, <2>3, <3>1, <3>2 DEF Good, Worker, AfterFile, Stages, Changing
    <3>3. CASE ~(Len(u.pending) > 1)
      BY <1>5, <2>1, <2>3, <3>1, <3>3 DEF Good, Worker, AfterFile, Stages, Changing
    <3> QED BY <3>2, <3>3
  <2> QED BY <2>2, <2>3
<1> QED BY <1>3, <1>4, <1>5

----------------------------------------------------------------------------
(* Types *)

Types ==
  /\ files \in [Plugins -> [text : (Status \ {"UNINSTALLED"}) \cup {"none", "unreadable"},
                            size : {0} \cup {Size[s] : s \in DOMAIN Size}]]
  /\ socket \in BOOLEAN
  /\ queue \in Seq(Request)
  /\ promised \in [Plugins -> Status]
  /\ excused \subseteq Plugins

TypeInv == Types /\ Shape

LEMMA TypeInvGivesTypeOK == TypeInv => TypeOK
BY DEF TypeInv, Types, Shape, ShapeOf, TypeOK, Good

LEMMA ShapeByProcess ==
  ASSUME NEW w, w \in [Hosts -> Worker],
         \A g \in Hosts : /\ Good(w[g])
                          /\ w[g].stage = "waiting" => g # Daemon
                          /\ w[g].stage = "free" => g = Daemon
  PROVE  ShapeOf(w)
BY DEF ShapeOf

\* A step of one process that leaves it in shape.
LEMMA OneMoves ==
  ASSUME Shape, NEW h \in Hosts, NEW v, Good(v),
         v.stage = "waiting" => h # Daemon, v.stage = "free" => h = Daemon,
         NEW u, u = [worker EXCEPT ![h] = v]
  PROVE  ShapeOf(u)
<1>0. ShapeOf(worker) BY DEF Shape
<1>1. \A g \in Hosts : u[g] = IF g = h THEN v ELSE worker[g]
  BY <1>0 DEF ShapeOf
<1>2. u \in [Hosts -> Worker]
  BY <1>0 DEF ShapeOf, Good
<1>3. \A g \in Hosts : /\ Good(u[g])
                       /\ u[g].stage = "waiting" => g # Daemon
                       /\ u[g].stage = "free" => g = Daemon
  BY <1>0, <1>1 DEF ShapeOf
<1> QED BY ONLY <1>2, <1>3, ShapeByProcess

\* A step that marks the others beside.
LEMMA ChangeMoves ==
  ASSUME Shape, NEW h \in Hosts, NEW p \in Plugins, NEW v, Good(v),
         v.stage \notin {"waiting", "free"},
         NEW u, u = Changed(h, p, v)
  PROVE  ShapeOf(u)
<1>0. ShapeOf(worker) BY DEF Shape
<1>1. ASSUME NEW g \in Hosts \ {h}
      PROVE  /\ Good(u[g])
             /\ u[g].stage = worker[g].stage
  <2> DEFINE b == worker[g].clean /\ ~Works(g, p)
             S == IF g \in Loaders THEN worker[g].unsure \cup {p} ELSE worker[g].unsure
  <2>1. Good(worker[g]) /\ b \in BOOLEAN /\ S \in SUBSET Plugins
    BY <1>0 DEF ShapeOf, Good, Worker
  <2>2. u[g] = [worker[g] EXCEPT !.clean = b, !.unsure = S]
    BY DEF Changed
  <2>3. Good([worker[g] EXCEPT !.clean = b, !.unsure = S])
    BY <2>1, MarkedIsGood
  <2>4. worker[g] \in Worker BY <2>1 DEF Good
  <2> QED BY <2>2, <2>3, <2>4 DEF Worker
<1>2. Good(u[h]) /\ u[h].stage = v.stage
  <2> DEFINE b == \A k \in Hosts \ {h} : ~Works(k, p)
  <2>1. v \in Worker /\ b \in BOOLEAN /\ v.unsure \in SUBSET Plugins BY DEF Good, Worker
  <2>2. u[h] = [v EXCEPT !.clean = b] BY DEF Changed
  <2>3. [v EXCEPT !.clean = b] = [v EXCEPT !.clean = b, !.unsure = v.unsure]
    BY <2>1 DEF Worker
  <2>4. [v EXCEPT !.clean = b, !.unsure = v.unsure].stage = v.stage
    BY <2>1 DEF Worker
  <2> HIDE DEF b
  <2>5. Good([v EXCEPT !.clean = b, !.unsure = v.unsure])
    BY <2>1, MarkedIsGood
  <2> QED BY <2>2, <2>3, <2>4, <2>5
<1>3. u \in [Hosts -> Worker]
  <2>1. \A g \in Hosts : u[g] \in Worker BY <1>1, <1>2 DEF Good
  <2>2. u = [g \in Hosts |-> u[g]] BY DEF Changed
  <2> QED BY ONLY <2>1, <2>2
<1>5. \A g \in Hosts : /\ Good(u[g])
                       /\ u[g].stage = "waiting" => g # Daemon
                       /\ u[g].stage = "free" => g = Daemon
  BY <1>0, <1>1, <1>2 DEF ShapeOf
<1> QED BY ONLY <1>3, <1>5, ShapeByProcess

----------------------------------------------------------------------------
(* The actions keep the shape *)

LEMMA ShapeOfHost ==
  ASSUME Shape, NEW h \in Hosts
  PROVE  /\ Good(worker[h]) /\ worker[h] \in Worker
         /\ worker \in [Hosts -> Worker]
BY DEF Shape, ShapeOf, Good

LEMMA HostFacts ==
  /\ Daemon \in Hosts /\ Clients \subseteq Hosts
  /\ \A c \in Clients : c # Daemon
BY ProcessesAssumption DEF Hosts

LEMMA AskShape ==
  ASSUME Shape, NEW c \in Clients, NEW ask \in Requests, Ask(c, ask[1], ask[2])
  PROVE  Shape' /\ [client |-> c, op |-> ask[1], plugin |-> ask[2]] \in Request
<1> DEFINE r == [client |-> c, op |-> ask[1], plugin |-> ask[2]]
           v(s) == [Gone EXCEPT !.stage = s, !.request = r]
<1>1. r \in Request BY RequestsAssumption DEF Request
<1>2. c \in Hosts /\ c # Daemon BY HostFacts
<1>3. r # NoRequest BY <1>1, RequestFacts
<1>4. Good(v("list")) /\ v("list").stage = "list"
  BY <1>1, <1>3, GoneIsWorker DEF Good, Worker, Stages, Changing, Gone
<1>5. Good(v("waiting")) /\ v("waiting").stage = "waiting"
  BY <1>1, <1>3, GoneIsWorker DEF Good, Worker, Stages, Changing, Gone
<1>6. \/ worker' = [worker EXCEPT ![c] = v("list")]
      \/ worker' = [worker EXCEPT ![c] = v("waiting")]
  BY DEF Ask
<1> HIDE DEF v
<1>7. ShapeOf(worker')
  <2>1. CASE worker' = [worker EXCEPT ![c] = v("list")]
    BY <1>2, <1>4, <2>1, OneMoves
  <2>2. CASE worker' = [worker EXCEPT ![c] = v("waiting")]
    BY <1>2, <1>5, <2>2, OneMoves
  <2> QED BY <1>6, <2>1, <2>2
<1> QED BY <1>1, <1>7 DEF Shape

LEMMA AcceptShape ==
  ASSUME Shape, queue \in Seq(Request), Accept
  PROVE  Shape' /\ queue' \in Seq(Request)
<1> DEFINE v == [worker[Daemon] EXCEPT !.request = Head(queue),
                   !.stage = IF worker[Daemon].loaded THEN "apply" ELSE "list"]
<1>1. Head(queue) \in Request /\ Tail(queue) \in Seq(Request)
  BY HeadTailProperties DEF Accept
<1>2. Head(queue) # NoRequest BY <1>1, RequestFacts
<1>3. Good(worker[Daemon]) /\ worker[Daemon].stage = "free"
  BY ShapeOfHost, HostFacts DEF Accept
<1>4. Good(v) /\ v.stage \notin {"waiting", "free"}
  BY <1>1, <1>2, <1>3 DEF Good, Worker, Stages, Changing
<1>5. worker' = [worker EXCEPT ![Daemon] = v]
  BY DEF Accept
<1> HIDE DEF v
<1>6. ShapeOf(worker') BY <1>4, <1>5, HostFacts, OneMoves
<1> QED BY <1>1, <1>6 DEF Shape, Accept

\* A process that reads a file or fails to.
HasRead(r, p) == [r EXCEPT !.unread = @ \ {p}, !.memory[p] = Stored(p)]
HasMissed(r, p) == [r EXCEPT !.unread = @ \ {p}, !.unsure = @ \cup {p}]

LEMMA ReadFileFacts ==
  ASSUME NEW h \in Hosts, worker[h] \in Worker, ReadFile(h),
         \A p \in Plugins : Stored(p) \in Status
  PROVE  /\ worker[h].stage = "read" /\ UNCHANGED <<files, socket, queue, promised, excused>>
         /\ \E p \in worker[h].unread :
              \E v \in {HasRead(worker[h], p), HasMissed(worker[h], p)} :
                worker' = [worker EXCEPT ![h] = v]
         /\ \A p \in worker[h].unread :
              \A v \in {HasRead(worker[h], p), HasMissed(worker[h], p)} :
                /\ v \in Worker /\ p \in Plugins
                /\ v.stage = "read" /\ v.request = worker[h].request
                /\ v.loaded = worker[h].loaded /\ v.unread = worker[h].unread \ {p}
                /\ v.pending = worker[h].pending
                /\ worker[h].unsure \subseteq v.unsure
                /\ \A q \in Plugins \ {p} : v.memory[q] = worker[h].memory[q]
                /\ \/ v.memory[p] = Stored(p) /\ v.unsure = worker[h].unsure
                   \/ p \in v.unsure /\ v.memory = worker[h].memory
<1>1. /\ worker[h].stage = "read" /\ UNCHANGED <<files, socket, queue, promised, excused>>
      /\ \E p \in worker[h].unread :
           \E v \in {HasRead(worker[h], p), HasMissed(worker[h], p)} :
             worker' = [worker EXCEPT ![h] = v]
  BY DEF ReadFile, HasRead, HasMissed, historyVars
<1>2. ASSUME NEW p \in worker[h].unread, NEW v, v = HasRead(worker[h], p)
      PROVE  /\ v \in Worker /\ p \in Plugins
             /\ v.stage = "read" /\ v.request = worker[h].request
             /\ v.loaded = worker[h].loaded /\ v.unread = worker[h].unread \ {p}
             /\ v.pending = worker[h].pending
             /\ v.memory[p] = Stored(p) /\ v.unsure = worker[h].unsure
             /\ \A q \in Plugins \ {p} : v.memory[q] = worker[h].memory[q]
  <2>1. p \in Plugins /\ Stored(p) \in Status BY DEF Worker
  <2> QED BY <1>1, <1>2, <2>1 DEF Worker, HasRead
<1>3. ASSUME NEW p \in worker[h].unread, NEW v, v = HasMissed(worker[h], p)
      PROVE  /\ v \in Worker /\ p \in Plugins
             /\ v.stage = "read" /\ v.request = worker[h].request
             /\ v.loaded = worker[h].loaded /\ v.unread = worker[h].unread \ {p}
             /\ v.pending = worker[h].pending
             /\ v.memory = worker[h].memory /\ v.unsure = worker[h].unsure \cup {p}
  BY <1>1, <1>3 DEF Worker, HasMissed
<1>4. ASSUME NEW p \in worker[h].unread,
             NEW v \in {HasRead(worker[h], p), HasMissed(worker[h], p)}
      PROVE  /\ v \in Worker /\ p \in Plugins
             /\ v.stage = "read" /\ v.request = worker[h].request
             /\ v.loaded = worker[h].loaded /\ v.unread = worker[h].unread \ {p}
             /\ v.pending = worker[h].pending
             /\ worker[h].unsure \subseteq v.unsure
             /\ \A q \in Plugins \ {p} : v.memory[q] = worker[h].memory[q]
             /\ \/ v.memory[p] = Stored(p) /\ v.unsure = worker[h].unsure
                \/ p \in v.unsure /\ v.memory = worker[h].memory
  <2>1. CASE v = HasRead(worker[h], p) BY <1>2, <2>1
  <2>2. CASE v = HasMissed(worker[h], p) BY <1>3, <2>2
  <2> QED BY <1>4, <2>1, <2>2
<1> QED BY <1>1, <1>4

LEMMA LoadingShape ==
  ASSUME Shape, NEW h \in Hosts, ListFiles(h) \/ ReadFile(h) \/ EndLoading(h),
         \A p \in Plugins : Stored(p) \in Status
  PROVE  Shape'
<1>1. Good(worker[h]) BY ShapeOfHost
<1>2. CASE ListFiles(h)
  <2> DEFINE v == [worker[h] EXCEPT !.stage = "read",
                     !.unread = {p \in Plugins : files[p] # Absent},
                     !.unsure = UNION {Worked(g) : g \in Hosts \ {h}}]
  <2>1. UNION {Worked(g) : g \in Hosts \ {h}} \in SUBSET Plugins BY DEF Worked
  <2>2. {p \in Plugins : files[p] # Absent} \in SUBSET Plugins OBVIOUS
  <2>3. Good(v) /\ v.stage = "read"
    BY <1>1, <1>2, <2>1, <2>2 DEF Good, Worker, Stages, Changing, ListFiles
  <2>4. worker' = [worker EXCEPT ![h] = v] BY <1>2 DEF ListFiles
  <2> HIDE DEF v
  <2>5. ShapeOf(worker') BY <2>3, <2>4, OneMoves
  <2> QED BY <2>5 DEF Shape
<1>3. CASE ReadFile(h)
  <2>1. worker[h] \in Worker BY <1>1 DEF Good
  <2>2. PICK p \in worker[h].unread :
          \E v \in {HasRead(worker[h], p), HasMissed(worker[h], p)} :
            worker' = [worker EXCEPT ![h] = v]
    BY <1>3, <2>1, ReadFileFacts
  <2>4. PICK v \in {HasRead(worker[h], p), HasMissed(worker[h], p)} :
          worker' = [worker EXCEPT ![h] = v]
    BY <2>2
  <2>3. Good(v) /\ v.stage = "read"
    <3>1. /\ v \in Worker /\ v.stage = "read" /\ worker[h].stage = "read"
          /\ v.request = worker[h].request /\ v.pending = worker[h].pending
          /\ v.loaded = worker[h].loaded
      BY <1>3, <2>1, ReadFileFacts
    <3> QED BY <1>1, <3>1 DEF Good
  <2>5. ShapeOf(worker') BY <2>3, <2>4, OneMoves
  <2> QED BY <2>5 DEF Shape
<1>4. CASE EndLoading(h)
  <2> DEFINE v == [worker[h] EXCEPT !.stage = "default", !.loaded = TRUE, !.pending = Defaults]
             u == [worker[h] EXCEPT !.stage = "apply", !.loaded = TRUE]
  <2>1. Good(v) /\ v.stage = "default"
    BY <1>1, <1>4, DefaultsNonEmpty DEF Good, Worker, Stages, Changing, EndLoading
  <2>2. Good(u) /\ u.stage = "apply"
    BY <1>1, <1>4 DEF Good, Worker, Stages, Changing, EndLoading
  <2>3. worker' = [worker EXCEPT ![h] = v] \/ worker' = [worker EXCEPT ![h] = u]
    BY <1>4 DEF EndLoading
  <2> HIDE DEF v, u
  <2>5. ShapeOf(worker') BY <2>1, <2>2, <2>3, OneMoves
  <2> QED BY <2>5 DEF Shape
<1> QED BY <1>2, <1>3, <1>4

LEMMA InstallDefaultShape ==
  ASSUME Shape, NEW h \in Hosts, InstallDefault(h)
  PROVE  Shape' /\ Head(worker[h].pending) \in Plugins
<1> DEFINE p == Head(worker[h].pending)
           v == [worker[h] EXCEPT !.stage = "open", !.memory[p] = "ENABLED"]
<1>1. Good(worker[h]) /\ worker[h].stage = "default" /\ worker[h].pending # <<>>
  BY ShapeOfHost DEF Good, InstallDefault
<1>2. p \in Plugins BY <1>1, SubjectIsPlugin
<1>3. Good(v) /\ v.stage = "open"
  BY <1>1, <1>2 DEF Good, Worker, Stages, Changing, Status, Subj
<1>4. worker' = Changed(h, p, v) BY DEF InstallDefault
<1> HIDE DEF v, p
<1>5. ShapeOf(worker') BY <1>2, <1>3, <1>4, ChangeMoves
<1> QED BY <1>2, <1>5 DEF Shape, p

\* Where a request leads: to the change of its plugin or to a refusal.
LEMMA ApplyShape ==
  ASSUME Shape, NEW h \in Hosts, Apply(h)
  PROVE  Shape'
<1> DEFINE r == worker[h].request
           p == r.plugin
           v == [worker[h] EXCEPT !.memory[p] = Outcome[r.op],
                                  !.stage = IF r.op = "remove" THEN "unlink" ELSE "open"]
           u == [worker[h] EXCEPT !.stage = "refuse"]
<1>1. Good(worker[h]) /\ worker[h].stage = "apply" /\ worker[h].pending = <<>>
  BY ShapeOfHost DEF Good, Apply
<1>2. p \in Plugins /\ r.op \in Ops /\ r \in Request /\ r # NoRequest
  BY <1>1, SubjectIsPlugin, RequestFacts
<1>3. Outcome[r.op] \in Status /\ (Outcome[r.op] = "UNINSTALLED" <=> r.op = "remove")
  BY <1>2, OutcomeStatus
<1>4. Good(v) /\ v.stage \in {"unlink", "open"}
  BY <1>1, <1>2, <1>3 DEF Good, Worker, Stages, Changing, Subj
<1>5. Good(u) /\ u.stage = "refuse"
  BY <1>1, <1>2 DEF Good, Worker, Stages, Changing, Subj
<1>6. worker' = Changed(h, p, v) \/ worker' = [worker EXCEPT ![h] = u]
  BY DEF Apply
<1> HIDE DEF v, u, p, r
<1>7. CASE worker' = Changed(h, p, v)
  <2>1. ShapeOf(worker') BY <1>2, <1>4, <1>7, ChangeMoves
  <2> QED BY <2>1 DEF Shape
<1>8. CASE worker' = [worker EXCEPT ![h] = u]
  <2>1. ShapeOf(worker') BY <1>5, <1>8, OneMoves
  <2> QED BY <2>1 DEF Shape
<1> QED BY <1>6, <1>7, <1>8

LEMMA PersistShape ==
  ASSUME Shape, NEW h \in Hosts, OpenFile(h) \/ WriteFile(h)
  PROVE  Shape'
<1> DEFINE v == [worker[h] EXCEPT !.stage = "write", !.linked = TRUE]
           u == AfterFile([worker[h] EXCEPT !.clean = FALSE])
           w == AfterFile(worker[h])
<1>1. Good(worker[h]) /\ worker[h].stage \in {"open", "write"}
  BY ShapeOfHost DEF OpenFile, WriteFile
<1>2. worker[h].stage = "open" => Good(v) /\ v.stage = "write"
  BY <1>1 DEF Good, Worker, Stages, Changing, Subj
<1>3. /\ Good(u) /\ u.stage \in {"default", "apply", "answer"}
      /\ Good(w) /\ w.stage \in {"default", "apply", "answer"}
  BY <1>1, AfterFileIsGood
<1>4. \/ worker[h].stage = "open" /\ worker' = [worker EXCEPT ![h] = v]
      \/ worker' = [worker EXCEPT ![h] = u]
      \/ worker' = [worker EXCEPT ![h] = w]
  BY DEF OpenFile, WriteFile
<1> HIDE DEF v, u, w
<1>5. ShapeOf(worker') BY <1>2, <1>3, <1>4, OneMoves
<1> QED BY <1>5 DEF Shape

LEMMA UnlinkShape ==
  ASSUME Shape, NEW h \in Hosts, Unlink(h)
  PROVE  Shape'
<1>1. Good(worker[h]) /\ worker[h].stage = "unlink" BY ShapeOfHost DEF Unlink
<1> DEFINE v == [worker[h] EXCEPT !.stage = "answer"]
           u == [worker[h] EXCEPT !.stage = "answer", !.clean = FALSE]
<1>2. Good(v) /\ v.stage = "answer" /\ Good(u) /\ u.stage = "answer"
  BY <1>1 DEF Good, Worker, Stages, Changing, Subj
<1>3. CASE worker' = [worker EXCEPT ![h].stage = "answer", ![h].clean = FALSE]
  <2>1. worker' = [worker EXCEPT ![h] = u] BY <1>3
  <2> HIDE DEF u
  <2>2. ShapeOf(worker') BY <1>2, <2>1, OneMoves
  <2> QED BY <2>2 DEF Shape
<1>4. CASE worker' = [g \in Hosts |->
             IF g = h THEN [worker[g] EXCEPT !.stage = "answer"]
             ELSE IF Works(g, Subject(h)) THEN [worker[g] EXCEPT !.linked = FALSE]
             ELSE worker[g]]
  <2>1. ASSUME NEW g \in Hosts
        PROVE  /\ Good(worker'[g])
               /\ worker'[g].stage = IF g = h THEN "answer" ELSE worker[g].stage
    <3>1. Good(worker[g]) /\ worker[g] \in Worker BY ShapeOfHost
    <3>2. Good([worker[g] EXCEPT !.linked = FALSE]) BY <3>1, UnlinkedIsGood
    <3>3. \/ g = h /\ worker'[g] = v
          \/ g # h /\ worker'[g] = [worker[g] EXCEPT !.linked = FALSE]
          \/ g # h /\ worker'[g] = worker[g]
      BY <1>4
    <3>4. [worker[g] EXCEPT !.linked = FALSE].stage = worker[g].stage BY <3>1 DEF Worker
    <3> QED BY <1>2, <3>1, <3>2, <3>3, <3>4
  <2>2. \A g \in Hosts : worker'[g] \in Worker BY <2>1 DEF Good
  <2>3. worker' \in [Hosts -> Worker] BY <1>4, <2>2
  <2>4. ShapeOf(worker') BY <2>1, <2>3 DEF Shape, ShapeOf
  <2> QED BY <2>4 DEF Shape
<1> QED BY <1>3, <1>4 DEF Unlink

LEMMA ReturnAnswerShape ==
  ASSUME Shape, NEW c \in Clients, ReturnAnswer(c)
  PROVE  Shape'
<1>1. ShapeOf(worker')
  BY GoneIsGood, GoneIsWorker, HostFacts, OneMoves DEF ReturnAnswer
<1> QED BY <1>1 DEF Shape

LEMMA SendAnswerShape ==
  ASSUME Shape, SendAnswer
  PROVE  /\ Shape'
         /\ worker[Daemon].request.client \in Clients
<1> DEFINE c == worker[Daemon].request.client
           v == Free
<1>1. Good(worker[Daemon]) /\ worker[Daemon].stage \in {"answer", "refuse"}
  BY ShapeOfHost, HostFacts DEF SendAnswer
<1>2. worker[Daemon].request \in Request BY <1>1, SubjectIsPlugin
<1>3. c \in Clients BY <1>2 DEF Request, SendAnswer
<1>4. Good(v) /\ v.stage = "free"
  BY <1>1 DEF Good, Worker, Stages, Changing, Free
<1>5. worker' = [[worker EXCEPT ![Daemon] = v] EXCEPT ![c] = Gone]
  BY DEF SendAnswer
<1>6. c \in Hosts /\ c # Daemon /\ Daemon \in Hosts BY <1>3, HostFacts
<1> HIDE DEF v, c
<1>7. \A g \in Hosts : worker'[g] = IF g = c THEN Gone ELSE IF g = Daemon THEN v ELSE worker[g]
  BY <1>5, <1>6, ShapeOfHost
<1>8. \A g \in Hosts : /\ Good(worker'[g])
                       /\ worker'[g].stage = "waiting" => g # Daemon
                       /\ worker'[g].stage = "free" => g = Daemon
  BY <1>4, <1>7, GoneIsGood, GoneIsWorker DEF Shape, ShapeOf
<1>9. worker' \in [Hosts -> Worker]
  <2>1. \A g \in Hosts : worker'[g] \in Worker BY <1>8 DEF Good
  <2>2. v \in Worker /\ Gone \in Worker BY <1>4, GoneIsWorker DEF Good
  <2> QED BY <1>5, <1>6, <2>2, ShapeOfHost
<1>10. ShapeOf(worker') BY <1>8, <1>9 DEF ShapeOf
<1> QED BY <1>3, <1>10 DEF Shape, c

LEMMA DaemonGoneShape ==
  ASSUME Shape, worker' = DaemonGone
  PROVE  Shape'
<1>1. \A g \in Hosts : worker'[g] = Gone \/ (g # Daemon /\ worker'[g] = worker[g])
  BY DEF DaemonGone
<1>2. \A g \in Hosts : /\ Good(worker'[g])
                       /\ worker'[g].stage = "waiting" => g # Daemon
                       /\ worker'[g].stage = "free" => g = Daemon
  BY <1>1, GoneIsGood, GoneIsWorker DEF Shape, ShapeOf
<1>3. worker' \in [Hosts -> Worker]
  <2>1. \A g \in Hosts : worker'[g] \in Worker BY <1>2 DEF Good
  <2> QED BY <2>1 DEF DaemonGone
<1>4. ShapeOf(worker') BY <1>2, <1>3 DEF ShapeOf
<1> QED BY <1>4 DEF Shape

LEMMA StartDaemonShape ==
  ASSUME Shape, StartDaemon
  PROVE  Shape'
<1> DEFINE v == [Gone EXCEPT !.stage = "free"]
<1>1. Good(v) /\ v.stage = "free" BY GoneIsWorker DEF Good, Worker, Stages, Gone
<1>2. worker' = [worker EXCEPT ![Daemon] = v] BY DEF StartDaemon
<1> HIDE DEF v
<1>3. ShapeOf(worker') BY <1>1, <1>2, HostFacts, OneMoves
<1> QED BY <1>3 DEF Shape

LEMMA Forgetting ==
  ASSUME NEW r, NEW c
  PROVE  /\ r \in Request =>
              /\ Forget(r, c) \in Request
              /\ Forget(r, c).op = r.op /\ Forget(r, c).plugin = r.plugin
         /\ Forget(NoRequest, c) = NoRequest
<1>1. ASSUME r \in Request
      PROVE  /\ [r EXCEPT !.client = Nobody] \in Request
             /\ [r EXCEPT !.client = Nobody].op = r.op
             /\ [r EXCEPT !.client = Nobody].plugin = r.plugin
  BY <1>1 DEF Request
<1> QED BY <1>1 DEF Forget

LEMMA InterruptShape ==
  ASSUME Shape, queue \in Seq(Request), NEW c \in Clients, Interrupt(c)
  PROVE  Shape' /\ queue' \in Seq(Request)
<1> DEFINE r == Forget(worker[Daemon].request, c)
           v == [worker[Daemon] EXCEPT !.request = r]
<1>1. Good(worker[Daemon]) /\ worker[Daemon] \in Worker BY ShapeOfHost, HostFacts
<1>2. worker[Daemon].request \in Request \cup {NoRequest} BY <1>1 DEF Worker
<1>3. /\ r \in Request \cup {NoRequest}
      /\ r = NoRequest <=> worker[Daemon].request = NoRequest
      /\ r # NoRequest => r.op = worker[Daemon].request.op /\ r.plugin = worker[Daemon].request.plugin
  BY <1>2, Forgetting, RequestFacts
<1> HIDE DEF r
<1>4. v \in Worker /\ v.stage = worker[Daemon].stage
  BY <1>1, <1>3 DEF Worker
<1>5. Good(v)
  BY <1>1, <1>3, <1>4 DEF Good, Worker, Subj
<1>6. c \in Hosts /\ c # Daemon /\ Daemon \in Hosts BY HostFacts
<1>7. worker' = [[worker EXCEPT ![c] = Gone] EXCEPT ![Daemon] = v]
  BY <1>6, ShapeOfHost DEF Interrupt, r
<1> HIDE DEF v
<1>8. \A g \in Hosts : worker'[g] = IF g = c THEN Gone ELSE IF g = Daemon THEN v ELSE worker[g]
  BY <1>6, <1>7, ShapeOfHost
<1>9. \A g \in Hosts : /\ Good(worker'[g])
                       /\ worker'[g].stage = "waiting" => g # Daemon
                       /\ worker'[g].stage = "free" => g = Daemon
  BY <1>4, <1>5, <1>6, <1>8, GoneIsGood, GoneIsWorker DEF Shape, ShapeOf
<1>10. worker' \in [Hosts -> Worker]
  BY <1>4, <1>6, <1>7, GoneIsWorker, ShapeOfHost
<1>11. ShapeOf(worker') BY <1>9, <1>10 DEF ShapeOf
<1>12. queue' \in Seq(Request)
  <2>1. \A i \in 1 .. Len(queue) : queue[i] \in Request BY ElementOfSeq
  <2>2. \A i \in 1 .. Len(queue) : Forget(queue[i], c) \in Request BY <2>1, Forgetting
  <2>3. DOMAIN queue = 1 .. Len(queue) /\ Len(queue) \in Nat BY LenProperties
  <2>4. queue' = [i \in 1 .. Len(queue) |-> Forget(queue[i], c)] BY <2>3 DEF Interrupt
  <2> QED BY <2>2, <2>3, <2>4, IsASeq
<1> QED BY <1>11, <1>12 DEF Shape

----------------------------------------------------------------------------
(* Type correctness *)

FileType == [text : (Status \ {"UNINSTALLED"}) \cup {"none", "unreadable"},
             size : {0} \cup {Size[s] : s \in DOMAIN Size}]

LEMMA FileFacts ==
  /\ Empty \in FileType /\ Absent \in FileType
  /\ \A s \in Status \ {"UNINSTALLED"} : Holding(s) \in FileType
  /\ \A f \in FileType, s \in Status \ {"UNINSTALLED"} : Overlay(f, s) \in FileType
<1>1. Empty \in FileType /\ Absent \in FileType BY DEF Empty, Absent, FileType
<1>2. \A s \in Status \ {"UNINSTALLED"} : Holding(s) \in FileType
  BY Sizes DEF Holding, FileType
<1>3. ASSUME NEW f \in FileType, NEW s \in Status \ {"UNINSTALLED"}
      PROVE  Overlay(f, s) \in FileType
  <2>1. [f EXCEPT !.text = "unreadable"] \in FileType BY DEF FileType
  <2> QED BY <1>2, <2>1 DEF Overlay
<1> QED BY <1>1, <1>2, <1>3

LEMMA StoredIsStatus ==
  ASSUME NEW p \in Plugins
  PROVE  Stored(p) \in Status
BY DEF Stored, Status

\* The plugin a process is at is one of the catalog, and so is its state.
LEMMA SubjectFacts ==
  ASSUME Shape, NEW h \in Hosts, worker[h].stage \notin {"gone", "free"}
  PROVE  /\ Subject(h) \in Plugins
         /\ worker[h].stage \in {"open", "write"} =>
              worker[h].memory[Subject(h)] \in Status \ {"UNINSTALLED"}
<1>1. Good(worker[h]) BY ShapeOfHost
<1>2. Subject(h) = Subj(worker[h]) BY DEF Subject, Subj
<1>3. Subj(worker[h]) \in Plugins BY <1>1, SubjectIsPlugin
<1> QED BY <1>1, <1>2, <1>3 DEF Good, Worker

LEMMA PromiseTypes ==
  ASSUME Shape, NEW h \in Hosts, worker[h].stage \in {"answer", "refuse"}, Promise(h),
         promised \in [Plugins -> Status], excused \subseteq Plugins
  PROVE  promised' \in [Plugins -> Status] /\ excused' \subseteq Plugins
<1>1. Good(worker[h]) BY ShapeOfHost
<1>2. worker[h].request.plugin \in Plugins /\ Outcome[worker[h].request.op] \in Status
  BY <1>1, SubjectIsPlugin, OutcomeStatus
<1> QED BY <1>2 DEF Promise

LEMMA ManagerKeepsTypes ==
  ASSUME TypeInv, NEW h \in Hosts, ManagerStep(h)
  PROVE  TypeInv'
<1> USE DEF TypeInv
<1>1. CASE ListFiles(h) \/ ReadFile(h) \/ EndLoading(h)
  <2>1. Shape' BY <1>1, LoadingShape, StoredIsStatus
  <2>2. Types' BY <1>1 DEF Types, ListFiles, ReadFile, EndLoading, historyVars
  <2> QED BY <2>1, <2>2
<1>2. CASE InstallDefault(h)
  <2>1. Shape' /\ Head(worker[h].pending) \in Plugins BY <1>2, InstallDefaultShape
  <2>2. Types' BY <1>2, <2>1 DEF Types, InstallDefault
  <2> QED BY <2>1, <2>2
<1>3. CASE Apply(h)
  <2>1. Shape' BY <1>3, ApplyShape
  <2>2. Types' BY <1>3 DEF Types, Apply, historyVars
  <2> QED BY <2>1, <2>2
<1>4. CASE OpenFile(h) \/ WriteFile(h)
  <2>1. Shape' BY <1>4, PersistShape
  <2>2. files \in [Plugins -> FileType] BY DEF Types, FileType
  <2>3. /\ Subject(h) \in Plugins
        /\ worker[h].memory[Subject(h)] \in Status \ {"UNINSTALLED"}
    BY <1>4, SubjectFacts DEF OpenFile, WriteFile
  <2>4. files' \in [Plugins -> FileType]
    BY <1>4, <2>2, <2>3, FileFacts DEF OpenFile, WriteFile
  <2>5. Types' BY <1>4, <2>4 DEF Types, FileType, OpenFile, WriteFile, historyVars
  <2> QED BY <2>1, <2>5
<1>5. CASE Unlink(h)
  <2>1. Shape' BY <1>5, UnlinkShape
  <2>2. files \in [Plugins -> FileType] BY DEF Types, FileType
  <2>4. files' \in [Plugins -> FileType]
    BY <1>5, <2>2, FileFacts DEF Unlink
  <2>5. Types' BY <1>5, <2>4 DEF Types, FileType, Unlink, historyVars
  <2> QED BY <2>1, <2>5
<1> QED BY <1>1, <1>2, <1>3, <1>4, <1>5 DEF ManagerStep

LEMMA InitTypes == Init => TypeInv
<1> SUFFICES ASSUME Init PROVE TypeInv OBVIOUS
<1>1. ShapeOf(worker)
  BY GoneIsGood, GoneIsWorker DEF Init, ShapeOf
<1>2. files \in [Plugins -> FileType] BY FileFacts DEF Init
<1> QED BY <1>1, <1>2, EmptySeq DEF TypeInv, Types, FileType, Shape, Init, Status

\* Every step keeps the types and the shape.
LEMMA TypesKept == TypeInv /\ [Next]_vars => TypeInv'
<1> SUFFICES ASSUME TypeInv, [Next]_vars PROVE TypeInv' OBVIOUS
<1>0. Shape /\ Types BY DEF TypeInv
<1>1. CASE Accept
  BY <1>0, <1>1, AcceptShape DEF TypeInv, Types, Accept, historyVars
<1>2. CASE ManagerStep(Daemon) BY <1>2, HostFacts, ManagerKeepsTypes
<1>3. CASE SendAnswer
  <2>1. Shape' BY <1>0, <1>3, SendAnswerShape
  <2>2. promised' \in [Plugins -> Status] /\ excused' \subseteq Plugins
    BY <1>0, <1>3, HostFacts, PromiseTypes DEF SendAnswer, Types
  <2> QED BY <1>0, <1>3, <2>1, <2>2 DEF TypeInv, Types, SendAnswer
<1>4. CASE FailToAnswer
  <2>1. Shape' BY <1>0, <1>4, DaemonGoneShape DEF FailToAnswer
  <2>2. promised' \in [Plugins -> Status] /\ excused' \subseteq Plugins
    BY <1>0, <1>4, HostFacts, PromiseTypes DEF FailToAnswer, Types
  <2> QED BY <1>0, <1>4, <2>1, <2>2, EmptySeq DEF TypeInv, Types, FailToAnswer
<1>5. CASE \E c \in Clients, ask \in Requests : Ask(c, ask[1], ask[2])
  <2>1. PICK c \in Clients, ask \in Requests : Ask(c, ask[1], ask[2]) BY <1>5
  <2> DEFINE r == [client |-> c, op |-> ask[1], plugin |-> ask[2]]
  <2>2. Shape' /\ r \in Request BY <1>0, <2>1, AskShape
  <2>3. queue' = queue \/ queue' = Append(queue, r) BY <2>1 DEF Ask
  <2> HIDE DEF r
  <2>4. queue' \in Seq(Request) BY <1>0, <2>2, <2>3, AppendProperties DEF Types
  <2> QED BY <1>0, <2>1, <2>2, <2>4 DEF TypeInv, Types, Ask, historyVars
<1>6. CASE \E c \in Clients : ManagerStep(c) BY <1>6, HostFacts, ManagerKeepsTypes
<1>7. CASE \E c \in Clients : ReturnAnswer(c)
  <2>1. PICK c \in Clients : ReturnAnswer(c) BY <1>7
  <2>2. Shape' BY <1>0, <2>1, ReturnAnswerShape
  <2>3. promised' \in [Plugins -> Status] /\ excused' \subseteq Plugins
    BY <1>0, <2>1, HostFacts, PromiseTypes DEF ReturnAnswer, Types
  <2> QED BY <1>0, <2>1, <2>2, <2>3 DEF TypeInv, Types, ReturnAnswer
<1>8. CASE \E c \in Clients : Interrupt(c)
  <2>1. PICK c \in Clients : Interrupt(c) BY <1>8
  <2>2. Shape' /\ queue' \in Seq(Request) BY <1>0, <2>1, InterruptShape DEF Types
  <2> QED BY <1>0, <2>1, <2>2 DEF TypeInv, Types, Interrupt, Worked
<1>9. CASE KillDaemon
  <2>1. Shape' BY <1>0, <1>9, DaemonGoneShape DEF KillDaemon
  <2> QED BY <1>0, <1>9, <2>1, EmptySeq DEF TypeInv, Types, KillDaemon, Worked
<1>10. CASE StartDaemon
  <2>1. Shape' BY <1>0, <1>10, StartDaemonShape
  <2> QED BY <1>0, <1>10, <2>1 DEF TypeInv, Types, StartDaemon, historyVars
<1>11. CASE UNCHANGED vars
  BY <1>11 DEF TypeInv, Types, Shape, vars, historyVars
<1> QED BY <1>1, <1>2, <1>3, <1>4, <1>5, <1>6, <1>7, <1>8, <1>9, <1>10, <1>11
        DEF Next, Serve

(***************************************************************************)
(* The plugin platform keeps its types, for any catalog, any defaults and  *)
(* any number of clients.                                                  *)
(***************************************************************************)
THEOREM PluginTypesCorrect == Spec => []TypeOK
<1>1. TypeInv => TypeOK BY TypeInvGivesTypeOK
<1> QED BY InitTypes, TypesKept, <1>1, PTL DEF Spec

----------------------------------------------------------------------------
(* Promises: the invariant *)

At(r, p) == r.stage \in Changing /\ Subj(r) = p
Holds(f) == IF f.text \in Status THEN f.text ELSE "UNINSTALLED"

\* How far an undisturbed change has come, in its file f.
Fit(r, f) ==
  /\ r.stage = "write" => r.linked /\ f = Empty
  /\ r.stage = "answer" => Holds(f) = Outcome[r.request.op]

(***************************************************************************)
(* What is kept about plugin p: at rest its file says what was promised,   *)
(* unless it is excused; a default under installation is excused; a clean  *)
(* change is the only one at p, and its file has come as far as it has.    *)
(***************************************************************************)
KeptAt(w, f, pr, ex, p) ==
  /\ p \notin ex /\ (\A h \in Hosts : ~At(w[h], p)) => Holds(f[p]) = pr[p]
  /\ \A h \in Hosts : At(w[h], p) =>
       /\ w[h].pending # <<>> => p \in ex
       /\ w[h].clean => \A g \in Hosts \ {h} : ~At(w[g], p)
       /\ w[h].clean /\ w[h].pending = <<>> => Fit(w[h], f[p])

PromiseInv == \A p \in Plugins : KeptAt(worker, files, promised, excused, p)

LEMMA AtWorks ==
  /\ \A h \in Hosts, p \in Plugins : Works(h, p) <=> At(worker[h], p)
  /\ \A p \in Plugins : Stored(p) = Holds(files[p])
BY DEF Works, At, Subject, Subj, Stored, Holds

LEMMA PromiseInvIsEnough == PromiseInv => PromisesAreKept
BY AtWorks DEF PromiseInv, KeptAt, PromisesAreKept

\* Records that differ in nothing the invariant looks at.
Alike(r, s) ==
  /\ s.stage = r.stage /\ s.pending = r.pending /\ s.linked = r.linked
  /\ s.request.op = r.request.op /\ (s.clean => r.clean)

(***************************************************************************)
(* A step that leaves p's file and promise alone and begins no change of   *)
(* p; who gives up a change of p has p excused.                            *)
(***************************************************************************)
LEMMA QuietAt ==
  ASSUME NEW p \in Plugins, NEW w, NEW f, NEW pr, NEW ex, KeptAt(w, f, pr, ex, p),
         NEW w2, NEW f2, NEW pr2, NEW ex2,
         f2[p] = f[p], pr2[p] = pr[p], p \in ex => p \in ex2,
         \A g \in Hosts : \/ ~At(w[g], p) /\ ~At(w2[g], p)
                          \/ At(w[g], p) /\ ~At(w2[g], p) /\ p \in ex2
                          \/ At(w[g], p) /\ At(w2[g], p) /\ Alike(w[g], w2[g])
  PROVE  KeptAt(w2, f2, pr2, ex2, p)
<1>1. p \notin ex2 /\ (\A h \in Hosts : ~At(w2[h], p)) => Holds(f2[p]) = pr2[p]
  BY DEF KeptAt
<1>2. ASSUME NEW h \in Hosts, At(w2[h], p)
      PROVE  /\ w2[h].pending # <<>> => p \in ex2
             /\ w2[h].clean => \A g \in Hosts \ {h} : ~At(w2[g], p)
             /\ w2[h].clean /\ w2[h].pending = <<>> => Fit(w2[h], f2[p])
  <2>1. At(w[h], p) /\ Alike(w[h], w2[h]) BY <1>2
  <2>2. w2[h].pending # <<>> => p \in ex2 BY <2>1 DEF KeptAt, Alike
  <2>3. w2[h].clean => \A g \in Hosts \ {h} : ~At(w2[g], p) BY <2>1 DEF KeptAt, Alike
  <2>4. ASSUME w2[h].clean, w2[h].pending = <<>>
        PROVE  Fit(w2[h], f2[p])
    <3>1. w[h].clean /\ w[h].pending = <<>> BY <2>1, <2>4 DEF Alike
    <3>2. Fit(w[h], f[p]) BY <2>1, <3>1 DEF KeptAt
    <3> QED BY <2>1, <3>2 DEF Alike, Fit
  <2> QED BY <2>2, <2>3, <2>4
<1> QED BY <1>1, <1>2 DEF KeptAt

\* The processes beside h begin nothing at p.
Aside(w, w2, h, p) ==
  \A g \in Hosts \ {h} : At(w2[g], p) =>
    /\ At(w[g], p) /\ w2[g].pending = w[g].pending
    /\ w2[g].clean => w[g].clean

(***************************************************************************)
(* A step of h within its change of p, to an end only where p is excused:  *)
(* whoever else is at p is not clean.                                      *)
(***************************************************************************)
LEMMA OwnStepAt ==
  ASSUME NEW p \in Plugins, NEW w, NEW f, NEW pr, NEW ex, KeptAt(w, f, pr, ex, p),
         NEW w2, NEW f2, NEW pr2, NEW ex2, NEW h \in Hosts, Aside(w, w2, h, p),
         p \in ex => p \in ex2, At(w[h], p), At(w2[h], p) \/ p \in ex2,
         At(w2[h], p) => /\ w2[h].pending = w[h].pending
                         /\ w2[h].clean => w[h].clean
                         /\ w2[h].clean /\ w2[h].pending = <<>> => Fit(w2[h], f2[p])
  PROVE  KeptAt(w2, f2, pr2, ex2, p)
<1>1. p \notin ex2 /\ (\A g \in Hosts : ~At(w2[g], p)) => Holds(f2[p]) = pr2[p]
  OBVIOUS
<1>2. ASSUME NEW g \in Hosts, At(w2[g], p)
      PROVE  /\ w2[g].pending # <<>> => p \in ex2
             /\ w2[g].clean => \A k \in Hosts \ {g} : ~At(w2[k], p)
             /\ w2[g].clean /\ w2[g].pending = <<>> => Fit(w2[g], f2[p])
  <2>1. CASE g = h
    BY <1>2, <2>1 DEF KeptAt, Aside
  <2>2. CASE g # h
    <3>1. At(w[g], p) /\ w2[g].pending = w[g].pending /\ (w2[g].clean => w[g].clean)
      BY <1>2, <2>2 DEF Aside
    <3>2. ~w[g].clean BY <2>2, <3>1 DEF KeptAt
    <3> QED BY <3>1, <3>2 DEF KeptAt
  <2> QED BY <2>1, <2>2
<1> QED BY <1>1, <1>2 DEF KeptAt

\* The answer: a clean change promises what the file says.
LEMMA AnswerStepAt ==
  ASSUME NEW p \in Plugins, NEW w, NEW f, NEW pr, NEW ex, KeptAt(w, f, pr, ex, p),
         NEW w2, NEW pr2, NEW ex2, NEW h \in Hosts, Aside(w, w2, h, p),
         At(w[h], p), ~At(w2[h], p), w[h].stage = "answer", w[h].pending = <<>>,
         pr2[p] = Outcome[w[h].request.op], w[h].clean \/ p \in ex2
  PROVE  KeptAt(w2, f, pr2, ex2, p)
<1>1. CASE w[h].clean
  <2>1. \A g \in Hosts : ~At(w2[g], p) BY <1>1 DEF KeptAt, Aside
  <2>2. Holds(f[p]) = pr2[p] BY <1>1 DEF KeptAt, Fit
  <2> QED BY <2>1, <2>2 DEF KeptAt
<1>2. CASE ~w[h].clean
  <2>1. p \in ex2 BY <1>2
  <2>2. ASSUME NEW g \in Hosts, At(w2[g], p)
        PROVE  ~w2[g].clean
    <3>1. g # h BY <2>2
    <3>2. At(w[g], p) /\ (w2[g].clean => w[g].clean) BY <2>2, <3>1 DEF Aside
    <3> QED BY <3>1, <3>2 DEF KeptAt
  <2> QED BY <2>1, <2>2 DEF KeptAt
<1> QED BY <1>1, <1>2

\* The beginning of a change of p, clean only if nobody else is at p.
LEMMA BeginStepAt ==
  ASSUME NEW p \in Plugins, NEW w, NEW f, NEW pr, NEW ex, KeptAt(w, f, pr, ex, p),
         NEW w2, NEW ex2, NEW h \in Hosts, Aside(w, w2, h, p), p \in ex => p \in ex2,
         At(w2[h], p), w2[h].stage \in {"open", "unlink"},
         w2[h].pending # <<>> => p \in ex2,
         w2[h].clean => \A g \in Hosts \ {h} : ~At(w[g], p),
         \A g \in Hosts \ {h} : w2[g].clean => ~At(w[g], p)
  PROVE  KeptAt(w2, f, pr, ex2, p)
<1>1. Fit(w2[h], f[p]) BY DEF Fit
<1>2. ASSUME NEW g \in Hosts, At(w2[g], p)
      PROVE  /\ w2[g].pending # <<>> => p \in ex2
             /\ w2[g].clean => \A k \in Hosts \ {g} : ~At(w2[k], p)
             /\ w2[g].clean /\ w2[g].pending = <<>> => Fit(w2[g], f[p])
  <2>1. CASE g = h
    BY <1>1, <1>2, <2>1 DEF Aside
  <2>2. CASE g # h
    <3>1. At(w[g], p) /\ w2[g].pending = w[g].pending /\ ~w2[g].clean
      BY <1>2, <2>2 DEF Aside
    <3> QED BY <3>1 DEF KeptAt
  <2> QED BY <2>1, <2>2
<1> QED BY <1>2 DEF KeptAt

----------------------------------------------------------------------------
(* Promises: the actions *)

\* A step of one process that is quiet at p.
LEMMA OneQuietAt ==
  ASSUME NEW p \in Plugins, NEW w, w \in [Hosts -> Worker],
         NEW f, NEW pr, NEW ex, KeptAt(w, f, pr, ex, p),
         NEW h \in Hosts, NEW v, NEW w2, w2 = [w EXCEPT ![h] = v],
         NEW f2, NEW pr2, NEW ex2, f2[p] = f[p], pr2[p] = pr[p], p \in ex => p \in ex2,
         ~At(v, p), ~At(w[h], p) \/ p \in ex2
  PROVE  KeptAt(w2, f2, pr2, ex2, p)
<1>1. \A g \in Hosts : w2[g] = IF g = h THEN v ELSE w[g] OBVIOUS
<1>2. \A g \in Hosts : \/ ~At(w[g], p) /\ ~At(w2[g], p)
                       \/ At(w[g], p) /\ ~At(w2[g], p) /\ p \in ex2
                       \/ At(w[g], p) /\ At(w2[g], p) /\ Alike(w[g], w2[g])
  BY <1>1 DEF Alike
<1> QED BY <1>2, QuietAt

\* A process that stays away from the files disturbs nothing.
LEMMA AwayKeeps ==
  ASSUME Shape, PromiseInv, NEW h \in Hosts, NEW v, worker' = [worker EXCEPT ![h] = v],
         worker[h].stage \notin Changing, v.stage \notin Changing,
         UNCHANGED <<files, promised, excused>>
  PROVE  PromiseInv'
<1>1. ASSUME NEW p \in Plugins
      PROVE  KeptAt(worker', files', promised', excused', p)
  <2>1. KeptAt(worker, files, promised, excused, p) BY DEF PromiseInv
  <2>2. ~At(worker[h], p) /\ ~At(v, p) BY DEF At
  <2> QED BY <2>1, <2>2, ShapeOfHost, OneQuietAt
<1> QED BY <1>1 DEF PromiseInv

LEMMA QuietActionsKeep ==
  ASSUME TypeInv, PromiseInv,
         \/ \E c \in Clients, op \in Ops, p \in Plugins : Ask(c, op, p)
         \/ Accept
         \/ StartDaemon
         \/ \E h \in Hosts : ListFiles(h) \/ ReadFile(h) \/ EndLoading(h)
  PROVE  PromiseInv'
<1>0. Shape BY DEF TypeInv
<1>1. CASE \E c \in Clients, op \in Ops, p \in Plugins : Ask(c, op, p)
  <2>1. PICK c \in Clients, op \in Ops, p \in Plugins : Ask(c, op, p) BY <1>1
  <2> DEFINE r == [client |-> c, op |-> op, plugin |-> p]
             v(s) == [Gone EXCEPT !.stage = s, !.request = r]
  <2>2. v("list").stage = "list" /\ v("waiting").stage = "waiting" BY DEF Gone
  <2>3. \/ worker' = [worker EXCEPT ![c] = v("list")]
        \/ worker' = [worker EXCEPT ![c] = v("waiting")]
    BY <2>1 DEF Ask
  <2> HIDE DEF v
  <2>4. worker[c].stage \notin Changing /\ UNCHANGED <<files, promised, excused>>
    BY <2>1 DEF Ask, Changing, historyVars
  <2>5. PICK s \in {"list", "waiting"} : worker' = [worker EXCEPT ![c] = v(s)] BY <2>3
  <2>6. v(s).stage \notin Changing BY <2>2 DEF Changing
  <2> QED BY <1>0, <2>4, <2>5, <2>6, HostFacts, AwayKeeps
<1>2. CASE Accept
  <2> DEFINE v == [worker[Daemon] EXCEPT !.request = Head(queue),
                     !.stage = IF worker[Daemon].loaded THEN "apply" ELSE "list"]
  <2>1. worker[Daemon] \in Worker BY <1>0, HostFacts, ShapeOfHost
  <2>2. v.stage \notin Changing BY <2>1 DEF Worker, Changing
  <2>3. worker' = [worker EXCEPT ![Daemon] = v] BY <1>2 DEF Accept
  <2> HIDE DEF v
  <2> QED BY <1>0, <1>2, <2>2, <2>3, HostFacts, AwayKeeps DEF Accept, Changing, historyVars
<1>3. CASE StartDaemon
  <2> DEFINE v == [Gone EXCEPT !.stage = "free"]
  <2>1. v.stage = "free" BY DEF Gone
  <2>2. worker' = [worker EXCEPT ![Daemon] = v] BY <1>3 DEF StartDaemon
  <2> HIDE DEF v
  <2> QED BY <1>0, <1>3, <2>1, <2>2, HostFacts, AwayKeeps
          DEF StartDaemon, Changing, historyVars
<1>4. ASSUME NEW h \in Hosts, ListFiles(h) \/ ReadFile(h) \/ EndLoading(h)
      PROVE  PromiseInv'
  <2>1. worker[h] \in Worker /\ worker \in [Hosts -> Worker] BY <1>0, ShapeOfHost
  <2>2. /\ worker[h].stage \notin Changing
        /\ UNCHANGED <<files, promised, excused>>
    BY <1>4 DEF ListFiles, ReadFile, EndLoading, Changing, historyVars
  <2>3. \E v : worker' = [worker EXCEPT ![h] = v] /\ v.stage \notin Changing
    <3>1. CASE ListFiles(h)
      <4>1. worker' = [worker EXCEPT ![h] = [worker[h] EXCEPT !.stage = "read",
                         !.unread = {p \in Plugins : files[p] # Absent},
                         !.unsure = UNION {Worked(g) : g \in Hosts \ {h}}]]
        BY <3>1 DEF ListFiles
      <4>2. [worker[h] EXCEPT !.stage = "read",
               !.unread = {p \in Plugins : files[p] # Absent},
               !.unsure = UNION {Worked(g) : g \in Hosts \ {h}}].stage = "read"
        BY <2>1 DEF Worker
      <4> QED BY <4>1, <4>2 DEF Changing
    <3>2. CASE ReadFile(h)
      <4>1. \A p \in Plugins : Stored(p) \in Status BY StoredIsStatus DEF TypeInv
      <4> QED BY <2>1, <3>2, <4>1, ReadFileFacts DEF Changing
    <3>3. CASE EndLoading(h)
      <4> DEFINE v == [worker[h] EXCEPT !.stage = "default", !.loaded = TRUE,
                                        !.pending = Defaults]
                 u == [worker[h] EXCEPT !.stage = "apply", !.loaded = TRUE]
      <4>1. v.stage = "default" /\ u.stage = "apply" BY <2>1 DEF Worker
      <4>2. worker' = [worker EXCEPT ![h] = v] \/ worker' = [worker EXCEPT ![h] = u]
        BY <3>3 DEF EndLoading
      <4> HIDE DEF v, u
      <4> QED BY <4>1, <4>2 DEF Changing
    <3> QED BY <1>4, <3>1, <3>2, <3>3
  <2> QED BY <1>0, <2>2, <2>3, AwayKeeps
<1> QED BY <1>1, <1>2, <1>3, <1>4

\* The beginning of a change keeps the promises of every plugin.
LEMMA ChangeKeeps ==
  ASSUME Shape, PromiseInv, NEW h \in Hosts, NEW q \in Plugins, NEW v, v \in Worker,
         worker[h].stage \notin Changing, v.stage \in {"open", "unlink"}, Subj(v) = q,
         worker' = Changed(h, q, v), UNCHANGED <<files, promised>>,
         excused \subseteq excused', v.pending # <<>> => q \in excused'
  PROVE  PromiseInv'
<1>1. ASSUME NEW g \in Hosts \ {h}
      PROVE  /\ worker'[g].stage = worker[g].stage
             /\ worker'[g].pending = worker[g].pending
             /\ worker'[g].request = worker[g].request
             /\ worker'[g].linked = worker[g].linked
             /\ worker'[g].clean => worker[g].clean /\ ~At(worker[g], q)
  <2> DEFINE b == worker[g].clean /\ ~Works(g, q)
             S == IF g \in Loaders THEN worker[g].unsure \cup {q} ELSE worker[g].unsure
  <2>1. worker'[g] = [worker[g] EXCEPT !.clean = b, !.unsure = S] BY DEF Changed
  <2>2. worker[g] \in Worker BY ShapeOfHost
  <2>3. b <=> worker[g].clean /\ ~At(worker[g], q) BY AtWorks
  <2> HIDE DEF b, S
  <2> QED BY <2>1, <2>2, <2>3 DEF Worker
<1>2. /\ worker'[h].stage = v.stage /\ worker'[h].pending = v.pending
      /\ worker'[h].request = v.request
      /\ worker'[h].clean => \A k \in Hosts \ {h} : ~At(worker[k], q)
  <2> DEFINE b == \A k \in Hosts \ {h} : ~Works(k, q)
  <2>1. worker'[h] = [v EXCEPT !.clean = b] BY DEF Changed
  <2>2. b => \A k \in Hosts \ {h} : ~At(worker[k], q) BY AtWorks
  <2> HIDE DEF b
  <2> QED BY <2>1, <2>2 DEF Worker
<1>3. \A g \in Hosts \ {h}, p \in Plugins : At(worker'[g], p) <=> At(worker[g], p)
  BY <1>1 DEF At, Subj
<1>4. \A p \in Plugins : At(worker'[h], p) <=> p = q
  BY <1>2 DEF At, Subj, Changing
<1>5. ASSUME NEW p \in Plugins
      PROVE  KeptAt(worker', files', promised', excused', p)
  <2>1. KeptAt(worker, files, promised, excused, p) BY DEF PromiseInv
  <2>2. CASE p # q
    <3>1. ~At(worker[h], p) /\ ~At(worker'[h], p) BY <1>4, <2>2 DEF At
    <3>2. \A g \in Hosts : \/ ~At(worker[g], p) /\ ~At(worker'[g], p)
                           \/ At(worker[g], p) /\ ~At(worker'[g], p) /\ p \in excused'
                           \/ /\ At(worker[g], p) /\ At(worker'[g], p)
                              /\ Alike(worker[g], worker'[g])
      BY <1>1, <1>3, <3>1 DEF Alike
    <3>3. files' = files /\ promised' = promised /\ (p \in excused => p \in excused')
      OBVIOUS
    <3> QED BY <2>1, <3>2, <3>3, QuietAt
  <2>3. CASE p = q
    <3>1. Aside(worker, worker', h, p) BY <1>1, <1>3 DEF Aside
    <3>2. At(worker'[h], p) /\ worker'[h].stage \in {"open", "unlink"}
      BY <1>2, <1>4, <2>3
    <3>3. worker'[h].pending # <<>> => p \in excused' BY <1>2, <2>3
    <3>4. worker'[h].clean => \A g \in Hosts \ {h} : ~At(worker[g], p) BY <1>2, <2>3
    <3>5. \A g \in Hosts \ {h} : worker'[g].clean => ~At(worker[g], p) BY <1>1, <2>3
    <3>6. files' = files /\ promised' = promised /\ (p \in excused => p \in excused')
      OBVIOUS
    <3> QED BY <2>1, <3>1, <3>2, <3>3, <3>4, <3>5, <3>6, BeginStepAt
  <2> QED BY <2>2, <2>3
<1> QED BY <1>5 DEF PromiseInv

LEMMA InstallDefaultKeeps ==
  ASSUME TypeInv, PromiseInv, NEW h \in Hosts, InstallDefault(h)
  PROVE  PromiseInv'
<1> DEFINE p == Head(worker[h].pending)
           v == [worker[h] EXCEPT !.stage = "open", !.memory[p] = "ENABLED"]
<1>0. Shape /\ Good(worker[h]) BY ShapeOfHost DEF TypeInv
<1>1. worker[h].stage = "default" /\ worker[h].pending # <<>> /\ worker[h] \in Worker
  BY <1>0 DEF Good, InstallDefault
<1>2. p \in Plugins BY <1>0, <1>1, SubjectIsPlugin
<1>3. v \in Worker /\ v.stage = "open" /\ v.pending = worker[h].pending
  BY <1>1, <1>2 DEF Worker, Stages, Changing, Status
<1>4. Subj(v) = p BY <1>1, <1>3 DEF Subj
<1>5. worker' = Changed(h, p, v) /\ excused' = excused \cup {p}
  BY DEF InstallDefault
<1> HIDE DEF v, p
<1>6. worker[h].stage \notin Changing BY <1>1 DEF Changing
<1>7. UNCHANGED <<files, promised>> BY DEF InstallDefault
<1> QED BY <1>0, <1>2, <1>3, <1>4, <1>5, <1>6, <1>7, ChangeKeeps

LEMMA ApplyKeeps ==
  ASSUME TypeInv, PromiseInv, NEW h \in Hosts, Apply(h)
  PROVE  PromiseInv'
<1> DEFINE r == worker[h].request
           p == r.plugin
           v == [worker[h] EXCEPT !.memory[p] = Outcome[r.op],
                                  !.stage = IF r.op = "remove" THEN "unlink" ELSE "open"]
           u == [worker[h] EXCEPT !.stage = "refuse"]
<1>0. Shape /\ Good(worker[h]) BY ShapeOfHost DEF TypeInv
<1>1. worker[h].stage = "apply" /\ worker[h].pending = <<>> /\ worker[h] \in Worker
  BY <1>0 DEF Good, Apply
<1>2. p \in Plugins /\ r.op \in Ops BY <1>0, <1>1, SubjectIsPlugin
<1>3. v \in Worker /\ v.stage \in {"open", "unlink"} /\ v.pending = <<>> /\ v.request = r
  BY <1>1, <1>2, OutcomeStatus DEF Worker, Stages, Changing
<1>4. Subj(v) = p BY <1>3 DEF Subj
<1>5. u.stage = "refuse" BY <1>1 DEF Worker
<1>6. worker' = Changed(h, p, v) \/ worker' = [worker EXCEPT ![h] = u]
  BY DEF Apply
<1> HIDE DEF v, p, u, r
<1>7. worker[h].stage \notin Changing /\ u.stage \notin Changing
  BY <1>1, <1>5 DEF Changing
<1>8. UNCHANGED <<files, promised, excused>> BY DEF Apply, historyVars
<1>9. CASE worker' = Changed(h, p, v)
  BY <1>0, <1>2, <1>3, <1>4, <1>7, <1>8, <1>9, ChangeKeeps
<1>10. CASE worker' = [worker EXCEPT ![h] = u]
  BY <1>0, <1>7, <1>8, <1>10, AwayKeeps
<1> QED BY <1>6, <1>9, <1>10

\* A step of h within its change of its subject.
LEMMA OwnMoveKeeps ==
  ASSUME Shape, PromiseInv, NEW h \in Hosts, NEW v, worker' = [worker EXCEPT ![h] = v],
         worker[h].stage \in Changing, Subj(worker[h]) \in Plugins,
         UNCHANGED <<promised, excused>>,
         \A p \in Plugins \ {Subj(worker[h])} : files'[p] = files[p],
         v.stage \in Changing =>
           /\ Subj(v) = Subj(worker[h]) /\ v.pending = worker[h].pending
           /\ v.clean => worker[h].clean
           /\ v.clean /\ v.pending = <<>> => Fit(v, files'[Subj(worker[h])]),
         v.stage \notin Changing => worker[h].pending # <<>>
  PROVE  PromiseInv'
<1>1. ASSUME NEW p \in Plugins
      PROVE  KeptAt(worker', files', promised', excused', p)
  <2>1. KeptAt(worker, files, promised, excused, p) BY DEF PromiseInv
  <2>2. \A g \in Hosts : worker'[g] = IF g = h THEN v ELSE worker[g]
    BY ShapeOfHost
  <2>3. CASE p # Subj(worker[h])
    <3>1. ~At(worker[h], p) /\ ~At(v, p) BY <2>3 DEF At
    <3> QED BY <2>1, <2>3, <3>1, ShapeOfHost, OneQuietAt
  <2>4. CASE p = Subj(worker[h])
    <3>1. Aside(worker, worker', h, p) BY <2>2 DEF Aside
    <3>2. At(worker[h], p) BY <2>4 DEF At
    <3>3. worker'[h] = v BY <2>2
    <3>4. At(v, p) \/ p \in excused'
      BY <2>1, <2>4, <3>2 DEF At, KeptAt
    <3>5. At(v, p) => /\ v.pending = worker[h].pending
                      /\ v.clean => worker[h].clean
                      /\ v.clean /\ v.pending = <<>> => Fit(v, files'[p])
      BY <2>4 DEF At
    <3>6. p \in excused => p \in excused' OBVIOUS
    <3> HIDE DEF PromiseInv
    <3>7. At(worker'[h], p) \/ p \in excused' BY <3>3, <3>4
    <3>8. At(worker'[h], p) =>
             /\ worker'[h].pending = worker[h].pending
             /\ worker'[h].clean => worker[h].clean
             /\ worker'[h].clean /\ worker'[h].pending = <<>> => Fit(worker'[h], files'[p])
      BY <3>3, <3>5
    <3> QED BY ONLY <2>1, <3>1, <3>2, <3>6, <3>7, <3>8, OwnStepAt, p \in Plugins, h \in Hosts
  <2> QED BY <2>3, <2>4
<1> QED BY <1>1 DEF PromiseInv

LEMMA AfterFileFacts ==
  ASSUME NEW u \in Worker
  PROVE  /\ u.pending = <<>> =>
              /\ AfterFile(u).stage = "answer" /\ AfterFile(u).pending = <<>>
              /\ AfterFile(u).request = u.request /\ AfterFile(u).clean = u.clean
         /\ u.pending # <<>> => AfterFile(u).stage \in {"default", "apply"}
<1>1. u.pending = <<>> =>
        /\ AfterFile(u).stage = "answer" /\ AfterFile(u).pending = <<>>
        /\ AfterFile(u).request = u.request /\ AfterFile(u).clean = u.clean
  BY DEF Worker, AfterFile
<1>2. u.pending # <<>> => AfterFile(u).stage \in {"default", "apply"}
  BY DEF Worker, AfterFile
<1> QED BY <1>1, <1>2

\* What is written to an empty file is what the file then says.
LEMMA WrittenHolds ==
  ASSUME NEW s \in Status \ {"UNINSTALLED"}
  PROVE  Holds(Overlay(Empty, s)) = s
<1>1. Empty.size = 0 /\ Size[s] \in {7, 8, 9} BY Sizes DEF Empty
<1>2. Overlay(Empty, s) = Holding(s) BY <1>1 DEF Overlay
<1> QED BY <1>2 DEF Holds, Holding

LEMMA OpenFileKeeps ==
  ASSUME TypeInv, PromiseInv, NEW h \in Hosts, OpenFile(h)
  PROVE  PromiseInv'
<1> DEFINE q == Subj(worker[h])
           d == [worker[h] EXCEPT !.clean = FALSE]
           v == [worker[h] EXCEPT !.stage = "write", !.linked = TRUE]
           u == AfterFile(d)
<1>0. Shape /\ Good(worker[h]) /\ worker[h] \in Worker BY ShapeOfHost DEF TypeInv
<1>1. worker[h].stage = "open" /\ worker[h].stage \in Changing BY DEF OpenFile, Changing
<1>2. q \in Plugins /\ Subject(h) = q BY <1>0, <1>1, SubjectIsPlugin DEF Subject, Subj
<1>3. UNCHANGED <<promised, excused>> BY DEF OpenFile, historyVars
<1>4. files \in [Plugins -> FileType] BY DEF TypeInv, Types, FileType
<1>5. CASE /\ files' = [files EXCEPT ![q] = Empty]
           /\ worker' = [worker EXCEPT ![h] = v]
  <2>1. /\ v.stage = "write" /\ v.pending = worker[h].pending /\ v.linked
        /\ v.request = worker[h].request /\ v.clean = worker[h].clean
    BY <1>0 DEF Worker
  <2>2. Subj(v) = q BY <2>1 DEF Subj
  <2>3. files'[q] = Empty /\ \A p \in Plugins \ {q} : files'[p] = files[p]
    BY <1>2, <1>4, <1>5
  <2>4. Fit(v, files'[q]) /\ v.stage \in Changing BY <2>1, <2>3 DEF Fit, Changing
  <2>5. worker' = [worker EXCEPT ![h] = v] BY <1>5
  <2> HIDE DEF v
  <2> QED BY <1>0, <1>1, <1>2, <1>3, <2>1, <2>2, <2>3, <2>4, <2>5, OwnMoveKeeps
<1>6. CASE UNCHANGED files /\ worker' = [worker EXCEPT ![h] = u]
  <2>1. /\ d \in Worker /\ d.clean = FALSE /\ d.pending = worker[h].pending
        /\ d.request = worker[h].request
    BY <1>0 DEF Worker
  <2> HIDE DEF d
  <2>2. CASE worker[h].pending = <<>>
    <3>1. u.stage = "answer" /\ u.pending = <<>> /\ u.request = worker[h].request /\ ~u.clean
      BY <2>1, <2>2, AfterFileFacts
    <3>2. Subj(u) = q /\ u.stage \in Changing BY <2>2, <3>1 DEF Subj, Changing
    <3>3. worker' = [worker EXCEPT ![h] = u] BY <1>6
    <3> HIDE DEF u
    <3> QED BY <1>0, <1>1, <1>2, <1>3, <1>6, <2>2, <3>1, <3>2, <3>3, OwnMoveKeeps
  <2>3. CASE worker[h].pending # <<>>
    <3>1. u.stage \notin Changing BY <2>1, <2>3, AfterFileFacts DEF Changing
    <3>3. worker' = [worker EXCEPT ![h] = u] BY <1>6
    <3> HIDE DEF u
    <3> QED BY <1>0, <1>1, <1>2, <1>3, <1>6, <2>3, <3>1, <3>3, OwnMoveKeeps
  <2> QED BY <2>2, <2>3
<1>7. \/ files' = [files EXCEPT ![q] = Empty] /\ worker' = [worker EXCEPT ![h] = v]
      \/ UNCHANGED files /\ worker' = [worker EXCEPT ![h] = u]
  BY <1>2 DEF OpenFile
<1> QED BY <1>5, <1>6, <1>7

LEMMA WriteFileKeeps ==
  ASSUME TypeInv, PromiseInv, NEW h \in Hosts, WriteFile(h)
  PROVE  PromiseInv'
<1> DEFINE q == Subj(worker[h])
           d == [worker[h] EXCEPT !.clean = FALSE]
<1>0. Shape /\ Good(worker[h]) /\ worker[h] \in Worker BY ShapeOfHost DEF TypeInv
<1>1. worker[h].stage = "write" /\ worker[h].stage \in Changing BY DEF WriteFile, Changing
<1>2. q \in Plugins /\ Subject(h) = q BY <1>0, <1>1, SubjectIsPlugin DEF Subject, Subj
<1>3. UNCHANGED <<promised, excused>> BY DEF WriteFile, historyVars
<1>4. files \in [Plugins -> FileType] BY DEF TypeInv, Types, FileType
<1>5. d \in Worker /\ ~d.clean /\ d.pending = worker[h].pending /\ d.request = worker[h].request
  BY <1>0 DEF Worker
<1> HIDE DEF d
<1>6. files' = [files EXCEPT ![q] = Overlay(@, worker[h].memory[q])] \/ files' = files
  BY <1>2 DEF WriteFile
<1>7. \A p \in Plugins \ {q} : files'[p] = files[p] BY <1>2, <1>4, <1>6
<1>8. PICK u \in {worker[h], d} :
        /\ worker' = [worker EXCEPT ![h] = AfterFile(u)]
        /\ u = worker[h] /\ worker[h].linked /\ worker[h].clean =>
             files' = [files EXCEPT ![q] = Overlay(@, worker[h].memory[q])]
  BY <1>2, <1>5 DEF WriteFile, d
<1>9. u \in Worker /\ u.pending = worker[h].pending /\ u.request = worker[h].request
      /\ (u.clean => u = worker[h] /\ worker[h].clean)
  BY <1>0, <1>5
<1>10. CASE worker[h].pending = <<>>
  <2> DEFINE v == AfterFile(u)
  <2>1. /\ v.stage = "answer" /\ v.pending = <<>> /\ v.request = worker[h].request
        /\ v.clean = u.clean
    BY <1>9, <1>10, AfterFileFacts
  <2>2. worker' = [worker EXCEPT ![h] = v] BY <1>8
  <2> HIDE DEF v
  <2>3. Subj(v) = q /\ v.stage \in Changing BY <1>10, <2>1 DEF Subj, Changing
  <2>4. ASSUME v.clean PROVE Fit(v, files'[q])
    <3>1. u = worker[h] /\ worker[h].clean BY <1>9, <2>1, <2>4
    <3>2. At(worker[h], q) BY <1>1 DEF At
    <3>3. Fit(worker[h], files[q]) BY <1>2, <1>10, <3>1, <3>2 DEF PromiseInv, KeptAt
    <3>4. worker[h].linked /\ files[q] = Empty BY <1>1, <3>3 DEF Fit
    <3>5. files'[q] = Overlay(Empty, worker[h].memory[q])
      BY <1>2, <1>4, <1>8, <3>1, <3>4
    <3>6. /\ worker[h].memory[q] \in Status \ {"UNINSTALLED"}
          /\ worker[h].memory[q] = Outcome[worker[h].request.op]
      BY <1>0, <1>1, <1>2, <1>10 DEF Good, Worker
    <3>7. Holds(files'[q]) = Outcome[v.request.op] BY <2>1, <3>5, <3>6, WrittenHolds
    <3> QED BY <2>1, <3>7 DEF Fit
  <2>5. v.clean => worker[h].clean BY <1>9, <2>1
  <2> QED BY <1>0, <1>1, <1>2, <1>3, <1>7, <1>10, <2>1, <2>2, <2>3, <2>4, <2>5, OwnMoveKeeps
<1>11. CASE worker[h].pending # <<>>
  <2> DEFINE v == AfterFile(u)
  <2>1. v.stage \notin Changing BY <1>9, <1>11, AfterFileFacts DEF Changing
  <2>2. worker' = [worker EXCEPT ![h] = v] BY <1>8
  <2> HIDE DEF v
  <2> QED BY <1>0, <1>1, <1>2, <1>3, <1>7, <1>11, <2>1, <2>2, OwnMoveKeeps
<1> QED BY <1>10, <1>11

LEMMA UnlinkKeeps ==
  ASSUME TypeInv, PromiseInv, NEW h \in Hosts, Unlink(h)
  PROVE  PromiseInv'
<1> DEFINE q == Subj(worker[h])
           d == [worker[h] EXCEPT !.stage = "answer", !.clean = FALSE]
           v == [worker[h] EXCEPT !.stage = "answer"]
<1>0. Shape /\ Good(worker[h]) /\ worker[h] \in Worker BY ShapeOfHost DEF TypeInv
<1>1. worker[h].stage = "unlink" /\ worker[h].stage \in Changing BY DEF Unlink, Changing
<1>2. worker[h].pending = <<>> /\ worker[h].request.op = "remove" BY <1>0, <1>1 DEF Good
<1>3. q \in Plugins /\ Subject(h) = q BY <1>0, <1>1, SubjectIsPlugin DEF Subject, Subj
<1>4. UNCHANGED <<promised, excused>> BY DEF Unlink, historyVars
<1>5. files \in [Plugins -> FileType] BY DEF TypeInv, Types, FileType
<1>6. CASE UNCHANGED files /\ worker' = [worker EXCEPT ![h].stage = "answer", ![h].clean = FALSE]
  <2>1. d.stage = "answer" /\ d.pending = <<>> /\ d.request = worker[h].request /\ ~d.clean
    BY <1>0, <1>2 DEF Worker
  <2>2. worker' = [worker EXCEPT ![h] = d] BY <1>0, <1>6, ShapeOfHost
  <2> HIDE DEF d
  <2>3. Subj(d) = q /\ d.stage \in Changing BY <1>2, <2>1 DEF Subj, Changing
  <2> QED BY <1>0, <1>1, <1>2, <1>3, <1>4, <1>6, <2>1, <2>2, <2>3, OwnMoveKeeps
<1>7. CASE /\ files' = [files EXCEPT ![q] = Absent]
           /\ worker' = [g \in Hosts |->
                IF g = h THEN [worker[g] EXCEPT !.stage = "answer"]
                ELSE IF Works(g, q) THEN [worker[g] EXCEPT !.linked = FALSE]
                ELSE worker[g]]
  <2>1. v.stage = "answer" /\ v.pending = <<>> /\ v.request = worker[h].request
        /\ v.clean = worker[h].clean
    BY <1>0, <1>2 DEF Worker
  <2>2. worker'[h] = v BY <1>7
  <2> HIDE DEF v
  <2>3. ASSUME NEW g \in Hosts \ {h}
        PROVE  /\ worker'[g].stage = worker[g].stage
               /\ worker'[g].pending = worker[g].pending
               /\ worker'[g].request = worker[g].request
               /\ worker'[g].clean = worker[g].clean
               /\ ~At(worker[g], q) => worker'[g] = worker[g]
    <3>1. worker[g] \in Worker BY <1>0, ShapeOfHost
    <3>2. worker'[g] = [worker[g] EXCEPT !.linked = FALSE] \/ worker'[g] = worker[g] BY <1>7
    <3>3. ~At(worker[g], q) => worker'[g] = worker[g] BY <1>3, <1>7, AtWorks
    <3> QED BY <3>1, <3>2, <3>3 DEF Worker
  <2>4. \A g \in Hosts \ {h}, p \in Plugins : At(worker'[g], p) <=> At(worker[g], p)
    BY <2>3 DEF At, Subj
  <2>5. \A p \in Plugins : (At(worker'[h], p) <=> p = q) /\ (At(worker[h], p) <=> p = q)
    BY <1>1, <1>2, <2>1, <2>2 DEF At, Subj, Changing
  <2>6. ASSUME NEW p \in Plugins
        PROVE  KeptAt(worker', files', promised', excused', p)
    <3>1. KeptAt(worker, files, promised, excused, p) BY DEF PromiseInv
    <3>2. CASE p # q
      <4>1. \A g \in Hosts \ {h} : At(worker[g], p) => worker'[g] = worker[g]
        BY <2>3, <3>2 DEF At
      <4>2. \A g \in Hosts : \/ ~At(worker[g], p) /\ ~At(worker'[g], p)
                             \/ At(worker[g], p) /\ ~At(worker'[g], p) /\ p \in excused'
                             \/ /\ At(worker[g], p) /\ At(worker'[g], p)
                                /\ Alike(worker[g], worker'[g])
        BY <2>4, <2>5, <3>2, <4>1 DEF Alike
      <4>3. files'[p] = files[p] /\ promised'[p] = promised[p] /\ (p \in excused => p \in excused')
        BY <1>4, <1>5, <1>7, <3>2
      <4> QED BY ONLY <3>1, <4>2, <4>3, QuietAt, p \in Plugins
    <3>3. CASE p = q
      <4>1. Aside(worker, worker', h, p) BY <2>3, <2>4 DEF Aside
      <4>2. files'[p] = Absent BY <1>5, <1>7, <3>3
      <4>3. Holds(files'[p]) = Outcome[worker'[h].request.op]
        BY <1>2, <2>1, <2>2, <4>2, Outcomes DEF Holds, Absent, Status
      <4>4. Fit(worker'[h], files'[p]) BY <2>1, <2>2, <4>3 DEF Fit
      <4>5. /\ worker'[h].pending = worker[h].pending
            /\ worker'[h].clean => worker[h].clean
        BY <1>2, <2>1, <2>2
      <4>6. At(worker[h], p) /\ At(worker'[h], p) BY <2>5, <3>3
      <4>7. p \in excused => p \in excused' BY <1>4
      <4> QED BY ONLY <3>1, <4>1, <4>4, <4>5, <4>6, <4>7, OwnStepAt, p \in Plugins, h \in Hosts
    <3> QED BY <3>2, <3>3
  <2> QED BY <2>6 DEF PromiseInv
<1>8. \/ UNCHANGED files /\ worker' = [worker EXCEPT ![h].stage = "answer", ![h].clean = FALSE]
      \/ /\ files' = [files EXCEPT ![q] = Absent]
         /\ worker' = [g \in Hosts |->
              IF g = h THEN [worker[g] EXCEPT !.stage = "answer"]
              ELSE IF Works(g, q) THEN [worker[g] EXCEPT !.linked = FALSE]
              ELSE worker[g]]
  BY <1>3 DEF Unlink
<1> QED BY <1>6, <1>7, <1>8

----------------------------------------------------------------------------
(* Clients wait for the requests they sent *)

(***************************************************************************)
(* A request with the daemon or on the way to it is of a client that waits *)
(* for this request alone, or of a client that has gone.                   *)
(***************************************************************************)
WaitsFor(w, q) ==
  /\ w[Daemon].request # NoRequest =>
       \A c \in Clients : w[Daemon].request.client = c =>
         w[c].stage = "waiting" /\ \A i \in DOMAIN q : q[i].client # c
  /\ \A i \in DOMAIN q, c \in Clients : q[i].client = c =>
       w[c].stage = "waiting" /\ \A j \in DOMAIN q : q[j].client = c => j = i

Waits == WaitsFor(worker, queue)

\* Who waits goes on waiting, and the daemon keeps its request or drops it.
LEMMA WaitingOn ==
  ASSUME NEW w, NEW q, WaitsFor(w, q), NEW w2,
         w2[Daemon].request \in {w[Daemon].request, NoRequest},
         \A c \in Clients : w[c].stage = "waiting" => w2[c].stage = "waiting"
  PROVE  WaitsFor(w2, q)
BY DEF WaitsFor

\* The manager at work leaves requests alone, and the places of the others.
LEMMA ManagerLeaves ==
  ASSUME Shape, NEW h \in Hosts, ManagerStep(h)
  PROVE  /\ \A g \in Hosts : worker'[g].request = worker[g].request
         /\ \A g \in Hosts \ {h} : worker'[g].stage = worker[g].stage
         /\ worker[h].stage # "waiting" /\ UNCHANGED queue
<1>0. /\ worker \in [Hosts -> Worker]
      /\ \A g \in Hosts : worker[g] \in Worker
  BY ShapeOfHost
<1>1. worker[h].stage # "waiting" /\ UNCHANGED queue
  BY DEF ManagerStep, ListFiles, ReadFile, EndLoading, InstallDefault, Apply, OpenFile,
         WriteFile, Unlink
<1>2. ASSUME NEW v, v.request = worker[h].request, worker' = [worker EXCEPT ![h] = v]
      PROVE  /\ \A g \in Hosts : worker'[g].request = worker[g].request
             /\ \A g \in Hosts \ {h} : worker'[g].stage = worker[g].stage
  BY <1>0, <1>2
<1>3. ASSUME NEW p, NEW v \in Worker, v.request = worker[h].request, worker' = Changed(h, p, v)
      PROVE  /\ \A g \in Hosts : worker'[g].request = worker[g].request
             /\ \A g \in Hosts \ {h} : worker'[g].stage = worker[g].stage
  <2>1. ASSUME NEW g \in Hosts \ {h}
        PROVE  worker'[g].request = worker[g].request /\ worker'[g].stage = worker[g].stage
    <3> DEFINE b == worker[g].clean /\ ~Works(g, p)
               S == IF g \in Loaders THEN worker[g].unsure \cup {p} ELSE worker[g].unsure
    <3>1. worker'[g] = [worker[g] EXCEPT !.clean = b, !.unsure = S] BY <1>3 DEF Changed
    <3> HIDE DEF b, S
    <3> QED BY <1>0, <3>1 DEF Worker
  <2>2. worker'[h].request = worker[h].request
    <3> DEFINE b == \A k \in Hosts \ {h} : ~Works(k, p)
    <3>1. worker'[h] = [v EXCEPT !.clean = b] BY <1>3 DEF Changed
    <3> HIDE DEF b
    <3> QED BY <1>3, <3>1 DEF Worker
  <2> QED BY <2>1, <2>2
<1>4. CASE ListFiles(h)
  <2> DEFINE v == [worker[h] EXCEPT !.stage = "read",
                     !.unread = {p \in Plugins : files[p] # Absent},
                     !.unsure = UNION {Worked(g) : g \in Hosts \ {h}}]
  <2>1. v.request = worker[h].request BY <1>0 DEF Worker
  <2>2. worker' = [worker EXCEPT ![h] = v] BY <1>4 DEF ListFiles
  <2> HIDE DEF v
  <2> QED BY <1>1, <1>2, <2>1, <2>2
<1>5. CASE ReadFile(h)
  <2>1. \A p \in Plugins : Stored(p) \in Status BY StoredIsStatus DEF TypeInv
  <2>2. PICK v : worker' = [worker EXCEPT ![h] = v] /\ v.request = worker[h].request
    BY <1>0, <1>5, <2>1, ReadFileFacts
  <2> QED BY <1>1, <1>2, <2>2
<1>6. CASE EndLoading(h)
  <2> DEFINE v == [worker[h] EXCEPT !.stage = "default", !.loaded = TRUE, !.pending = Defaults]
             u == [worker[h] EXCEPT !.stage = "apply", !.loaded = TRUE]
  <2>1. v.request = worker[h].request /\ u.request = worker[h].request BY <1>0 DEF Worker
  <2>2. worker' = [worker EXCEPT ![h] = v] \/ worker' = [worker EXCEPT ![h] = u]
    BY <1>6 DEF EndLoading
  <2> HIDE DEF v, u
  <2> QED BY <1>1, <1>2, <2>1, <2>2
<1>7. CASE InstallDefault(h)
  <2> DEFINE p == Head(worker[h].pending)
             v == [worker[h] EXCEPT !.stage = "open", !.memory[p] = "ENABLED"]
  <2>1. p \in Plugins
    BY <1>7, ShapeOfHost, SubjectIsPlugin DEF Good, InstallDefault
  <2>2. v \in Worker /\ v.request = worker[h].request
    BY <1>0, <2>1 DEF Worker, Stages, Changing, Status
  <2>3. worker' = Changed(h, p, v) BY <1>7 DEF InstallDefault
  <2> HIDE DEF v, p
  <2> QED BY <1>1, <1>3, <2>2, <2>3
<1>8. CASE Apply(h)
  <2> DEFINE r == worker[h].request
             p == r.plugin
             v == [worker[h] EXCEPT !.memory[p] = Outcome[r.op],
                                    !.stage = IF r.op = "remove" THEN "unlink" ELSE "open"]
             u == [worker[h] EXCEPT !.stage = "refuse"]
  <2>1. p \in Plugins /\ Outcome[r.op] \in Status
    BY <1>8, ShapeOfHost, SubjectIsPlugin, OutcomeStatus DEF Good, Apply
  <2>2. v \in Worker /\ v.request = worker[h].request /\ u.request = worker[h].request
    BY <1>0, <2>1 DEF Worker, Stages, Changing
  <2>3. worker' = Changed(h, p, v) \/ worker' = [worker EXCEPT ![h] = u] BY <1>8 DEF Apply
  <2> HIDE DEF v, u, p, r
  <2> QED BY <1>1, <1>2, <1>3, <2>2, <2>3
<1>9. CASE OpenFile(h) \/ WriteFile(h)
  <2> DEFINE d == [worker[h] EXCEPT !.clean = FALSE]
             v == [worker[h] EXCEPT !.stage = "write", !.linked = TRUE]
  <2>1. d \in Worker /\ d.request = worker[h].request /\ v.request = worker[h].request
    BY <1>0 DEF Worker
  <2>2. \A u \in Worker : AfterFile(u).request = u.request BY DEF Worker, AfterFile
  <2>3. \E u \in {v, AfterFile(d), AfterFile(worker[h])} : worker' = [worker EXCEPT ![h] = u]
    BY <1>9 DEF OpenFile, WriteFile
  <2> HIDE DEF v, d
  <2> QED BY <1>0, <1>1, <1>2, <2>1, <2>2, <2>3
<1>10. CASE Unlink(h)
  <2>1. ASSUME NEW g \in Hosts
        PROVE  /\ worker'[g].request = worker[g].request
               /\ g # h => worker'[g].stage = worker[g].stage
    <3>1. \/ worker'[g] = worker[g]
          \/ worker'[g] = [worker[g] EXCEPT !.linked = FALSE]
          \/ g = h /\ worker'[g] = [worker[g] EXCEPT !.stage = "answer"]
          \/ g = h /\ worker'[g] = [worker[g] EXCEPT !.stage = "answer", !.clean = FALSE]
      BY <1>0, <1>10 DEF Unlink
    <3> QED BY <1>0, <3>1 DEF Worker
  <2> QED BY <1>1, <2>1
<1> QED BY <1>4, <1>5, <1>6, <1>7, <1>8, <1>9, <1>10 DEF ManagerStep

LEMMA AskWaits ==
  ASSUME TypeInv, Waits, NEW c \in Clients, NEW ask \in Requests, Ask(c, ask[1], ask[2])
  PROVE  Waits'
<1> DEFINE r == [client |-> c, op |-> ask[1], plugin |-> ask[2]]
           u == [Gone EXCEPT !.stage = "list", !.request = r]
           v == [Gone EXCEPT !.stage = "waiting", !.request = r]
<1>0. Shape /\ queue \in Seq(Request) BY DEF TypeInv, Types
<1>1. c \in Hosts /\ c # Daemon /\ Daemon \in Hosts /\ worker \in [Hosts -> Worker]
  BY <1>0, HostFacts, ShapeOfHost
<1>2. worker[c].stage = "gone" BY DEF Ask
<1>3. \/ worker' = [worker EXCEPT ![c] = u] /\ queue' = queue
      \/ worker' = [worker EXCEPT ![c] = v] /\ queue' = Append(queue, r)
  BY DEF Ask
<1>4. v.stage = "waiting" BY DEF Gone
<1>5. r \in Request /\ r.client = c BY RequestsAssumption DEF Request
<1> HIDE DEF u, v, r
<1>6. \A d \in Clients : worker[d].stage = "waiting" => worker'[d] = worker[d]
  BY <1>1, <1>2, <1>3, HostFacts
<1>7. worker'[Daemon] = worker[Daemon] BY <1>1, <1>3
<1>8. CASE queue' = queue
  <2>1. WaitsFor(worker', queue) BY <1>6, <1>7, WaitingOn DEF Waits
  <2> QED BY <1>8, <2>1 DEF Waits
<1>9. CASE worker' = [worker EXCEPT ![c] = v] /\ queue' = Append(queue, r)
  <2> DEFINE n == Len(queue) + 1
  <2>1. /\ Len(queue) \in Nat /\ DOMAIN queue = 1 .. Len(queue) /\ DOMAIN queue' = 1 .. n
        /\ \A i \in 1 .. Len(queue) : queue'[i] = queue[i]
        /\ queue'[n] = r
    BY <1>0, <1>5, <1>9, AppendProperties, LenProperties
  <2>2. worker'[c].stage = "waiting" BY <1>1, <1>4, <1>9
  <2>3. \A i \in DOMAIN queue : queue[i].client # c BY <1>2 DEF Waits, WaitsFor
  <2>4. worker[Daemon].request # NoRequest => worker[Daemon].request.client # c
    BY <1>2 DEF Waits, WaitsFor
  <2>5. ASSUME worker'[Daemon].request # NoRequest,
               NEW d \in Clients, worker'[Daemon].request.client = d
        PROVE  worker'[d].stage = "waiting" /\ \A i \in DOMAIN queue' : queue'[i].client # d
    <3>1. worker[d].stage = "waiting" /\ \A i \in DOMAIN queue : queue[i].client # d
      BY <1>7, <2>5 DEF Waits, WaitsFor
    <3>2. d # c BY <1>2, <3>1
    <3> QED BY <1>5, <1>6, <2>1, <3>1, <3>2
  <2>6. ASSUME NEW i \in DOMAIN queue', NEW d \in Clients, queue'[i].client = d
        PROVE  worker'[d].stage = "waiting" /\ \A j \in DOMAIN queue' : queue'[j].client = d => j = i
    <3>1. CASE i = n
      BY <1>5, <2>1, <2>2, <2>3, <2>6, <3>1
    <3>2. CASE i # n
      <4>1. i \in DOMAIN queue /\ queue[i].client = d BY <2>1, <2>6, <3>2
      <4>2. worker[d].stage = "waiting" /\ \A j \in DOMAIN queue : queue[j].client = d => j = i
        BY <4>1 DEF Waits, WaitsFor
      <4>3. d # c BY <1>2, <4>2
      <4> QED BY <1>5, <1>6, <2>1, <4>2, <4>3
    <3> QED BY <3>1, <3>2
  <2> QED BY <2>5, <2>6 DEF Waits, WaitsFor
<1> QED BY <1>3, <1>8, <1>9

LEMMA AcceptWaits ==
  ASSUME TypeInv, Waits, Accept
  PROVE  Waits'
<1>0. /\ Shape /\ queue \in Seq(Request) /\ queue # <<>> /\ Daemon \in Hosts
      /\ worker \in [Hosts -> Worker]
  BY HostFacts, ShapeOfHost DEF TypeInv, Types, Accept
<1>1. worker'[Daemon].request = queue[1]
  <2> DEFINE v == [worker[Daemon] EXCEPT !.request = Head(queue),
                     !.stage = IF worker[Daemon].loaded THEN "apply" ELSE "list"]
  <2>1. worker[Daemon] \in Worker BY <1>0
  <2>2. v.request = Head(queue) BY <2>1 DEF Worker
  <2>3. worker' = [worker EXCEPT ![Daemon] = v] BY DEF Accept
  <2> HIDE DEF v
  <2>4. Head(queue) = queue[1] BY <1>0, HeadTailProperties
  <2> QED BY <1>0, <2>2, <2>3, <2>4
<1>2. \A c \in Clients : worker'[c] = worker[c] BY <1>0, HostFacts DEF Accept
<1>3. /\ Len(queue) \in Nat \ {0} /\ DOMAIN queue = 1 .. Len(queue)
      /\ DOMAIN queue' = 1 .. (Len(queue) - 1)
      /\ \A i \in 1 .. (Len(queue) - 1) : queue'[i] = queue[i + 1]
  <2>1. queue' = Tail(queue) BY DEF Accept
  <2>2. Len(queue) # 0 BY <1>0, EmptySeq
  <2>3. Tail(queue) \in Seq(Request) /\ Len(Tail(queue)) = Len(queue) - 1
    BY <1>0, HeadTailProperties
  <2>4. \A i \in 1 .. Len(Tail(queue)) : Tail(queue)[i] = queue[i + 1]
    BY <1>0, HeadTailProperties
  <2> QED BY <1>0, <2>1, <2>2, <2>3, <2>4, LenProperties
<1>4. ASSUME NEW d \in Clients, worker'[Daemon].request.client = d
      PROVE  worker'[d].stage = "waiting" /\ \A i \in DOMAIN queue' : queue'[i].client # d
  <2>1. 1 \in DOMAIN queue /\ queue[1].client = d BY <1>1, <1>3, <1>4
  <2>2. worker[d].stage = "waiting" /\ \A j \in DOMAIN queue : queue[j].client = d => j = 1
    BY <2>1 DEF Waits, WaitsFor
  <2>3. ASSUME NEW i \in DOMAIN queue' PROVE queue'[i].client # d
    <3>1. i + 1 \in DOMAIN queue /\ i + 1 # 1 /\ queue'[i] = queue[i + 1] BY <1>3
    <3> QED BY <2>2, <3>1
  <2> QED BY <1>2, <2>2, <2>3
<1>5. ASSUME NEW i \in DOMAIN queue', NEW d \in Clients, queue'[i].client = d
      PROVE  worker'[d].stage = "waiting" /\ \A j \in DOMAIN queue' : queue'[j].client = d => j = i
  <2>1. i + 1 \in DOMAIN queue /\ queue[i + 1].client = d BY <1>3, <1>5
  <2>2. worker[d].stage = "waiting" /\ \A j \in DOMAIN queue : queue[j].client = d => j = i + 1
    BY <2>1 DEF Waits, WaitsFor
  <2>3. ASSUME NEW j \in DOMAIN queue', queue'[j].client = d PROVE j = i
    <3>1. j + 1 \in DOMAIN queue /\ queue[j + 1].client = d BY <1>3, <2>3
    <3>2. j + 1 = i + 1 BY <2>2, <3>1
    <3>3. i \in Int /\ j \in Int BY <1>3
    <3> QED BY <3>2, <3>3
  <2> QED BY <1>2, <2>2, <2>3
<1> QED BY <1>4, <1>5 DEF Waits, WaitsFor

LEMMA SendAnswerWaits ==
  ASSUME TypeInv, Waits, SendAnswer
  PROVE  Waits' /\ worker[worker[Daemon].request.client].stage = "waiting"
<1> DEFINE c == worker[Daemon].request.client
<1>0. Shape /\ Daemon \in Hosts /\ worker \in [Hosts -> Worker]
  BY HostFacts, ShapeOfHost DEF TypeInv
<1>1. c \in Clients BY <1>0, SendAnswerShape
<1>2. worker[Daemon].request # NoRequest
  BY <1>0, ShapeOfHost DEF Good, SendAnswer
<1>3. worker[c].stage = "waiting" /\ \A i \in DOMAIN queue : queue[i].client # c
  BY <1>1, <1>2 DEF Waits, WaitsFor
<1>4. worker' = [[worker EXCEPT ![Daemon] = Free] EXCEPT ![c] = Gone] BY DEF SendAnswer
<1>5. Free.request = NoRequest BY <1>0 DEF Free, Worker
<1>6. worker'[Daemon].request = NoRequest BY <1>0, <1>1, <1>4, <1>5, HostFacts
<1>7. \A d \in Clients \ {c} : worker'[d] = worker[d] BY <1>0, <1>1, <1>4, HostFacts
<1>8. queue' = queue BY DEF SendAnswer
<1> HIDE DEF c
<1>9. Waits' BY <1>3, <1>6, <1>7, <1>8 DEF Waits, WaitsFor
<1> QED BY <1>3, <1>9 DEF c

LEMMA InterruptWaits ==
  ASSUME TypeInv, Waits, NEW c \in Clients, Interrupt(c)
  PROVE  Waits'
<1>0. /\ Shape /\ queue \in Seq(Request) /\ Daemon \in Hosts /\ c \in Hosts /\ c # Daemon
      /\ worker \in [Hosts -> Worker] /\ Nobody \notin Clients
  BY HostFacts, ShapeOfHost, ProcessesAssumption DEF TypeInv, Types
<1>1. ASSUME NEW r \in Request
      PROVE  /\ Forget(r, c).client \in {r.client, Nobody} /\ Forget(r, c).client # c
             /\ r.client # c => Forget(r, c) = r
  <2>1. [r EXCEPT !.client = Nobody].client = Nobody BY DEF Request
  <2> QED BY <1>0, <2>1, RequestFacts DEF Forget
<1>2. /\ worker'[Daemon].request = Forget(worker[Daemon].request, c)
      /\ \A d \in Clients \ {c} : worker'[d] = worker[d]
  <2> DEFINE v == [worker[Daemon] EXCEPT !.request = Forget(@, c)]
  <2>1. worker[Daemon] \in Worker BY <1>0
  <2>2. v.request = Forget(worker[Daemon].request, c) BY <2>1 DEF Worker
  <2>3. worker' = [[worker EXCEPT ![c] = Gone] EXCEPT ![Daemon] = v] BY <1>0 DEF Interrupt
  <2> HIDE DEF v
  <2> QED BY <1>0, <2>2, <2>3, HostFacts
<1>3. /\ DOMAIN queue' = DOMAIN queue
      /\ \A i \in DOMAIN queue : queue[i] \in Request /\ queue'[i] = Forget(queue[i], c)
  BY <1>0, ElementOfSeq, LenProperties DEF Interrupt
<1>4. ASSUME worker'[Daemon].request # NoRequest,
             NEW d \in Clients, worker'[Daemon].request.client = d
      PROVE  worker'[d].stage = "waiting" /\ \A i \in DOMAIN queue' : queue'[i].client # d
  <2>1. worker[Daemon].request \in Request /\ worker[Daemon].request # NoRequest
    BY <1>0, <1>2, <1>4, Forgetting DEF Worker
  <2>2. worker[Daemon].request.client = d /\ d # c BY <1>0, <1>1, <1>2, <1>4, <2>1
  <2>3. worker[d].stage = "waiting" /\ \A i \in DOMAIN queue : queue[i].client # d
    BY <2>1, <2>2 DEF Waits, WaitsFor
  <2> QED BY <1>0, <1>1, <1>2, <1>3, <2>2, <2>3
<1>5. ASSUME NEW i \in DOMAIN queue', NEW d \in Clients, queue'[i].client = d
      PROVE  worker'[d].stage = "waiting" /\ \A j \in DOMAIN queue' : queue'[j].client = d => j = i
  <2>1. d # c /\ queue[i].client = d BY <1>0, <1>1, <1>3, <1>5
  <2>2. worker[d].stage = "waiting" /\ \A j \in DOMAIN queue : queue[j].client = d => j = i
    BY <1>3, <2>1 DEF Waits, WaitsFor
  <2>3. ASSUME NEW j \in DOMAIN queue', queue'[j].client = d PROVE j = i
    <3>1. queue[j].client = d BY <1>0, <1>1, <1>3, <2>3
    <3> QED BY <1>3, <2>2, <3>1
  <2>4. worker'[d].stage = "waiting" BY <1>2, <2>1, <2>2
  <2> QED BY <2>3, <2>4
<1> QED BY <1>4, <1>5 DEF Waits, WaitsFor

\* Every step keeps the clients waiting for their requests.
LEMMA WaitsKept == TypeInv /\ Waits /\ [Next]_vars => Waits'
<1> SUFFICES ASSUME TypeInv, Waits, [Next]_vars PROVE Waits' OBVIOUS
<1>0. /\ Shape /\ Daemon \in Hosts /\ worker \in [Hosts -> Worker]
      /\ \A c \in Clients : c \in Hosts /\ c # Daemon
  BY HostFacts, ShapeOfHost DEF TypeInv
<1>1. ASSUME NEW h \in Hosts, ManagerStep(h) PROVE Waits'
  <2>1. /\ worker'[Daemon].request = worker[Daemon].request /\ queue' = queue
        /\ \A c \in Clients : worker[c].stage = "waiting" => worker'[c].stage = "waiting"
    BY <1>0, <1>1, ManagerLeaves
  <2>2. WaitsFor(worker', queue) BY <2>1, WaitingOn DEF Waits
  <2> QED BY <2>1, <2>2 DEF Waits
<1>2. CASE FailToAnswer \/ KillDaemon
  <2>1. worker'[Daemon].request = NoRequest /\ queue' = <<>>
    BY <1>0, <1>2, GoneIsWorker DEF FailToAnswer, KillDaemon, DaemonGone
  <2> QED BY <2>1 DEF Waits, WaitsFor
<1>3. CASE StartDaemon
  <2>1. worker'[Daemon].request = NoRequest /\ queue' = queue
        /\ \A c \in Clients : worker'[c] = worker[c]
    BY <1>0, <1>3 DEF StartDaemon, Gone
  <2>2. WaitsFor(worker', queue) BY <2>1, WaitingOn DEF Waits
  <2> QED BY <2>1, <2>2 DEF Waits
<1>4. CASE \E c \in Clients : ReturnAnswer(c)
  <2>1. PICK c \in Clients : ReturnAnswer(c) BY <1>4
  <2>2. worker'[Daemon] = worker[Daemon] /\ queue' = queue
        /\ \A d \in Clients : worker[d].stage = "waiting" => worker'[d] = worker[d]
    BY <1>0, <2>1 DEF ReturnAnswer
  <2>3. WaitsFor(worker', queue) BY <2>2, WaitingOn DEF Waits
  <2> QED BY <2>2, <2>3 DEF Waits
<1>5. CASE UNCHANGED vars BY <1>5 DEF vars, Waits
<1>6. CASE Accept BY <1>6, AcceptWaits
<1>7. CASE SendAnswer BY <1>7, SendAnswerWaits
<1>8. CASE \E c \in Clients, ask \in Requests : Ask(c, ask[1], ask[2]) BY <1>8, AskWaits
<1>9. CASE \E c \in Clients : Interrupt(c) BY <1>9, InterruptWaits
<1> QED BY <1>0, <1>1, <1>2, <1>3, <1>4, <1>5, <1>6, <1>7, <1>8, <1>9 DEF Next, Serve

LEMMA InitWaits == Init => Waits
BY HostFacts, GoneIsWorker DEF Init, Waits, WaitsFor

----------------------------------------------------------------------------
(* Promises: the ends of a process *)

(***************************************************************************)
(* Process h answers: with its own change under way, or after a refusal.   *)
(* It is at nothing afterwards, and the others go on or only waited.       *)
(***************************************************************************)
LEMMA AnswerKeeps ==
  ASSUME TypeInv, PromiseInv, NEW h \in Hosts, worker[h].stage \in {"answer", "refuse"},
         Promise(h), UNCHANGED files, worker'[h].stage \notin Changing,
         \A g \in Hosts \ {h} :
           \/ worker'[g] = worker[g]
           \/ worker[g].stage \notin Changing /\ worker'[g].stage \notin Changing
  PROVE  PromiseInv'
<1> DEFINE r == worker[h].request
           q == r.plugin
<1>0. Shape /\ Good(worker[h]) BY ShapeOfHost DEF TypeInv
<1>1. worker[h].pending = <<>> BY <1>0 DEF Good
<1>2. q \in Plugins BY <1>0, SubjectIsPlugin
<1>3. promised \in [Plugins -> Status] BY DEF TypeInv, Types
<1>4. ASSUME NEW p \in Plugins
      PROVE  KeptAt(worker', files', promised', excused', p)
  <2>1. KeptAt(worker, files, promised, excused, p) BY DEF PromiseInv
  <2>2. ~At(worker'[h], p) BY DEF At
  <2>3. \A g \in Hosts \ {h} : \/ ~At(worker[g], p) /\ ~At(worker'[g], p)
                               \/ worker'[g] = worker[g]
    BY DEF At
  <2>4. CASE worker[h].stage = "answer" /\ p = q
    <3>1. Aside(worker, worker', h, p) BY <2>3 DEF Aside
    <3>2. At(worker[h], p) BY <1>1, <2>4 DEF At, Subj, Changing
    <3>3. promised'[p] = Outcome[worker[h].request.op] BY <1>2, <1>3, <2>4 DEF Promise
    <3>4. worker[h].clean \/ p \in excused' BY <2>4 DEF Promise
    <3>5. KeptAt(worker', files, promised', excused', p)
      BY <1>1, <2>1, <2>2, <2>4, <3>1, <3>2, <3>3, <3>4, AnswerStepAt
    <3> QED BY <3>5
  <2>5. CASE ~(worker[h].stage = "answer" /\ p = q)
    <3>1. ~At(worker[h], p) BY <1>1, <2>5 DEF At, Subj, Changing
    <3>2. promised'[p] = promised[p] /\ (p \in excused => p \in excused')
      BY <1>2, <1>3, <2>5 DEF Promise
    <3>3. \A g \in Hosts : \/ ~At(worker[g], p) /\ ~At(worker'[g], p)
                           \/ At(worker[g], p) /\ ~At(worker'[g], p) /\ p \in excused'
                           \/ /\ At(worker[g], p) /\ At(worker'[g], p)
                              /\ Alike(worker[g], worker'[g])
      BY <2>2, <2>3, <3>1 DEF Alike
    <3>4. files'[p] = files[p] OBVIOUS
    <3> QED BY ONLY <2>1, <3>2, <3>3, <3>4, QuietAt, p \in Plugins
  <2> QED BY <2>4, <2>5
<1> QED BY <1>4 DEF PromiseInv

(***************************************************************************)
(* Processes end without an answer: what they were changing is excused.    *)
(***************************************************************************)
LEMMA EndsKeep ==
  ASSUME PromiseInv, UNCHANGED <<files, promised>>, excused \subseteq excused',
         \A g \in Hosts, p \in Plugins :
           \/ ~At(worker[g], p) /\ ~At(worker'[g], p)
           \/ ~At(worker'[g], p) /\ p \in excused'
           \/ At(worker[g], p) /\ At(worker'[g], p) /\ Alike(worker[g], worker'[g])
  PROVE  PromiseInv'
<1>1. ASSUME NEW p \in Plugins
      PROVE  KeptAt(worker', files', promised', excused', p)
  <2>1. KeptAt(worker, files, promised, excused, p) BY DEF PromiseInv
  <2>2. \A g \in Hosts : \/ ~At(worker[g], p) /\ ~At(worker'[g], p)
                         \/ At(worker[g], p) /\ ~At(worker'[g], p) /\ p \in excused'
                         \/ /\ At(worker[g], p) /\ At(worker'[g], p)
                            /\ Alike(worker[g], worker'[g])
    OBVIOUS
  <2>3. files'[p] = files[p] /\ promised'[p] = promised[p] /\ (p \in excused => p \in excused')
    OBVIOUS
  <2> QED BY ONLY <2>1, <2>2, <2>3, QuietAt, p \in Plugins
<1> QED BY <1>1 DEF PromiseInv

LEMMA AnswersKeep ==
  ASSUME TypeInv, Waits, PromiseInv,
         SendAnswer \/ FailToAnswer \/ \E c \in Clients : ReturnAnswer(c)
  PROVE  PromiseInv'
<1>0. Shape /\ Daemon \in Hosts /\ worker \in [Hosts -> Worker]
  BY HostFacts, ShapeOfHost DEF TypeInv
<1>g. Gone.stage \notin Changing BY GoneIsWorker DEF Changing
<1>1. CASE SendAnswer
  <2> DEFINE c == worker[Daemon].request.client
  <2>1. c \in Clients /\ worker[c].stage = "waiting"
    BY <1>0, <1>1, SendAnswerShape, SendAnswerWaits
  <2>2. worker' = [[worker EXCEPT ![Daemon] = Free] EXCEPT ![c] = Gone] BY <1>1 DEF SendAnswer
  <2>3. Free.stage = "free" BY <1>0 DEF Free, Worker
  <2> HIDE DEF c
  <2>4. worker'[Daemon] = Free /\ worker'[c] = Gone
        /\ \A g \in Hosts \ {Daemon, c} : worker'[g] = worker[g]
    BY <1>0, <2>1, <2>2, HostFacts
  <2>5. worker'[Daemon].stage \notin Changing BY <2>3, <2>4 DEF Changing
  <2>6. worker[c].stage \notin Changing /\ worker'[c].stage \notin Changing
    BY <1>g, <2>1, <2>4 DEF Changing
  <2>7. /\ worker[Daemon].stage \in {"answer", "refuse"} /\ Promise(Daemon) /\ UNCHANGED files
    BY <1>1 DEF SendAnswer
  <2>8. \A g \in Hosts \ {Daemon} :
          \/ worker'[g] = worker[g]
          \/ worker[g].stage \notin Changing /\ worker'[g].stage \notin Changing
    BY <2>4, <2>6
  <2> QED BY <1>0, <2>5, <2>7, <2>8, AnswerKeeps
<1>2. CASE FailToAnswer
  <2>1. worker'[Daemon] = Gone BY <1>0, <1>2 DEF FailToAnswer, DaemonGone
  <2>2. \A g \in Hosts \ {Daemon} :
          \/ worker'[g] = worker[g]
          \/ worker[g].stage \notin Changing /\ worker'[g].stage \notin Changing
    BY <1>g, <1>2 DEF FailToAnswer, DaemonGone, Changing
  <2>3. worker'[Daemon].stage \notin Changing BY <1>g, <2>1
  <2>4. /\ worker[Daemon].stage \in {"answer", "refuse"} /\ Promise(Daemon) /\ UNCHANGED files
    BY <1>2 DEF FailToAnswer
  <2> QED BY <1>0, <2>2, <2>3, <2>4, AnswerKeeps
<1>3. CASE \E c \in Clients : ReturnAnswer(c)
  <2>1. PICK c \in Clients : ReturnAnswer(c) BY <1>3
  <2>2. worker'[c] = Gone /\ \A g \in Hosts \ {c} : worker'[g] = worker[g]
    BY <1>0, <2>1, HostFacts DEF ReturnAnswer
  <2>3. worker'[c].stage \notin Changing BY <1>g, <2>2
  <2>4. /\ worker[c].stage \in {"answer", "refuse"} /\ Promise(c) /\ UNCHANGED files
    BY <2>1 DEF ReturnAnswer
  <2> QED BY <2>2, <2>3, <2>4, HostFacts, AnswerKeeps
<1> QED BY <1>1, <1>2, <1>3

LEMMA EndingsKeep ==
  ASSUME TypeInv, PromiseInv, KillDaemon \/ \E c \in Clients : Interrupt(c)
  PROVE  PromiseInv'
<1>0. Shape /\ Daemon \in Hosts /\ worker \in [Hosts -> Worker]
  BY HostFacts, ShapeOfHost DEF TypeInv
<1>g. \A p \in Plugins : ~At(Gone, p) BY GoneIsWorker DEF At, Changing
<1>1. CASE KillDaemon
  <2>1. ASSUME NEW g \in Hosts, NEW p \in Plugins
        PROVE  \/ ~At(worker[g], p) /\ ~At(worker'[g], p)
               \/ ~At(worker'[g], p) /\ p \in excused'
               \/ At(worker[g], p) /\ At(worker'[g], p) /\ Alike(worker[g], worker'[g])
    <3>1. CASE g = Daemon
      <4>1. worker'[g] = Gone BY <1>1, <3>1 DEF KillDaemon, DaemonGone
      <4>2. At(worker[g], p) => p \in excused'
        BY <1>1, <3>1, AtWorks DEF KillDaemon, Worked
      <4> QED BY <1>g, <4>1, <4>2
    <3>2. CASE g # Daemon /\ worker[g].stage = "waiting"
      <4>1. worker'[g] = Gone BY <1>1, <3>2 DEF KillDaemon, DaemonGone
      <4>2. ~At(worker[g], p) BY <3>2 DEF At, Changing
      <4> QED BY <1>g, <4>1, <4>2
    <3>3. CASE g # Daemon /\ worker[g].stage # "waiting"
      <4>1. worker'[g] = worker[g] BY <1>1, <3>3 DEF KillDaemon, DaemonGone
      <4> QED BY <4>1 DEF Alike
    <3> QED BY <3>1, <3>2, <3>3
  <2>2. UNCHANGED <<files, promised>> /\ excused \subseteq excused' BY <1>1 DEF KillDaemon
  <2> QED BY <2>1, <2>2, EndsKeep
<1>2. CASE \E c \in Clients : Interrupt(c)
  <2>1. PICK c \in Clients : Interrupt(c) BY <1>2
  <2> DEFINE v == [worker[Daemon] EXCEPT !.request = Forget(@, c)]
  <2>2. worker' = [[worker EXCEPT ![c] = Gone] EXCEPT ![Daemon] = v]
    BY <1>0, <2>1, HostFacts DEF Interrupt
  <2>3. /\ v.stage = worker[Daemon].stage /\ v.pending = worker[Daemon].pending
        /\ v.linked = worker[Daemon].linked /\ v.clean = worker[Daemon].clean
        /\ v.request = Forget(worker[Daemon].request, c)
    BY <1>0 DEF Worker
  <2> HIDE DEF v
  <2>4. worker'[Daemon] = v /\ worker'[c] = Gone
        /\ \A g \in Hosts \ {Daemon, c} : worker'[g] = worker[g]
    BY <1>0, <2>2, HostFacts
  <2>5. ASSUME NEW p \in Plugins, At(worker[Daemon], p) \/ At(v, p)
        PROVE  At(worker[Daemon], p) /\ At(v, p) /\ Alike(worker[Daemon], v)
    <3>1. worker[Daemon].request \in Request
      BY <1>0, <2>3, <2>5, ShapeOfHost, SubjectIsPlugin DEF At, Changing
    <3>2. v.request.op = worker[Daemon].request.op
          /\ v.request.plugin = worker[Daemon].request.plugin
      BY <2>3, <3>1, Forgetting
    <3> QED BY <2>3, <2>5, <3>2 DEF At, Subj, Alike
  <2>6. ASSUME NEW g \in Hosts, NEW p \in Plugins
        PROVE  \/ ~At(worker[g], p) /\ ~At(worker'[g], p)
               \/ ~At(worker'[g], p) /\ p \in excused'
               \/ At(worker[g], p) /\ At(worker'[g], p) /\ Alike(worker[g], worker'[g])
    <3>1. CASE g = Daemon BY <2>4, <2>5, <3>1
    <3>2. CASE g = c
      <4>1. At(worker[g], p) => p \in excused' BY <2>1, <3>2, AtWorks DEF Interrupt, Worked
      <4> QED BY <1>g, <2>4, <3>2, <4>1
    <3>3. CASE g \notin {Daemon, c}
      <4>1. worker'[g] = worker[g] BY <2>4, <3>3
      <4> QED BY <4>1 DEF Alike
    <3> QED BY <3>1, <3>2, <3>3
  <2>7. UNCHANGED <<files, promised>> /\ excused \subseteq excused' BY <2>1 DEF Interrupt
  <2> QED BY <2>6, <2>7, EndsKeep
<1> QED BY <1>1, <1>2

----------------------------------------------------------------------------
(* Promises: the theorem *)

LEMMA PromiseKept == TypeInv /\ Waits /\ PromiseInv /\ [Next]_vars => PromiseInv'
<1> SUFFICES ASSUME TypeInv, Waits, PromiseInv, [Next]_vars PROVE PromiseInv' OBVIOUS
<1>1. ASSUME NEW h \in Hosts, ManagerStep(h) PROVE PromiseInv'
  <2>1. CASE ListFiles(h) \/ ReadFile(h) \/ EndLoading(h) BY <2>1, QuietActionsKeep
  <2>2. CASE InstallDefault(h) BY <2>2, InstallDefaultKeeps
  <2>3. CASE Apply(h) BY <2>3, ApplyKeeps
  <2>4. CASE OpenFile(h) BY <2>4, OpenFileKeeps
  <2>5. CASE WriteFile(h) BY <2>5, WriteFileKeeps
  <2>6. CASE Unlink(h) BY <2>6, UnlinkKeeps
  <2> QED BY <1>1, <2>1, <2>2, <2>3, <2>4, <2>5, <2>6 DEF ManagerStep
<1>2. CASE \E c \in Clients, ask \in Requests : Ask(c, ask[1], ask[2])
  <2>1. PICK c \in Clients, ask \in Requests : Ask(c, ask[1], ask[2]) BY <1>2
  <2>2. ask[1] \in Ops /\ ask[2] \in Plugins BY RequestsAssumption
  <2> QED BY <2>1, <2>2, QuietActionsKeep
<1>3. CASE Accept \/ StartDaemon BY <1>3, QuietActionsKeep
<1>4. CASE SendAnswer \/ FailToAnswer \/ \E c \in Clients : ReturnAnswer(c)
  BY <1>4, AnswersKeep
<1>5. CASE KillDaemon \/ \E c \in Clients : Interrupt(c) BY <1>5, EndingsKeep
<1>6. CASE UNCHANGED vars
  BY <1>6 DEF PromiseInv, KeptAt, At, Fit, vars, historyVars
<1> QED BY <1>1, <1>2, <1>3, <1>4, <1>5, <1>6, HostFacts DEF Next, Serve

LEMMA InitPromises == Init => PromiseInv
<1> SUFFICES ASSUME Init, NEW p \in Plugins
    PROVE  KeptAt(worker, files, promised, excused, p)
  BY DEF PromiseInv
<1>1. \A h \in Hosts : ~At(worker[h], p) BY GoneIsWorker DEF Init, At, Changing
<1>2. Holds(files[p]) = promised[p] BY DEF Init, Holds, Absent, Status
<1> QED BY <1>1, <1>2 DEF KeptAt

(***************************************************************************)
(* For any catalog, defaults, number of clients and backlog, and however   *)
(* the daemon and in-process clients interleave and end: when nobody is    *)
(* changing a plugin, its file says what the last SUCCESS answer on it     *)
(* promised, unless that change is excused.                                *)
(***************************************************************************)
THEOREM PluginPromisesAreKept == Spec => []PromisesAreKept
<1>1. PromiseInv => PromisesAreKept BY PromiseInvIsEnough
<1> QED BY InitTypes, TypesKept, InitWaits, WaitsKept, InitPromises, PromiseKept, <1>1, PTL
        DEF Spec

----------------------------------------------------------------------------
(* Memory: the invariant *)

\* A manager that has listed the files, and what it has found out about p.
Reading(r) == r.loaded \/ r.stage = "read"
Known(r, p) == r.loaded \/ (r.stage = "read" /\ p \notin r.unread)

(***************************************************************************)
(* A manager loads once, before it decides on anything; until then its     *)
(* memory is empty.  A change that was asked for is in memory first.       *)
(***************************************************************************)
Ready(r) ==
  /\ r.stage \in Changing \cup {"default", "apply", "refuse"} => r.loaded
  /\ r.stage = "list" => ~r.loaded
  /\ ~Reading(r) => \A p \in Plugins : r.memory[p] = "UNINSTALLED"
  /\ r.stage \in Changing /\ r.pending = <<>> =>
       r.memory[r.request.plugin] = Outcome[r.request.op]

(***************************************************************************)
(* Process h and plugin p: whoever else is at p since h listed the files   *)
(* makes it unsure of p.  If it is not, and p is not excused, what h has   *)
(* found out is what was promised, and h installs p as no default.         *)
(***************************************************************************)
KnowsAt(w, pr, ex, h, p) ==
  Reading(w[h]) =>
    /\ \A g \in Hosts \ {h} : At(w[g], p) => p \in w[h].unsure
    /\ p \notin ex /\ p \notin w[h].unsure =>
         /\ Known(w[h], p) /\ ~At(w[h], p) => w[h].memory[p] = pr[p]
         /\ At(w[h], p) => w[h].pending = <<>>

MemoryInv ==
  \A h \in Hosts : /\ Ready(worker[h])
                   /\ \A p \in Plugins : KnowsAt(worker, promised, excused, h, p)

LEMMA MemoryInvIsEnough == MemoryInv => MemoryIsCurrent
BY AtWorks DEF MemoryInv, KnowsAt, MemoryIsCurrent, Reading, Known

\* What a process knows of p, it goes on knowing; it begins no change of p.
Carried(r, v, p) ==
  /\ At(v, p) => At(r, p)
  /\ Reading(v) =>
       /\ Reading(r) /\ v.memory[p] = r.memory[p]
       /\ p \in r.unsure => p \in v.unsure
       /\ Known(v, p) => Known(r, p)
       /\ At(v, p) => v.pending = r.pending
       /\ At(r, p) => At(v, p) \/ r.pending # <<>>

(***************************************************************************)
(* A step that carries h's knowledge of p over: what others begin, promise *)
(* or clear at p makes h unsure of it.                                     *)
(***************************************************************************)
LEMMA KnowsOn ==
  ASSUME NEW p \in Plugins, NEW h \in Hosts, NEW w, NEW pr, NEW ex, KnowsAt(w, pr, ex, h, p),
         NEW w2, NEW pr2, NEW ex2, Carried(w[h], w2[h], p),
         Reading(w2[h]) /\ p \notin w2[h].unsure =>
           /\ \A g \in Hosts \ {h} : At(w2[g], p) => At(w[g], p)
           /\ pr2[p] = pr[p]
           /\ p \in ex => p \in ex2
  PROVE  KnowsAt(w2, pr2, ex2, h, p)
<1> SUFFICES ASSUME Reading(w2[h]), p \notin w2[h].unsure
             PROVE  /\ \A g \in Hosts \ {h} : ~At(w2[g], p)
                    /\ p \notin ex2 =>
                         /\ Known(w2[h], p) /\ ~At(w2[h], p) => w2[h].memory[p] = pr2[p]
                         /\ At(w2[h], p) => w2[h].pending = <<>>
  BY DEF KnowsAt
<1>1. Reading(w[h]) /\ p \notin w[h].unsure BY DEF Carried
<1>2. \A g \in Hosts \ {h} : ~At(w2[g], p) BY <1>1 DEF KnowsAt
<1>3. ASSUME p \notin ex2
      PROVE  /\ Known(w2[h], p) /\ ~At(w2[h], p) => w2[h].memory[p] = pr2[p]
             /\ At(w2[h], p) => w2[h].pending = <<>>
  <2>1. /\ Known(w[h], p) /\ ~At(w[h], p) => w[h].memory[p] = pr[p]
        /\ At(w[h], p) => w[h].pending = <<>>
    BY <1>1, <1>3 DEF KnowsAt
  <2> QED BY <2>1 DEF Carried
<1> QED BY <1>2, <1>3

\* A step in which every process carries over what it knows.
LEMMA AllCarry ==
  ASSUME MemoryInv, UNCHANGED promised, excused \subseteq excused',
         \A h \in Hosts : /\ Ready(worker'[h])
                          /\ \A p \in Plugins : Carried(worker[h], worker'[h], p)
  PROVE  MemoryInv'
<1>1. ASSUME NEW h \in Hosts, NEW p \in Plugins
      PROVE  KnowsAt(worker', promised', excused', h, p)
  <2>1. KnowsAt(worker, promised, excused, h, p) BY DEF MemoryInv
  <2>2. \A g \in Hosts : At(worker'[g], p) => At(worker[g], p) BY DEF Carried
  <2> QED BY <2>1, <2>2, KnowsOn
<1> QED BY <1>1 DEF MemoryInv

\* The same for a step of one process.
LEMMA OneCarries ==
  ASSUME Shape, MemoryInv, UNCHANGED promised, excused \subseteq excused',
         NEW h \in Hosts, NEW v, worker' = [worker EXCEPT ![h] = v], Ready(v),
         \A p \in Plugins : Carried(worker[h], v, p)
  PROVE  MemoryInv'
<1>1. \A g \in Hosts : worker'[g] = IF g = h THEN v ELSE worker[g] BY ShapeOfHost
<1>2. \A g \in Hosts : Ready(worker'[g]) BY <1>1 DEF MemoryInv
<1>3. \A g \in Hosts, p \in Plugins : Carried(worker[g], worker'[g], p)
  BY <1>1 DEF Carried
<1> QED BY <1>2, <1>3, AllCarry

LEMMA GoneIsReady ==
  /\ Ready(Gone) /\ ~Reading(Gone)
  /\ \A p \in Plugins : ~At(Gone, p)
  /\ \A p \in Plugins : \A r : Carried(r, Gone, p)
<1>1. ~Gone.loaded BY DEF Gone
<1>2. ~Reading(Gone) /\ \A p \in Plugins : ~At(Gone, p)
  BY <1>1, GoneIsWorker DEF Reading, At, Changing
<1>3. Ready(Gone) BY <1>1, GoneIsWorker DEF Ready, Changing
<1> QED BY <1>2, <1>3 DEF Carried

----------------------------------------------------------------------------
(* Memory: the actions *)

(***************************************************************************)
(* The lifes of processes, and the steps that touch no file.               *)
(***************************************************************************)
LEMMA QuietActionsKnow ==
  ASSUME TypeInv, MemoryInv,
         \/ \E c \in Clients, op \in Ops, p \in Plugins : Ask(c, op, p)
         \/ Accept
         \/ StartDaemon
         \/ \E h \in Hosts : EndLoading(h)
  PROVE  MemoryInv'
<1>0. Shape BY DEF TypeInv
<1>1. CASE \E c \in Clients, op \in Ops, p \in Plugins : Ask(c, op, p)
  <2>1. PICK c \in Clients, op \in Ops, p \in Plugins : Ask(c, op, p) BY <1>1
  <2> DEFINE r == [client |-> c, op |-> op, plugin |-> p]
             v(s) == [Gone EXCEPT !.stage = s, !.request = r]
  <2>2. PICK s \in {"list", "waiting"} : worker' = [worker EXCEPT ![c] = v(s)]
    BY <2>1 DEF Ask
  <2>3. v(s).stage = s /\ ~v(s).loaded /\ v(s).memory = Gone.memory BY DEF Gone
  <2>4. UNCHANGED <<promised, excused>> BY <2>1 DEF Ask, historyVars
  <2> HIDE DEF v
  <2>5. ~Reading(v(s)) /\ \A q : ~At(v(s), q) BY <2>3 DEF Reading, At, Changing
  <2>6. Ready(v(s)) BY <2>3, GoneIsWorker DEF Ready, Changing
  <2>7. \A q \in Plugins : Carried(worker[c], v(s), q) BY <2>5 DEF Carried
  <2> QED BY <1>0, <2>2, <2>4, <2>6, <2>7, HostFacts, OneCarries
<1>2. CASE Accept
  <2> DEFINE r == worker[Daemon]
             v == [worker[Daemon] EXCEPT !.request = Head(queue),
                     !.stage = IF worker[Daemon].loaded THEN "apply" ELSE "list"]
  <2>1. r \in Worker /\ r.stage = "free" /\ Ready(r)
    BY <1>0, <1>2, HostFacts, ShapeOfHost DEF Accept, MemoryInv
  <2>2. /\ v.stage = IF r.loaded THEN "apply" ELSE "list"
        /\ v.loaded = r.loaded /\ v.memory = r.memory /\ v.unsure = r.unsure
        /\ v.unread = r.unread
    BY <2>1 DEF Worker
  <2>3. worker' = [worker EXCEPT ![Daemon] = v] /\ UNCHANGED <<promised, excused>>
    BY <1>2 DEF Accept, historyVars
  <2> HIDE DEF v, r
  <2>4. Ready(v) BY <2>1, <2>2 DEF Ready, Reading, Changing
  <2>5. \A q \in Plugins : Carried(r, v, q)
    BY <2>1, <2>2 DEF Carried, Reading, Known, At, Changing
  <2> QED BY <1>0, <2>3, <2>4, <2>5, HostFacts, OneCarries DEF r
<1>3. CASE StartDaemon
  <2> DEFINE v == [Gone EXCEPT !.stage = "free"]
  <2>1. v.stage = "free" /\ ~v.loaded /\ v.memory = Gone.memory BY DEF Gone
  <2>2. worker' = [worker EXCEPT ![Daemon] = v] /\ UNCHANGED <<promised, excused>>
    BY <1>3 DEF StartDaemon, historyVars
  <2> HIDE DEF v
  <2>3. ~Reading(v) /\ \A q : ~At(v, q) BY <2>1 DEF Reading, At, Changing
  <2>4. Ready(v) BY <2>1, GoneIsWorker DEF Ready, Changing
  <2>5. \A q \in Plugins : Carried(worker[Daemon], v, q) BY <2>3 DEF Carried
  <2> QED BY <1>0, <2>2, <2>4, <2>5, HostFacts, OneCarries
<1>4. ASSUME NEW h \in Hosts, EndLoading(h) PROVE MemoryInv'
  <2> DEFINE v == [worker[h] EXCEPT !.stage = "default", !.loaded = TRUE,
                                    !.pending = Defaults]
             u == [worker[h] EXCEPT !.stage = "apply", !.loaded = TRUE]
  <2>1. /\ worker[h] \in Worker /\ worker[h].stage = "read" /\ worker[h].unread = {}
        /\ UNCHANGED <<promised, excused>>
    BY <1>0, <1>4, ShapeOfHost DEF EndLoading, historyVars
  <2>2. ASSUME NEW x \in {v, u}
        PROVE  /\ x.stage \in {"default", "apply"} /\ x.loaded
               /\ x.memory = worker[h].memory /\ x.unsure = worker[h].unsure
    BY <2>1 DEF Worker
  <2>3. PICK x \in {v, u} : worker' = [worker EXCEPT ![h] = x] BY <1>4 DEF EndLoading
  <2> HIDE DEF v, u
  <2>4. Ready(x) BY <2>2 DEF Ready, Reading, Changing
  <2>5. \A q \in Plugins : Carried(worker[h], x, q)
    BY <2>1, <2>2 DEF Carried, Reading, Known, At, Changing
  <2> QED BY <1>0, <2>1, <2>3, <2>4, <2>5, OneCarries
<1> QED BY <1>1, <1>2, <1>3, <1>4

\* A list of the files: those that are not there are known at once.
LEMMA ListFilesKnows ==
  ASSUME TypeInv, PromiseInv, MemoryInv, NEW h \in Hosts, ListFiles(h)
  PROVE  MemoryInv'
<1> DEFINE v == [worker[h] EXCEPT !.stage = "read",
                   !.unread = {p \in Plugins : files[p] # Absent},
                   !.unsure = UNION {Worked(g) : g \in Hosts \ {h}}]
<1>0. /\ Shape /\ worker[h] \in Worker /\ worker[h].stage = "list" /\ Ready(worker[h])
      /\ worker \in [Hosts -> Worker]
  BY ShapeOfHost DEF TypeInv, ListFiles, MemoryInv
<1>1. ~worker[h].loaded /\ \A p \in Plugins : worker[h].memory[p] = "UNINSTALLED"
  BY <1>0 DEF Ready, Reading
<1>2. /\ v.stage = "read" /\ ~v.loaded /\ v.memory = worker[h].memory
      /\ v.unread = {p \in Plugins : files[p] # Absent}
      /\ v.unsure = UNION {Worked(g) : g \in Hosts \ {h}}
  BY <1>0, <1>1 DEF Worker
<1>3. worker' = [worker EXCEPT ![h] = v] /\ UNCHANGED <<promised, excused>>
  BY DEF ListFiles, historyVars
<1> HIDE DEF v
<1>4. \A g \in Hosts : worker'[g] = IF g = h THEN v ELSE worker[g] BY <1>0, <1>3
<1>5. Ready(v) BY <1>2 DEF Ready, Reading, Changing
<1>6. \A p : ~At(worker[h], p) /\ ~At(v, p) BY <1>0, <1>2 DEF At, Changing
<1>7. ASSUME NEW p \in Plugins
      PROVE  KnowsAt(worker', promised', excused', h, p)
  <2>1. \A g \in Hosts \ {h} : At(worker'[g], p) => p \in v.unsure
    BY <1>2, <1>4, AtWorks DEF Worked
  <2>2. ASSUME p \notin excused, p \notin v.unsure, Known(v, p)
        PROVE  v.memory[p] = promised[p]
    <3>1. files[p] = Absent BY <1>2, <2>2 DEF Known
    <3>2. \A g \in Hosts : ~At(worker[g], p) BY <1>4, <1>6, <2>1, <2>2
    <3>3. Holds(files[p]) = promised[p] BY <2>2, <3>2 DEF PromiseInv, KeptAt
    <3> QED BY <1>1, <1>2, <3>1, <3>3 DEF Holds, Absent, Status
  <2> QED BY <1>3, <1>4, <1>6, <2>1, <2>2 DEF KnowsAt
<1>8. ASSUME NEW g \in Hosts \ {h}, NEW p \in Plugins
      PROVE  KnowsAt(worker', promised', excused', g, p)
  <2>1. KnowsAt(worker, promised, excused, g, p) BY DEF MemoryInv
  <2>2. Carried(worker[g], worker'[g], p) BY <1>4 DEF Carried
  <2>3. \A k \in Hosts \ {g} : At(worker'[k], p) => At(worker[k], p) BY <1>4, <1>6
  <2> QED BY <1>3, <2>1, <2>2, <2>3, KnowsOn
<1> QED BY <1>4, <1>5, <1>7, <1>8 DEF MemoryInv

\* A file is read: it says what was promised unless somebody is at it.
LEMMA ReadFileKnows ==
  ASSUME TypeInv, PromiseInv, MemoryInv, NEW h \in Hosts, ReadFile(h)
  PROVE  MemoryInv'
<1>0. /\ Shape /\ worker[h] \in Worker /\ worker[h].stage = "read" /\ Ready(worker[h])
      /\ worker \in [Hosts -> Worker]
  BY ShapeOfHost DEF TypeInv, ReadFile, MemoryInv
<1>1. \A p \in Plugins : Stored(p) \in Status BY StoredIsStatus DEF TypeInv
<1>2. PICK q \in worker[h].unread :
        \E v \in {HasRead(worker[h], q), HasMissed(worker[h], q)} :
          worker' = [worker EXCEPT ![h] = v]
  BY <1>0, <1>1, ReadFileFacts
<1>4. PICK v \in {HasRead(worker[h], q), HasMissed(worker[h], q)} :
        worker' = [worker EXCEPT ![h] = v] /\ UNCHANGED <<promised, excused>>
  BY <1>0, <1>1, <1>2, ReadFileFacts
<1>3. /\ q \in Plugins
      /\ v.stage = "read" /\ v.loaded = worker[h].loaded
      /\ worker[h].unsure \subseteq v.unsure /\ v.unread = worker[h].unread \ {q}
      /\ v.pending = worker[h].pending
      /\ \A p \in Plugins \ {q} : v.memory[p] = worker[h].memory[p]
      /\ \/ v.memory[q] = Stored(q) /\ v.unsure = worker[h].unsure
         \/ q \in v.unsure /\ v.memory = worker[h].memory
  BY <1>0, <1>1, ReadFileFacts
<1>5. \A g \in Hosts : worker'[g] = IF g = h THEN v ELSE worker[g] BY <1>0, <1>4
<1>6. Ready(v) BY <1>0, <1>3 DEF Ready, Reading, Changing
<1>7. \A p : ~At(worker[h], p) /\ ~At(v, p) BY <1>0, <1>3 DEF At, Changing
<1>8. ASSUME NEW g \in Hosts, NEW p \in Plugins
      PROVE  KnowsAt(worker', promised', excused', g, p)
  <2>1. KnowsAt(worker, promised, excused, g, p) BY DEF MemoryInv
  <2>2. \A k \in Hosts : At(worker'[k], p) => At(worker[k], p) BY <1>5, <1>7
  <2>3. CASE g # h
    <3>1. Carried(worker[g], worker'[g], p) BY <1>5, <2>3 DEF Carried
    <3> QED BY <1>4, <2>1, <2>2, <3>1, KnowsOn
  <2>4. CASE g = h /\ p # q
    <3>1. Carried(worker[h], v, p)
      BY <1>0, <1>3, <1>7, <2>4 DEF Carried, Reading, Known
    <3>2. Carried(worker[g], worker'[g], p) BY <1>5, <2>4, <3>1
    <3> QED BY <1>4, <2>1, <2>2, <3>2, KnowsOn
  <2>5. CASE g = h /\ p = q
    <3>1. Reading(worker[h]) BY <1>0 DEF Reading
    <3>2. \A k \in Hosts \ {h} : At(worker[k], p) => p \in worker[h].unsure
      BY <2>1, <2>5, <3>1 DEF KnowsAt
    <3>3. \A k \in Hosts \ {h} : At(worker'[k], p) => p \in v.unsure
      BY <1>3, <2>2, <3>2
    <3>4. ASSUME p \notin excused, p \notin v.unsure
          PROVE  v.memory[p] = promised[p]
      <4>1. \A k \in Hosts : ~At(worker[k], p) BY <1>3, <1>7, <3>2, <3>4
      <4>2. Holds(files[p]) = promised[p] BY <3>4, <4>1 DEF PromiseInv, KeptAt
      <4> QED BY <1>3, <2>5, <3>4, <4>2, AtWorks
    <3> QED BY <1>4, <1>5, <1>7, <2>5, <3>3, <3>4 DEF KnowsAt
  <2> QED BY <2>3, <2>4, <2>5
<1> QED BY <1>5, <1>6, <1>8 DEF MemoryInv

(***************************************************************************)
(* The beginning of a change of q: all others are unsure of q from now on, *)
(* and the one who changes it has asked for it or has q excused.           *)
(***************************************************************************)
LEMMA ChangeKnows ==
  ASSUME Shape, MemoryInv, NEW h \in Hosts, NEW q \in Plugins, NEW v, v \in Worker,
         worker[h].stage \notin Changing, worker[h].loaded,
         v.stage \in {"open", "unlink"}, v.loaded, Subj(v) = q, Ready(v),
         v.unsure = worker[h].unsure,
         \A p \in Plugins \ {q} : v.memory[p] = worker[h].memory[p],
         worker' = Changed(h, q, v), UNCHANGED promised,
         excused \subseteq excused', v.pending # <<>> => q \in excused'
  PROVE  MemoryInv'
<1>1. ASSUME NEW g \in Hosts \ {h}
      PROVE  /\ worker'[g].stage = worker[g].stage /\ worker'[g].loaded = worker[g].loaded
             /\ worker'[g].pending = worker[g].pending
             /\ worker'[g].request = worker[g].request
             /\ worker'[g].memory = worker[g].memory
             /\ worker'[g].unread = worker[g].unread
             /\ worker'[g].unsure = IF Reading(worker[g]) THEN worker[g].unsure \cup {q}
                                     ELSE worker[g].unsure
  <2> DEFINE b == worker[g].clean /\ ~Works(g, q)
             S == IF g \in Loaders THEN worker[g].unsure \cup {q} ELSE worker[g].unsure
  <2>1. worker'[g] = [worker[g] EXCEPT !.clean = b, !.unsure = S] BY DEF Changed
  <2>2. worker[g] \in Worker BY ShapeOfHost
  <2>3. S = IF Reading(worker[g]) THEN worker[g].unsure \cup {q} ELSE worker[g].unsure
    BY DEF Loaders, Reading
  <2> HIDE DEF b, S
  <2> QED BY <2>1, <2>2, <2>3 DEF Worker
<1>2. /\ worker'[h].stage = v.stage /\ worker'[h].pending = v.pending
      /\ worker'[h].request = v.request /\ worker'[h].loaded
      /\ worker'[h].memory = v.memory /\ worker'[h].unsure = v.unsure
  <2> DEFINE b == \A k \in Hosts \ {h} : ~Works(k, q)
  <2>1. worker'[h] = [v EXCEPT !.clean = b] BY DEF Changed
  <2> HIDE DEF b
  <2> QED BY <2>1 DEF Worker
<1>3. \A g \in Hosts \ {h}, p \in Plugins : At(worker'[g], p) <=> At(worker[g], p)
  BY <1>1 DEF At, Subj
<1>4. \A p \in Plugins : (At(worker'[h], p) <=> p = q) /\ ~At(worker[h], p)
  BY <1>2 DEF At, Subj, Changing
<1>5. ASSUME NEW g \in Hosts PROVE Ready(worker'[g])
  <2>1. CASE g = h BY <1>2, <2>1 DEF Ready, Reading
  <2>2. CASE g # h
    <3>1. Ready(worker[g]) BY DEF MemoryInv
    <3>2. /\ worker'[g].stage = worker[g].stage /\ worker'[g].loaded = worker[g].loaded
          /\ worker'[g].pending = worker[g].pending
          /\ worker'[g].request = worker[g].request
          /\ worker'[g].memory = worker[g].memory
      BY <1>1, <2>2
    <3> QED BY <3>1, <3>2 DEF Ready, Reading
  <2> QED BY <2>1, <2>2
<1>6. ASSUME NEW g \in Hosts, NEW p \in Plugins
      PROVE  KnowsAt(worker', promised', excused', g, p)
  <2>1. KnowsAt(worker, promised, excused, g, p) BY DEF MemoryInv
  <2>2. CASE g # h
    <3>1. Carried(worker[g], worker'[g], p)
      BY <1>1, <1>3, <2>2 DEF Carried, Reading, Known
    <3>2. ASSUME Reading(worker'[g]), p \notin worker'[g].unsure
          PROVE  p # q
      <4>1. worker'[g].stage = worker[g].stage /\ worker'[g].loaded = worker[g].loaded
        BY <1>1, <2>2
      <4>2. Reading(worker[g]) BY <3>2, <4>1 DEF Reading
      <4>3. worker'[g].unsure = worker[g].unsure \cup {q} BY <1>1, <2>2, <4>2
      <4> QED BY <3>2, <4>3
    <3>3. Reading(worker'[g]) /\ p \notin worker'[g].unsure =>
            /\ \A k \in Hosts \ {g} : At(worker'[k], p) => At(worker[k], p)
            /\ promised'[p] = promised[p]
            /\ p \in excused => p \in excused'
      BY <1>3, <1>4, <3>2
    <3> QED BY <2>1, <3>1, <3>3, KnowsOn
  <2>3. CASE g = h /\ p # q
    <3>1. Carried(worker[h], worker'[h], p)
      BY <1>2, <1>4, <2>3 DEF Carried, Reading, Known
    <3>2. /\ \A k \in Hosts \ {h} : At(worker'[k], p) => At(worker[k], p)
          /\ promised'[p] = promised[p]
          /\ p \in excused => p \in excused'
      BY <1>3
    <3> QED BY <2>1, <2>3, <3>1, <3>2, KnowsOn
  <2>4. CASE g = h /\ p = q
    <3>1. \A k \in Hosts \ {h} : At(worker[k], p) => p \in worker[h].unsure
      BY <2>1, <2>4 DEF KnowsAt, Reading
    <3>2. \A k \in Hosts \ {h} : At(worker'[k], p) => p \in worker'[h].unsure
      BY <1>2, <1>3, <3>1
    <3>3. At(worker'[h], p) /\ (p \notin excused' => worker'[h].pending = <<>>)
      BY <1>2, <1>4, <2>4
    <3> QED BY <2>4, <3>2, <3>3 DEF KnowsAt
  <2> QED BY <2>2, <2>3, <2>4
<1> QED BY <1>5, <1>6 DEF MemoryInv

LEMMA InstallDefaultKnows ==
  ASSUME TypeInv, MemoryInv, NEW h \in Hosts, InstallDefault(h)
  PROVE  MemoryInv'
<1> DEFINE p == Head(worker[h].pending)
           v == [worker[h] EXCEPT !.stage = "open", !.memory[p] = "ENABLED"]
<1>0. Shape /\ Good(worker[h]) /\ Ready(worker[h]) BY ShapeOfHost DEF TypeInv, MemoryInv
<1>1. worker[h].stage = "default" /\ worker[h].pending # <<>> /\ worker[h] \in Worker
      /\ worker[h].loaded
  BY <1>0 DEF Good, InstallDefault, Ready
<1>2. p \in Plugins BY <1>0, <1>1, SubjectIsPlugin
<1>3. v \in Worker BY <1>1, <1>2 DEF Worker, Stages, Changing, Status
<1>4. /\ v.stage = "open" /\ v.pending = worker[h].pending /\ v.loaded
      /\ v.unsure = worker[h].unsure
      /\ \A x \in Plugins \ {p} : v.memory[x] = worker[h].memory[x]
  BY <1>1, <1>2 DEF Worker
<1>5. worker' = Changed(h, p, v) /\ excused' = excused \cup {p} /\ UNCHANGED promised
  BY DEF InstallDefault
<1>6. Subj(v) = p BY <1>1, <1>4 DEF Subj
<1> HIDE DEF v, p
<1>7. Ready(v) BY <1>1, <1>4 DEF Ready, Reading
<1>8. worker[h].stage \notin Changing BY <1>1 DEF Changing
<1> QED BY <1>0, <1>1, <1>2, <1>3, <1>4, <1>5, <1>6, <1>7, <1>8, ChangeKnows

LEMMA ApplyKnows ==
  ASSUME TypeInv, MemoryInv, NEW h \in Hosts, Apply(h)
  PROVE  MemoryInv'
<1> DEFINE r == worker[h].request
           p == r.plugin
           v == [worker[h] EXCEPT !.memory[p] = Outcome[r.op],
                                  !.stage = IF r.op = "remove" THEN "unlink" ELSE "open"]
           u == [worker[h] EXCEPT !.stage = "refuse"]
<1>0. Shape /\ Good(worker[h]) /\ Ready(worker[h]) BY ShapeOfHost DEF TypeInv, MemoryInv
<1>1. worker[h].stage = "apply" /\ worker[h].pending = <<>> /\ worker[h] \in Worker
      /\ worker[h].loaded
  BY <1>0 DEF Good, Apply, Ready
<1>2. p \in Plugins /\ r.op \in Ops BY <1>0, <1>1, SubjectIsPlugin
<1>3. v \in Worker BY <1>1, <1>2, OutcomeStatus DEF Worker, Stages, Changing
<1>4. /\ v.stage \in {"open", "unlink"} /\ v.pending = <<>> /\ v.request = r /\ v.loaded
      /\ v.unsure = worker[h].unsure
      /\ v.memory[p] = Outcome[r.op]
      /\ \A x \in Plugins \ {p} : v.memory[x] = worker[h].memory[x]
  BY <1>1, <1>2 DEF Worker
<1>5. Subj(v) = p BY <1>4 DEF Subj
<1>6. /\ u.stage = "refuse" /\ u.loaded /\ u.memory = worker[h].memory
      /\ u.unsure = worker[h].unsure
  BY <1>1 DEF Worker
<1>7. worker' = Changed(h, p, v) \/ worker' = [worker EXCEPT ![h] = u]
  BY DEF Apply
<1>8. Ready(v) BY <1>4 DEF Ready, Reading
<1> HIDE DEF v, p, u, r
<1>9. worker[h].stage \notin Changing BY <1>1 DEF Changing
<1>10. UNCHANGED <<promised, excused>> BY DEF Apply, historyVars
<1>11. CASE worker' = Changed(h, p, v)
  BY <1>0, <1>1, <1>2, <1>3, <1>4, <1>5, <1>8, <1>9, <1>10, <1>11, ChangeKnows
<1>12. CASE worker' = [worker EXCEPT ![h] = u]
  <2>1. Ready(u) BY <1>6 DEF Ready, Reading, Changing
  <2>2. \A x \in Plugins : Carried(worker[h], u, x)
    BY <1>1, <1>6, <1>9 DEF Carried, Reading, Known, At, Changing
  <2> QED BY <1>0, <1>10, <1>12, <2>1, <2>2, OneCarries
<1> QED BY <1>7, <1>11, <1>12

\* What a process is left with by a file it has written, or failed to.
LEMMA AfterFileCarries ==
  ASSUME NEW r \in Worker, NEW u \in Worker, r.stage \in {"open", "write"}, Ready(r),
         u.loaded = r.loaded, u.memory = r.memory, u.unread = r.unread,
         u.unsure = r.unsure, u.pending = r.pending, u.request = r.request
  PROVE  Ready(AfterFile(u)) /\ \A p \in Plugins : Carried(r, AfterFile(u), p)
<1> DEFINE v == AfterFile(u)
<1>1. /\ v.loaded = u.loaded /\ v.memory = u.memory /\ v.unread = u.unread
      /\ v.unsure = u.unsure /\ v.request = u.request
  BY DEF AfterFile, Worker
<1>2. /\ u.pending = <<>> => v.stage = "answer" /\ v.pending = <<>>
      /\ u.pending # <<>> => v.stage \in {"default", "apply"}
  BY AfterFileFacts
<1>3. r.loaded BY DEF Ready, Changing
<1> HIDE DEF v
<1>4. Ready(v)
  BY <1>1, <1>2, <1>3 DEF Ready, Reading, Changing
<1>5. ASSUME NEW p \in Plugins PROVE Carried(r, v, p)
  <2>1. CASE u.pending = <<>>
    <3>1. At(v, p) <=> At(r, p) BY <1>1, <1>2, <2>1 DEF At, Subj, Changing
    <3> QED BY <1>1, <1>2, <1>3, <2>1, <3>1 DEF Carried, Reading, Known
  <2>2. CASE u.pending # <<>>
    <3>1. ~At(v, p) BY <1>2, <2>2 DEF At, Changing
    <3> QED BY <1>1, <1>3, <2>2, <3>1 DEF Carried, Reading, Known
  <2> QED BY <2>1, <2>2
<1> QED BY <1>4, <1>5 DEF v

LEMMA PersistKnows ==
  ASSUME TypeInv, MemoryInv, NEW h \in Hosts, OpenFile(h) \/ WriteFile(h)
  PROVE  MemoryInv'
<1> DEFINE d == [worker[h] EXCEPT !.clean = FALSE]
           v == [worker[h] EXCEPT !.stage = "write", !.linked = TRUE]
<1>0. /\ Shape /\ worker[h] \in Worker /\ Ready(worker[h])
      /\ worker[h].stage \in {"open", "write"} /\ UNCHANGED <<promised, excused>>
  BY ShapeOfHost DEF TypeInv, MemoryInv, OpenFile, WriteFile, historyVars
<1>1. /\ d \in Worker
      /\ d.loaded = worker[h].loaded /\ d.memory = worker[h].memory
      /\ d.unread = worker[h].unread /\ d.unsure = worker[h].unsure
      /\ d.pending = worker[h].pending /\ d.request = worker[h].request
  BY <1>0 DEF Worker
<1>2. /\ v.stage = "write"
      /\ v.loaded = worker[h].loaded /\ v.memory = worker[h].memory
      /\ v.unread = worker[h].unread /\ v.unsure = worker[h].unsure
      /\ v.pending = worker[h].pending /\ v.request = worker[h].request
  BY <1>0 DEF Worker
<1>3. \/ worker' = [worker EXCEPT ![h] = v]
      \/ worker' = [worker EXCEPT ![h] = AfterFile(d)]
      \/ worker' = [worker EXCEPT ![h] = AfterFile(worker[h])]
  BY DEF OpenFile, WriteFile
<1> HIDE DEF d, v
<1>4. CASE worker' = [worker EXCEPT ![h] = v]
  <2>1. Ready(v) BY <1>0, <1>2 DEF Ready, Reading, Changing
  <2>2. \A p \in Plugins : At(v, p) <=> At(worker[h], p)
    BY <1>0, <1>2 DEF At, Subj, Changing
  <2>3. worker[h].loaded BY <1>0 DEF Ready, Changing
  <2>4. \A p \in Plugins : Carried(worker[h], v, p)
    BY <1>2, <2>2, <2>3 DEF Carried, Reading, Known
  <2> QED BY <1>0, <1>4, <2>1, <2>4, OneCarries
<1>5. CASE worker' = [worker EXCEPT ![h] = AfterFile(d)]
  BY <1>0, <1>1, <1>5, AfterFileCarries, OneCarries
<1>6. CASE worker' = [worker EXCEPT ![h] = AfterFile(worker[h])]
  BY <1>0, <1>6, AfterFileCarries, OneCarries
<1> QED BY <1>3, <1>4, <1>5, <1>6

LEMMA UnlinkKnows ==
  ASSUME TypeInv, MemoryInv, NEW h \in Hosts, Unlink(h)
  PROVE  MemoryInv'
<1>0. Shape /\ worker \in [Hosts -> Worker] /\ UNCHANGED <<promised, excused>>
      /\ worker[h].stage = "unlink"
  BY ShapeOfHost DEF TypeInv, Unlink, historyVars
<1>1. ASSUME NEW g \in Hosts
      PROVE  /\ worker'[g].stage = IF g = h THEN "answer" ELSE worker[g].stage
             /\ worker'[g].loaded = worker[g].loaded
             /\ worker'[g].memory = worker[g].memory
             /\ worker'[g].unread = worker[g].unread
             /\ worker'[g].unsure = worker[g].unsure
             /\ worker'[g].pending = worker[g].pending
             /\ worker'[g].request = worker[g].request
  <2>1. worker[g] \in Worker BY <1>0
  <2>2. \/ g = h /\ worker'[g] = [worker[g] EXCEPT !.stage = "answer"]
        \/ g = h /\ worker'[g] = [worker[g] EXCEPT !.stage = "answer", !.clean = FALSE]
        \/ g # h /\ worker'[g] = [worker[g] EXCEPT !.linked = FALSE]
        \/ g # h /\ worker'[g] = worker[g]
    BY <1>0 DEF Unlink
  <2> QED BY <2>1, <2>2 DEF Worker
<1>2. ASSUME NEW g \in Hosts
      PROVE  Ready(worker'[g]) /\ \A p \in Plugins : Carried(worker[g], worker'[g], p)
  <2>1. Ready(worker[g]) BY DEF MemoryInv
  <2>2. \/ worker'[g].stage = worker[g].stage
        \/ worker[g].stage = "unlink" /\ worker'[g].stage = "answer"
    BY <1>0, <1>1
  <2>3. Ready(worker'[g]) BY <1>1, <2>1, <2>2 DEF Ready, Reading, Changing
  <2>4. \A p \in Plugins : At(worker'[g], p) <=> At(worker[g], p)
    BY <1>1, <2>2 DEF At, Subj, Changing
  <2>5. ASSUME NEW p \in Plugins PROVE Carried(worker[g], worker'[g], p)
    BY <1>1, <2>2, <2>4 DEF Carried, Reading, Known
  <2> QED BY <2>3, <2>5
<1> QED BY <1>0, <1>2, AllCarry

(***************************************************************************)
(* Process h answers: others that have listed the files are unsure of its  *)
(* plugin, and h itself remembers what it has promised.                    *)
(***************************************************************************)
LEMMA AnswerKnows ==
  ASSUME TypeInv, MemoryInv, NEW h \in Hosts, worker[h].stage \in {"answer", "refuse"},
         Promise(h),
         \/ worker'[h] = Gone
         \/ /\ worker'[h].stage = "free"
            /\ worker'[h].loaded = worker[h].loaded
            /\ worker'[h].memory = worker[h].memory
            /\ worker'[h].unsure = worker[h].unsure,
         \A g \in Hosts \ {h} : worker'[g] = worker[g] \/ worker'[g] = Gone
  PROVE  MemoryInv'
<1> DEFINE r == worker[h].request
           q == r.plugin
<1>0. Good(worker[h]) /\ Ready(worker[h]) BY ShapeOfHost DEF TypeInv, MemoryInv
<1>1. worker[h].pending = <<>> /\ worker[h].loaded
  BY <1>0 DEF Good, Ready, Changing
<1>2. q \in Plugins BY <1>0, SubjectIsPlugin
<1>3. promised \in [Plugins -> Status] BY DEF TypeInv, Types
<1>4. Ready(worker'[h])
  <2>1. CASE worker'[h] = Gone BY <2>1, GoneIsReady
  <2>2. CASE worker'[h] # Gone BY <1>1, <2>2 DEF Ready, Reading, Changing
  <2> QED BY <2>1, <2>2
<1>5. \A p \in Plugins : ~At(worker'[h], p)
  <2>1. CASE worker'[h] = Gone BY <2>1, GoneIsReady
  <2>2. CASE worker'[h] # Gone BY <2>2 DEF At, Changing
  <2> QED BY <2>1, <2>2
<1>6. \A g \in Hosts, p \in Plugins : At(worker'[g], p) => At(worker[g], p)
  BY <1>5, GoneIsReady
<1>7. ASSUME NEW g \in Hosts \ {h}
      PROVE  Ready(worker'[g]) /\ \A p \in Plugins : Carried(worker[g], worker'[g], p)
  <2>1. CASE worker'[g] = Gone BY <2>1, GoneIsReady
  <2>2. CASE worker'[g] = worker[g]
    <3>1. Ready(worker[g]) BY DEF MemoryInv
    <3>2. \A p \in Plugins : Carried(worker[g], worker[g], p) BY DEF Carried
    <3> QED BY <2>2, <3>1, <3>2
  <2> QED BY <2>1, <2>2
<1>8. ASSUME NEW g \in Hosts, NEW p \in Plugins
      PROVE  KnowsAt(worker', promised', excused', g, p)
  <2>1. KnowsAt(worker, promised, excused, g, p) BY DEF MemoryInv
  <2>2. CASE worker[h].stage = "answer" /\ p = q
    <3>1. At(worker[h], p) BY <1>1, <2>2 DEF At, Subj, Changing
    <3>2. CASE g # h
      <4>1. Carried(worker[g], worker'[g], p) BY <1>7, <3>2
      <4>2. Reading(worker'[g]) => p \in worker'[g].unsure
        <5>1. Reading(worker[g]) => p \in worker[g].unsure
          BY <2>1, <3>1, <3>2 DEF KnowsAt
        <5> QED BY <4>1, <5>1 DEF Carried
      <4> QED BY <2>1, <4>1, <4>2, KnowsOn
    <3>3. CASE g = h
      <4>1. promised'[p] = Outcome[r.op] BY <1>2, <1>3, <2>2 DEF Promise
      <4>2. worker[h].memory[p] = Outcome[r.op]
        BY <1>0, <1>1, <2>2 DEF Ready, Changing
      <4>3. \A k \in Hosts \ {h} : At(worker[k], p) => p \in worker[h].unsure
        BY <1>1, <2>1, <3>3 DEF KnowsAt, Reading
      <4>4. CASE worker'[h] = Gone BY <3>3, <4>4, GoneIsReady DEF KnowsAt
      <4>5. CASE worker'[h] # Gone
        <5>1. worker'[h].memory[p] = promised'[p] BY <4>1, <4>2, <4>5
        <5>2. \A k \in Hosts \ {h} : At(worker'[k], p) => p \in worker'[h].unsure
          BY <1>6, <4>3, <4>5
        <5> QED BY <1>5, <3>3, <5>1, <5>2 DEF KnowsAt
      <4> QED BY <4>4, <4>5
    <3> QED BY <3>2, <3>3
  <2>3. CASE ~(worker[h].stage = "answer" /\ p = q)
    <3>1. ~At(worker[h], p) BY <1>1, <2>3 DEF At, Subj, Changing
    <3>2. promised'[p] = promised[p] /\ (p \in excused => p \in excused')
      BY <1>2, <1>3, <2>3 DEF Promise
    <3>3. Carried(worker[g], worker'[g], p)
      <4>1. CASE g # h BY <1>7, <4>1
      <4>2. CASE g = h /\ worker'[h] = Gone BY <4>2, GoneIsReady
      <4>3. CASE g = h /\ worker'[h] # Gone
        BY <1>1, <1>5, <3>1, <4>3 DEF Carried, Reading, Known
      <4> QED BY <4>1, <4>2, <4>3
    <3> QED BY <1>6, <2>1, <3>2, <3>3, KnowsOn
  <2> QED BY <2>2, <2>3
<1> QED BY <1>4, <1>7, <1>8 DEF MemoryInv

LEMMA AnswersKnow ==
  ASSUME TypeInv, Waits, MemoryInv,
         SendAnswer \/ FailToAnswer \/ \E c \in Clients : ReturnAnswer(c)
  PROVE  MemoryInv'
<1>0. Shape /\ Daemon \in Hosts /\ worker \in [Hosts -> Worker]
  BY HostFacts, ShapeOfHost DEF TypeInv
<1>1. CASE SendAnswer
  <2> DEFINE c == worker[Daemon].request.client
  <2>1. c \in Clients BY <1>0, <1>1, SendAnswerShape
  <2>2. worker' = [[worker EXCEPT ![Daemon] = Free] EXCEPT ![c] = Gone] BY <1>1 DEF SendAnswer
  <2>3. /\ Free.stage = "free" /\ Free.loaded = worker[Daemon].loaded
        /\ Free.memory = worker[Daemon].memory /\ Free.unsure = worker[Daemon].unsure
    BY <1>0 DEF Free, Worker
  <2> HIDE DEF c
  <2>4. worker'[Daemon] = Free /\ worker'[c] = Gone
        /\ \A g \in Hosts \ {Daemon, c} : worker'[g] = worker[g]
    BY <1>0, <2>1, <2>2, HostFacts
  <2>5. worker[Daemon].stage \in {"answer", "refuse"} /\ Promise(Daemon)
    BY <1>1 DEF SendAnswer
  <2>6. \A g \in Hosts \ {Daemon} : worker'[g] = worker[g] \/ worker'[g] = Gone BY <2>4
  <2> QED BY <1>0, <2>3, <2>4, <2>5, <2>6, AnswerKnows
<1>2. CASE FailToAnswer
  <2>1. worker'[Daemon] = Gone
        /\ \A g \in Hosts \ {Daemon} : worker'[g] = worker[g] \/ worker'[g] = Gone
    BY <1>0, <1>2 DEF FailToAnswer, DaemonGone
  <2>2. worker[Daemon].stage \in {"answer", "refuse"} /\ Promise(Daemon)
    BY <1>2 DEF FailToAnswer
  <2> QED BY <1>0, <2>1, <2>2, AnswerKnows
<1>3. CASE \E c \in Clients : ReturnAnswer(c)
  <2>1. PICK c \in Clients : ReturnAnswer(c) BY <1>3
  <2>2. worker'[c] = Gone /\ \A g \in Hosts \ {c} : worker'[g] = worker[g]
    BY <1>0, <2>1, HostFacts DEF ReturnAnswer
  <2>3. worker[c].stage \in {"answer", "refuse"} /\ Promise(c) BY <2>1 DEF ReturnAnswer
  <2> QED BY <2>2, <2>3, HostFacts, AnswerKnows
<1> QED BY <1>1, <1>2, <1>3

LEMMA EndingsKnow ==
  ASSUME TypeInv, MemoryInv, KillDaemon \/ \E c \in Clients : Interrupt(c)
  PROVE  MemoryInv'
<1>0. Shape /\ Daemon \in Hosts /\ worker \in [Hosts -> Worker]
  BY HostFacts, ShapeOfHost DEF TypeInv
<1>1. ASSUME NEW g \in Hosts, worker'[g] = worker[g] \/ worker'[g] = Gone
      PROVE  Ready(worker'[g]) /\ \A p \in Plugins : Carried(worker[g], worker'[g], p)
  <2>1. CASE worker'[g] = Gone BY <2>1, GoneIsReady
  <2>2. CASE worker'[g] = worker[g]
    <3>1. Ready(worker[g]) BY DEF MemoryInv
    <3>2. \A p \in Plugins : Carried(worker[g], worker[g], p) BY DEF Carried
    <3> QED BY <2>2, <3>1, <3>2
  <2> QED BY <1>1, <2>1, <2>2
<1>2. CASE KillDaemon
  <2>1. \A g \in Hosts : worker'[g] = worker[g] \/ worker'[g] = Gone
    BY <1>2 DEF KillDaemon, DaemonGone
  <2>2. UNCHANGED promised /\ excused \subseteq excused' BY <1>2 DEF KillDaemon
  <2> QED BY <1>1, <2>1, <2>2, AllCarry
<1>3. CASE \E c \in Clients : Interrupt(c)
  <2>1. PICK c \in Clients : Interrupt(c) BY <1>3
  <2> DEFINE r == worker[Daemon]
             v == [worker[Daemon] EXCEPT !.request = Forget(@, c)]
  <2>2. worker' = [[worker EXCEPT ![c] = Gone] EXCEPT ![Daemon] = v]
    BY <1>0, <2>1, HostFacts DEF Interrupt
  <2>3. /\ v.stage = r.stage /\ v.pending = r.pending /\ v.loaded = r.loaded
        /\ v.memory = r.memory /\ v.unread = r.unread /\ v.unsure = r.unsure
        /\ v.request = Forget(r.request, c)
    BY <1>0 DEF Worker
  <2>4. r.stage \notin {"gone", "free"} =>
          v.request.op = r.request.op /\ v.request.plugin = r.request.plugin
    BY <1>0, <2>3, ShapeOfHost, SubjectIsPlugin, Forgetting
  <2>5. Ready(r) BY <1>0 DEF MemoryInv
  <2> HIDE DEF v, r
  <2>6. worker'[Daemon] = v /\ worker'[c] = Gone
        /\ \A g \in Hosts \ {Daemon, c} : worker'[g] = worker[g]
    BY <1>0, <2>2, HostFacts
  <2>7. Ready(v) BY <2>3, <2>4, <2>5 DEF Ready, Reading, Changing
  <2>8. \A p \in Plugins : At(v, p) <=> At(r, p) BY <2>3, <2>4 DEF At, Subj, Changing
  <2>9. \A p \in Plugins : Carried(r, v, p)
    BY <2>3, <2>8 DEF Carried, Reading, Known
  <2>10. ASSUME NEW g \in Hosts
         PROVE  Ready(worker'[g]) /\ \A p \in Plugins : Carried(worker[g], worker'[g], p)
    <3>1. CASE g = Daemon BY <2>6, <2>7, <2>9, <3>1 DEF r
    <3>2. CASE g # Daemon
      <4>1. worker'[g] = worker[g] \/ worker'[g] = Gone BY <2>6, <3>2
      <4> QED BY <1>1, <4>1
    <3> QED BY <3>1, <3>2
  <2>11. UNCHANGED promised /\ excused \subseteq excused' BY <2>1 DEF Interrupt
  <2> QED BY <2>10, <2>11, AllCarry
<1> QED BY <1>2, <1>3

----------------------------------------------------------------------------
(* Memory: the theorem *)

LEMMA MemoryKept ==
  TypeInv /\ Waits /\ PromiseInv /\ MemoryInv /\ [Next]_vars => MemoryInv'
<1> SUFFICES ASSUME TypeInv, Waits, PromiseInv, MemoryInv, [Next]_vars PROVE MemoryInv'
  OBVIOUS
<1>1. ASSUME NEW h \in Hosts, ManagerStep(h) PROVE MemoryInv'
  <2>1. CASE ListFiles(h) BY <2>1, ListFilesKnows
  <2>2. CASE ReadFile(h) BY <2>2, ReadFileKnows
  <2>3. CASE EndLoading(h) BY <2>3, QuietActionsKnow
  <2>4. CASE InstallDefault(h) BY <2>4, InstallDefaultKnows
  <2>5. CASE Apply(h) BY <2>5, ApplyKnows
  <2>6. CASE OpenFile(h) \/ WriteFile(h) BY <2>6, PersistKnows
  <2>7. CASE Unlink(h) BY <2>7, UnlinkKnows
  <2> QED BY <1>1, <2>1, <2>2, <2>3, <2>4, <2>5, <2>6, <2>7 DEF ManagerStep
<1>2. CASE \E c \in Clients, ask \in Requests : Ask(c, ask[1], ask[2])
  <2>1. PICK c \in Clients, ask \in Requests : Ask(c, ask[1], ask[2]) BY <1>2
  <2>2. ask[1] \in Ops /\ ask[2] \in Plugins BY RequestsAssumption
  <2> QED BY <2>1, <2>2, QuietActionsKnow
<1>3. CASE Accept \/ StartDaemon BY <1>3, QuietActionsKnow
<1>4. CASE SendAnswer \/ FailToAnswer \/ \E c \in Clients : ReturnAnswer(c)
  BY <1>4, AnswersKnow
<1>5. CASE KillDaemon \/ \E c \in Clients : Interrupt(c) BY <1>5, EndingsKnow
<1>6. CASE UNCHANGED vars
  BY <1>6 DEF MemoryInv, KnowsAt, Ready, Reading, Known, At, vars, historyVars
<1> QED BY <1>1, <1>2, <1>3, <1>4, <1>5, <1>6, HostFacts DEF Next, Serve

LEMMA InitMemory == Init => MemoryInv
<1> SUFFICES ASSUME Init, NEW h \in Hosts
    PROVE  Ready(worker[h]) /\ \A p \in Plugins : KnowsAt(worker, promised, excused, h, p)
  BY DEF MemoryInv
<1>1. worker[h] = Gone BY DEF Init
<1> QED BY <1>1, GoneIsReady DEF KnowsAt

(***************************************************************************)
(* A manager that has read the files (plugins/manager.py:351-372) knows of *)
(* every plugin what was last answered to anybody, in the daemon and in    *)
(* any number of in-process clients: what requests are decided on is out   *)
(* of date only where the file is excused or another process was at the    *)
(* plugin since the files were listed.                                     *)
(***************************************************************************)
THEOREM PluginMemoryIsCurrent == Spec => []MemoryIsCurrent
<1>1. MemoryInv => MemoryIsCurrent BY MemoryInvIsEnough
<1> QED BY InitTypes, TypesKept, InitWaits, WaitsKept, InitPromises, PromiseKept,
           InitMemory, MemoryKept, <1>1, PTL
        DEF Spec
=============================================================================
