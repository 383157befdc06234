------------------------ MODULE AgentPlatformProofs -------------------------
(***************************************************************************)
(* Proofs about AgentPlatform: its types, that the audit history keeps its *)
(* lines and the records of all orders and is read back, and what orders,  *)
(* answers and the audit log have to do with each other.                   *)
(***************************************************************************)
EXTENDS AgentPlatform, WellFoundedInduction, SequenceTheorems, TLAPS

----------------------------------------------------------------------------
(* Constants *)

LEMMA HostFacts ==
  /\ Daemon \in Hosts /\ Clients \subseteq Hosts
  /\ \A c \in Clients : c # Daemon /\ c # Nobody
BY ProcessesAssumption DEF Hosts

LEMMA ConnectionFacts ==
  /\ NoConnection \in Connection /\ NoConnection.nr = 0 /\ NoConnection.client = Nobody
  /\ MaxRequests \in Nat /\ MaxMishaps \in Nat
BY BoundsAssumption DEF NoConnection, Connection

LEMMA GoneIsWorker ==
  /\ Gone \in Worker
  /\ Gone.stage = "gone" /\ Gone.connection = NoConnection
  /\ Gone.reply = "none" /\ Gone.loaded = FALSE
BY ConnectionFacts DEF Gone, Worker, Stages, Busy, Replies

----------------------------------------------------------------------------
(* The shape of processes and of the queue *)

(***************************************************************************)
(* A process in good shape when n requests have been made: it holds one of *)
(* them while it is at work, and no connection unless it works or receives.*)
(***************************************************************************)
Good(w, n) ==
  /\ w \in Worker
  /\ w.connection.nr <= n
  /\ w.stage \in Busy => w.connection.nr # 0
  /\ w.stage \notin Busy \cup {"receive"} => w.connection = NoConnection

InPlace(h, s) ==
  /\ s \in {"connected", "waiting"} => h # Daemon
  /\ s = "free" => h = Daemon

ShapeOf(w, n) ==
  /\ w \in [Hosts -> Worker]
  /\ \A h \in Hosts : Good(w[h], n) /\ InPlace(h, w[h].stage)

Queued(q, n) == q \in Seq(Connection) /\ \A k \in DOMAIN q : q[k].nr <= n

Shape == ShapeOf(worker, Len(asked)) /\ Queued(queue, Len(asked))

LEMMA GoneIsGood ==
  ASSUME NEW n \in Nat
  PROVE  Good(Gone, n) /\ \A h \in Hosts : InPlace(h, Gone.stage)
BY GoneIsWorker, ConnectionFacts DEF Good, Busy, InPlace

LEMMA ShapeByProcess ==
  ASSUME NEW n, NEW w, w \in [Hosts -> Worker],
         \A h \in Hosts : Good(w[h], n) /\ InPlace(h, w[h].stage)
  PROVE  ShapeOf(w, n)
BY DEF ShapeOf

\* A request more takes nobody out of shape.
LEMMA ShapeGrows ==
  ASSUME NEW m \in Nat, NEW n \in Nat, m <= n
  PROVE  /\ \A w : Good(w, m) => Good(w, n)
         /\ \A w : ShapeOf(w, m) => ShapeOf(w, n)
         /\ \A q : Queued(q, m) => Queued(q, n)
<1>1. ASSUME NEW w, Good(w, m) PROVE Good(w, n)
  <2>1. w.connection.nr \in Nat BY <1>1 DEF Good, Worker, Connection
  <2> QED BY <1>1, <2>1 DEF Good
<1>2. ASSUME NEW w, ShapeOf(w, m) PROVE ShapeOf(w, n)
  BY <1>1, <1>2 DEF ShapeOf
<1>3. ASSUME NEW q, Queued(q, m) PROVE Queued(q, n)
  <2>1. \A k \in DOMAIN q : q[k] \in Connection BY <1>3 DEF Queued
  <2>2. \A k \in DOMAIN q : q[k].nr \in Nat BY <2>1 DEF Connection
  <2> QED BY <1>3, <2>2 DEF Queued
<1> QED BY <1>1, <1>2, <1>3

\* A step of one process that leaves it in shape.
LEMMA OneMoves ==
  ASSUME NEW n, NEW w, ShapeOf(w, n), NEW h \in Hosts, NEW v,
         Good(v, n), InPlace(h, v.stage),
         NEW u, u = [w EXCEPT ![h] = v]
  PROVE  ShapeOf(u, n)
<1>1. \A g \in Hosts : u[g] = IF g = h THEN v ELSE w[g]
  BY DEF ShapeOf
<1>2. u \in [Hosts -> Worker]
  BY DEF ShapeOf, Good
<1>3. \A g \in Hosts : Good(u[g], n) /\ InPlace(g, u[g].stage)
  BY <1>1 DEF ShapeOf
<1> QED BY ONLY <1>2, <1>3, ShapeByProcess

LEMMA ShapeOfHost ==
  ASSUME Shape, NEW h \in Hosts
  PROVE  /\ worker \in [Hosts -> Worker]
         /\ worker[h] \in Worker
         /\ Good(worker[h], Len(asked)) /\ InPlace(h, worker[h].stage)
BY DEF Shape, ShapeOf

----------------------------------------------------------------------------
(* The other variables *)

Traces ==
  /\ socket \in BOOLEAN
  /\ asked \in Seq(Requests) /\ Len(asked) <= MaxRequests
  /\ answers \in Seq(Replies \cup {"lost"}) /\ Len(answers) = Len(asked)
  /\ log \in Seq(Numbers \X BOOLEAN)
  /\ history \in Seq(Line)
  /\ broker \in Seq(Numbers)
  /\ halted \in BOOLEAN
  /\ excused \subseteq {"log", "history", "catalog"} \X Numbers
  /\ mishaps \in 0..MaxMishaps

TypeInv == Traces /\ Shape

LEMMA TypeInvGivesTypeOK == TypeInv => AgentTypeOK
<1> SUFFICES ASSUME TypeInv PROVE AgentTypeOK OBVIOUS
<1> USE DEF TypeInv, Traces
<1>1. queue \in Seq(Connection) /\ worker \in [Hosts -> Worker]
  BY DEF Shape, ShapeOf, Queued
<1>2. ASSUME NEW h \in Hosts
      PROVE  /\ At(h, "connected") \/ At(h, "waiting") => h # Daemon
             /\ At(h, "free") => h = Daemon
             /\ worker[h].stage \in Busy => Number(h) \in Numbers
             /\ worker[h].stage \notin Busy \cup {"receive"}
                  => worker[h].connection = NoConnection
  <2>1. Good(worker[h], Len(asked)) /\ InPlace(h, worker[h].stage) BY ShapeOfHost
  <2>2. worker[h].connection.nr \in Nat /\ Len(asked) \in Nat
    BY <2>1, LenProperties DEF Good, Worker, Connection
  <2> QED BY <2>1, <2>2 DEF Good, InPlace, At, Number, Numbers
<1> QED BY <1>1, <1>2 DEF AgentTypeOK

LEMMA AskedFacts ==
  ASSUME TypeInv
  PROVE  /\ Len(asked) \in Nat /\ Len(asked) \in 0..MaxRequests
         /\ DOMAIN answers = Numbers
         /\ \A n \in Numbers : n \in Nat /\ n # 0
BY ConnectionFacts, LenProperties DEF TypeInv, Traces, Numbers

LEMMA NumberFacts ==
  ASSUME TypeInv, NEW h \in Hosts
  PROVE  /\ Number(h) \in Nat
         /\ Number(h) # 0 => Number(h) \in Numbers
         /\ worker[h].stage \in Busy => Number(h) \in Numbers
<1>1. Good(worker[h], Len(asked)) BY ShapeOfHost DEF TypeInv
<1>2. worker[h].connection.nr \in Nat BY <1>1 DEF Good, Worker, Connection
<1> QED BY <1>1, <1>2, AskedFacts DEF Number, Good, Numbers

----------------------------------------------------------------------------
(* The actions keep the shape *)

LEMMA ProceedShape ==
  ASSUME TypeInv, NEW h \in Hosts, NEW s \in Busy, NEW r \in Replies,
         worker[h].stage \in Busy \/ (At(h, "receive") /\ Number(h) # 0),
         Proceed(h, s, r), UNCHANGED <<asked, queue>>
  PROVE  Shape'
<1> DEFINE v == [worker[h] EXCEPT !.stage = s, !.reply = r]
<1>1. /\ Good(worker[h], Len(asked)) /\ worker \in [Hosts -> Worker]
      /\ ShapeOf(worker, Len(asked)) /\ Queued(queue, Len(asked))
  BY ShapeOfHost DEF TypeInv, Shape
<1>2. Good(v, Len(asked))
  BY <1>1 DEF Good, Worker, Stages, Busy, At, Number
<1>3. v.stage = s BY <1>1 DEF Worker
<1>4. InPlace(h, v.stage) BY <1>3 DEF InPlace, Busy
<1>5. worker' = [worker EXCEPT ![h] = v]
  BY <1>1 DEF Proceed
<1> HIDE DEF v
<1>6. ShapeOf(worker', Len(asked)) BY <1>1, <1>2, <1>4, <1>5, OneMoves
<1> QED BY <1>1, <1>6 DEF Shape

LEMMA FreeIsGood ==
  ASSUME TypeInv
  PROVE  Good(Free, Len(asked)) /\ InPlace(Daemon, Free.stage) /\ Free.stage = "free"
<1>1. worker[Daemon] \in Worker BY ShapeOfHost, HostFacts DEF TypeInv
<1>2. /\ Free \in Worker /\ Free.stage = "free" /\ Free.connection = NoConnection
      /\ Free.reply = "none"
  BY <1>1, ConnectionFacts DEF Free, Worker, Stages, Busy, Replies
<1>3. Len(asked) \in Nat BY AskedFacts
<1> HIDE DEF Free
<1> QED BY <1>2, <1>3, ConnectionFacts DEF Good, InPlace, Busy

LEMMA AcceptShape ==
  ASSUME TypeInv, Accept
  PROVE  Shape'
<1> DEFINE v == [worker[Daemon] EXCEPT !.stage = "receive", !.connection = Head(queue)]
<1>1. /\ Good(worker[Daemon], Len(asked)) /\ worker \in [Hosts -> Worker]
      /\ ShapeOf(worker, Len(asked)) /\ Queued(queue, Len(asked))
  BY ShapeOfHost, HostFacts DEF TypeInv, Shape
<1>2. /\ Head(queue) \in Connection /\ Head(queue).nr <= Len(asked)
      /\ Tail(queue) \in Seq(Connection)
      /\ \A k \in DOMAIN Tail(queue) : k + 1 \in DOMAIN queue /\ Tail(queue)[k] = queue[k + 1]
  <2>1. queue \in Seq(Connection) /\ queue # <<>> /\ Head(queue) = queue[1]
    BY <1>1 DEF Queued, Accept
  <2>2. 1 \in DOMAIN queue BY <2>1
  <2> QED BY <1>1, <2>1, <2>2, HeadTailProperties DEF Queued
<1>3. Good(v, Len(asked)) /\ v.stage = "receive"
  BY <1>1, <1>2 DEF Good, Worker, Stages, Busy
<1>4. InPlace(Daemon, v.stage) BY <1>3 DEF InPlace
<1>5. worker' = [worker EXCEPT ![Daemon] = v] /\ asked' = asked /\ queue' = Tail(queue)
  BY <1>1 DEF Accept
<1> HIDE DEF v
<1>6. ShapeOf(worker', Len(asked')) BY <1>1, <1>3, <1>4, <1>5, HostFacts, OneMoves
<1>7. Queued(queue', Len(asked')) BY <1>1, <1>2, <1>5 DEF Queued
<1> QED BY <1>6, <1>7 DEF Shape

LEMMA ReceiveEmptyShape ==
  ASSUME TypeInv, ReceiveEmpty
  PROVE  Shape'
<1>1. /\ worker' = [worker EXCEPT ![Daemon] = Free] /\ asked' = asked /\ queue' = queue
  BY DEF ReceiveEmpty
<1>2. ShapeOf(worker', Len(asked))
  BY <1>1, FreeIsGood, HostFacts, OneMoves DEF TypeInv, Shape
<1> QED BY <1>1, <1>2 DEF TypeInv, Shape

LEMMA Appended ==
  ASSUME NEW S, NEW q \in Seq(S), NEW x \in S
  PROVE  /\ Append(q, x) \in Seq(S) /\ Len(Append(q, x)) = Len(q) + 1
         /\ Append(q, x)[Len(q) + 1] = x
         /\ \A k \in DOMAIN q : k \in DOMAIN Append(q, x) /\ Append(q, x)[k] = q[k]
         /\ \A k \in DOMAIN Append(q, x) : k \in DOMAIN q \/ k = Len(q) + 1
BY AppendProperties, LenProperties

LEMMA AskInProcessShape ==
  ASSUME TypeInv, NEW c \in Clients, NEW r \in Requests, AskInProcess(c, r)
  PROVE  Shape'
<1> DEFINE n == Len(asked) + 1
           v == [Gone EXCEPT !.stage = "receive", !.connection = [client |-> c, nr |-> n]]
<1>1. /\ n \in Nat /\ Len(asked) \in Nat /\ Len(asked) <= n /\ n \in 0..MaxRequests
  BY AskedFacts, ConnectionFacts DEF AskInProcess
<1>2. Len(asked') = n
  BY Appended DEF TypeInv, Traces, AskInProcess
<1>3. ShapeOf(worker, n) /\ Queued(queue, n)
  BY <1>1, ShapeGrows DEF TypeInv, Shape
<1>4. Good(v, n) /\ v.stage = "receive"
  <2>1. [client |-> c, nr |-> n] \in Connection BY <1>1 DEF Connection
  <2>2. /\ v \in Worker /\ v.stage = "receive"
        /\ v.connection = [client |-> c, nr |-> n]
    BY <2>1, GoneIsWorker DEF Worker, Stages
  <2> HIDE DEF v
  <2> QED BY <1>1, <2>2 DEF Good, Busy
<1>5. worker' = [worker EXCEPT ![c] = v] /\ queue' = queue
  BY DEF AskInProcess
<1>6. InPlace(c, v.stage) BY <1>4 DEF InPlace
<1>7. c \in Hosts BY HostFacts
<1> HIDE DEF v, n
<1>8. ShapeOf(worker', n) BY <1>3, <1>4, <1>5, <1>6, <1>7, OneMoves
<1> QED BY <1>2, <1>3, <1>5, <1>8 DEF Shape

LEMMA ConnectShape ==
  ASSUME TypeInv, NEW c \in Clients, Connect(c)
  PROVE  Shape'
<1> DEFINE v == [worker[c] EXCEPT !.stage = "connected"]
           x == [client |-> c, nr |-> 0]
<1>1. c \in Hosts /\ c # Daemon BY HostFacts
<1>2. /\ Good(worker[c], Len(asked)) /\ worker \in [Hosts -> Worker]
      /\ ShapeOf(worker, Len(asked)) /\ Queued(queue, Len(asked))
  BY <1>1, ShapeOfHost DEF TypeInv, Shape
<1>3. Good(v, Len(asked)) /\ v.stage = "connected"
  BY <1>2 DEF Good, Worker, Stages, Busy, Connect, At
<1>4. InPlace(c, v.stage) BY <1>1, <1>3 DEF InPlace
<1>5. worker' = [worker EXCEPT ![c] = v] /\ asked' = asked /\ queue' = Append(queue, x)
  BY <1>2 DEF Connect
<1>6. x \in Connection /\ x.nr <= Len(asked)
  BY AskedFacts, ConnectionFacts DEF Connection
<1> HIDE DEF v, x
<1>7. ShapeOf(worker', Len(asked)) BY <1>1, <1>2, <1>3, <1>4, <1>5, OneMoves
<1>8. Queued(queue', Len(asked))
  <2>1. queue \in Seq(Connection) BY <1>2 DEF Queued
  <2>2. \A k \in DOMAIN queue' : queue'[k] = x \/ (k \in DOMAIN queue /\ queue'[k] = queue[k])
    <3>1. /\ Append(queue, x)[Len(queue) + 1] = x
          /\ \A k \in DOMAIN queue : Append(queue, x)[k] = queue[k]
          /\ \A k \in DOMAIN Append(queue, x) : k \in DOMAIN queue \/ k = Len(queue) + 1
      BY <1>6, <2>1, Appended
    <3> QED BY <1>5, <3>1
  <2>3. queue' \in Seq(Connection) BY <1>5, <1>6, <2>1, Appended
  <2> QED BY <1>2, <1>6, <2>2, <2>3 DEF Queued
<1> QED BY <1>5, <1>7, <1>8 DEF Shape

\* Connections that a client speaks on, or goes away from.
LEMMA OnConnectionFacts ==
  ASSUME TypeInv, NEW c \in Clients, NEW x \in Connection, Len(asked) < MaxRequests
  PROVE  /\ OnConnection(c, x) \in Connection
         /\ x.nr <= Len(asked) => OnConnection(c, x).nr <= Len(asked) + 1
         /\ x.nr # 0 => OnConnection(c, x).nr # 0
         /\ OnConnection(c, NoConnection) = NoConnection
BY AskedFacts, ConnectionFacts, HostFacts DEF OnConnection, Connection

LEMMA ForgetFacts ==
  ASSUME NEW c \in Clients, NEW x \in Connection
  PROVE  /\ Forget(c, x) \in Connection /\ Forget(c, x).nr = x.nr
         /\ Forget(c, NoConnection) = NoConnection
BY ConnectionFacts, HostFacts DEF Forget, Connection

LEMMA SpeakShape ==
  ASSUME TypeInv, NEW c \in Clients, NEW r \in Requests, Speak(c, r)
  PROVE  Shape'
<1> DEFINE n == Len(asked) + 1
           v == [worker[c] EXCEPT !.stage = "waiting"]
           d == [worker[Daemon] EXCEPT !.connection = OnConnection(c, worker[Daemon].connection)]
           w == [worker EXCEPT ![c] = v]
<1>0. c \in Hosts /\ Daemon \in Hosts /\ c # Daemon BY HostFacts
<1>1. /\ n \in Nat /\ Len(asked) \in Nat /\ Len(asked) <= n /\ Len(asked) < MaxRequests
  BY AskedFacts DEF Speak
<1>2. Len(asked') = n
  BY Appended DEF TypeInv, Traces, Speak
<1>3. ShapeOf(worker, n) /\ Queued(queue, n) /\ worker \in [Hosts -> Worker]
  BY <1>1, ShapeGrows DEF TypeInv, Shape, ShapeOf
<1>4. Good(v, n) /\ v.stage = "waiting"
  <2>1. Good(worker[c], n) BY <1>0, <1>3 DEF ShapeOf
  <2>2. worker[c].stage = "connected" BY DEF Speak, At
  <2> QED BY <2>1, <2>2 DEF Good, Worker, Stages, Busy
<1>5. Good(d, n) /\ d.stage = worker[Daemon].stage
  <2> DEFINE x == worker[Daemon].connection
  <2>1. Good(worker[Daemon], Len(asked)) BY <1>0, ShapeOfHost DEF TypeInv
  <2>2. x \in Connection /\ worker[Daemon] \in Worker BY <2>1 DEF Good, Worker
  <2>3. d \in Worker /\ d.stage = worker[Daemon].stage /\ d.connection = OnConnection(c, x)
    BY <1>1, <2>2, OnConnectionFacts DEF Worker
  <2> HIDE DEF d
  <2> QED BY <1>1, <2>1, <2>2, <2>3, OnConnectionFacts DEF Good
<1>6. /\ worker' = [w EXCEPT ![Daemon] = d] /\ asked' = Append(asked, r)
      /\ queue' = [k \in DOMAIN queue |-> OnConnection(c, queue[k])]
  BY <1>0, <1>3 DEF Speak
<1>7. InPlace(c, v.stage) BY <1>0, <1>4 DEF InPlace
<1>8. InPlace(Daemon, d.stage)
  BY <1>0, <1>5, ShapeOfHost DEF TypeInv
<1> HIDE DEF v, d, w
<1>9. ShapeOf(w, n)
  BY <1>0, <1>3, <1>4, <1>7, OneMoves DEF w
<1>10. ShapeOf(worker', n)
  BY <1>0, <1>5, <1>6, <1>8, <1>9, OneMoves
<1>11. Queued(queue', n)
  <2>1. queue \in Seq(Connection) /\ \A k \in DOMAIN queue : queue[k].nr <= Len(asked)
    BY DEF TypeInv, Shape, Queued
  <2>2. \A k \in DOMAIN queue : queue[k] \in Connection BY <2>1
  <2>3. \A k \in DOMAIN queue : /\ OnConnection(c, queue[k]) \in Connection
                                /\ OnConnection(c, queue[k]).nr <= n
    BY <1>1, <2>1, <2>2, OnConnectionFacts DEF n
  <2>4. queue' \in Seq(Connection)
    <3>1. DOMAIN queue = 1..Len(queue) /\ Len(queue) \in Nat BY <2>1
    <3>2. queue' = [k \in 1..Len(queue) |-> OnConnection(c, queue[k])] BY <1>6, <3>1
    <3> QED BY <2>3, <3>1, <3>2
  <2> QED BY <1>6, <2>3, <2>4 DEF Queued
<1> QED BY <1>2, <1>10, <1>11 DEF Shape

LEMMA ReturnAnswerShape ==
  ASSUME TypeInv, NEW c \in Clients, ReturnAnswer(c)
  PROVE  Shape'
<1>1. worker' = [worker EXCEPT ![c] = Gone] /\ asked' = asked /\ queue' = queue
  BY DEF ReturnAnswer
<1>2. Good(Gone, Len(asked)) /\ InPlace(c, Gone.stage) /\ c \in Hosts
  BY AskedFacts, GoneIsGood, HostFacts
<1>3. ShapeOf(worker', Len(asked)) BY <1>1, <1>2, OneMoves DEF TypeInv, Shape
<1> QED BY <1>1, <1>3 DEF TypeInv, Shape

LEMMA SendAnswerShape ==
  ASSUME TypeInv, SendAnswer
  PROVE  Shape' /\ worker[Daemon].connection.client \in Clients
<1> DEFINE c == worker[Daemon].connection.client
           w == [worker EXCEPT ![Daemon] = Free]
<1>1. worker[Daemon] \in Worker /\ worker \in [Hosts -> Worker] /\ Daemon \in Hosts
  BY ShapeOfHost, HostFacts DEF TypeInv
<1>2. c \in Clients BY <1>1 DEF Worker, Connection, SendAnswer
<1>3. c \in Hosts /\ c # Daemon BY <1>2, HostFacts
<1>4. worker' = [w EXCEPT ![c] = Gone] /\ asked' = asked /\ queue' = queue
  BY <1>1, <1>3 DEF SendAnswer
<1>5. ShapeOf(w, Len(asked))
  BY <1>1, FreeIsGood, OneMoves DEF TypeInv, Shape
<1>6. Good(Gone, Len(asked)) /\ InPlace(c, Gone.stage)
  BY <1>3, AskedFacts, GoneIsGood
<1> HIDE DEF w, c
<1>7. ShapeOf(worker', Len(asked)) BY <1>3, <1>4, <1>5, <1>6, OneMoves
<1> QED BY <1>2, <1>4, <1>7 DEF TypeInv, Shape, c

LEMMA EndDaemonShape ==
  ASSUME TypeInv, EndDaemon
  PROVE  Shape'
<1>1. /\ worker' = [g \in Hosts |->
           IF g = Daemon \/ worker[g].stage \in {"connected", "waiting"} THEN Gone ELSE worker[g]]
      /\ asked' = asked /\ queue' = <<>>
  BY DEF EndDaemon
<1>2. \A g \in Hosts : Good(worker'[g], Len(asked)) /\ InPlace(g, worker'[g].stage)
  BY <1>1, AskedFacts, GoneIsGood, ShapeOfHost DEF TypeInv
<1>3. worker' \in [Hosts -> Worker] BY <1>1, <1>2 DEF Good
<1>4. Queued(queue', Len(asked)) BY <1>1 DEF Queued
<1> QED BY <1>1, <1>2, <1>3, <1>4, ShapeByProcess DEF Shape

LEMMA StartDaemonShape ==
  ASSUME TypeInv, StartDaemon
  PROVE  Shape'
<1> DEFINE v == [worker[Daemon] EXCEPT !.stage = "free"]
<1>1. /\ Good(worker[Daemon], Len(asked)) /\ worker \in [Hosts -> Worker] /\ Daemon \in Hosts
  BY ShapeOfHost, HostFacts DEF TypeInv
<1>2. Good(v, Len(asked)) /\ v.stage = "free"
  BY <1>1 DEF Good, Worker, Stages, Busy, StartDaemon, At
<1>3. worker' = [worker EXCEPT ![Daemon] = v] /\ asked' = asked /\ queue' = queue
  BY <1>1 DEF StartDaemon
<1>4. InPlace(Daemon, v.stage) BY <1>2 DEF InPlace
<1> HIDE DEF v
<1>5. ShapeOf(worker', Len(asked)) BY <1>1, <1>2, <1>3, <1>4, OneMoves DEF TypeInv, Shape
<1> QED BY <1>3, <1>5 DEF TypeInv, Shape

LEMMA InterruptShape ==
  ASSUME TypeInv, NEW c \in Clients, Interrupt(c)
  PROVE  Shape'
<1> DEFINE d == [worker[Daemon] EXCEPT !.connection = Forget(c, worker[Daemon].connection)]
           w == [worker EXCEPT ![c] = Gone]
<1>0. c \in Hosts /\ Daemon \in Hosts /\ c # Daemon BY HostFacts
<1>1. Good(worker[Daemon], Len(asked)) /\ worker \in [Hosts -> Worker]
  BY <1>0, ShapeOfHost DEF TypeInv
<1>2. Good(d, Len(asked)) /\ d.stage = worker[Daemon].stage
  <2> DEFINE x == worker[Daemon].connection
  <2>1. x \in Connection /\ worker[Daemon] \in Worker BY <1>1 DEF Good, Worker
  <2>2. d \in Worker /\ d.stage = worker[Daemon].stage /\ d.connection = Forget(c, x)
    BY <2>1, ForgetFacts DEF Worker
  <2> HIDE DEF d
  <2> QED BY <1>1, <2>1, <2>2, ForgetFacts DEF Good
<1>3. /\ worker' = [w EXCEPT ![Daemon] = d] /\ asked' = asked
      /\ queue' = [k \in DOMAIN queue |-> Forget(c, queue[k])]
  BY <1>0, <1>1 DEF Interrupt
<1>4. InPlace(Daemon, d.stage) BY <1>0, <1>2, ShapeOfHost DEF TypeInv
<1>5. Good(Gone, Len(asked)) /\ InPlace(c, Gone.stage)
  BY <1>0, AskedFacts, GoneIsGood
<1> HIDE DEF d, w
<1>6. ShapeOf(w, Len(asked)) BY <1>0, <1>5, OneMoves DEF w, TypeInv, Shape
<1>7. ShapeOf(worker', Len(asked)) BY <1>0, <1>2, <1>3, <1>4, <1>6, OneMoves
<1>8. Queued(queue', Len(asked))
  <2>1. queue \in Seq(Connection) /\ \A k \in DOMAIN queue : queue[k].nr <= Len(asked)
    BY DEF TypeInv, Shape, Queued
  <2>2. \A k \in DOMAIN queue : queue[k] \in Connection BY <2>1
  <2>3. \A k \in DOMAIN queue : Forget(c, queue[k]) \in Connection
                                /\ Forget(c, queue[k]).nr <= Len(asked)
    BY <2>1, <2>2, ForgetFacts
  <2>4. queue' \in Seq(Connection)
    <3>1. DOMAIN queue = 1..Len(queue) /\ Len(queue) \in Nat BY <2>1
    <3>2. queue' = [k \in 1..Len(queue) |-> Forget(c, queue[k])] BY <1>3, <3>1
    <3> QED BY <2>3, <3>1, <3>2
  <2> QED BY <1>3, <2>3, <2>4 DEF Queued
<1> QED BY <1>3, <1>7, <1>8 DEF Shape

LEMMA RecordShape ==
  ASSUME TypeInv, NEW h \in Hosts, Record(h)
  PROVE  Shape'
<1> DEFINE v == [worker[h] EXCEPT !.stage = "answer", !.memory = Append(@, Number(h))]
           m(g) == [worker[g] EXCEPT !.missed = @ \cup {Number(h)}]
<1>1. Number(h) \in Nat BY NumberFacts
<1>2. ASSUME NEW g \in Hosts
      PROVE  /\ Good(m(g), Len(asked)) /\ InPlace(g, m(g).stage)
             /\ Good(worker[g], Len(asked)) /\ InPlace(g, worker[g].stage)
  <2>1. Good(worker[g], Len(asked)) /\ InPlace(g, worker[g].stage) BY ShapeOfHost DEF TypeInv
  <2>2. worker[g] \in Worker BY <2>1 DEF Good
  <2>3. m(g) \in Worker /\ m(g).stage = worker[g].stage /\ m(g).connection = worker[g].connection
    BY <1>1, <2>2 DEF Worker
  <2> HIDE DEF m
  <2> QED BY <2>1, <2>3 DEF Good
<1>3. Good(v, Len(asked)) /\ InPlace(h, v.stage)
  <2>1. Good(worker[h], Len(asked)) /\ worker[h] \in Worker BY <1>2 DEF Good
  <2>2. worker[h].stage = "record" BY DEF Record, At
  <2>3. Append(worker[h].memory, Number(h)) \in Seq(Nat) BY <1>1, <2>1 DEF Worker
  <2>4. v \in Worker /\ v.stage = "answer" /\ v.connection = worker[h].connection
    BY <2>1, <2>3 DEF Worker, Stages, Busy
  <2> HIDE DEF v
  <2> QED BY <2>1, <2>2, <2>4 DEF Good, InPlace, Busy
<1>4. /\ worker' = [g \in Hosts |-> IF g = h THEN v
                                    ELSE IF worker[g].loaded THEN m(g) ELSE worker[g]]
      /\ asked' = asked /\ queue' = queue
  BY DEF Record
<1> HIDE DEF v, m
<1>5. \A g \in Hosts : Good(worker'[g], Len(asked)) /\ InPlace(g, worker'[g].stage)
  BY <1>2, <1>3, <1>4
<1>6. worker' \in [Hosts -> Worker]
  <2>1. \A g \in Hosts : worker'[g] \in Worker BY <1>5 DEF Good
  <2>2. worker' = [g \in Hosts |-> worker'[g]] BY <1>4
  <2> QED BY ONLY <2>1, <2>2
<1>7. ShapeOf(worker', Len(asked)) BY ONLY <1>5, <1>6, ShapeByProcess
<1> QED BY <1>4, <1>7 DEF TypeInv, Shape

----------------------------------------------------------------------------
(* The audit history *)

(***************************************************************************)
(* Loading finds a last line up to which all can be read: the numbers of   *)
(* lines from there to the end of the file have a smallest.                *)
(***************************************************************************)
LEMMA ReadableFacts ==
  ASSUME history \in Seq(Line)
  PROVE  /\ ReadableRecords \in Seq(Nat)
         /\ \A k \in DOMAIN history :
              (\A j \in 1..k : history[j].nr # 0) => history[k].nr \in Range(ReadableRecords)
<1> DEFINE L == Len(history)
           whole == {k \in 0..L : \A j \in 1..k : history[j].nr # 0}
           upto == CHOOSE k \in whole : \A j \in whole : j <= k
           rest == {L - k : k \in whole}
<1>1. L \in Nat /\ DOMAIN history = 1..L BY LenProperties
<1>2. 0 \in whole BY <1>1
<1>3. \A k \in whole : k \in 0..L OBVIOUS
<1> HIDE DEF whole
<1>4. rest \in SUBSET Nat /\ L \in rest
  BY <1>1, <1>2, <1>3
<1>5. \E m \in rest : \A n \in rest : m <= n
  <2> DEFINE R == OpToRel(<, Nat)
  <2>1. IsWellFoundedOn(R, Nat) BY NatLessThanWellFounded
  <2>2. \A m, n \in Nat : m < n => <<m, n>> \in R BY DEF OpToRel
  <2> HIDE DEF R, rest
  <2>3. \E m \in rest : \A n \in rest : ~ (<<n, m>> \in R)
    BY <1>4, <2>1, WFMin
  <2>4. PICK m \in rest : \A n \in rest : ~ (<<n, m>> \in R) BY <2>3
  <2>5. ASSUME NEW n \in rest PROVE m <= n
    <3>1. m \in Nat /\ n \in Nat BY <1>4
    <3>2. ~ (n < m) BY <2>2, <2>4, <3>1
    <3> QED BY <3>1, <3>2
  <2> QED BY <2>5
<1>6. \E k \in whole : \A j \in whole : j <= k
  <2>1. PICK m \in rest : \A n \in rest : m <= n BY <1>5
  <2>2. PICK k \in whole : m = L - k BY <2>1
  <2>3. ASSUME NEW j \in whole PROVE j <= k
    <3>1. L - j \in rest OBVIOUS
    <3>2. L - k <= L - j BY <2>1, <2>2, <3>1
    <3> QED BY <1>1, <1>3, <3>2
  <2> QED BY <2>3
<1>7. upto \in whole /\ \A j \in whole : j <= upto BY <1>6
<1>8. upto \in 0..L BY <1>3, <1>7
<1> HIDE DEF upto
<1>9. \A k \in 1..upto : history[k].nr \in Nat
  <2>1. \A k \in 1..L : history[k] \in Line BY <1>1
  <2> QED BY <1>1, <1>8, <2>1 DEF Line
<1>10. [k \in 1..upto |-> history[k].nr] \in Seq(Nat)
  <2>1. upto \in Nat BY <1>1, <1>8
  <2> QED BY <1>9, <2>1
<1>11. ReadableRecords = [k \in 1..upto |-> history[k].nr]
  BY DEF ReadableRecords, upto, whole
<1>12. ASSUME NEW k \in DOMAIN history, \A j \in 1..k : history[j].nr # 0
       PROVE  history[k].nr \in Range(ReadableRecords)
  <2>1. k \in whole BY <1>1, <1>12 DEF whole
  <2>2. k \in 1..upto BY <1>1, <1>7, <1>8, <2>1
  <2> QED BY <1>11, <2>2 DEF Range
<1> QED BY <1>10, <1>11, <1>12

\* What was read and what is missed are together all that can be read.
LEMMA LoadFacts ==
  ASSUME worker \in [Hosts -> Worker], history \in Seq(Line), mishaps \in 0..MaxMishaps,
         NEW h \in Hosts, get_ai_platform(h)
  PROVE  /\ MakesPlatform(h) /\ mishaps' \in 0..MaxMishaps
         /\ UNCHANGED <<socket, queue, asked, answers, log, history, broker, halted, excused>>
         /\ \E v \in Worker :
              /\ worker' = [worker EXCEPT ![h] = v]
              /\ v.stage = worker[h].stage /\ v.reply = worker[h].reply
              /\ v.connection = worker[h].connection
              /\ Range(ReadableRecords) \subseteq Range(v.memory) \cup v.missed
<1> DEFINE R == ReadableRecords
           v(k) == WithRecords(worker[h], k)
           m(k) == SubSeq(R, 1, k)
           u(k) == {R[j] : j \in (k + 1)..Len(R)}
<1>1. /\ MakesPlatform(h)
      /\ UNCHANGED <<socket, queue, asked, answers, log, history, broker, halted, excused>>
      /\ \E k \in 0..Len(R) : /\ worker' = [worker EXCEPT ![h] = v(k)]
                              /\ mishaps' = mishaps \/ Mishap
  BY DEF get_ai_platform
<1>2. PICK k \in 0..Len(R) : /\ worker' = [worker EXCEPT ![h] = v(k)]
                             /\ mishaps' = mishaps \/ Mishap
  BY <1>1
<1>3. R \in Seq(Nat) BY ReadableFacts
<1>4. Len(R) \in Nat /\ DOMAIN R = 1..Len(R) BY <1>3, LenProperties
<1> HIDE DEF R
<1>5. m(k) \in Seq(Nat) /\ DOMAIN m(k) = 1..k /\ \A j \in 1..k : m(k)[j] = R[j]
  <2>1. k \in Nat /\ k <= Len(R) BY <1>4
  <2>2. m(k) = [j \in 1..k |-> R[j]] BY <1>3, <2>1
  <2>3. \A j \in 1..k : R[j] \in Nat
    <3>1. \A j \in 1..Len(R) : R[j] \in Nat BY <1>3
    <3> QED BY <1>4, <2>1, <3>1
  <2> QED BY <2>1, <2>2, <2>3
<1>6. u(k) \in SUBSET Nat
  <2>1. \A j \in 1..Len(R) : R[j] \in Nat BY <1>3
  <2> QED BY <1>4, <2>1
<1>7. v(k) = [worker[h] EXCEPT !.loaded = TRUE, !.memory = m(k), !.missed = @ \cup u(k)]
  BY DEF WithRecords, R
<1>8. Range(R) \subseteq Range(m(k)) \cup u(k)
  <2>1. ASSUME NEW j \in DOMAIN R PROVE R[j] \in Range(m(k)) \cup u(k)
    <3>1. CASE j \in 1..k BY <1>5, <3>1 DEF Range
    <3>2. CASE j \notin 1..k
      <4>1. j \in (k + 1)..Len(R) BY <1>4, <3>2
      <4> QED BY <4>1
    <3> QED BY <3>1, <3>2
  <2> QED BY <2>1 DEF Range
<1> HIDE DEF m, u, v
<1>9. /\ v(k) \in Worker /\ v(k).memory = m(k) /\ v(k).missed = worker[h].missed \cup u(k)
      /\ v(k).stage = worker[h].stage /\ v(k).reply = worker[h].reply
      /\ v(k).connection = worker[h].connection
  BY <1>5, <1>6, <1>7 DEF Worker
<1>10. mishaps' \in 0..MaxMishaps
  <2>1. mishaps \in Nat /\ MaxMishaps \in Nat BY BoundsAssumption
  <2>2. CASE mishaps' = mishaps BY <2>2
  <2>3. CASE Mishap BY <2>1, <2>3 DEF Mishap
  <2> QED BY <1>2, <2>2, <2>3
<1>11. Range(R) \subseteq Range(v(k).memory) \cup v(k).missed BY <1>8, <1>9
<1>12. worker' = [worker EXCEPT ![h] = v(k)] BY <1>2
<1> QED BY <1>1, <1>9, <1>10, <1>11, <1>12 DEF R

LEMMA LoadShape ==
  ASSUME TypeInv, NEW h \in Hosts, get_ai_platform(h)
  PROVE  Shape'
<1>1. /\ Good(worker[h], Len(asked)) /\ worker \in [Hosts -> Worker]
      /\ InPlace(h, worker[h].stage)
  BY ShapeOfHost DEF TypeInv
<1>2. history \in Seq(Line) /\ mishaps \in 0..MaxMishaps BY DEF TypeInv, Traces
<1>3. asked' = asked /\ queue' = queue BY <1>1, <1>2, LoadFacts
<1>4. PICK v \in Worker : /\ worker' = [worker EXCEPT ![h] = v]
                          /\ v.stage = worker[h].stage
                          /\ v.connection = worker[h].connection
  BY <1>1, <1>2, LoadFacts
<1>5. Good(v, Len(asked)) /\ InPlace(h, v.stage) BY <1>1, <1>4 DEF Good
<1>6. ShapeOf(worker', Len(asked)) BY <1>4, <1>5, OneMoves DEF TypeInv, Shape
<1> QED BY <1>3, <1>6 DEF TypeInv, Shape

(***************************************************************************)
(* A line that is appended leaves the others alone, but for a last one     *)
(* without an end, which then cannot be read.                              *)
(***************************************************************************)
LEMMA WithLineFacts ==
  ASSUME history \in Seq(Line), NEW n \in Nat, NEW e \in BOOLEAN
  PROVE  /\ WithLine(n, e) \in Seq(Line)
         /\ \A k \in DOMAIN history : history[k].ended \/ ~Cut =>
              k \in DOMAIN WithLine(n, e) /\ WithLine(n, e)[k] = history[k]
         /\ \A k \in DOMAIN history : k \in DOMAIN WithLine(n, e)
         /\ \A k \in DOMAIN history : ~history[k].ended /\ WithLine(n, e)[k] # history[k]
              => WithLine(n, e)[k].nr = 0
         /\ \A k \in DOMAIN WithLine(n, e) :
              \/ k \in DOMAIN history /\ WithLine(n, e)[k] = history[k]
              \/ WithLine(n, e)[k] = [nr |-> 0, ended |-> e]
              \/ WithLine(n, e)[k] = [nr |-> n, ended |-> e]
         /\ ~Cut => \E k \in DOMAIN WithLine(n, e) : WithLine(n, e)[k] = [nr |-> n, ended |-> e]
<1>0. Len(history) \in Nat /\ DOMAIN history = 1..Len(history) BY LenProperties
<1>1. CASE ~Cut
  <2> DEFINE x == [nr |-> n, ended |-> e]
             H == Append(history, x)
  <2>1. x \in Line BY DEF Line
  <2>2. WithLine(n, e) = H BY <1>1 DEF WithLine
  <2> HIDE DEF x
  <2>3. /\ H \in Seq(Line) /\ H[Len(history) + 1] = x /\ Len(H) = Len(history) + 1
        /\ \A k \in DOMAIN history : k \in DOMAIN H /\ H[k] = history[k]
        /\ \A k \in DOMAIN H : k \in DOMAIN history \/ k = Len(history) + 1
    BY <2>1, Appended
  <2>4. Len(history) + 1 \in DOMAIN H BY <1>0, <2>3
  <2> HIDE DEF H
  <2> QED BY <1>1, <2>2, <2>3, <2>4 DEF x
<1>2. CASE Cut
  <2> DEFINE x == [nr |-> 0, ended |-> e]
             F == SubSeq(history, 1, Len(history) - 1)
             H == Append(F, x)
  <2>1. x \in Line BY DEF Line
  <2>2. /\ WithLine(n, e) = H /\ history # <<>> /\ ~history[Len(history)].ended
    BY <1>2 DEF WithLine, Cut, Front, Last
  <2>3. /\ F \in Seq(Line) /\ Len(F) = Len(history) - 1 /\ Len(history) # 0
        /\ \A k \in 1..Len(history) - 1 : F[k] = history[k]
    BY <1>0, <2>2, SubSeqProperties
  <2>4. DOMAIN F = 1..Len(history) - 1 BY <1>0, <2>3
  <2> HIDE DEF x, F
  <2>5. /\ H \in Seq(Line) /\ H[Len(F) + 1] = x /\ Len(H) = Len(F) + 1
        /\ \A k \in DOMAIN F : k \in DOMAIN H /\ H[k] = F[k]
        /\ \A k \in DOMAIN H : k \in DOMAIN F \/ k = Len(F) + 1
    BY <2>1, <2>3, Appended
  <2>6. /\ H[Len(history)] = x /\ DOMAIN H = 1..Len(history)
        /\ \A k \in 1..Len(history) - 1 : H[k] = history[k]
        /\ \A k \in 1..Len(history) : k \in 1..Len(history) - 1 \/ k = Len(history)
    <3>1. DOMAIN H = 1..Len(H) BY <2>5, LenProperties
    <3>2. Len(H) = Len(history) /\ Len(F) + 1 = Len(history) BY <1>0, <2>3, <2>5
    <3> HIDE DEF H
    <3>3. \A k \in 1..Len(history) - 1 : H[k] = history[k] BY <2>3, <2>4, <2>5
    <3>4. ASSUME NEW L \in Nat
          PROVE  \A k \in 1..L : k \in 1..L - 1 \/ k = L
      OBVIOUS
    <3> QED BY <1>0, <2>5, <3>1, <3>2, <3>3, <3>4
  <2> HIDE DEF H
  <2>7. \A k \in 1..Len(history) - 1 : k \in 1..Len(history) BY <1>0
  <2>8. \A k \in DOMAIN history : history[k].ended => H[k] = history[k]
    BY <1>0, <2>2, <2>6
  <2>9. \A k \in DOMAIN history : H[k] # history[k] => H[k] = x
    BY <1>0, <2>6
  <2>10. DOMAIN H = DOMAIN history BY <1>0, <2>6
  <2>11. x.nr = 0 /\ x = [nr |-> 0, ended |-> e] BY DEF x
  <2> QED BY ONLY <1>2, <2>2, <2>5, <2>8, <2>9, <2>10, <2>11
<1> QED BY <1>1, <1>2

----------------------------------------------------------------------------
(* Types *)

LEMMA TracesStay ==
  ASSUME TypeInv, UNCHANGED <<socket, asked, answers, log, history, broker, historyVars>>
  PROVE  Traces'
BY DEF TypeInv, Traces, Numbers, historyVars

LEMMA MishapFacts ==
  ASSUME TypeInv
  PROVE  Mishap => mishaps' \in 0..MaxMishaps
BY BoundsAssumption DEF TypeInv, Traces, Mishap

LEMMA ExcuseFacts ==
  ASSUME TypeInv, NEW n \in Numbers, NEW file \in {"log", "history", "catalog"}
  PROVE  excused \cup {<<file, n>>} \subseteq {"log", "history", "catalog"} \X Numbers
BY DEF TypeInv, Traces

LEMMA AskTraces ==
  ASSUME TypeInv, NEW r \in Requests, Len(asked) < MaxRequests,
         asked' = Append(asked, r), answers' = Append(answers, "none"),
         UNCHANGED <<socket, log, history, broker, historyVars>>
  PROVE  Traces'
<1>1. /\ asked' \in Seq(Requests) /\ Len(asked') = Len(asked) + 1
      /\ answers' \in Seq(Replies \cup {"lost"}) /\ Len(answers') = Len(asked')
  <2>1. asked \in Seq(Requests) /\ answers \in Seq(Replies \cup {"lost"})
        /\ Len(answers) = Len(asked) /\ "none" \in Replies \cup {"lost"}
    BY DEF TypeInv, Traces, Replies
  <2>2. asked' \in Seq(Requests) /\ Len(asked') = Len(asked) + 1 BY <2>1, Appended
  <2>3. answers' \in Seq(Replies \cup {"lost"}) /\ Len(answers') = Len(answers) + 1
    BY <2>1, Appended
  <2> QED BY <2>1, <2>2, <2>3
<1>2. Len(asked') <= MaxRequests BY <1>1, AskedFacts, ConnectionFacts
<1>3. Numbers \subseteq Numbers' BY <1>1, AskedFacts DEF Numbers
<1>4. Numbers \X BOOLEAN \subseteq Numbers' \X BOOLEAN BY <1>3
<1>5. log \in Seq(Numbers' \X BOOLEAN) BY <1>4, SeqMonotonic DEF TypeInv, Traces
<1>6. broker \in Seq(Numbers') BY <1>3, SeqMonotonic DEF TypeInv, Traces
<1>7. excused \subseteq {"log", "history", "catalog"} \X Numbers'
  BY <1>3 DEF TypeInv, Traces
<1> QED BY <1>1, <1>2, <1>5, <1>6, <1>7 DEF TypeInv, Traces, historyVars

LEMMA AuthorizeTraces ==
  ASSUME TypeInv, NEW h \in Hosts, Authorize(h)
  PROVE  Traces'
<1> DEFINE b == Authorized(h, Asked(h))
           n == Number(h)
<1>1. n \in Numbers BY NumberFacts DEF Authorize, Received
<1>2. b \in BOOLEAN BY DEF Authorized, check_authorization
<1>3. UNCHANGED <<socket, asked, answers, history, broker, halted>> BY DEF Authorize
<1>4. log_audit_event(n, b) BY DEF Authorize
<1> HIDE DEF b, n
<1>5. CASE log' = Append(log, <<n, b>>) /\ UNCHANGED <<excused, mishaps>>
  <2>1. <<n, b>> \in Numbers \X BOOLEAN BY <1>1, <1>2
  <2>2. log' \in Seq(Numbers \X BOOLEAN) BY <1>5, <2>1, Appended DEF TypeInv, Traces
  <2> QED BY <1>3, <1>5, <2>2 DEF TypeInv, Traces, Numbers
<1>6. CASE Mishap /\ Excuse("log", n) /\ UNCHANGED log
  <2>1. excused' \subseteq {"log", "history", "catalog"} \X Numbers
    BY <1>1, <1>6, ExcuseFacts DEF Excuse
  <2> QED BY <1>3, <1>6, <2>1, MishapFacts DEF TypeInv, Traces, Numbers
<1> QED BY <1>4, <1>5, <1>6 DEF log_audit_event

LEMMA AnswerTraces ==
  ASSUME TypeInv, NEW h \in Hosts, Answer(h)
  PROVE  Traces'
<1>1. Number(h) \in Numbers BY NumberFacts DEF Answer, At, Busy
<1>2. UNCHANGED <<socket, asked, answers, log, history, broker>> BY DEF Answer
<1>3. CASE halted' = (halted \/ Asked(h).action = "risk.halt") /\ UNCHANGED <<excused, mishaps>>
  <2>1. halted' \in BOOLEAN BY <1>3 DEF TypeInv, Traces
  <2> QED BY <1>2, <1>3, <2>1 DEF TypeInv, Traces, Numbers
<1>4. CASE Mishap /\ Excuse("catalog", Number(h)) /\ UNCHANGED halted
  <2>1. excused' \subseteq {"log", "history", "catalog"} \X Numbers
    BY <1>1, <1>4, ExcuseFacts DEF Excuse
  <2> QED BY <1>2, <1>4, <2>1, MishapFacts DEF TypeInv, Traces, Numbers
<1> QED BY <1>3, <1>4 DEF Answer

LEMMA SendTraces ==
  ASSUME TypeInv, NEW h \in Hosts, Send(h)
  PROVE  Traces'
<1>1. Number(h) \in Numbers BY NumberFacts DEF Send, At, Busy
<1>2. broker' \in Seq(Numbers)
  BY <1>1, Appended DEF Send, TypeInv, Traces
<1> QED BY <1>2 DEF Send, TypeInv, Traces, Numbers, historyVars

LEMMA RecordTraces ==
  ASSUME TypeInv, NEW h \in Hosts, Record(h)
  PROVE  Traces'
<1>1. Number(h) \in Numbers /\ Number(h) \in Nat BY NumberFacts DEF Record, At, Busy
<1>2. UNCHANGED <<socket, asked, answers, log, broker, halted>> BY DEF Record
<1>3. history \in Seq(Line) BY DEF TypeInv, Traces
<1>4. history' \in Seq(Line)
  <2>1. \A n \in Nat, e \in BOOLEAN : WithLine(n, e) \in Seq(Line) BY <1>3, WithLineFacts
  <2>2. \/ history' = WithLine(Number(h), TRUE)
        \/ \E n \in {0, Number(h)} : history' = WithLine(n, FALSE)
        \/ history' = history
    BY DEF Record
  <2> QED BY <1>1, <1>3, <2>1, <2>2
<1>5. excused' \subseteq {"log", "history", "catalog"} \X Numbers
  <2>1. excused' = excused \/ excused' = excused \cup {<<"history", Number(h)>>}
    BY DEF Record, Excuse
  <2> QED BY <1>1, <2>1, ExcuseFacts DEF TypeInv, Traces
<1>6. mishaps' \in 0..MaxMishaps
  BY MishapFacts DEF Record, TypeInv, Traces
<1> QED BY <1>2, <1>4, <1>5, <1>6 DEF TypeInv, Traces, Numbers

\* The answer of one request.
LEMMA AnsweredTraces ==
  ASSUME TypeInv, NEW n \in Numbers, NEW r \in Replies \cup {"lost"},
         answers' = [answers EXCEPT ![n] = r],
         UNCHANGED <<socket, asked, log, history, broker, historyVars>>
  PROVE  Traces'
<1>1. answers' \in Seq(Replies \cup {"lost"}) /\ Len(answers') = Len(answers)
  BY ExceptSeq DEF TypeInv, Traces, Numbers
<1> QED BY <1>1 DEF TypeInv, Traces, Numbers, historyVars

LEMMA ReplyFacts ==
  ASSUME TypeInv, NEW h \in Hosts
  PROVE  worker[h].reply \in Replies
BY ShapeOfHost DEF TypeInv, Worker

LEMMA ReturnAnswerTraces ==
  ASSUME TypeInv, NEW c \in Clients, ReturnAnswer(c)
  PROVE  Traces'
<1>1. c \in Hosts BY HostFacts
<1>2. Number(c) \in Numbers /\ worker[c].reply \in Replies
  BY <1>1, NumberFacts, ReplyFacts DEF ReturnAnswer, At, Busy
<1> QED BY <1>2, AnsweredTraces DEF ReturnAnswer

LEMMA SendAnswerTraces ==
  ASSUME TypeInv, SendAnswer
  PROVE  Traces'
<1> DEFINE n == worker[Daemon].connection.nr
<1>1. n \in Numbers /\ worker[Daemon].reply \in Replies
  BY HostFacts, NumberFacts, ReplyFacts DEF SendAnswer, At, Busy, Number
<1>2. /\ \/ answers' = [answers EXCEPT ![n] = worker[Daemon].reply]
         \/ answers' = [answers EXCEPT ![n] = "lost"]
      /\ UNCHANGED <<socket, asked, log, history, broker, historyVars>>
  BY DEF SendAnswer
<1> HIDE DEF n
<1> QED BY <1>1, <1>2, AnsweredTraces

LEMMA EndDaemonTraces ==
  ASSUME TypeInv, EndDaemon, socket' \in BOOLEAN, mishaps' \in 0..MaxMishaps,
         excused' \subseteq {"log", "history", "catalog"} \X Numbers
  PROVE  Traces'
<1>1. answers' = [n \in 1..Len(asked) |-> IF n \in Stranded THEN "lost" ELSE answers[n]]
  BY DEF EndDaemon, Numbers
<1>2. \A n \in 1..Len(asked) : answers[n] \in Replies \cup {"lost"}
  BY AskedFacts DEF TypeInv, Traces, Numbers
<1>3. answers' \in Seq(Replies \cup {"lost"}) /\ Len(answers') = Len(asked)
  BY <1>1, <1>2, AskedFacts
<1> QED BY <1>3 DEF EndDaemon, TypeInv, Traces, Numbers

LEMMA UnrecordedFacts ==
  ASSUME TypeInv, NEW h \in Hosts
  PROVE  excused \cup Unrecorded(h) \subseteq {"log", "history", "catalog"} \X Numbers
<1>1. At(h, "record") => Number(h) \in Numbers BY NumberFacts DEF At, Busy
<1> QED BY <1>1, ExcuseFacts DEF Unrecorded, TypeInv, Traces

LEMMA InitTypes == Init => TypeInv
<1> SUFFICES ASSUME Init PROVE TypeInv OBVIOUS
<1>1. Len(asked) = 0 /\ Len(answers) = 0 BY DEF Init
<1>2. Traces
  <2>1. /\ asked \in Seq(Requests) /\ answers \in Seq(Replies \cup {"lost"})
        /\ log \in Seq(Numbers \X BOOLEAN) /\ history \in Seq(Line)
        /\ broker \in Seq(Numbers)
    BY EmptySeq DEF Init
  <2>2. Len(asked) <= MaxRequests /\ mishaps \in 0..MaxMishaps
    BY <1>1, BoundsAssumption DEF Init
  <2>3. socket \in BOOLEAN /\ halted \in BOOLEAN /\ excused = {} BY DEF Init
  <2> QED BY <1>1, <2>1, <2>2, <2>3 DEF Traces
<1>3. Queued(queue, Len(asked)) BY DEF Init, Queued
<1>4. ShapeOf(worker, Len(asked))
  <2>1. worker \in [Hosts -> Worker] /\ \A h \in Hosts : worker[h] = Gone
    BY GoneIsWorker DEF Init
  <2> QED BY <1>1, <2>1, GoneIsGood, ShapeByProcess
<1> QED BY <1>2, <1>3, <1>4 DEF TypeInv, Shape

\* Steps that only move one process on.
LEMMA ProceedsOnly ==
  ASSUME TypeInv, NEW h \in Hosts,
         \/ FailToParse /\ h = Daemon
         \/ Authorize(h) \/ Answer(h) \/ FailToLoad(h) \/ Consult(h) \/ FailToEvaluate(h)
         \/ NoProposal(h) \/ Block(h) \/ Approve(h) \/ Send(h)
  PROVE  \E s \in Busy, r \in Replies :
           /\ Proceed(h, s, r) /\ UNCHANGED <<asked, queue>>
           /\ worker[h].stage \in Busy \/ (At(h, "receive") /\ Number(h) # 0)
<1>0. worker[h].reply \in Replies BY ReplyFacts
<1> USE <1>0 DEF Busy, Replies
<1>1. CASE FailToParse /\ h = Daemon BY <1>1 DEF FailToParse, Received
<1>2. CASE Authorize(h)
  <2>1. At(h, "receive") /\ Number(h) # 0 /\ UNCHANGED <<asked, queue>>
    BY <1>2 DEF Authorize, Received
  <2>2. Proceed(h, "dispatch", "none") \/ Proceed(h, "answer", "denied")
    BY <1>2 DEF Authorize
  <2> QED BY <2>1, <2>2
<1>3. CASE Answer(h)
  <2>1. worker[h].stage = "dispatch" /\ UNCHANGED <<asked, queue>> BY <1>3 DEF Answer, At
  <2>2. Proceed(h, "answer", "error") \/ Proceed(h, "answer", "success")
    BY <1>3 DEF Answer
  <2> QED BY <2>1, <2>2
<1>4. CASE FailToLoad(h) BY <1>4 DEF FailToLoad, MakesPlatform, At
<1>5. CASE Consult(h)
  <2>1. worker[h].stage = "dispatch" /\ UNCHANGED <<asked, queue>>
    BY <1>5 DEF Consult, HasPlatform, At
  <2>2. Proceed(h, "answer", "error") \/ Proceed(h, "answer", "success")
    BY <1>5 DEF Consult
  <2> QED BY <2>1, <2>2
<1>6. CASE FailToEvaluate(h) BY <1>6 DEF FailToEvaluate, Proposing, HasPlatform, At
<1>7. CASE NoProposal(h) BY <1>7 DEF NoProposal, Proposing, HasPlatform, At
<1>8. CASE Block(h) BY <1>8 DEF Block, Proposing, HasPlatform, At
<1>9. CASE Approve(h) BY <1>9 DEF Approve, Proposing, HasPlatform, At
<1>10. CASE Send(h) BY <1>10 DEF Send, At
<1> QED BY <1>1, <1>2, <1>3, <1>4, <1>5, <1>6, <1>7, <1>8, <1>9, <1>10

LEMMA MovesKeepTypes ==
  ASSUME TypeInv, NEW h \in Hosts,
         \/ FailToParse /\ h = Daemon
         \/ Authorize(h) \/ Answer(h) \/ FailToLoad(h) \/ Consult(h) \/ FailToEvaluate(h)
         \/ NoProposal(h) \/ Block(h) \/ Approve(h) \/ Send(h)
  PROVE  TypeInv'
<1>1. \E s \in Busy, r \in Replies :
        /\ Proceed(h, s, r) /\ UNCHANGED <<asked, queue>>
        /\ worker[h].stage \in Busy \/ (At(h, "receive") /\ Number(h) # 0)
  BY ProceedsOnly
<1>2. Shape' BY <1>1, ProceedShape
<1>3. Traces'
  <2>1. CASE FailToParse BY <2>1, TracesStay DEF FailToParse
  <2>2. CASE Authorize(h) BY <2>2, AuthorizeTraces
  <2>3. CASE Answer(h) BY <2>3, AnswerTraces
  <2>4. CASE FailToLoad(h)
    BY <2>4, MishapFacts DEF FailToLoad, TypeInv, Traces, Numbers
  <2>5. CASE Consult(h) \/ FailToEvaluate(h) \/ NoProposal(h) \/ Block(h) \/ Approve(h)
    BY <2>5, TracesStay DEF Consult, FailToEvaluate, NoProposal, Block, Approve
  <2>6. CASE Send(h) BY <2>6, SendTraces
  <2> QED BY <2>1, <2>2, <2>3, <2>4, <2>5, <2>6
<1> QED BY <1>2, <1>3 DEF TypeInv

LEMMA WorkKeepsTypes ==
  ASSUME TypeInv, NEW h \in Hosts, Work(h)
  PROVE  TypeInv'
<1>1. CASE get_ai_platform(h)
  <2>1. worker \in [Hosts -> Worker] /\ history \in Seq(Line) /\ mishaps \in 0..MaxMishaps
    BY ShapeOfHost DEF TypeInv, Traces
  <2>2. /\ mishaps' \in 0..MaxMishaps
        /\ UNCHANGED <<socket, queue, asked, answers, log, history, broker, halted, excused>>
    BY <1>1, <2>1, LoadFacts
  <2>3. Traces' BY <2>2 DEF TypeInv, Traces, Numbers
  <2> QED BY <1>1, <2>3, LoadShape DEF TypeInv
<1>2. CASE Record(h) BY <1>2, RecordShape, RecordTraces DEF TypeInv
<1> QED BY <1>1, <1>2, MovesKeepTypes DEF Work

LEMMA EndsKeepTypes ==
  ASSUME TypeInv, FailToAnswer \/ KillDaemon
  PROVE  TypeInv'
<1>1. EndDaemon /\ socket' \in BOOLEAN BY DEF FailToAnswer, KillDaemon
<1>2. mishaps' \in 0..MaxMishaps
  BY MishapFacts DEF FailToAnswer, KillDaemon, TypeInv, Traces
<1>3. excused' \subseteq {"log", "history", "catalog"} \X Numbers
  BY HostFacts, UnrecordedFacts DEF FailToAnswer, KillDaemon, TypeInv, Traces
<1> QED BY <1>1, <1>2, <1>3, EndDaemonShape, EndDaemonTraces DEF TypeInv

LEMMA TypesKept == TypeInv /\ [Next]_vars => TypeInv'
<1> SUFFICES ASSUME TypeInv, [Next]_vars PROVE TypeInv' OBVIOUS
<1>1. CASE UNCHANGED vars
  BY <1>1 DEF vars, historyVars, TypeInv, Traces, Shape, Numbers
<1>2. CASE Serve
  <2>1. CASE Accept BY <2>1, AcceptShape, TracesStay DEF Accept, TypeInv
  <2>2. CASE ReceiveEmpty BY <2>2, ReceiveEmptyShape, TracesStay DEF ReceiveEmpty, TypeInv
  <2>3. CASE FailToParse BY <2>3, HostFacts, MovesKeepTypes
  <2>4. CASE Work(Daemon) BY <2>4, HostFacts, WorkKeepsTypes
  <2>5. CASE SendAnswer BY <2>5, SendAnswerShape, SendAnswerTraces DEF TypeInv
  <2>6. CASE FailToAnswer BY <2>6, EndsKeepTypes
  <2> QED BY <1>2, <2>1, <2>2, <2>3, <2>4, <2>5, <2>6 DEF Serve
<1>3. ASSUME NEW c \in Clients, NEW r \in Requests, AskInProcess(c, r) \/ Speak(c, r)
      PROVE  TypeInv'
  <2>1. CASE AskInProcess(c, r)
    BY <2>1, AskInProcessShape, AskTraces DEF AskInProcess, TypeInv
  <2>2. CASE Speak(c, r) BY <2>2, SpeakShape, AskTraces DEF Speak, TypeInv
  <2> QED BY <1>3, <2>1, <2>2
<1>4. ASSUME NEW c \in Clients,
             Connect(c) \/ Work(c) \/ ReturnAnswer(c) \/ Interrupt(c)
      PROVE  TypeInv'
  <2>0. c \in Hosts BY HostFacts
  <2>1. CASE Connect(c) BY <2>1, ConnectShape, TracesStay DEF Connect, TypeInv
  <2>2. CASE Work(c) BY <2>0, <2>2, WorkKeepsTypes
  <2>3. CASE ReturnAnswer(c) BY <2>3, ReturnAnswerShape, ReturnAnswerTraces DEF TypeInv
  <2>4. CASE Interrupt(c)
    <3>1. excused' \subseteq {"log", "history", "catalog"} \X Numbers
      BY <2>0, <2>4, UnrecordedFacts DEF Interrupt
    <3>2. Traces' BY <2>4, <3>1, MishapFacts DEF Interrupt, TypeInv, Traces, Numbers
    <3> QED BY <2>4, <3>2, InterruptShape DEF TypeInv
  <2> QED BY <1>4, <2>1, <2>2, <2>3, <2>4
<1>5. CASE KillDaemon BY <1>5, EndsKeepTypes
<1>6. CASE StartDaemon
  <2>1. Traces' BY <1>6 DEF StartDaemon, TypeInv, Traces, Numbers, historyVars
  <2> QED BY <1>6, <2>1, StartDaemonShape DEF TypeInv
<1> QED BY <1>1, <1>2, <1>3, <1>4, <1>5, <1>6 DEF Next

(***************************************************************************)
(* The types of processes, files and answers hold in every reachable       *)
(* state; in particular a process is at work exactly while it has a        *)
(* request in hand.                                                        *)
(***************************************************************************)
THEOREM AgentTypesCorrect == Spec => []AgentTypeOK
<1>1. Init => TypeInv BY InitTypes
<1>2. TypeInv /\ [Next]_vars => TypeInv' BY TypesKept
<1>3. TypeInv => AgentTypeOK BY TypeInvGivesTypeOK
<1> QED BY <1>1, <1>2, <1>3, PTL DEF Spec

----------------------------------------------------------------------------
(* Connections and clients *)

(***************************************************************************)
(* A connection belongs to a client that has not spoken on it yet, or      *)
(* waits for its answer, or to nobody any more; no two belong to one.      *)
(***************************************************************************)
Tied(w, x) ==
  x.client \in Clients => w[x.client].stage = IF x.nr = 0 THEN "connected" ELSE "waiting"
Apart(x, y) == x.client \in Clients => x.client # y.client

Ties ==
  /\ Tied(worker, worker[Daemon].connection)
  /\ \A k \in DOMAIN queue : Tied(worker, queue[k]) /\ Apart(queue[k], worker[Daemon].connection)
  /\ \A j, k \in DOMAIN queue : j # k => Apart(queue[j], queue[k])

QueueFacts == \A k \in DOMAIN queue : queue[k] \in Connection

LEMMA ConnectionsAreTyped ==
  ASSUME TypeInv
  PROVE  /\ QueueFacts /\ queue \in Seq(Connection)
         /\ worker[Daemon].connection \in Connection
         /\ worker[Daemon] \in Worker /\ worker \in [Hosts -> Worker]
<1>1. queue \in Seq(Connection) BY DEF TypeInv, Shape, Queued
<1>2. worker[Daemon] \in Worker /\ worker \in [Hosts -> Worker]
  BY HostFacts, ShapeOfHost DEF TypeInv
<1> QED BY <1>1, <1>2 DEF QueueFacts, Worker

\* Steps that leave the connections and whoever waits on them alone.
LEMMA TiesStay ==
  ASSUME TypeInv, Ties, queue' = queue,
         worker'[Daemon].connection = worker[Daemon].connection,
         \A c \in Clients : worker[c].stage \in {"connected", "waiting"} =>
                            worker'[c].stage = worker[c].stage
  PROVE  Ties'
<1>1. \A x : Tied(worker, x) => Tied(worker', x) BY DEF Tied
<1> QED BY <1>1 DEF Ties, Apart, Tied

\* The host of a step of work, and what the step leaves of it.
LEMMA WorkFacts ==
  ASSUME TypeInv, NEW h \in Hosts, Work(h) \/ (FailToParse /\ h = Daemon)
  PROVE  /\ worker[h].stage \in Busy \cup {"receive"}
         /\ worker'[h].stage \in Busy
         /\ worker'[h].connection = worker[h].connection
         /\ \A g \in Hosts \ {h} : /\ worker'[g].stage = worker[g].stage
                                   /\ worker'[g].connection = worker[g].connection
         /\ queue' = queue /\ asked' = asked
<1>1. worker \in [Hosts -> Worker] BY ShapeOfHost DEF TypeInv
<1>2. ASSUME NEW s \in Busy, NEW r \in Replies, Proceed(h, s, r)
      PROVE  /\ worker'[h].stage = s /\ worker'[h].connection = worker[h].connection
             /\ \A g \in Hosts \ {h} : worker'[g] = worker[g]
  BY <1>1, <1>2 DEF Proceed, Worker
<1>3. CASE get_ai_platform(h)
  <2>1. /\ MakesPlatform(h) /\ queue' = queue /\ asked' = asked
        /\ \E v \in Worker : /\ worker' = [worker EXCEPT ![h] = v]
                             /\ v.stage = worker[h].stage
                             /\ v.connection = worker[h].connection
    BY <1>1, <1>3, LoadFacts DEF TypeInv, Traces
  <2>2. worker'[h].stage = worker[h].stage /\ worker'[h].connection = worker[h].connection
    BY <1>1, <2>1
  <2>3. \A g \in Hosts \ {h} : worker'[g] = worker[g] BY <1>1, <2>1
  <2> QED BY <2>1, <2>2, <2>3 DEF MakesPlatform, At, Busy
<1>4. CASE Record(h)
  <2> DEFINE v == [worker[h] EXCEPT !.stage = "answer", !.memory = Append(@, Number(h))]
             m(g) == [worker[g] EXCEPT !.missed = @ \cup {Number(h)}]
  <2>1. worker' = [g \in Hosts |-> IF g = h THEN v
                                   ELSE IF worker[g].loaded THEN m(g) ELSE worker[g]]
    BY <1>4 DEF Record
  <2>2. v.stage = "answer" /\ v.connection = worker[h].connection BY <1>1 DEF Worker
  <2>3. \A g \in Hosts : m(g).stage = worker[g].stage /\ m(g).connection = worker[g].connection
    BY <1>1 DEF Worker
  <2> HIDE DEF v, m
  <2>4. worker'[h].stage = "answer" /\ worker'[h].connection = worker[h].connection
    BY <2>1, <2>2
  <2>5. \A g \in Hosts \ {h} : /\ worker'[g].stage = worker[g].stage
                               /\ worker'[g].connection = worker[g].connection
    BY <2>1, <2>3
  <2> QED BY <1>4, <2>4, <2>5 DEF Record, At, Busy
<1>5. CASE \/ FailToParse /\ h = Daemon
           \/ Authorize(h) \/ Answer(h) \/ FailToLoad(h) \/ Consult(h) \/ FailToEvaluate(h)
           \/ NoProposal(h) \/ Block(h) \/ Approve(h) \/ Send(h)
  <2>1. PICK s \in Busy, r \in Replies :
          /\ Proceed(h, s, r) /\ UNCHANGED <<asked, queue>>
          /\ worker[h].stage \in Busy \/ (At(h, "receive") /\ Number(h) # 0)
    BY <1>5, ProceedsOnly
  <2> QED BY <1>2, <2>1 DEF At
<1> QED BY <1>3, <1>4, <1>5 DEF Work

LEMMA WorkTies ==
  ASSUME TypeInv, Ties, NEW h \in Hosts, Work(h) \/ (FailToParse /\ h = Daemon)
  PROVE  Ties'
<1>1. worker'[Daemon].connection = worker[Daemon].connection
  BY HostFacts, WorkFacts
<1>2. ASSUME NEW c \in Clients, worker[c].stage \in {"connected", "waiting"}
      PROVE  worker'[c].stage = worker[c].stage
  <2>1. c # h BY <1>2, WorkFacts DEF Busy
  <2> QED BY <2>1, HostFacts, WorkFacts
<1> QED BY <1>1, <1>2, TiesStay, WorkFacts

LEMMA AcceptTies ==
  ASSUME TypeInv, Ties, Accept
  PROVE  Ties'
<1>1. worker \in [Hosts -> Worker] /\ queue \in Seq(Connection) /\ queue # <<>>
  BY ConnectionsAreTyped DEF Accept
<1>2. /\ worker'[Daemon].connection = Head(queue)
      /\ \A c \in Clients : worker'[c] = worker[c]
  BY <1>1, HostFacts DEF Accept, Worker
<1>3. /\ Head(queue) = queue[1] /\ 1 \in DOMAIN queue
      /\ \A k \in DOMAIN queue' : k + 1 \in DOMAIN queue /\ queue'[k] = queue[k + 1] /\ k + 1 # 1
  <2>1. queue' = Tail(queue) BY DEF Accept
  <2>2. Head(queue) = queue[1] /\ 1 \in DOMAIN queue BY <1>1
  <2>3. \A k \in DOMAIN Tail(queue) : /\ k + 1 \in DOMAIN queue
                                      /\ Tail(queue)[k] = queue[k + 1] /\ k + 1 # 1
    BY <1>1, HeadTailProperties
  <2> QED BY <2>1, <2>2, <2>3
<1>4. \A x : Tied(worker, x) => Tied(worker', x) BY <1>2 DEF Tied
<1>5. Tied(worker', worker'[Daemon].connection) BY <1>2, <1>3, <1>4 DEF Ties, Tied
<1>6. \A k \in DOMAIN queue' : Tied(worker', queue'[k]) /\ Apart(queue'[k], worker'[Daemon].connection)
  BY <1>2, <1>3, <1>4 DEF Ties, Tied, At, Apart
<1>7. \A j, k \in DOMAIN queue' : j # k => Apart(queue[j], queue[k])'
  <2>1. ASSUME NEW j \in DOMAIN queue', NEW k \in DOMAIN queue', j # k
        PROVE  Apart(queue'[j], queue'[k])
    <3>1. j \in Nat /\ k \in Nat
      BY <1>1, HeadTailProperties DEF Accept
    <3>2. j + 1 # k + 1 BY <2>1, <3>1
    <3> QED BY <1>3, <3>2 DEF Ties
  <2> QED BY <2>1 DEF Apart
<1> QED BY <1>5, <1>6, <1>7 DEF Ties

LEMMA ReceiveEmptyTies ==
  ASSUME TypeInv, Ties, ReceiveEmpty
  PROVE  Ties'
<1>1. worker \in [Hosts -> Worker] /\ worker' = [worker EXCEPT ![Daemon] = Free]
  BY ConnectionsAreTyped DEF ReceiveEmpty
<1>2. /\ worker'[Daemon].connection = NoConnection /\ queue' = queue
      /\ \A c \in Clients : worker'[c] = worker[c]
  BY <1>1, ConnectionsAreTyped, HostFacts DEF Free, Worker, ReceiveEmpty
<1>3. NoConnection.client \notin Clients BY HostFacts, ConnectionFacts
<1>4. \A x : Tied(worker, x) => Tied(worker', x) BY <1>2 DEF Tied
<1> QED BY <1>2, <1>3, <1>4 DEF Ties, Apart, Tied

\* A client that is not waiting on a connection has none.
LEMMA NoneOfIts ==
  ASSUME TypeInv, Ties, NEW c \in Clients, worker[c].stage \notin {"connected", "waiting"}
  PROVE  /\ worker[Daemon].connection.client # c
         /\ \A k \in DOMAIN queue : queue[k].client # c
BY DEF Ties, Tied

LEMMA ConnectTies ==
  ASSUME TypeInv, Ties, NEW c \in Clients, Connect(c)
  PROVE  Ties'
<1> DEFINE x == [client |-> c, nr |-> 0]
<1>1. /\ worker \in [Hosts -> Worker] /\ queue \in Seq(Connection) /\ x \in Connection
      /\ worker[c].stage = "gone" /\ queue' = Append(queue, x)
  BY ConnectionsAreTyped, ConnectionFacts DEF Connect, At, Connection
<1>2. /\ worker'[c].stage = "connected"
      /\ \A g \in Hosts \ {c} : worker'[g] = worker[g]
  BY <1>1, HostFacts DEF Connect, Worker
<1>3. worker'[Daemon].connection = worker[Daemon].connection BY <1>2, HostFacts
<1>4. /\ worker[Daemon].connection.client # c
      /\ \A k \in DOMAIN queue : queue[k].client # c
  BY <1>1, NoneOfIts
<1>5. \A y : Tied(worker, y) /\ y.client # c => Tied(worker', y) BY <1>2, HostFacts DEF Tied
<1>6. x.client = c /\ x.nr = 0 OBVIOUS
<1> HIDE DEF x
<1>7. Tied(worker', x) BY <1>2, <1>6 DEF Tied
<1>8. /\ queue'[Len(queue) + 1] = x
      /\ \A k \in DOMAIN queue : queue'[k] = queue[k]
      /\ \A k \in DOMAIN queue' : k \in DOMAIN queue \/ k = Len(queue) + 1
  BY <1>1, Appended
<1>9. Tied(worker', worker'[Daemon].connection) BY <1>3, <1>4, <1>5 DEF Ties, Tied
<1>10. ASSUME NEW k \in DOMAIN queue'
       PROVE  Tied(worker', queue'[k]) /\ Apart(queue'[k], worker'[Daemon].connection)
  BY <1>3, <1>4, <1>5, <1>6, <1>7, <1>8 DEF Ties, Apart
<1>11. ASSUME NEW j \in DOMAIN queue', NEW k \in DOMAIN queue', j # k
       PROVE  Apart(queue'[j], queue'[k])
  BY <1>4, <1>6, <1>8, <1>11 DEF Ties, Apart
<1> QED BY <1>9, <1>10, <1>11 DEF Ties, Apart, Tied

LEMMA SpeakTies ==
  ASSUME TypeInv, Ties, NEW c \in Clients, NEW r \in Requests, Speak(c, r)
  PROVE  Ties' /\ (Number(Daemon) # 0 => Number(Daemon)' = Number(Daemon))
<1> DEFINE n == Len(asked) + 1
           x == worker[Daemon].connection
           S(y) == OnConnection(c, y)
<1>1. /\ worker \in [Hosts -> Worker] /\ queue \in Seq(Connection) /\ x \in Connection
      /\ \A k \in DOMAIN queue : queue[k] \in Connection
      /\ worker[c].stage = "connected" /\ n # 0
      /\ queue' = [k \in DOMAIN queue |-> S(queue[k])]
  BY ConnectionsAreTyped, AskedFacts DEF Speak, At, QueueFacts
<1>2. /\ worker'[c].stage = "waiting" /\ worker'[Daemon].connection = S(x)
      /\ \A g \in Hosts \ {c, Daemon} : worker'[g] = worker[g]
  BY <1>1, HostFacts DEF Speak, Worker
<1>3. ASSUME NEW y \in Connection
      PROVE  /\ S(y).client = y.client
             /\ S(y).nr = IF y.client = c THEN n ELSE y.nr
  BY DEF OnConnection, Connection
<1> HIDE DEF S, n
<1>4. ASSUME NEW y \in Connection, Tied(worker, y)
      PROVE  Tied(worker', S(y))
  <2>1. CASE y.client = c BY <1>1, <1>2, <1>3, <2>1 DEF Tied
  <2>2. CASE y.client # c BY <1>2, <1>3, <1>4, <2>2, HostFacts DEF Tied
  <2> QED BY <2>1, <2>2
<1>5. Tied(worker', worker'[Daemon].connection)
  <2>1. Tied(worker', S(x)) BY <1>1, <1>4 DEF Ties
  <2> QED BY <1>2, <2>1 DEF Tied
<1>6. ASSUME NEW k \in DOMAIN queue'
      PROVE  Tied(worker', queue'[k]) /\ Apart(queue'[k], worker'[Daemon].connection)
  <2>1. k \in DOMAIN queue /\ queue'[k] = S(queue[k]) BY <1>1
  <2>2. Tied(worker', S(queue[k])) BY <1>1, <1>4, <2>1 DEF Ties
  <2>3. Apart(queue[k], x) BY <2>1 DEF Ties
  <2> QED BY <1>1, <1>2, <1>3, <2>1, <2>2, <2>3 DEF Apart
<1>7. ASSUME NEW j \in DOMAIN queue', NEW k \in DOMAIN queue', j # k
      PROVE  Apart(queue'[j], queue'[k])
  <2>1. /\ j \in DOMAIN queue /\ queue'[j] = S(queue[j])
        /\ k \in DOMAIN queue /\ queue'[k] = S(queue[k])
    BY <1>1
  <2>2. Apart(queue[j], queue[k]) BY <1>7, <2>1 DEF Ties
  <2> QED BY <1>1, <1>3, <2>1, <2>2 DEF Apart
<1>8. ASSUME Number(Daemon) # 0 PROVE Number(Daemon)' = Number(Daemon)
  <2>1. x.client # c BY <1>1, <1>8 DEF Ties, Tied, At, Number
  <2> QED BY <1>1, <1>2, <1>3, <2>1 DEF Number
<1> QED BY <1>5, <1>6, <1>7, <1>8 DEF Ties, Apart, Tied

LEMMA SendAnswerTies ==
  ASSUME TypeInv, Ties, SendAnswer
  PROVE  Ties'
<1> DEFINE c == worker[Daemon].connection.client
           w == [worker EXCEPT ![Daemon] = Free]
<1>1. worker \in [Hosts -> Worker] /\ c \in Clients /\ queue' = queue
  BY ConnectionsAreTyped, SendAnswerShape DEF SendAnswer
<1>2. worker' = [w EXCEPT ![c] = Gone] /\ c # Daemon /\ c \in Hosts
  BY <1>1, HostFacts DEF SendAnswer
<1>3. w[Daemon].connection = NoConnection
  BY <1>1, ConnectionsAreTyped, HostFacts DEF Free, Worker
<1> HIDE DEF c
<1>4. /\ worker'[Daemon].connection = NoConnection
      /\ \A g \in Clients \ {c} : worker'[g] = worker[g]
  BY <1>1, <1>2, <1>3, HostFacts
<1>5. NoConnection.client \notin Clients BY HostFacts, ConnectionFacts
<1>6. \A k \in DOMAIN queue : queue[k].client # c BY <1>1 DEF Ties, Apart, c
<1>7. \A y : Tied(worker, y) /\ y.client # c => Tied(worker', y) BY <1>4 DEF Tied
<1> QED BY <1>1, <1>4, <1>5, <1>6, <1>7 DEF Ties, Apart, Tied

LEMMA EndDaemonTies ==
  ASSUME TypeInv, EndDaemon
  PROVE  Ties'
<1>1. queue' = <<>> /\ worker'[Daemon] = Gone BY HostFacts DEF EndDaemon
<1>2. NoConnection.client \notin Clients BY HostFacts, ConnectionFacts
<1> QED BY <1>1, <1>2, GoneIsWorker DEF Ties, Apart, Tied

LEMMA InterruptTies ==
  ASSUME TypeInv, Ties, NEW c \in Clients, Interrupt(c)
  PROVE  Ties' /\ Number(Daemon)' = Number(Daemon)
<1> DEFINE x == worker[Daemon].connection
           F(y) == Forget(c, y)
<1>1. /\ worker \in [Hosts -> Worker] /\ queue \in Seq(Connection) /\ x \in Connection
      /\ \A k \in DOMAIN queue : queue[k] \in Connection
      /\ queue' = [k \in DOMAIN queue |-> F(queue[k])]
  BY ConnectionsAreTyped DEF Interrupt, QueueFacts
<1>2. /\ worker'[Daemon].connection = F(x)
      /\ \A g \in Clients \ {c} : worker'[g] = worker[g]
  BY <1>1, ConnectionsAreTyped, HostFacts DEF Interrupt, Worker
<1>3. ASSUME NEW y \in Connection
      PROVE  /\ F(y).client = IF y.client = c THEN Nobody ELSE y.client
             /\ F(y).nr = y.nr
  BY DEF Forget, Connection
<1> HIDE DEF F
<1>4. ASSUME NEW y \in Connection, Tied(worker, y)
      PROVE  Tied(worker', F(y))
  <2>1. CASE y.client = c BY <1>3, <2>1, HostFacts DEF Tied
  <2>2. CASE y.client # c BY <1>2, <1>3, <1>4, <2>2 DEF Tied
  <2> QED BY <2>1, <2>2
<1>5. Tied(worker', worker'[Daemon].connection)
  <2>1. Tied(worker', F(x)) BY <1>1, <1>4 DEF Ties
  <2> QED BY <1>2, <2>1 DEF Tied
<1>6. ASSUME NEW k \in DOMAIN queue'
      PROVE  Tied(worker', queue'[k]) /\ Apart(queue'[k], worker'[Daemon].connection)
  <2>1. k \in DOMAIN queue /\ queue'[k] = F(queue[k]) BY <1>1
  <2>2. Tied(worker', F(queue[k])) BY <1>1, <1>4, <2>1 DEF Ties
  <2>3. Apart(queue[k], x) BY <2>1 DEF Ties
  <2> QED BY <1>1, <1>2, <1>3, <2>1, <2>2, <2>3, HostFacts DEF Apart
<1>7. ASSUME NEW j \in DOMAIN queue', NEW k \in DOMAIN queue', j # k
      PROVE  Apart(queue'[j], queue'[k])
  <2>1. /\ j \in DOMAIN queue /\ queue'[j] = F(queue[j])
        /\ k \in DOMAIN queue /\ queue'[k] = F(queue[k])
    BY <1>1
  <2>2. Apart(queue[j], queue[k]) BY <1>7, <2>1 DEF Ties
  <2> QED BY <1>1, <1>3, <2>1, <2>2, HostFacts DEF Apart
<1>8. Number(Daemon)' = Number(Daemon) BY <1>1, <1>2, <1>3 DEF Number
<1> QED BY <1>5, <1>6, <1>7, <1>8 DEF Ties, Apart, Tied

\* A step of one client that is not waiting on a connection.
LEMMA OwnStepTies ==
  ASSUME TypeInv, Ties, NEW c \in Clients, NEW w, worker' = [worker EXCEPT ![c] = w],
         queue' = queue, worker[c].stage \notin {"connected", "waiting"}
  PROVE  Ties'
<1>1. \A g \in Hosts \ {c} : worker'[g] = worker[g] BY ConnectionsAreTyped
<1>2. worker'[Daemon].connection = worker[Daemon].connection BY <1>1, HostFacts
<1> QED BY <1>1, <1>2, HostFacts, TiesStay

LEMMA TiesKept == TypeInv /\ Ties /\ [Next]_vars => Ties'
<1> SUFFICES ASSUME TypeInv, Ties, [Next]_vars PROVE Ties' OBVIOUS
<1>1. CASE UNCHANGED vars BY <1>1 DEF vars, Ties, Tied, Apart, At
<1>2. CASE Serve
  BY <1>2, HostFacts, AcceptTies, ReceiveEmptyTies, WorkTies, SendAnswerTies, EndDaemonTies
  DEF Serve, FailToAnswer
<1>3. ASSUME NEW c \in Clients, NEW r \in Requests, AskInProcess(c, r) PROVE Ties'
  BY <1>3, OwnStepTies DEF AskInProcess, At
<1>4. ASSUME NEW c \in Clients, NEW r \in Requests, Speak(c, r) PROVE Ties'
  BY <1>4, SpeakTies
<1>5. ASSUME NEW c \in Clients, Connect(c) \/ Work(c) \/ Interrupt(c) PROVE Ties'
  BY <1>5, HostFacts, ConnectTies, WorkTies, InterruptTies
<1>6. ASSUME NEW c \in Clients, ReturnAnswer(c) PROVE Ties'
  BY <1>6, OwnStepTies DEF ReturnAnswer, At
<1>7. CASE KillDaemon BY <1>7, EndDaemonTies DEF KillDaemon
<1>8. CASE StartDaemon
  <2>1. /\ worker'[Daemon].connection = worker[Daemon].connection /\ queue' = queue
        /\ \A g \in Clients : worker'[g] = worker[g]
    BY <1>8, ConnectionsAreTyped, HostFacts DEF StartDaemon, Worker
  <2> QED BY <2>1, TiesStay
<1> QED BY <1>1, <1>2, <1>3, <1>4, <1>5, <1>6, <1>7, <1>8 DEF Next

LEMMA InitTies == Init => Ties
BY HostFacts, ConnectionFacts, GoneIsWorker DEF Init, Ties, Tied

----------------------------------------------------------------------------
(* The records of orders *)

Recorded(n) ==
  \/ \E k \in DOMAIN history : history[k].nr = n
  \/ <<"history", n>> \in excused
  \/ \E h \in Hosts : At(h, "record") /\ Number(h) = n

(***************************************************************************)
(* Orders are recorded, and the one line that can still be spoilt, a last  *)
(* one that was cut short, is of a request whose record was excused then.  *)
(***************************************************************************)
RecordInv ==
  /\ \A n \in Range(broker) : Recorded(n)
  /\ \A k \in DOMAIN history :
       ~history[k].ended => history[k].nr = 0 \/ <<"history", history[k].nr>> \in excused

LEMMA RecordInvIsEnough == RecordInv => OrdersAreRecorded
BY DEF RecordInv, Recorded, OrdersAreRecorded

\* Steps that keep the files, and leave alone whoever is recording.
LEMMA BystandersKeepRecords ==
  ASSUME RecordInv, UNCHANGED <<history, broker>>, excused \subseteq excused',
         \A h \in Hosts : At(h, "record") =>
           \/ At(h, "record")' /\ Number(h)' = Number(h)
           \/ <<"history", Number(h)>> \in excused'
  PROVE  RecordInv'
<1>1. \A n : Recorded(n) => Recorded(n)'
  <2> SUFFICES ASSUME NEW n, Recorded(n) PROVE Recorded(n)' OBVIOUS
  <2>1. CASE \E k \in DOMAIN history : history[k].nr = n BY <2>1 DEF Recorded
  <2>2. CASE <<"history", n>> \in excused BY <2>2 DEF Recorded
  <2>3. CASE \E h \in Hosts : At(h, "record") /\ Number(h) = n BY <2>3 DEF Recorded
  <2> QED BY <2>1, <2>2, <2>3 DEF Recorded
<1>2. Range(broker)' = Range(broker) BY DEF Range
<1> QED BY <1>1, <1>2 DEF RecordInv

LEMMA WorkKeepsRecords ==
  ASSUME TypeInv, RecordInv, NEW h \in Hosts, Work(h) \/ (FailToParse /\ h = Daemon),
         ~Send(h), ~Record(h)
  PROVE  RecordInv'
<1>1. /\ UNCHANGED <<history, broker>> /\ excused \subseteq excused'
      /\ worker[h].stage # "record"
  <2>1. CASE FailToParse /\ h = Daemon
    BY <2>1 DEF FailToParse, Received, At, historyVars
  <2>2. CASE Authorize(h)
    BY <2>2 DEF Authorize, Received, At, log_audit_event, Excuse
  <2>3. CASE Answer(h) BY <2>3 DEF Answer, At, Excuse
  <2>4. CASE get_ai_platform(h) \/ FailToLoad(h)
    BY <2>4 DEF get_ai_platform, FailToLoad, MakesPlatform, At, historyVars
  <2>5. CASE Consult(h) \/ FailToEvaluate(h) \/ NoProposal(h) \/ Block(h) \/ Approve(h)
    BY <2>5 DEF Consult, FailToEvaluate, NoProposal, Block, Approve,
                Proposing, HasPlatform, At, historyVars
  <2> QED BY <2>1, <2>2, <2>3, <2>4, <2>5 DEF Work
<1>2. ASSUME NEW g \in Hosts, At(g, "record")
      PROVE  At(g, "record")' /\ Number(g)' = Number(g)
  <2>1. g # h BY <1>1, <1>2 DEF At
  <2> QED BY <1>2, <2>1, WorkFacts DEF At, Number
<1> QED BY <1>1, <1>2, BystandersKeepRecords

\* The engine sends an order before it records anything.
LEMMA SendKeepsRecords ==
  ASSUME TypeInv, RecordInv, NEW h \in Hosts, Send(h)
  PROVE  RecordInv'
<1>1. worker \in [Hosts -> Worker] BY ConnectionsAreTyped
<1>2. /\ worker'[h].stage = "record" /\ worker'[h].connection = worker[h].connection
      /\ \A g \in Hosts \ {h} : worker'[g] = worker[g]
      /\ worker[h].stage = "send" /\ UNCHANGED <<history, excused>>
  BY <1>1 DEF Send, Proceed, Worker, At, historyVars
<1>3. \A n : n = Number(h) => Recorded(n)' BY <1>2 DEF Recorded, At, Number
<1>4. ASSUME NEW n, Recorded(n) PROVE Recorded(n)'
  <2>1. CASE \E k \in DOMAIN history : history[k].nr = n BY <1>2, <2>1 DEF Recorded
  <2>2. CASE <<"history", n>> \in excused BY <1>2, <2>2 DEF Recorded
  <2>3. CASE \E g \in Hosts : At(g, "record") /\ Number(g) = n
    BY <1>2, <2>3 DEF Recorded, At, Number
  <2> QED BY <1>4, <2>1, <2>2, <2>3 DEF Recorded
<1>5. \A n \in Range(broker') : n \in Range(broker) \/ n = Number(h)
  <2>1. CASE broker' = Append(broker, Number(h))
    <3>1. broker \in Seq(Numbers) /\ Number(h) \in Numbers
      BY <1>2, NumberFacts DEF TypeInv, Traces, Busy
    <3> QED BY <2>1, <3>1, Appended DEF Range
  <2> QED BY <2>1 DEF Send, Range
<1>6. \A n \in Range(broker') : Recorded(n)'
  BY <1>3, <1>4, <1>5 DEF RecordInv
<1>7. \A k \in DOMAIN history' :
        ~history'[k].ended => history'[k].nr = 0 \/ <<"history", history'[k].nr>> \in excused'
  BY <1>2 DEF RecordInv
<1> QED BY <1>6, <1>7 DEF RecordInv

LEMMA RecordKeepsRecords ==
  ASSUME TypeInv, RecordInv, NEW h \in Hosts, Record(h)
  PROVE  RecordInv'
<1> DEFINE n == Number(h)
<1>1. /\ history \in Seq(Line) /\ n \in Nat /\ broker' = broker
      /\ \A m \in Range(broker) : m # 0
  <2>1. broker \in Seq(Numbers) /\ history \in Seq(Line) BY DEF TypeInv, Traces
  <2>2. \A m \in Numbers : m # 0 BY DEF Numbers
  <2>3. \A k \in DOMAIN broker : broker[k] \in Numbers BY <2>1
  <2>4. \A m \in Range(broker) : m \in Numbers BY <2>3 DEF Range
  <2> QED BY <2>1, <2>2, <2>4, NumberFacts DEF Record
<1>2. /\ excused \subseteq excused'
      /\ \/ <<"history", n>> \in excused'
         \/ ~Cut /\ history' = WithLine(n, TRUE)
      /\ \/ history' = history
         \/ \E nr \in {0, n}, e \in BOOLEAN :
              /\ history' = WithLine(nr, e)
              /\ e \/ <<"history", n>> \in excused'
  BY DEF Record, Excuse
<1>3. \A g \in Hosts \ {h} : /\ worker'[g].stage = worker[g].stage
                              /\ worker'[g].connection = worker[g].connection
  BY WorkFacts DEF Work
<1> HIDE DEF n
<1>4. ASSUME NEW m, m # 0, NEW k \in DOMAIN history, history[k].nr = m
      PROVE  <<"history", m>> \in excused' \/ \E j \in DOMAIN history' : history'[j].nr = m
  <2>1. CASE history' = history BY <1>4, <2>1
  <2>2. CASE ~history[k].ended BY <1>2, <1>4, <2>2 DEF RecordInv
  <2>3. CASE history' # history /\ history[k].ended
    <3>1. PICK nr \in {0, n}, e \in BOOLEAN : history' = WithLine(nr, e) BY <1>2, <2>3
    <3>2. k \in DOMAIN history' /\ history'[k] = history[k]
      BY <1>1, <2>3, <3>1, WithLineFacts
    <3> QED BY <1>4, <3>2
  <2> QED BY <2>1, <2>2, <2>3
<1>5. ASSUME NEW m, m = n PROVE Recorded(m)'
  <2>1. CASE <<"history", n>> \in excused' BY <1>5, <2>1 DEF Recorded
  <2>2. CASE ~Cut /\ history' = WithLine(n, TRUE)
    <3>1. PICK k \in DOMAIN history' : history'[k] = [nr |-> n, ended |-> TRUE]
      BY <1>1, <2>2, WithLineFacts
    <3> QED BY <1>5, <3>1 DEF Recorded
  <2> QED BY <1>2, <2>1, <2>2
<1>6. ASSUME NEW m \in Range(broker) PROVE Recorded(m)'
  <2>1. CASE \E k \in DOMAIN history : history[k].nr = m
    BY <1>1, <1>4, <2>1 DEF Recorded
  <2>2. CASE <<"history", m>> \in excused BY <1>2, <2>2 DEF Recorded
  <2>3. ASSUME NEW g \in Hosts, At(g, "record"), Number(g) = m PROVE Recorded(m)'
    <3>1. CASE g = h BY <1>5, <2>3, <3>1 DEF n
    <3>2. CASE g # h BY <1>3, <2>3, <3>2 DEF Recorded, At, Number
    <3> QED BY <3>1, <3>2
  <2> QED BY <2>1, <2>2, <2>3 DEF RecordInv, Recorded
<1>7. ASSUME NEW k \in DOMAIN history', ~history'[k].ended
      PROVE  history'[k].nr = 0 \/ <<"history", history'[k].nr>> \in excused'
  <2>1. CASE history' = history BY <1>2, <1>7, <2>1 DEF RecordInv
  <2>2. CASE history' # history
    <3>1. PICK nr \in {0, n}, e \in BOOLEAN :
            history' = WithLine(nr, e) /\ (e \/ <<"history", n>> \in excused')
      BY <1>2, <2>2
    <3>2. \/ k \in DOMAIN history /\ history'[k] = history[k]
          \/ history'[k] = [nr |-> 0, ended |-> e]
          \/ history'[k] = [nr |-> nr, ended |-> e]
      BY <1>1, <1>7, <3>1, WithLineFacts
    <3> QED BY <1>2, <1>7, <3>1, <3>2 DEF RecordInv
  <2> QED BY <2>1, <2>2
<1> QED BY <1>1, <1>6, <1>7 DEF RecordInv

\* Steps of clients on their connections, and the ends of processes.
LEMMA OtherStepsKeepRecords ==
  ASSUME TypeInv, Ties, RecordInv,
         \/ Accept \/ ReceiveEmpty \/ SendAnswer \/ FailToAnswer \/ KillDaemon \/ StartDaemon
         \/ \E c \in Clients :
              \/ \E r \in Requests : AskInProcess(c, r) \/ Speak(c, r)
              \/ Connect(c) \/ ReturnAnswer(c) \/ Interrupt(c)
  PROVE  RecordInv'
<1>0. worker \in [Hosts -> Worker] /\ worker[Daemon] \in Worker /\ Daemon \in Hosts
  BY ConnectionsAreTyped, HostFacts
<1>1. UNCHANGED <<history, broker>> /\ excused \subseteq excused'
  BY DEF Accept, ReceiveEmpty, SendAnswer, FailToAnswer, KillDaemon, EndDaemon, StartDaemon,
         AskInProcess, Speak, Connect, ReturnAnswer, Interrupt, historyVars
<1> DEFINE Kept(g) == \/ At(g, "record")' /\ Number(g)' = Number(g)
                      \/ <<"history", Number(g)>> \in excused'
<1>2. ASSUME NEW g \in Hosts, At(g, "record") PROVE Kept(g)
  <2>1. CASE Accept
    BY <1>0, <1>2, <2>1 DEF Accept, At, Number
  <2>2. CASE ReceiveEmpty BY <1>0, <1>2, <2>2 DEF ReceiveEmpty, At, Number
  <2>3. CASE SendAnswer
    <3> DEFINE c == worker[Daemon].connection.client
    <3>1. c \in Clients BY <2>3, SendAnswerShape
    <3>2. At(c, "waiting") \/ At(c, "connected") BY <3>1 DEF Ties, Tied, At
    <3>3. g # c /\ g # Daemon BY <1>2, <2>3, <3>2 DEF SendAnswer, At
    <3>4. worker'[g] = worker[g] BY <1>0, <2>3, <3>3 DEF SendAnswer
    <3> QED BY <1>2, <3>4 DEF At, Number
  <2>4. CASE FailToAnswer
    <3>1. g # Daemon BY <1>2, <2>4 DEF FailToAnswer, At
    <3>2. worker'[g] = worker[g] BY <1>2, <2>4, <3>1 DEF FailToAnswer, EndDaemon, At
    <3> QED BY <1>2, <3>2 DEF At, Number
  <2>5. CASE KillDaemon
    <3>1. CASE g = Daemon BY <1>2, <2>5, <3>1 DEF KillDaemon, Unrecorded
    <3>2. CASE g # Daemon
      <4>1. worker'[g] = worker[g] BY <1>2, <2>5, <3>2 DEF KillDaemon, EndDaemon, At
      <4> QED BY <1>2, <4>1 DEF At, Number
    <3> QED BY <3>1, <3>2
  <2>6. CASE StartDaemon BY <1>0, <1>2, <2>6 DEF StartDaemon, At, Number
  <2>7. ASSUME NEW c \in Clients, NEW r \in Requests, AskInProcess(c, r) PROVE Kept(g)
    BY <1>0, <1>2, <2>7 DEF AskInProcess, At, Number
  <2>8. ASSUME NEW c \in Clients, NEW r \in Requests, Speak(c, r) PROVE Kept(g)
    <3>1. g # c BY <1>2, <2>8 DEF Speak, At
    <3>2. CASE g # Daemon
      <4>1. worker'[g] = worker[g] BY <1>0, <2>8, <3>1, <3>2 DEF Speak
      <4> QED BY <1>2, <4>1 DEF At, Number
    <3>3. CASE g = Daemon
      <4>1. Number(Daemon) # 0 BY <1>0, <1>2, <3>3, ShapeOfHost DEF TypeInv, Good, At, Busy, Number
      <4>2. Number(Daemon)' = Number(Daemon) BY <2>8, <4>1, SpeakTies
      <4>3. worker'[Daemon].stage = worker[Daemon].stage
        BY <1>0, <2>8, HostFacts DEF Speak, Worker
      <4> QED BY <1>2, <3>3, <4>2, <4>3 DEF At
    <3> QED BY <3>2, <3>3
  <2>9. ASSUME NEW c \in Clients, Connect(c) PROVE Kept(g)
    <3>1. g # c BY <1>2, <2>9 DEF Connect, At
    <3>2. worker'[g] = worker[g] BY <1>0, <2>9, <3>1 DEF Connect
    <3> QED BY <1>2, <3>2 DEF At, Number
  <2>10. ASSUME NEW c \in Clients, ReturnAnswer(c) PROVE Kept(g)
    <3>1. g # c BY <1>2, <2>10 DEF ReturnAnswer, At
    <3>2. worker'[g] = worker[g] BY <1>0, <2>10, <3>1 DEF ReturnAnswer
    <3> QED BY <1>2, <3>2 DEF At, Number
  <2>11. ASSUME NEW c \in Clients, Interrupt(c) PROVE Kept(g)
    <3>1. CASE g = c BY <1>2, <2>11, <3>1 DEF Interrupt, Unrecorded
    <3>2. CASE g # c /\ g # Daemon
      <4>1. worker'[g] = worker[g] BY <1>0, <2>11, <3>2 DEF Interrupt
      <4> QED BY <1>2, <4>1 DEF At, Number
    <3>3. CASE g = Daemon
      <4>1. Number(Daemon)' = Number(Daemon) BY <2>11, InterruptTies
      <4>2. worker'[Daemon].stage = worker[Daemon].stage
        BY <1>0, <2>11, HostFacts DEF Interrupt, Worker
      <4> QED BY <1>2, <3>3, <4>1, <4>2 DEF At
    <3> QED BY <3>1, <3>2, <3>3
  <2> QED BY <2>1, <2>2, <2>3, <2>4, <2>5, <2>6, <2>7, <2>8, <2>9, <2>10, <2>11
<1> QED BY <1>1, <1>2, BystandersKeepRecords

LEMMA RecordsKept == TypeInv /\ Ties /\ RecordInv /\ [Next]_vars => RecordInv'
<1> SUFFICES ASSUME TypeInv, Ties, RecordInv, [Next]_vars PROVE RecordInv' OBVIOUS
<1>1. CASE UNCHANGED vars
  BY <1>1, BystandersKeepRecords DEF vars, historyVars, At, Number
<1>2. ASSUME NEW h \in Hosts, Work(h) \/ (FailToParse /\ h = Daemon) PROVE RecordInv'
  BY <1>2, WorkKeepsRecords, SendKeepsRecords, RecordKeepsRecords
<1> QED BY <1>1, <1>2, HostFacts, OtherStepsKeepRecords DEF Next, Serve

LEMMA InitRecords == Init => RecordInv
BY DEF Init, RecordInv, Range

(***************************************************************************)
(* The record of every order sent is in the audit history or still to be   *)
(* written, but where the history was damaged: however many processes      *)
(* append to it, and whenever they die, a step of one never loses or hides *)
(* what another recorded (platform.py:376-386).                            *)
(***************************************************************************)
THEOREM AgentOrdersAreRecorded == Spec => []OrdersAreRecorded
<1> DEFINE Inv == TypeInv /\ Ties /\ RecordInv
<1>1. Init => Inv BY InitTypes, InitTies, InitRecords
<1>2. Inv /\ [Next]_vars => Inv' BY TypesKept, TiesKept, RecordsKept
<1>3. Inv => OrdersAreRecorded BY RecordInvIsEnough
<1> HIDE DEF Inv
<1> QED BY <1>1, <1>2, <1>3, PTL DEF Spec

LEMMA RecordOnlyAppends ==
  ASSUME TypeInv, [Next]_vars
  PROVE  \A k \in DOMAIN history : history[k].ended =>
           k \in DOMAIN history' /\ history'[k] = history[k]
<1> DEFINE Stays == \A k \in DOMAIN history : history[k].ended =>
                      k \in DOMAIN history' /\ history'[k] = history[k]
<1>1. ASSUME NEW h \in Hosts, Record(h) PROVE Stays
  <2>1. history \in Seq(Line) /\ Number(h) \in Nat
    BY NumberFacts DEF TypeInv, Traces
  <2>2. \/ history' = history
        \/ \E nr \in {0, Number(h)}, e \in BOOLEAN : history' = WithLine(nr, e)
    BY <1>1 DEF Record
  <2> QED BY <2>1, <2>2, WithLineFacts
<1>2. ASSUME NEW h \in Hosts, Work(h) PROVE Stays
  <2>1. CASE history' = history BY <2>1
  <2>2. Record(h) \/ history' = history
    BY <1>2 DEF Work, Authorize, Answer, get_ai_platform, FailToLoad, Consult, FailToEvaluate,
                NoProposal, Block, Approve, Send
  <2> QED BY <1>1, <1>2, <2>1, <2>2
<1>3. \/ UNCHANGED vars
      \/ \E h \in Hosts : Work(h)
      \/ history' = history
  BY HostFacts DEF Next, Serve, Accept, ReceiveEmpty, FailToParse, SendAnswer, FailToAnswer,
                   EndDaemon, AskInProcess, Speak, Connect, ReturnAnswer, Interrupt, KillDaemon,
                   StartDaemon
<1> QED BY <1>2, <1>3 DEF vars

(***************************************************************************)
(* No process changes or loses a finished line of the audit history,       *)
(* whoever else appends to it (platform.py:376-386).                       *)
(***************************************************************************)
THEOREM AgentRecordsStay == Spec => RecordsStay
<1>1. Init => TypeInv BY InitTypes
<1>2. TypeInv /\ [Next]_vars => TypeInv' BY TypesKept
<1>3. TypeInv /\ [Next]_vars =>
        [\A k \in DOMAIN history : history[k].ended =>
           k \in DOMAIN history' /\ history'[k] = history[k]]_vars
  BY RecordOnlyAppends
<1> QED BY <1>1, <1>2, <1>3, PTL DEF Spec, RecordsStay

----------------------------------------------------------------------------
(* Who holds a request *)

(***************************************************************************)
(* A request is held by one process, or by one connection that waits to be *)
(* accepted, and by no other.                                              *)
(***************************************************************************)
HeldApart ==
  /\ \A g, h \in Hosts : g # h /\ Number(g) # 0 => Number(g) # Number(h)
  /\ \A h \in Hosts, k \in DOMAIN queue : Number(h) # 0 => queue[k].nr # Number(h)
  /\ \A j, k \in DOMAIN queue : j # k /\ queue[j].nr # 0 => queue[j].nr # queue[k].nr

\* Steps after which everybody holds what it held, or nothing.
LEMMA NothingNewHeld ==
  ASSUME HeldApart,
         \A h \in Hosts : worker'[h].connection.nr \in {0, worker[h].connection.nr},
         \A k \in DOMAIN queue' : \/ queue'[k].nr = 0
                                  \/ k \in DOMAIN queue /\ queue'[k].nr = queue[k].nr
  PROVE  HeldApart'
<1>1. ASSUME NEW g \in Hosts, NEW h \in Hosts, g # h, worker'[g].connection.nr # 0
      PROVE  worker'[g].connection.nr # worker'[h].connection.nr
  BY <1>1 DEF HeldApart, Number
<1>2. ASSUME NEW h \in Hosts, NEW k \in DOMAIN queue', worker'[h].connection.nr # 0
      PROVE  queue'[k].nr # worker'[h].connection.nr
  BY <1>2 DEF HeldApart, Number
<1>3. ASSUME NEW j \in DOMAIN queue', NEW k \in DOMAIN queue', j # k, queue'[j].nr # 0
      PROVE  queue'[j].nr # queue'[k].nr
  BY <1>3 DEF HeldApart
<1> QED BY <1>1, <1>2, <1>3 DEF HeldApart, Number

LEMMA AcceptApart ==
  ASSUME TypeInv, HeldApart, Accept
  PROVE  HeldApart'
<1>1. worker \in [Hosts -> Worker] /\ queue \in Seq(Connection) /\ queue # <<>>
  BY ConnectionsAreTyped DEF Accept
<1>2. /\ worker'[Daemon].connection = Head(queue)
      /\ \A g \in Hosts \ {Daemon} : worker'[g] = worker[g]
  BY <1>1, HostFacts DEF Accept, Worker
<1>3. /\ Head(queue) = queue[1] /\ 1 \in DOMAIN queue
      /\ \A k \in DOMAIN queue' : /\ k \in Nat /\ k + 1 # 1 /\ k + 1 \in DOMAIN queue
                                  /\ queue'[k] = queue[k + 1]
  <2>1. queue' = Tail(queue) BY DEF Accept
  <2>2. Head(queue) = queue[1] /\ 1 \in DOMAIN queue BY <1>1
  <2>3. \A k \in DOMAIN Tail(queue) : /\ k \in Nat /\ k + 1 # 1 /\ k + 1 \in DOMAIN queue
                                      /\ Tail(queue)[k] = queue[k + 1]
    BY <1>1, HeadTailProperties
  <2> QED BY <2>1, <2>2, <2>3
<1>4. ASSUME NEW g \in Hosts, NEW h \in Hosts, g # h, worker'[g].connection.nr # 0
      PROVE  worker'[g].connection.nr # worker'[h].connection.nr
  BY <1>2, <1>3, <1>4 DEF HeldApart, Number
<1>5. ASSUME NEW h \in Hosts, NEW k \in DOMAIN queue', worker'[h].connection.nr # 0
      PROVE  queue'[k].nr # worker'[h].connection.nr
  <2>1. k + 1 # 1 /\ k + 1 \in DOMAIN queue /\ queue'[k] = queue[k + 1] BY <1>3
  <2> QED BY <1>2, <1>3, <1>5, <2>1 DEF HeldApart, Number
<1>6. ASSUME NEW j \in DOMAIN queue', NEW k \in DOMAIN queue', j # k, queue'[j].nr # 0
      PROVE  queue'[j].nr # queue'[k].nr
  <2>1. /\ j \in Nat /\ j + 1 \in DOMAIN queue /\ queue'[j] = queue[j + 1]
        /\ k \in Nat /\ k + 1 \in DOMAIN queue /\ queue'[k] = queue[k + 1]
    BY <1>3
  <2>2. j + 1 # k + 1 BY <1>6, <2>1
  <2> QED BY <1>6, <2>1, <2>2 DEF HeldApart
<1> QED BY <1>4, <1>5, <1>6 DEF HeldApart, Number

\* Nobody holds the next request yet.
LEMMA NextIsFree ==
  ASSUME TypeInv
  PROVE  /\ \A h \in Hosts : worker[h].connection.nr # Len(asked) + 1
         /\ \A k \in DOMAIN queue : queue[k].nr # Len(asked) + 1
         /\ Len(asked) + 1 # 0
<1>1. Len(asked) \in Nat BY AskedFacts
<1>2. \A h \in Hosts : worker[h].connection.nr \in Nat /\ worker[h].connection.nr <= Len(asked)
  BY NumberFacts, ShapeOfHost DEF TypeInv, Number, Good
<1>3. ASSUME NEW k \in DOMAIN queue PROVE queue[k].nr \in Nat /\ queue[k].nr <= Len(asked)
  <2>1. queue[k] \in Connection BY ConnectionsAreTyped DEF QueueFacts
  <2> QED BY <2>1 DEF TypeInv, Shape, Queued, Connection
<1> QED BY <1>1, <1>2, <1>3

LEMMA AskInProcessApart ==
  ASSUME TypeInv, HeldApart, NEW c \in Clients, NEW r \in Requests, AskInProcess(c, r)
  PROVE  HeldApart'
<1> DEFINE n == Len(asked) + 1
           v == [Gone EXCEPT !.stage = "receive", !.connection = [client |-> c, nr |-> n]]
<1>1. worker \in [Hosts -> Worker] /\ c \in Hosts BY ConnectionsAreTyped, HostFacts
<1>2. v.connection.nr = n BY DEF Gone
<1>3. worker' = [worker EXCEPT ![c] = v] /\ queue' = queue BY DEF AskInProcess
<1> HIDE DEF v
<1>4. /\ worker'[c].connection.nr = n
      /\ \A g \in Hosts \ {c} : worker'[g] = worker[g]
  BY <1>1, <1>2, <1>3
<1>5. ASSUME NEW g \in Hosts, NEW h \in Hosts, g # h, worker'[g].connection.nr # 0
      PROVE  worker'[g].connection.nr # worker'[h].connection.nr
  BY <1>4, <1>5, NextIsFree DEF HeldApart, Number
<1>6. ASSUME NEW h \in Hosts, NEW k \in DOMAIN queue', worker'[h].connection.nr # 0
      PROVE  queue'[k].nr # worker'[h].connection.nr
  BY <1>3, <1>4, <1>6, NextIsFree DEF HeldApart, Number
<1> QED BY <1>3, <1>5, <1>6 DEF HeldApart, Number

\* What the client's request does to the connections, its own and the others.
LEMMA SpeakFacts ==
  ASSUME TypeInv, NEW c \in Clients, NEW r \in Requests, Speak(c, r)
  PROVE  /\ \A h \in Hosts \ {Daemon} :
              worker'[h].connection.nr = worker[h].connection.nr
         /\ \A h \in Hosts \ {c} : /\ worker'[h].stage = worker[h].stage
                                   /\ worker'[h].reply = worker[h].reply
         /\ worker'[Daemon].connection.nr =
              IF worker[Daemon].connection.client = c THEN Len(asked) + 1
              ELSE worker[Daemon].connection.nr
         /\ DOMAIN queue' = DOMAIN queue
         /\ \A k \in DOMAIN queue :
              queue'[k].nr = IF queue[k].client = c THEN Len(asked) + 1 ELSE queue[k].nr
         /\ worker[c].connection.nr = 0
<1> DEFINE S(y) == OnConnection(c, y)
<1>1. /\ worker \in [Hosts -> Worker] /\ worker[Daemon].connection \in Connection
      /\ \A k \in DOMAIN queue : queue[k] \in Connection
      /\ queue' = [k \in DOMAIN queue |-> S(queue[k])]
      /\ c \in Hosts /\ c # Daemon /\ Daemon \in Hosts
  BY ConnectionsAreTyped, HostFacts DEF Speak, QueueFacts
<1>2. /\ worker'[c].connection = worker[c].connection
      /\ worker'[Daemon].connection = S(worker[Daemon].connection)
      /\ worker'[Daemon].stage = worker[Daemon].stage
      /\ worker'[Daemon].reply = worker[Daemon].reply
      /\ \A g \in Hosts \ {c, Daemon} : worker'[g] = worker[g]
  BY <1>1 DEF Speak, Worker
<1>3. ASSUME NEW y \in Connection
      PROVE  S(y).nr = IF y.client = c THEN Len(asked) + 1 ELSE y.nr
  BY DEF OnConnection, Connection
<1>4. worker[c].connection.nr = 0
  BY <1>1, ShapeOfHost, ConnectionFacts DEF TypeInv, Good, Speak, At, Busy
<1> HIDE DEF S
<1> QED BY <1>1, <1>2, <1>3, <1>4

LEMMA SpeakApart ==
  ASSUME TypeInv, Ties, HeldApart, NEW c \in Clients, NEW r \in Requests, Speak(c, r)
  PROVE  HeldApart'
<1> DEFINE n == Len(asked) + 1
<1>1. ASSUME NEW g \in Hosts, NEW h \in Hosts, g # h, worker'[g].connection.nr # 0
      PROVE  worker'[g].connection.nr # worker'[h].connection.nr
  BY <1>1, SpeakFacts, NextIsFree DEF HeldApart, Number
<1>2. ASSUME NEW h \in Hosts, NEW k \in DOMAIN queue', worker'[h].connection.nr # 0
      PROVE  queue'[k].nr # worker'[h].connection.nr
  <2>1. k \in DOMAIN queue BY SpeakFacts
  <2>2. queue[k].client = c => worker[Daemon].connection.client # c BY <2>1 DEF Ties, Apart
  <2> QED BY <1>2, <2>1, <2>2, SpeakFacts, NextIsFree DEF HeldApart, Number
<1>3. ASSUME NEW j \in DOMAIN queue', NEW k \in DOMAIN queue', j # k, queue'[j].nr # 0
      PROVE  queue'[j].nr # queue'[k].nr
  <2>1. j \in DOMAIN queue /\ k \in DOMAIN queue BY SpeakFacts
  <2>2. queue[j].client = c => queue[k].client # c BY <1>3, <2>1 DEF Ties, Apart
  <2> QED BY <1>3, <2>1, <2>2, SpeakFacts, NextIsFree DEF HeldApart
<1> QED BY <1>1, <1>2, <1>3 DEF HeldApart, Number

\* Ends of processes and of connections, and a connection without a request.
LEMMA EndsApart ==
  ASSUME TypeInv, HeldApart, ReceiveEmpty \/ SendAnswer \/ EndDaemon \/ StartDaemon
  PROVE  HeldApart'
<1>0. /\ worker \in [Hosts -> Worker] /\ worker[Daemon] \in Worker /\ NoConnection.nr = 0
      /\ Gone.connection.nr = 0 /\ Free.connection.nr = 0
  BY ConnectionsAreTyped, ConnectionFacts, GoneIsWorker DEF Free, Worker
<1>1. ASSUME ReceiveEmpty \/ SendAnswer \/ StartDaemon, NEW h \in Hosts
      PROVE  worker'[h].connection.nr \in {0, worker[h].connection.nr} /\ queue' = queue
  <2>1. CASE ReceiveEmpty BY <1>0, <2>1 DEF ReceiveEmpty
  <2>2. CASE SendAnswer BY <1>0, <2>2 DEF SendAnswer
  <2>3. CASE StartDaemon BY <1>0, <2>3 DEF StartDaemon, Worker
  <2> QED BY <1>1, <2>1, <2>2, <2>3
<1>2. ASSUME EndDaemon, NEW h \in Hosts
      PROVE  worker'[h].connection.nr \in {0, worker[h].connection.nr} /\ queue' = <<>>
  BY <1>0, <1>2 DEF EndDaemon
<1> QED BY <1>1, <1>2, HostFacts, NothingNewHeld

LEMMA ClientsApart ==
  ASSUME TypeInv, HeldApart, NEW c \in Clients, Connect(c) \/ ReturnAnswer(c) \/ Interrupt(c)
  PROVE  HeldApart'
<1>0. /\ worker \in [Hosts -> Worker] /\ worker[Daemon].connection \in Connection
      /\ queue \in Seq(Connection) /\ \A k \in DOMAIN queue : queue[k] \in Connection
      /\ Gone.connection.nr = 0 /\ c \in Hosts /\ Daemon \in Hosts /\ c # Daemon
  BY ConnectionsAreTyped, ConnectionFacts, GoneIsWorker, HostFacts DEF QueueFacts
<1>1. CASE Connect(c)
  <2> DEFINE x == [client |-> c, nr |-> 0]
  <2>1. x \in Connection /\ x.nr = 0 BY ConnectionFacts DEF Connection
  <2>2. queue' = Append(queue, x) BY <1>1 DEF Connect
  <2> HIDE DEF x
  <2>3. \A k \in DOMAIN queue' : queue'[k] = x \/ (k \in DOMAIN queue /\ queue'[k] = queue[k])
    <3>1. /\ Append(queue, x)[Len(queue) + 1] = x
          /\ \A k \in DOMAIN queue : Append(queue, x)[k] = queue[k]
          /\ \A k \in DOMAIN Append(queue, x) : k \in DOMAIN queue \/ k = Len(queue) + 1
      BY <1>0, <2>1, Appended
    <3> QED BY <2>2, <3>1
  <2>4. \A h \in Hosts : worker'[h].connection.nr = worker[h].connection.nr
    BY <1>0, <1>1 DEF Connect, Worker
  <2> QED BY <2>1, <2>3, <2>4, NothingNewHeld
<1>2. CASE ReturnAnswer(c)
  <2>1. \A h \in Hosts : worker'[h].connection.nr \in {0, worker[h].connection.nr}
    BY <1>0, <1>2 DEF ReturnAnswer
  <2> QED BY <1>2, <2>1, NothingNewHeld DEF ReturnAnswer
<1>3. CASE Interrupt(c)
  <2>1. \A h \in Hosts \ {c, Daemon} : worker'[h] = worker[h]
    BY <1>0, <1>3 DEF Interrupt
  <2>2. worker'[c] = Gone /\ worker'[Daemon].connection = Forget(c, worker[Daemon].connection)
    BY <1>0, <1>3 DEF Interrupt, Worker
  <2>3. queue' = [k \in DOMAIN queue |-> Forget(c, queue[k])] BY <1>3 DEF Interrupt
  <2>4. \A h \in Hosts : worker'[h].connection.nr \in {0, worker[h].connection.nr}
    BY <1>0, <2>1, <2>2, ForgetFacts
  <2>5. \A k \in DOMAIN queue' : k \in DOMAIN queue /\ queue'[k].nr = queue[k].nr
    BY <1>0, <2>3, ForgetFacts
  <2> QED BY <2>4, <2>5, NothingNewHeld
<1> QED BY <1>1, <1>2, <1>3

LEMMA WorkApart ==
  ASSUME TypeInv, HeldApart, NEW h \in Hosts, Work(h) \/ (FailToParse /\ h = Daemon)
  PROVE  HeldApart'
BY WorkFacts, NothingNewHeld

LEMMA ApartKept == TypeInv /\ Ties /\ HeldApart /\ [Next]_vars => HeldApart'
<1> SUFFICES ASSUME TypeInv, Ties, HeldApart, [Next]_vars PROVE HeldApart' OBVIOUS
<1>1. CASE UNCHANGED vars BY <1>1 DEF vars, HeldApart, Number
<1>2. CASE Serve
  BY <1>2, HostFacts, AcceptApart, EndsApart, WorkApart DEF Serve, FailToAnswer
<1>3. ASSUME NEW c \in Clients, NEW r \in Requests, AskInProcess(c, r) \/ Speak(c, r)
      PROVE  HeldApart'
  BY <1>3, AskInProcessApart, SpeakApart
<1>4. ASSUME NEW c \in Clients, Connect(c) \/ Work(c) \/ ReturnAnswer(c) \/ Interrupt(c)
      PROVE  HeldApart'
  BY <1>4, HostFacts, ClientsApart, WorkApart
<1>5. CASE KillDaemon \/ StartDaemon BY <1>5, EndsApart DEF KillDaemon
<1> QED BY <1>1, <1>2, <1>3, <1>4, <1>5 DEF Next

LEMMA InitApart == Init => HeldApart
BY ConnectionFacts, GoneIsWorker DEF Init, HeldApart, Number

----------------------------------------------------------------------------
(* What the files say of a request *)

Earned(n) ==
  LET r == asked[n] IN
  /\ r.action = "agent.propose"
  /\ r.user = Root \/ Groups[r.user] \cap {"trader", "research", "wheel"} # {}
  /\ r.input.agent \in {"vincent", "xiphos", "researcher"}
  /\ r.input.news # "suspicious" /\ r.input.price > 0

Protected(n) ==
  /\ asked[n].action # "risk.modify_limits"
  /\ asked[n].action = "services.stop" => asked[n].subject # "riskd"
  /\ asked[n].action = "package.remove" /\ asked[n].subject = "core"
       => <<"catalog", n>> \in excused

Logged(n) == <<n, TRUE>> \in Range(log) \/ <<"log", n>> \in excused

Refused(n) ==
  \/ <<n, FALSE>> \in Range(log) /\ <<n, TRUE>> \notin Range(log)
  \/ <<"log", n>> \in excused

\* Nobody has done anything for the request.
Unheard(n) == n \notin Range(broker) /\ <<n, TRUE>> \notin Range(log)

\* What the files say where a request is answered, or is to be answered, with reply.
Justified(n, reply) ==
  /\ reply \in {"success", "completed", "blocked"} => Logged(n)
  /\ reply = "success" =>
       Protected(n) /\ (asked[n].action = "agent.propose" => n \in Range(broker))
  /\ reply \in {"completed", "blocked", "error", "denied"} => n \notin Range(broker)
  /\ reply = "denied" => Refused(n)

\* What they say of the request that h holds, stage by stage.
InStep(h) ==
  LET n == Number(h) IN
  /\ answers[n] = "none"
  /\ At(h, "receive") => Unheard(n)
  /\ At(h, "dispatch") \/ At(h, "send") => Logged(n) /\ n \notin Range(broker)
  /\ At(h, "dispatch") => Authorized(h, asked[n])
  /\ At(h, "send") => Earned(n) /\ worker[h].reply = "success"
  /\ At(h, "record") \/ At(h, "answer") => Justified(n, worker[h].reply)

Story ==
  /\ \A k \in DOMAIN queue :
       queue[k].nr # 0 => answers[queue[k].nr] = "none" /\ Unheard(queue[k].nr)
  /\ \A h \in Hosts : Number(h) # 0 => InStep(h)
  /\ \A n \in Numbers : Justified(n, answers[n])
  /\ \A n \in Range(broker) : Earned(n) /\ Logged(n)
  /\ IsInjective(broker)

\* A step that leaves alone what the files say of request n.
Spared(n) ==
  /\ asked'[n] = asked[n]
  /\ n \in Range(broker') <=> n \in Range(broker)
  /\ \A verdict \in BOOLEAN : <<n, verdict>> \in Range(log') <=> <<n, verdict>> \in Range(log)
  /\ \A file : <<file, n>> \in excused => <<file, n>> \in excused'

LEMMA SparedFacts ==
  ASSUME NEW n, Spared(n)
  PROVE  /\ Earned(n) => Earned(n)'
         /\ Logged(n) => Logged(n)'
         /\ Unheard(n) => Unheard(n)'
         /\ \A reply : Justified(n, reply) => Justified(n, reply)'
<1>1. Earned(n) => Earned(n)' BY DEF Spared, Earned
<1>2. Logged(n) => Logged(n)' BY DEF Spared, Logged
<1>3. Unheard(n) => Unheard(n)' BY DEF Spared, Unheard
<1>4. Refused(n) => Refused(n)' BY DEF Spared, Refused
<1>5. Protected(n) => Protected(n)' BY DEF Spared, Protected
<1>6. ASSUME NEW reply, Justified(n, reply) PROVE Justified(n, reply)'
  BY <1>2, <1>4, <1>5, <1>6 DEF Spared, Justified
<1> QED BY <1>1, <1>2, <1>3, <1>6

\* A process that stays where it is keeps its place in the story.
LEMMA StaysInStep ==
  ASSUME TypeInv, NEW h \in Hosts, Number(h) # 0, InStep(h), Spared(Number(h)),
         answers'[Number(h)] = answers[Number(h)],
         worker'[h].stage = worker[h].stage,
         worker'[h].connection.nr = worker[h].connection.nr,
         worker'[h].reply = worker[h].reply
  PROVE  InStep(h)'
<1>1. \A n : n = Number(h) =>
        /\ Earned(n) => Earned(n)'
        /\ Logged(n) => Logged(n)'
        /\ Unheard(n) => Unheard(n)'
        /\ \A reply : Justified(n, reply) => Justified(n, reply)'
  BY SparedFacts
<1>2. Number(h)' = Number(h) BY DEF Number
<1>3. \A n : n = Number(h) => (Authorized(h, asked[n]) => Authorized(h, asked[n])')
  BY DEF Spared, Authorized
<1>4. \A n : n = Number(h) => (n \notin Range(broker) => n \notin Range(broker)')
  BY DEF Spared, Range
<1> QED BY <1>1, <1>2, <1>3, <1>4 DEF InStep, At

\* Steps that do nothing for any request: they make one, pass it on or answer it.
LEMMA StoryPassedOn ==
  ASSUME TypeInv, Story, UNCHANGED <<log, broker>>, excused \subseteq excused',
         \A n \in Numbers : asked'[n] = asked[n],
         \A h \in Hosts : worker'[h].connection.nr # 0 =>
           \/ /\ worker'[h].connection.nr = worker[h].connection.nr
              /\ worker'[h].stage = worker[h].stage /\ worker'[h].reply = worker[h].reply
              /\ answers'[worker[h].connection.nr] = answers[worker[h].connection.nr]
           \/ /\ worker'[h].stage = "receive"
              /\ answers'[worker'[h].connection.nr] = "none"
              /\ Unheard(worker'[h].connection.nr),
         \A k \in DOMAIN queue' : queue'[k].nr # 0 =>
           answers'[queue'[k].nr] = "none" /\ Unheard(queue'[k].nr),
         \A n \in Numbers' :
           \/ answers'[n] \in {"none", "lost"}
           \/ n \in Numbers /\ (answers'[n] = answers[n] \/ Justified(n, answers'[n]))
  PROVE  Story'
<1>1. \A n \in Numbers : Spared(n) BY DEF Spared
<1>3. \A k \in DOMAIN queue' :
        (queue[k].nr # 0 => answers[queue[k].nr] = "none" /\ Unheard(queue[k].nr))'
  BY DEF Unheard
<1>4. ASSUME NEW h \in Hosts, Number(h)' # 0 PROVE InStep(h)'
  <2>1. CASE worker'[h].stage = "receive"
    <3>1. answers'[Number(h)'] = "none" /\ Unheard(Number(h)')
      <4>1. CASE worker'[h].connection.nr = worker[h].connection.nr
                 /\ worker'[h].stage = worker[h].stage
                 /\ answers'[worker[h].connection.nr] = answers[worker[h].connection.nr]
        BY <1>4, <2>1, <4>1 DEF Story, InStep, At, Number
      <4> QED BY <1>4, <4>1 DEF Number
    <3> QED BY <2>1, <3>1 DEF InStep, At, Unheard
  <2>2. CASE worker'[h].stage # "receive"
    <3>1. /\ Number(h) # 0 /\ Number(h) \in Numbers /\ InStep(h)
          /\ answers'[Number(h)] = answers[Number(h)]
          /\ worker'[h].connection.nr = worker[h].connection.nr
          /\ worker'[h].stage = worker[h].stage /\ worker'[h].reply = worker[h].reply
      BY <1>4, <2>2, NumberFacts DEF Story, Number
    <3> QED BY <1>1, <3>1, StaysInStep
  <2> QED BY <2>1, <2>2
<1>5. ASSUME NEW n \in Numbers' PROVE Justified(n, answers[n])'
  <2>1. CASE answers'[n] \in {"none", "lost"} BY <2>1 DEF Justified
  <2>2. CASE n \in Numbers /\ Justified(n, answers'[n])
    <3>1. \A reply : Justified(n, reply) => Justified(n, reply)' BY <1>1, <2>2, SparedFacts
    <3> QED BY <2>2, <3>1
  <2> QED BY <2>1, <2>2, <1>5 DEF Story
<1>6. ASSUME NEW n \in Range(broker') PROVE Earned(n)' /\ Logged(n)'
  <2>1. n \in Range(broker) BY <1>6
  <2>2. n \in Numbers BY <2>1 DEF TypeInv, Traces, Range
  <2> QED BY <1>1, <2>1, <2>2, SparedFacts DEF Story
<1>7. IsInjective(broker)' BY DEF Story, IsInjective
<1> QED BY <1>3, <1>4, <1>5, <1>6, <1>7 DEF Story

\* The next request is a new one for everybody and every file.
LEMMA NewRequest ==
  ASSUME TypeInv, NEW r \in Requests, Len(asked) < MaxRequests,
         asked' = Append(asked, r), answers' = Append(answers, "none")
  PROVE  LET n == Len(asked) + 1 IN
         /\ Unheard(n) /\ answers'[n] = "none"
         /\ \A m \in Numbers : asked'[m] = asked[m] /\ answers'[m] = answers[m]
         /\ \A m \in Numbers' : m \in Numbers \/ m = n
<1> DEFINE n == Len(asked) + 1
<1>1. /\ Len(asked) \in Nat /\ Numbers = 1..Len(asked) /\ Len(answers) = Len(asked)
      /\ asked \in Seq(Requests) /\ answers \in Seq(Replies \cup {"lost"})
  BY AskedFacts DEF TypeInv, Traces, Numbers
<1>2. n \notin Numbers BY <1>1
<1>3. Unheard(n)
  <2>1. Range(broker) \subseteq Numbers BY DEF TypeInv, Traces, Range
  <2>2. Range(log) \subseteq Numbers \X BOOLEAN BY DEF TypeInv, Traces, Range
  <2> QED BY <1>2, <2>1, <2>2 DEF Unheard
<1>4. "none" \in Replies \cup {"lost"} BY DEF Replies
<1>5. /\ answers'[n] = "none"
      /\ \A m \in DOMAIN answers : answers'[m] = answers[m]
  BY <1>1, <1>4, Appended
<1>6. /\ \A m \in DOMAIN asked : asked'[m] = asked[m]
      /\ Len(asked') = n
  BY <1>1, Appended
<1>7. DOMAIN asked = Numbers /\ DOMAIN answers = Numbers BY <1>1
<1>8. \A m \in Numbers' : m \in Numbers \/ m = n BY <1>1, <1>6 DEF Numbers
<1> QED BY <1>3, <1>5, <1>6, <1>7, <1>8

LEMMA AskingKeepsStory ==
  ASSUME TypeInv, Ties, Story, NEW c \in Clients, NEW r \in Requests,
         AskInProcess(c, r) \/ Speak(c, r)
  PROVE  Story'
<1> DEFINE n == Len(asked) + 1
<1>1. /\ Len(asked) < MaxRequests
      /\ asked' = Append(asked, r) /\ answers' = Append(answers, "none")
      /\ UNCHANGED <<log, broker, excused>>
  BY DEF AskInProcess, Speak, historyVars
<1>2. /\ Unheard(n) /\ answers'[n] = "none"
      /\ \A m \in Numbers : asked'[m] = asked[m] /\ answers'[m] = answers[m]
      /\ \A m \in Numbers' : m \in Numbers \/ m = n
  BY <1>1, NewRequest
<1>3. ASSUME NEW k \in DOMAIN queue, queue[k].nr # 0 PROVE queue[k].nr \in Numbers
  <2>1. queue[k] \in Connection /\ queue[k].nr <= Len(asked)
    BY ConnectionsAreTyped DEF QueueFacts, TypeInv, Shape, Queued
  <2> QED BY <1>3, <2>1, AskedFacts DEF Numbers, Connection
<1> HIDE DEF n
<1>4. ASSUME NEW h \in Hosts, worker'[h].connection.nr # 0
      PROVE  \/ /\ worker'[h].connection.nr = worker[h].connection.nr
                /\ worker'[h].stage = worker[h].stage /\ worker'[h].reply = worker[h].reply
                /\ answers'[worker[h].connection.nr] = answers[worker[h].connection.nr]
             \/ /\ worker'[h].stage = "receive"
                /\ answers'[worker'[h].connection.nr] = "none"
                /\ Unheard(worker'[h].connection.nr)
  <2>0. /\ worker \in [Hosts -> Worker]
        /\ worker[h].connection.nr # 0 => worker[h].connection.nr \in Numbers
    BY ConnectionsAreTyped, NumberFacts DEF Number
  <2>1. CASE AskInProcess(c, r)
    <3> DEFINE v == [Gone EXCEPT !.stage = "receive", !.connection = [client |-> c, nr |-> n]]
    <3>1. v.stage = "receive" /\ v.connection.nr = n BY DEF Gone
    <3>2. worker' = [worker EXCEPT ![c] = v] BY <2>1 DEF AskInProcess, n
    <3> HIDE DEF v
    <3> QED BY <1>2, <1>4, <2>0, <3>1, <3>2
  <2>2. CASE Speak(c, r) /\ worker'[h].connection.nr = worker[h].connection.nr
    BY <1>2, <1>4, <2>0, <2>2, SpeakFacts
  <2>3. CASE Speak(c, r) /\ worker'[h].connection.nr # worker[h].connection.nr
    <3>1. /\ h = Daemon /\ worker'[h].connection.nr = n
          /\ worker[Daemon].connection.client = c
          /\ worker'[Daemon].stage = worker[Daemon].stage
      BY <2>3, HostFacts, SpeakFacts DEF n
    <3>2. worker[Daemon].connection # NoConnection /\ worker[Daemon].connection.nr = 0
      <4>1. worker[c].stage = "connected" BY <2>3 DEF Speak, At
      <4> QED BY <3>1, <4>1, HostFacts, ConnectionFacts DEF Ties, Tied
    <3>3. worker[Daemon].stage = "receive"
      BY <3>2, HostFacts, ShapeOfHost DEF TypeInv, Good
    <3> QED BY <1>2, <3>1, <3>3
  <2> QED BY <1>1, <2>1, <2>2, <2>3
<1>5. ASSUME NEW k \in DOMAIN queue', queue'[k].nr # 0
      PROVE  answers'[queue'[k].nr] = "none" /\ Unheard(queue'[k].nr)
  <2>1. k \in DOMAIN queue /\ queue'[k].nr \in {queue[k].nr, n}
    <3>1. CASE AskInProcess(c, r) BY <3>1 DEF AskInProcess
    <3>2. CASE Speak(c, r) BY <3>2, SpeakFacts DEF n
    <3> QED BY <3>1, <3>2
  <2>2. CASE queue'[k].nr = n BY <1>2, <2>2
  <2>3. CASE queue'[k].nr = queue[k].nr BY <1>2, <1>3, <1>5, <2>1, <2>3 DEF Story
  <2> QED BY <2>1, <2>2, <2>3
<1>6. \A m \in Numbers' :
        \/ answers'[m] \in {"none", "lost"}
        \/ m \in Numbers /\ (answers'[m] = answers[m] \/ Justified(m, answers'[m]))
  BY <1>2
<1> QED BY <1>1, <1>2, <1>4, <1>5, <1>6, StoryPassedOn

\* One request is answered, by the process that holds it.
LEMMA AnsweringKeepsStory ==
  ASSUME TypeInv, HeldApart, Story, NEW h \in Hosts, At(h, "answer"),
         UNCHANGED <<queue, asked, log, broker, excused>>,
         NEW reply, reply \in {worker[h].reply, "lost"},
         answers' = [answers EXCEPT ![Number(h)] = reply],
         worker'[h].connection.nr = 0,
         \A g \in Hosts : worker'[g].connection.nr = 0 \/ worker'[g] = worker[g]
  PROVE  Story'
<1>1. /\ Number(h) \in Numbers /\ Number(h) # 0 /\ DOMAIN answers = Numbers
      /\ Justified(Number(h), worker[h].reply)
  BY NumberFacts, AskedFacts DEF At, Busy, Story, InStep
<1>2. \A n \in Numbers : answers'[n] = IF n = Number(h) THEN reply ELSE answers[n]
  BY <1>1
<1>3. ASSUME NEW g \in Hosts, worker'[g].connection.nr # 0
      PROVE  /\ worker'[g] = worker[g]
             /\ answers'[worker[g].connection.nr] = answers[worker[g].connection.nr]
  <2>1. worker'[g] = worker[g] /\ g # h BY <1>3
  <2>2. Number(g) # Number(h) /\ Number(g) \in Numbers
    BY <1>3, <2>1, NumberFacts DEF HeldApart, Number
  <2> QED BY <1>2, <2>1, <2>2 DEF Number
<1>4. ASSUME NEW k \in DOMAIN queue', queue'[k].nr # 0
      PROVE  answers'[queue'[k].nr] = "none" /\ Unheard(queue'[k].nr)
  <2>1. k \in DOMAIN queue /\ queue'[k] = queue[k] OBVIOUS
  <2>2. queue[k].nr # Number(h) BY <1>1, <2>1 DEF HeldApart
  <2>3. answers'[queue[k].nr] = answers[queue[k].nr] BY <2>2
  <2> QED BY <1>4, <2>1, <2>3 DEF Story
<1>5. ASSUME NEW n \in Numbers'
      PROVE  \/ answers'[n] \in {"none", "lost"}
             \/ n \in Numbers /\ (answers'[n] = answers[n] \/ Justified(n, answers'[n]))
  <2>1. n \in Numbers BY DEF Numbers
  <2> QED BY <1>1, <1>2, <2>1
<1> QED BY <1>3, <1>4, <1>5, StoryPassedOn

\* The daemon goes, and the requests that wait for it are lost.
LEMMA EndDaemonKeepsStory ==
  ASSUME TypeInv, HeldApart, Story, EndDaemon, excused \subseteq excused'
  PROVE  Story'
<1>0. /\ worker[Daemon].connection \in Connection
      /\ \A k \in DOMAIN queue : queue[k] \in Connection
  BY ConnectionsAreTyped DEF QueueFacts
<1>1. /\ queue' = <<>> /\ UNCHANGED <<asked, log, broker>>
      /\ answers' = [n \in Numbers |-> IF n \in Stranded THEN "lost" ELSE answers[n]]
      /\ Numbers' = Numbers
  BY DEF EndDaemon, Numbers
<1>2. ASSUME NEW g \in Hosts, worker'[g].connection.nr # 0
      PROVE  /\ worker'[g] = worker[g]
             /\ answers'[worker[g].connection.nr] = answers[worker[g].connection.nr]
  <2>1. worker'[g] = worker[g] /\ g # Daemon
    BY <1>2, GoneIsWorker, ConnectionFacts DEF EndDaemon
  <2>2. Number(g) \in Numbers /\ Number(g) # 0 BY <1>2, <2>1, NumberFacts DEF Number
  <2>3. Number(g) \notin Stranded
    <3>1. ASSUME Number(g) \in Stranded PROVE FALSE
      <4>1. PICK y \in Range(queue) \cup {worker[Daemon].connection} : Number(g) = y.nr
        BY <3>1 DEF Stranded
      <4>2. CASE y \in Range(queue)
        BY <2>2, <4>1, <4>2 DEF HeldApart, Range
      <4>3. CASE y = worker[Daemon].connection
        BY <2>1, <2>2, <4>1, <4>3, HostFacts DEF HeldApart, Number
      <4> QED BY <4>1, <4>2, <4>3
    <3> QED BY <3>1
  <2> QED BY <1>1, <2>1, <2>2, <2>3 DEF Number
<1>3. \A n \in Numbers' : answers'[n] = "lost" \/ (n \in Numbers /\ answers'[n] = answers[n])
  BY <1>1
<1>4. \A k \in DOMAIN queue' : FALSE BY <1>1
<1>5. \A n \in Numbers : asked'[n] = asked[n] BY <1>1
<1> HIDE DEF Numbers
<1> QED BY <1>1, <1>2, <1>3, <1>4, <1>5, StoryPassedOn

\* Steps on connections without a request in them, and of connections as they are.
LEMMA ConnectionsKeepStory ==
  ASSUME TypeInv, Story,
         \/ Accept \/ ReceiveEmpty \/ StartDaemon
         \/ \E c \in Clients : Connect(c) \/ Interrupt(c)
  PROVE  Story'
<1>0. /\ worker \in [Hosts -> Worker] /\ worker[Daemon] \in Worker
      /\ worker[Daemon].connection \in Connection
      /\ queue \in Seq(Connection) /\ \A k \in DOMAIN queue : queue[k] \in Connection
      /\ Gone.connection.nr = 0 /\ NoConnection.nr = 0 /\ Daemon \in Hosts
      /\ \A c \in Clients : c \in Hosts /\ c # Daemon
  BY ConnectionsAreTyped, ConnectionFacts, GoneIsWorker, HostFacts DEF QueueFacts
<1>1. /\ UNCHANGED <<asked, answers, log, broker>> /\ excused \subseteq excused'
      /\ Numbers' = Numbers
  BY DEF Accept, ReceiveEmpty, StartDaemon, Connect, Interrupt, historyVars, Numbers
<1> DEFINE Goes(h) == \/ worker'[h].connection.nr = 0
                      \/ /\ worker'[h].connection.nr = worker[h].connection.nr
                         /\ worker'[h].stage = worker[h].stage
                         /\ worker'[h].reply = worker[h].reply
           Comes(h) == /\ worker'[h].stage = "receive"
                       /\ \E k \in DOMAIN queue : worker'[h].connection = queue[k]
           Waits(k) == \/ queue'[k].nr = 0
                       \/ \E j \in DOMAIN queue : queue'[k].nr = queue[j].nr
           Moves == (\A h \in Hosts : Goes(h) \/ Comes(h)) /\ \A k \in DOMAIN queue' : Waits(k)
<1>2. ASSUME Accept PROVE Moves
  <2>1. /\ worker' = [worker EXCEPT ![Daemon].stage = "receive",
                                    ![Daemon].connection = Head(queue)]
        /\ queue # <<>> /\ queue' = Tail(queue)
    BY <1>2 DEF Accept
  <2>2. Head(queue) = queue[1] /\ 1 \in DOMAIN queue BY <1>0, <2>1
  <2>3. \A k \in DOMAIN Tail(queue) : k + 1 \in DOMAIN queue /\ Tail(queue)[k] = queue[k + 1]
    BY <1>0, <2>1, HeadTailProperties
  <2>4. worker'[Daemon].stage = "receive" /\ worker'[Daemon].connection = Head(queue)
    BY <1>0, <2>1 DEF Worker
  <2>5. \A h \in Hosts \ {Daemon} : worker'[h] = worker[h] BY <1>0, <2>1
  <2>6. \A h \in Hosts : Goes(h) \/ Comes(h) BY <2>2, <2>4, <2>5
  <2>7. \A k \in DOMAIN queue' : Waits(k) BY <2>1, <2>3
  <2> QED BY <2>6, <2>7
<1>3. ASSUME ReceiveEmpty PROVE Moves
  <2>1. Free.connection.nr = 0 BY <1>0 DEF Free, Worker
  <2>2. \A h \in Hosts : Goes(h) BY <1>0, <1>3, <2>1 DEF ReceiveEmpty
  <2> QED BY <1>3, <2>2 DEF ReceiveEmpty
<1>4. ASSUME StartDaemon PROVE Moves
  <2>1. worker' = [worker EXCEPT ![Daemon].stage = "free"] /\ queue' = queue
    BY <1>4 DEF StartDaemon
  <2>2. worker[Daemon].connection.nr = 0
    BY <1>0, <1>4, ShapeOfHost DEF StartDaemon, TypeInv, Good, At, Busy
  <2>3. worker'[Daemon].connection = worker[Daemon].connection BY <1>0, <2>1 DEF Worker
  <2>4. \A h \in Hosts : Goes(h) BY <1>0, <2>1, <2>2, <2>3
  <2> QED BY <2>1, <2>4
<1>5. ASSUME NEW c \in Clients, Connect(c) PROVE Moves
  <2> DEFINE x == [client |-> c, nr |-> 0]
  <2>1. /\ worker' = [worker EXCEPT ![c].stage = "connected"] /\ queue' = Append(queue, x)
        /\ worker[c].stage = "gone"
    BY <1>5 DEF Connect, At
  <2>2. worker[c].connection.nr = 0
    BY <1>0, <2>1, ShapeOfHost DEF TypeInv, Good, Busy
  <2>3. worker'[c].connection = worker[c].connection BY <1>0, <2>1 DEF Worker
  <2>4. \A h \in Hosts : Goes(h) BY <1>0, <2>1, <2>2, <2>3
  <2>5. x \in Connection /\ x.nr = 0 BY ConnectionFacts DEF Connection
  <2> HIDE DEF x
  <2>6. \A k \in DOMAIN queue' : queue'[k] = x \/ (k \in DOMAIN queue /\ queue'[k] = queue[k])
    <3>1. /\ Append(queue, x)[Len(queue) + 1] = x
          /\ \A k \in DOMAIN queue : Append(queue, x)[k] = queue[k]
          /\ \A k \in DOMAIN Append(queue, x) : k \in DOMAIN queue \/ k = Len(queue) + 1
      BY <1>0, <2>5, Appended
    <3> QED BY <2>1, <3>1
  <2> QED BY <2>4, <2>5, <2>6
<1>6. ASSUME NEW c \in Clients, Interrupt(c) PROVE Moves
  <2>1. /\ worker' = [worker EXCEPT ![c] = Gone, ![Daemon].connection = Forget(c, @)]
        /\ queue' = [k \in DOMAIN queue |-> Forget(c, queue[k])]
    BY <1>6 DEF Interrupt
  <2>2. /\ worker'[c] = Gone
        /\ worker'[Daemon].connection = Forget(c, worker[Daemon].connection)
        /\ worker'[Daemon].stage = worker[Daemon].stage
        /\ worker'[Daemon].reply = worker[Daemon].reply
    BY <1>0, <2>1 DEF Worker
  <2>3. \A h \in Hosts \ {c, Daemon} : worker'[h] = worker[h] BY <1>0, <2>1
  <2>4. worker'[Daemon].connection.nr = worker[Daemon].connection.nr
    BY <1>0, <2>2, ForgetFacts
  <2>5. \A h \in Hosts : Goes(h) BY <1>0, <2>2, <2>3, <2>4
  <2>6. \A k \in DOMAIN queue' : k \in DOMAIN queue /\ queue'[k].nr = queue[k].nr
    BY <1>0, <2>1, ForgetFacts
  <2> QED BY <2>5, <2>6
<1>7. Moves BY <1>2, <1>3, <1>4, <1>5, <1>6
<1>8. \A h \in Hosts : worker'[h].connection.nr # 0 =>
           \/ /\ worker'[h].connection.nr = worker[h].connection.nr
              /\ worker'[h].stage = worker[h].stage /\ worker'[h].reply = worker[h].reply
              /\ answers'[worker[h].connection.nr] = answers[worker[h].connection.nr]
           \/ /\ worker'[h].stage = "receive"
              /\ answers'[worker'[h].connection.nr] = "none"
              /\ Unheard(worker'[h].connection.nr)
  BY <1>1, <1>7 DEF Story
<1>9. \A k \in DOMAIN queue' : queue'[k].nr # 0 =>
        answers'[queue'[k].nr] = "none" /\ Unheard(queue'[k].nr)
  BY <1>1, <1>7 DEF Story
<1>10. /\ \A n \in Numbers : asked'[n] = asked[n]
       /\ \A n \in Numbers' : n \in Numbers /\ answers'[n] = answers[n]
  BY <1>1
<1> HIDE DEF Moves
<1> QED BY <1>1, <1>8, <1>9, <1>10, StoryPassedOn

LEMMA AnswersKeepStory ==
  ASSUME TypeInv, HeldApart, Story,
         SendAnswer \/ (\E c \in Clients : ReturnAnswer(c)) \/ FailToAnswer \/ KillDaemon
  PROVE  Story'
<1>0. /\ worker \in [Hosts -> Worker] /\ worker[Daemon] \in Worker
      /\ Gone.connection.nr = 0 /\ Free.connection.nr = 0 /\ Daemon \in Hosts
      /\ \A c \in Clients : c \in Hosts /\ c # Daemon
  BY ConnectionsAreTyped, ConnectionFacts, GoneIsWorker, HostFacts DEF Free, Worker
<1>1. CASE SendAnswer
  <2> DEFINE c == worker[Daemon].connection.client
  <2>1. /\ At(Daemon, "answer") /\ UNCHANGED <<queue, asked, log, broker, excused>>
        /\ \E reply \in {worker[Daemon].reply, "lost"} :
             answers' = [answers EXCEPT ![Number(Daemon)] = reply]
        /\ worker' = [worker EXCEPT ![Daemon] = Free, ![c] = Gone]
    BY <1>1 DEF SendAnswer, Number, historyVars
  <2>2. c \in Hosts /\ c # Daemon BY <1>0, <1>1, SendAnswerShape
  <2> HIDE DEF c
  <2>3. /\ worker'[Daemon].connection.nr = 0
        /\ \A g \in Hosts : worker'[g].connection.nr = 0 \/ worker'[g] = worker[g]
    BY <1>0, <2>1, <2>2
  <2> QED BY <1>0, <2>1, <2>3, AnsweringKeepsStory
<1>2. ASSUME NEW c \in Clients, ReturnAnswer(c) PROVE Story'
  <2>1. /\ At(c, "answer") /\ UNCHANGED <<queue, asked, log, broker, excused>>
        /\ answers' = [answers EXCEPT ![Number(c)] = worker[c].reply]
        /\ worker' = [worker EXCEPT ![c] = Gone]
    BY <1>2 DEF ReturnAnswer, historyVars
  <2>2. /\ worker'[c].connection.nr = 0
        /\ \A g \in Hosts : worker'[g].connection.nr = 0 \/ worker'[g] = worker[g]
    BY <1>0, <2>1
  <2> QED BY <1>0, <2>1, <2>2, AnsweringKeepsStory
<1>3. CASE FailToAnswer \/ KillDaemon
  BY <1>3, EndDaemonKeepsStory DEF FailToAnswer, KillDaemon
<1> QED BY <1>1, <1>2, <1>3

----------------------------------------------------------------------------
(* Work on a request *)

LEMMA AppendRange ==
  ASSUME NEW S, NEW q \in Seq(S), NEW x \in S
  PROVE  Range(Append(q, x)) = Range(q) \cup {x}
<1> DEFINE p == Append(q, x)
<1>1. /\ p[Len(q) + 1] = x /\ Len(q) + 1 \in DOMAIN p
      /\ \A k \in DOMAIN q : k \in DOMAIN p /\ p[k] = q[k]
      /\ \A k \in DOMAIN p : k \in DOMAIN q \/ k = Len(q) + 1
  <2>1. Len(q) \in Nat /\ p \in Seq(S) /\ Len(p) = Len(q) + 1 BY Appended
  <2>2. DOMAIN p = 1..Len(p) BY <2>1
  <2>3. Len(q) + 1 \in DOMAIN p BY <2>1, <2>2
  <2> QED BY <2>3, Appended
<1> HIDE DEF p
<1> QED BY <1>1 DEF Range

LEMMA WorkHolds ==
  ASSUME TypeInv, NEW h \in Hosts, Work(h) \/ (FailToParse /\ h = Daemon)
  PROVE  Number(h) \in Numbers /\ Number(h) # 0
<1>1. worker[h].stage \in Busy \/ Number(h) # 0
  <2>1. CASE Authorize(h) BY <2>1 DEF Authorize, Received
  <2>2. CASE FailToParse /\ h = Daemon BY <2>2 DEF FailToParse, Received
  <2>3. CASE Answer(h) BY <2>3 DEF Answer, At, Busy
  <2>4. CASE get_ai_platform(h) \/ FailToLoad(h)
    BY <2>4 DEF get_ai_platform, FailToLoad, MakesPlatform, At, Busy
  <2>5. CASE Consult(h) BY <2>5 DEF Consult, HasPlatform, At, Busy
  <2>6. CASE FailToEvaluate(h) \/ NoProposal(h) \/ Block(h) \/ Approve(h)
    BY <2>6 DEF FailToEvaluate, NoProposal, Block, Approve, Proposing, HasPlatform, At, Busy
  <2>7. CASE Send(h) \/ Record(h) BY <2>7 DEF Send, Record, At, Busy
  <2> QED BY <2>1, <2>2, <2>3, <2>4, <2>5, <2>6, <2>7 DEF Work
<1> QED BY <1>1, NumberFacts, AskedFacts

\* What a step of work changes in the files is about the request of h alone.
LEMMA WorkSpares ==
  ASSUME TypeInv, NEW h \in Hosts, Work(h) \/ (FailToParse /\ h = Daemon)
  PROVE  /\ UNCHANGED <<asked, answers, queue>>
         /\ Range(log) \subseteq Range(log') /\ excused \subseteq excused'
         /\ \A n : n # Number(h) => Spared(n)
         /\ \A g \in Hosts \ {h} : worker'[g].reply = worker[g].reply
<1>0. worker \in [Hosts -> Worker] BY ConnectionsAreTyped
<1>1. UNCHANGED <<asked, answers, queue>>
  BY DEF Work, FailToParse, Authorize, Answer, get_ai_platform, FailToLoad, Consult,
         FailToEvaluate, NoProposal, Block, Approve, Send, Record
<1>2. \/ log' = log
      \/ \E verdict \in BOOLEAN : log' = Append(log, <<Number(h), verdict>>)
  <2>1. CASE Authorize(h)
    <3>1. Authorized(h, Asked(h)) \in BOOLEAN BY DEF Authorized, check_authorization
    <3> QED BY <2>1, <3>1 DEF Authorize, log_audit_event
  <2>2. CASE ~Authorize(h)
    BY <2>2 DEF Work, FailToParse, Answer, get_ai_platform, FailToLoad, Consult,
           FailToEvaluate, NoProposal, Block, Approve, Send, Record
  <2> QED BY <2>1, <2>2
<1>3. broker' = broker \/ broker' = Append(broker, Number(h))
  BY DEF Work, FailToParse, Authorize, Answer, get_ai_platform, FailToLoad, Consult,
         FailToEvaluate, NoProposal, Block, Approve, Send, Record
<1>4. excused \subseteq excused'
  BY DEF Work, FailToParse, Authorize, Answer, get_ai_platform, FailToLoad, Consult,
         FailToEvaluate, NoProposal, Block, Approve, Send, Record, Excuse, log_audit_event,
         historyVars
<1>5. Number(h) \in Numbers BY WorkHolds
<1>6. /\ Range(log) \subseteq Range(log')
      /\ \A n : n # Number(h) => \A verdict \in BOOLEAN :
           <<n, verdict>> \in Range(log') <=> <<n, verdict>> \in Range(log)
  <2>1. CASE log' = log BY <2>1
  <2>2. ASSUME NEW verdict \in BOOLEAN, log' = Append(log, <<Number(h), verdict>>)
        PROVE  Range(log') = Range(log) \cup {<<Number(h), verdict>>}
    <3>1. log \in Seq(Numbers \X BOOLEAN) /\ <<Number(h), verdict>> \in Numbers \X BOOLEAN
      BY <1>5 DEF TypeInv, Traces
    <3> QED BY <2>2, <3>1, AppendRange
  <2> QED BY <1>2, <2>1, <2>2
<1>7. \A n : n # Number(h) => (n \in Range(broker') <=> n \in Range(broker))
  <2>1. CASE broker' = broker BY <2>1
  <2>2. CASE broker' = Append(broker, Number(h))
    <3>1. broker \in Seq(Numbers) BY DEF TypeInv, Traces
    <3>2. Range(broker') = Range(broker) \cup {Number(h)} BY <1>5, <2>2, <3>1, AppendRange
    <3> QED BY <3>2
  <2> QED BY <1>3, <2>1, <2>2
<1>8. ASSUME NEW g \in Hosts \ {h} PROVE worker'[g].reply = worker[g].reply
  <2>1. ASSUME NEW s, NEW r, Proceed(h, s, r) PROVE worker'[g] = worker[g]
    BY <1>0, <2>1 DEF Proceed
  <2>2. CASE get_ai_platform(h) BY <1>0, <2>2 DEF get_ai_platform
  <2>3. CASE Record(h)
    <3> DEFINE m == [worker[g] EXCEPT !.missed = @ \cup {Number(h)}]
    <3>1. worker'[g] = IF worker[g].loaded THEN m ELSE worker[g] BY <2>3 DEF Record
    <3>2. m.reply = worker[g].reply BY <1>0 DEF Worker
    <3> HIDE DEF m
    <3> QED BY <3>1, <3>2
  <2>4. CASE ~get_ai_platform(h) /\ ~Record(h)
    <3>1. \E s \in Busy, r \in Replies : Proceed(h, s, r)
      BY <2>4, ProceedsOnly DEF Work
    <3> QED BY <2>1, <3>1
  <2> QED BY <2>2, <2>3, <2>4
<1> QED BY <1>1, <1>4, <1>6, <1>7, <1>8 DEF Spared

(***************************************************************************)
(* A step of work keeps the story if h is in step after it, and what it    *)
(* sends to the broker was earned, authorized and not sent before.         *)
(***************************************************************************)
LEMMA WorkGoesOn ==
  ASSUME TypeInv, HeldApart, Story, NEW h \in Hosts, Work(h) \/ (FailToParse /\ h = Daemon),
         InStep(h)',
         \/ broker' = broker
         \/ /\ broker' = Append(broker, Number(h)) /\ Number(h) \notin Range(broker)
            /\ Earned(Number(h)) /\ Logged(Number(h))
  PROVE  Story'
<1>0. /\ Number(h) \in Numbers /\ Number(h) # 0 /\ answers[Number(h)] = "none"
      /\ broker \in Seq(Numbers)
  BY WorkHolds DEF Story, InStep, TypeInv, Traces
<1>1. /\ UNCHANGED <<asked, answers, queue>> /\ Numbers' = Numbers
      /\ Range(log) \subseteq Range(log') /\ excused \subseteq excused'
      /\ \A n : n # Number(h) => Spared(n)
  BY WorkSpares DEF Numbers
<1>2. \A g \in Hosts \ {h} : /\ worker'[g].reply = worker[g].reply
                             /\ worker'[g].stage = worker[g].stage
                             /\ worker'[g].connection.nr = worker[g].connection.nr
  BY WorkSpares, WorkFacts
<1>3. ASSUME NEW k \in DOMAIN queue'
      PROVE  (queue[k].nr # 0 => answers[queue[k].nr] = "none" /\ Unheard(queue[k].nr))'
  <2>1. k \in DOMAIN queue /\ queue'[k] = queue[k] BY <1>1
  <2>2. \A n : n = queue[k].nr /\ n # 0 => (answers[n] = "none" /\ Unheard(n))'
    BY <1>0, <1>1, <2>1, SparedFacts DEF Story, HeldApart
  <2> QED BY <1>1, <2>1, <2>2
<1>4. ASSUME NEW g \in Hosts, Number(g)' # 0 PROVE InStep(g)'
  <2>1. CASE g = h BY <2>1
  <2>2. CASE g # h
    <3>1. Number(g) # 0 /\ Number(g) # Number(h)
      BY <1>2, <1>4, <2>2 DEF HeldApart, Number
    <3>2. InStep(g) /\ Spared(Number(g)) BY <1>1, <3>1 DEF Story
    <3> QED BY <1>1, <1>2, <2>2, <3>1, <3>2, StaysInStep
  <2> QED BY <2>1, <2>2
<1>5. ASSUME NEW n \in Numbers' PROVE Justified(n, answers[n])'
  <2>1. CASE n = Number(h) BY <1>0, <1>1, <2>1 DEF Justified
  <2>2. CASE n # Number(h)
    <3>1. \A reply : Justified(n, reply) => Justified(n, reply)' BY <1>1, <2>2, SparedFacts
    <3>2. Justified(n, answers[n]) BY <1>1, <1>5 DEF Story
    <3> QED BY <1>1, <3>1, <3>2
  <2> QED BY <2>1, <2>2
<1>6. \A n : /\ Earned(n) => Earned(n)'
             /\ Logged(n) => Logged(n)'
  BY <1>1 DEF Earned, Logged
<1>7. ASSUME NEW n \in Range(broker') PROVE Earned(n)' /\ Logged(n)'
  <2>1. CASE broker' = broker BY <1>6, <1>7, <2>1 DEF Story
  <2>2. CASE broker' # broker
    <3>1. Range(broker') = Range(broker) \cup {Number(h)} BY <1>0, <2>2, AppendRange
    <3>2. n \in Range(broker) \/ n = Number(h) BY <1>7, <3>1
    <3>3. Earned(n) /\ Logged(n) BY <2>2, <3>2 DEF Story
    <3> QED BY <1>6, <3>3
  <2> QED BY <2>1, <2>2
<1>8. IsInjective(broker)'
  <2>1. CASE broker' = broker BY <2>1 DEF Story, IsInjective
  <2>2. CASE broker' # broker
    <3>1. /\ broker'[Len(broker) + 1] = Number(h)
          /\ \A k \in DOMAIN broker : broker'[k] = broker[k]
          /\ \A k \in DOMAIN broker' : k \in DOMAIN broker \/ k = Len(broker) + 1
      BY <1>0, <2>2, Appended
    <3>2. \A k \in DOMAIN broker : broker[k] # Number(h) BY <2>2 DEF Range
    <3>3. IsInjective(broker) BY DEF Story
    <3> QED BY <3>1, <3>2, <3>3 DEF IsInjective
  <2> QED BY <2>1, <2>2
<1> QED BY <1>3, <1>4, <1>5, <1>7, <1>8 DEF Story

\* Where a process that goes on comes to.
LEMMA ProceedFacts ==
  ASSUME TypeInv, NEW h \in Hosts, NEW s, NEW r, Proceed(h, s, r)
  PROVE  /\ worker'[h].stage = s /\ worker'[h].reply = r
         /\ worker'[h].connection = worker[h].connection
         /\ Number(h)' = Number(h)
BY ConnectionsAreTyped DEF Proceed, Worker, Number

LEMMA ToAnswer ==
  ASSUME TypeInv, Story, NEW h \in Hosts, Number(h) # 0, answers' = answers,
         NEW s \in {"record", "answer"}, NEW r, Proceed(h, s, r),
         \A n : n = Number(h) => Justified(n, r)'
  PROVE  InStep(h)'
<1>1. /\ worker'[h].stage = s /\ worker'[h].reply = r /\ Number(h)' = Number(h)
  BY ProceedFacts
<1>2. answers[Number(h)] = "none" BY DEF Story, InStep
<1>3. Justified(Number(h), worker[h].reply)' BY <1>1
<1> QED BY <1>1, <1>2, <1>3 DEF InStep, At

\* An error says that nothing was sent.
LEMMA ErrorsKeepStory ==
  ASSUME TypeInv, HeldApart, Story, NEW h \in Hosts,
         \/ FailToParse /\ h = Daemon
         \/ FailToLoad(h) \/ FailToEvaluate(h)
  PROVE  Story'
<1>1. /\ Proceed(h, "answer", "error") /\ UNCHANGED <<answers, broker>>
      /\ Work(h) \/ (FailToParse /\ h = Daemon)
  BY DEF FailToParse, FailToLoad, FailToEvaluate, Work
<1>2. At(h, "receive") \/ At(h, "dispatch")
  BY DEF FailToParse, Received, FailToLoad, MakesPlatform, FailToEvaluate, Proposing, HasPlatform
<1>3. Number(h) # 0 /\ Number(h) \notin Range(broker)
  BY <1>1, <1>2, WorkHolds DEF Story, InStep, Unheard
<1>4. \A n : n = Number(h) => Justified(n, "error")' BY <1>1, <1>3 DEF Justified
<1>5. InStep(h)' BY <1>1, <1>3, <1>4, ToAnswer
<1> QED BY <1>1, <1>5, WorkGoesOn

LEMMA AuthorizeKeepsStory ==
  ASSUME TypeInv, HeldApart, Story, NEW h \in Hosts, Authorize(h)
  PROVE  Story'
<1> DEFINE n == Number(h)
           verdict == Authorized(h, Asked(h))
<1>1. /\ Work(h) /\ UNCHANGED <<asked, answers, broker>>
      /\ log_audit_event(n, verdict)
      /\ IF verdict THEN Proceed(h, "dispatch", "none") ELSE Proceed(h, "answer", "denied")
  BY DEF Authorize, Work
<1>2. /\ n \in Numbers /\ n # 0 /\ Unheard(n) /\ answers[n] = "none"
      /\ verdict \in BOOLEAN /\ log \in Seq(Numbers \X BOOLEAN)
  BY <1>1, WorkHolds
  DEF Story, InStep, Authorize, Received, Authorized, check_authorization, TypeInv, Traces
<1>3. \/ Range(log') = Range(log) \cup {<<n, verdict>>}
      \/ <<"log", n>> \in excused'
  <2>1. \/ log' = Append(log, <<n, verdict>>) \/ <<"log", n>> \in excused'
    BY <1>1 DEF log_audit_event, Excuse
  <2>2. <<n, verdict>> \in Numbers \X BOOLEAN BY <1>2
  <2> QED BY <1>2, <2>1, <2>2, AppendRange
<1>4. verdict => \A m : m = n => Authorized(h, asked[m])' BY <1>1 DEF Authorized, Asked
<1> HIDE DEF n, verdict
<1>5. CASE verdict
  <2>1. \A m : m = n => Logged(m)' /\ m \notin Range(broker)'
    BY <1>1, <1>2, <1>3, <1>5 DEF Logged, Unheard
  <2>2. /\ worker'[h].stage = "dispatch" /\ Number(h)' = n
    BY <1>1, <1>5, ProceedFacts DEF n
  <2>3. \A m : m = n => Authorized(h, asked[m])' BY <1>4, <1>5
  <2>4. InStep(h)'
    BY <1>1, <1>2, <2>1, <2>2, <2>3 DEF InStep, At
  <2> QED BY <1>1, <2>4, WorkGoesOn
<1>6. CASE ~verdict
  <2>1. verdict = FALSE BY <1>2, <1>6
  <2>2. \A m : m = n => Refused(m)'
    <3>1. \/ <<n, FALSE>> \in Range(log') /\ <<n, TRUE>> \notin Range(log')
          \/ <<"log", n>> \in excused'
      <4>1. <<n, verdict>> = <<n, FALSE>> BY <2>1
      <4>2. <<n, TRUE>> # <<n, FALSE>> OBVIOUS
      <4>3. <<n, TRUE>> \notin Range(log) BY <1>2 DEF Unheard
      <4> QED BY <1>3, <4>1, <4>2, <4>3
    <3> QED BY <3>1 DEF Refused
  <2>3. \A m : m = n => Justified(m, "denied")'
    BY <1>1, <1>2, <2>2 DEF Justified, Unheard
  <2>4. InStep(h)' BY <1>1, <1>2, <1>6, <2>3, ToAnswer DEF n
  <2> QED BY <1>1, <2>4, WorkGoesOn
<1> QED BY <1>5, <1>6

\* What is known of the request of a process that has it dispatched.
LEMMA DispatchFacts ==
  ASSUME TypeInv, Story, NEW h \in Hosts, At(h, "dispatch")
  PROVE  /\ Number(h) \in Numbers /\ Number(h) # 0 /\ answers[Number(h)] = "none"
         /\ Logged(Number(h)) /\ Number(h) \notin Range(broker)
         /\ Asked(h) = asked[Number(h)] /\ Asked(h) \in Request
         /\ Authorized(h, Asked(h))
<1>1. Number(h) \in Numbers /\ Number(h) # 0 BY NumberFacts, AskedFacts DEF At, Busy
<1>2. asked[Number(h)] \in Requests
  BY <1>1, AskedFacts DEF TypeInv, Traces, Numbers
<1> QED BY <1>1, <1>2, RequestsAssumption DEF Story, InStep, Asked

LEMMA AnswerKeepsStory ==
  ASSUME TypeInv, HeldApart, Story, NEW h \in Hosts, Answer(h)
  PROVE  Story'
<1> DEFINE n == Number(h)
<1>1. /\ Work(h) /\ UNCHANGED <<asked, answers, log, broker>> /\ excused \subseteq excused'
      /\ Asked(h).action # "agent.propose"
  BY DEF Answer, Work, Excuse, PlatformActions
<1>2. /\ n \in Numbers /\ n # 0 /\ answers[n] = "none"
      /\ Logged(n) /\ n \notin Range(broker) /\ Asked(h) = asked[n]
  BY DispatchFacts DEF Answer
<1>3. \/ Proceed(h, "answer", "error")
      \/ Proceed(h, "answer", "success") /\ ~Refuses(Asked(h))
      \/ /\ Proceed(h, "answer", "success") /\ <<"catalog", n>> \in excused'
         /\ Asked(h).action \in {"package.install", "package.remove"}
  BY DEF Answer, Excuse
<1> HIDE DEF n
<1>4. CASE Proceed(h, "answer", "error")
  <2>1. \A m : m = n => Justified(m, "error")' BY <1>1, <1>2 DEF Justified
  <2>2. InStep(h)' BY <1>1, <1>2, <1>4, <2>1, ToAnswer DEF n
  <2> QED BY <1>1, <2>2, WorkGoesOn
<1>5. CASE /\ Proceed(h, "answer", "success")
           /\ \/ ~Refuses(Asked(h))
              \/ /\ <<"catalog", n>> \in excused'
                 /\ Asked(h).action \in {"package.install", "package.remove"}
  <2>1. \A m : m = n => Protected(m)'
    BY <1>1, <1>2, <1>5 DEF Protected, Refuses, StopRefused, RemovalRefused
  <2>2. \A m : m = n => Logged(m)' BY <1>1, <1>2 DEF Logged
  <2>3. \A m : m = n => Justified(m, "success")'
    BY <1>1, <1>2, <2>1, <2>2 DEF Justified
  <2>4. InStep(h)' BY <1>1, <1>2, <1>5, <2>3, ToAnswer DEF n
  <2> QED BY <1>1, <2>4, WorkGoesOn
<1> QED BY <1>3, <1>4, <1>5

LEMMA ConsultKeepsStory ==
  ASSUME TypeInv, HeldApart, Story, NEW h \in Hosts, Consult(h)
  PROVE  Story'
<1> DEFINE n == Number(h)
<1>1. /\ Work(h) /\ UNCHANGED <<asked, answers, log, broker, excused>>
      /\ Asked(h).action \in PlatformActions \ {"agent.propose"}
  BY DEF Consult, Work, historyVars
<1>2. /\ n # 0 /\ Logged(n) /\ n \notin Range(broker) /\ Asked(h) = asked[n]
  BY DispatchFacts DEF Consult, HasPlatform
<1>3. Proceed(h, "answer", "error") \/ Proceed(h, "answer", "success") BY DEF Consult
<1> HIDE DEF n
<1>4. \A m : m = n => Protected(m)'
  BY <1>1, <1>2 DEF Protected, PlatformActions
<1>5. \A m : m = n => Justified(m, "success")' /\ Justified(m, "error")'
  BY <1>1, <1>2, <1>4 DEF Justified, Logged, PlatformActions
<1>6. InStep(h)' BY <1>1, <1>2, <1>3, <1>5, ToAnswer DEF n
<1> QED BY <1>1, <1>6, WorkGoesOn

LEMMA LoadKeepsStory ==
  ASSUME TypeInv, HeldApart, Story, NEW h \in Hosts, get_ai_platform(h)
  PROVE  Story'
<1>1. Work(h) /\ UNCHANGED <<asked, answers, log, broker, excused>>
  BY DEF get_ai_platform, Work
<1>2. /\ worker'[h].stage = worker[h].stage /\ worker'[h].reply = worker[h].reply
      /\ worker'[h].connection = worker[h].connection
  <2>1. worker \in [Hosts -> Worker] /\ history \in Seq(Line) /\ mishaps \in 0..MaxMishaps
    BY ShapeOfHost DEF TypeInv, Traces
  <2>2. PICK v \in Worker : /\ worker' = [worker EXCEPT ![h] = v]
                            /\ v.stage = worker[h].stage /\ v.reply = worker[h].reply
                            /\ v.connection = worker[h].connection
    BY <2>1, LoadFacts
  <2> QED BY <2>1, <2>2
<1>3. Number(h) # 0 /\ InStep(h) BY <1>1, WorkHolds DEF Story
<1>4. Spared(Number(h)) BY <1>1 DEF Spared
<1>5. InStep(h)' BY <1>1, <1>2, <1>3, <1>4, StaysInStep
<1> QED BY <1>1, <1>5, WorkGoesOn

\* A proposal that comes to nothing.
LEMMA HoldKeepsStory ==
  ASSUME TypeInv, HeldApart, Story, NEW h \in Hosts, NoProposal(h) \/ Block(h)
  PROVE  Story'
<1> DEFINE n == Number(h)
<1>1. /\ Work(h) /\ UNCHANGED <<asked, answers, log, broker, excused>>
      /\ Proceed(h, "record", "completed") \/ Proceed(h, "record", "blocked")
  BY DEF NoProposal, Block, Work, historyVars
<1>2. n # 0 /\ Logged(n) /\ n \notin Range(broker)
  BY DispatchFacts DEF NoProposal, Block, Proposing, HasPlatform
<1> HIDE DEF n
<1>3. \A m : m = n => Justified(m, "completed")' /\ Justified(m, "blocked")'
  BY <1>1, <1>2 DEF Justified, Logged
<1>4. InStep(h)' BY <1>1, <1>2, <1>3, ToAnswer DEF n
<1> QED BY <1>1, <1>4, WorkGoesOn

\* The daemon and a client in-process ask the same of who makes a proposal.
LEMMA ProposersAreTraders ==
  ASSUME NEW h, NEW r, r.action = "agent.propose", Authorized(h, r)
  PROVE  r.user = Root \/ Groups[r.user] \cap {"trader", "research", "wheel"} # {}
<1>1. Role(h, r.action) = "trader"
  <2>1. /\ r.action \in TraderActions
        /\ r.action \notin OpenActions \cup ResearchActions \cup AdminActions
    BY DEF OpenActions, TraderActions, ResearchActions, AdminActions
  <2> QED BY <2>1 DEF Role
<1>2. check_authorization(r.user, "trader") BY <1>1 DEF Authorized
<1>3. Sufficient["trader"] = {"trader", "research", "wheel"} BY DEF Sufficient
<1> QED BY <1>2, <1>3 DEF check_authorization

\* What the agents, the policy and the gatekeeper have looked at.
LEMMA ApprovedInputs ==
  ASSUME NEW i, i.agent \in Agents, Proposes(i), Approved(i)
  PROVE  /\ i.agent \in {"vincent", "xiphos", "researcher"}
         /\ i.news # "suspicious" /\ i.price > 0
<1>1. i.news # "suspicious" BY DEF Proposes, Quarantined
<1>2. i.price > 0 BY DEF Approved, evaluate
<1>3. Quantity["watcher"] = 0 /\ Quantity["scheduler"] = 0 BY DEF Quantity
<1>4. i.agent # "watcher" /\ i.agent # "scheduler" BY <1>3 DEF Proposes
<1> QED BY <1>1, <1>2, <1>4 DEF Agents

\* The engine's own look at an earned order finds nothing new.
LEMMA EarnedIsSent ==
  ASSUME NEW n, Earned(n)
  PROVE  evaluate(asked[n].input)
<1>1. asked[n].input.agent \in {"vincent", "xiphos", "researcher"} /\ asked[n].input.price > 0
  BY DEF Earned
<1>2. \A a \in {"vincent", "xiphos", "researcher"} : Quantity[a] <= MaxPositionSize
  BY DEF Quantity, MaxPositionSize
<1>3. CurrentDrawdown < MaxDrawdown BY DEF CurrentDrawdown, MaxDrawdown
<1> QED BY <1>1, <1>2, <1>3 DEF evaluate

LEMMA ApproveKeepsStory ==
  ASSUME TypeInv, HeldApart, Story, NEW h \in Hosts, Approve(h)
  PROVE  Story'
<1> DEFINE n == Number(h)
<1>1. /\ Work(h) /\ UNCHANGED <<asked, answers, log, broker, excused>>
      /\ Proceed(h, "send", "success")
      /\ Asked(h).action = "agent.propose" /\ Sound(Asked(h).input)
      /\ Proposes(Asked(h).input) /\ Approved(Asked(h).input)
  BY DEF Approve, Proposing, Work, historyVars
<1>2. /\ n # 0 /\ answers[n] = "none" /\ Logged(n) /\ n \notin Range(broker)
      /\ Asked(h) = asked[n] /\ Authorized(h, Asked(h))
  BY DispatchFacts DEF Approve, Proposing, HasPlatform
<1>3. /\ worker'[h].stage = "send" /\ worker'[h].reply = "success" /\ Number(h)' = n
  BY <1>1, ProceedFacts
<1> HIDE DEF n
<1>4. Earned(n)
  <2>1. Asked(h).user = Root \/ Groups[Asked(h).user] \cap {"trader", "research", "wheel"} # {}
    BY <1>1, <1>2, ProposersAreTraders
  <2>2. /\ Asked(h).input.agent \in {"vincent", "xiphos", "researcher"}
        /\ Asked(h).input.news # "suspicious" /\ Asked(h).input.price > 0
    BY <1>1, ApprovedInputs DEF Sound
  <2> QED BY <1>1, <1>2, <2>1, <2>2 DEF Earned
<1>5. Spared(n) BY <1>1 DEF Spared
<1>6. \A m : m = n => Earned(m)' /\ Logged(m)' BY <1>2, <1>4, <1>5, SparedFacts
<1>7. InStep(h)' BY <1>1, <1>2, <1>3, <1>6 DEF InStep, At
<1> QED BY <1>1, <1>7, WorkGoesOn

LEMMA SendKeepsStory ==
  ASSUME TypeInv, HeldApart, Story, NEW h \in Hosts, Send(h)
  PROVE  Story'
<1> DEFINE n == Number(h)
<1>1. /\ Work(h) /\ UNCHANGED <<asked, answers, log, excused>>
      /\ At(h, "send") /\ Proceed(h, "record", worker[h].reply)
      /\ broker' = IF evaluate(asked[n].input) THEN Append(broker, n) ELSE broker
  BY DEF Send, Work, Asked, historyVars
<1>2. /\ n \in Numbers /\ n # 0 /\ broker \in Seq(Numbers)
  BY <1>1, WorkHolds DEF TypeInv, Traces
<1>3. /\ Logged(n) /\ n \notin Range(broker) /\ Earned(n) /\ worker[h].reply = "success"
  BY <1>1, <1>2 DEF Story, InStep
<1> HIDE DEF n
<1>4. broker' = Append(broker, n) BY <1>1, <1>3, EarnedIsSent
<1>5. n \in Range(broker') BY <1>2, <1>4, AppendRange
<1>6. \A m : m = n => Logged(m)' /\ Protected(m)'
  BY <1>1, <1>3 DEF Logged, Protected, Earned
<1>7. \A m : m = n => Justified(m, "success")' BY <1>5, <1>6 DEF Justified
<1>8. InStep(h)' BY <1>1, <1>2, <1>3, <1>7, ToAnswer DEF n
<1> QED BY <1>1, <1>3, <1>4, <1>8, WorkGoesOn DEF n

LEMMA RecordKeepsStory ==
  ASSUME TypeInv, HeldApart, Story, NEW h \in Hosts, Record(h)
  PROVE  Story'
<1> DEFINE n == Number(h)
           v == [worker[h] EXCEPT !.stage = "answer", !.memory = Append(@, Number(h))]
<1>1. /\ Work(h) /\ UNCHANGED <<asked, answers, log, broker>> /\ excused \subseteq excused'
      /\ At(h, "record")
  BY DEF Record, Work, Excuse
<1>2. n # 0 /\ answers[n] = "none" /\ Justified(n, worker[h].reply)
  BY <1>1, WorkHolds DEF Story, InStep
<1>3. worker'[h] = v BY DEF Record
<1>4. v.stage = "answer" /\ v.reply = worker[h].reply /\ v.connection = worker[h].connection
  BY ConnectionsAreTyped DEF Worker
<1> HIDE DEF v
<1>5. worker'[h].stage = "answer" /\ worker'[h].reply = worker[h].reply /\ Number(h)' = n
  BY <1>3, <1>4 DEF Number
<1>6. Spared(n) BY <1>1 DEF Spared
<1>7. \A m, reply : m = n /\ reply = worker[h].reply => Justified(m, reply)'
  BY <1>2, <1>6, SparedFacts
<1> HIDE DEF n
<1>8. InStep(h)' BY <1>1, <1>2, <1>5, <1>7 DEF InStep, At
<1> QED BY <1>1, <1>8, WorkGoesOn

LEMMA StoryKept == TypeInv /\ Ties /\ HeldApart /\ Story /\ [Next]_vars => Story'
<1> SUFFICES ASSUME TypeInv, Ties, HeldApart, Story, [Next]_vars PROVE Story' OBVIOUS
<1>1. CASE UNCHANGED vars
  <2>1. /\ UNCHANGED <<worker, queue, asked, answers, log, broker, excused>>
        /\ Numbers' = Numbers
    BY <1>1 DEF vars, historyVars, Numbers
  <2>2. \A k \in DOMAIN queue' : queue'[k].nr # 0 =>
          answers'[queue'[k].nr] = "none" /\ Unheard(queue'[k].nr)
    BY <2>1 DEF Story
  <2> QED BY <2>1, <2>2, StoryPassedOn
<1>2. ASSUME NEW h \in Hosts, Work(h) \/ (FailToParse /\ h = Daemon) PROVE Story'
  BY <1>2, ErrorsKeepStory, AuthorizeKeepsStory, AnswerKeepsStory, ConsultKeepsStory,
     LoadKeepsStory, HoldKeepsStory, ApproveKeepsStory, SendKeepsStory, RecordKeepsStory
  DEF Work
<1>3. CASE Serve
  BY <1>2, <1>3, HostFacts, ConnectionsKeepStory, AnswersKeepStory DEF Serve
<1>4. ASSUME NEW c \in Clients, NEW r \in Requests, AskInProcess(c, r) \/ Speak(c, r)
      PROVE  Story'
  BY <1>4, AskingKeepsStory
<1>5. ASSUME NEW c \in Clients, Connect(c) \/ Work(c) \/ ReturnAnswer(c) \/ Interrupt(c)
      PROVE  Story'
  BY <1>2, <1>5, HostFacts, ConnectionsKeepStory, AnswersKeepStory
<1>6. CASE KillDaemon \/ StartDaemon
  BY <1>6, ConnectionsKeepStory, AnswersKeepStory
<1> QED BY <1>1, <1>3, <1>4, <1>5, <1>6 DEF Next

LEMMA InitStory == Init => Story
<1> SUFFICES ASSUME Init PROVE Story OBVIOUS
<1>1. \A h \in Hosts : Number(h) = 0 BY ConnectionFacts, GoneIsWorker DEF Init, Number
<1>2. Numbers = {} /\ Range(broker) = {} /\ DOMAIN queue = {} /\ DOMAIN broker = {}
  BY DEF Init, Numbers, Range
<1> QED BY <1>1, <1>2 DEF Story, IsInjective

StoryInv == TypeInv /\ Ties /\ HeldApart /\ Story

LEMMA StoryInvKept == StoryInv /\ [Next]_vars => StoryInv'
BY TypesKept, TiesKept, ApartKept, StoryKept DEF StoryInv

LEMMA InitStoryInv == Init => StoryInv
BY InitTypes, InitTies, InitApart, InitStory DEF StoryInv

LEMMA StoryGives ==
  StoryInv => OrdersAreEarned /\ AnswersAreTrue /\ WorkIsLogged /\ ProtectionsHold
<1> SUFFICES ASSUME StoryInv PROVE OrdersAreEarned /\ AnswersAreTrue /\ WorkIsLogged
                                   /\ ProtectionsHold
  OBVIOUS
<1>1. OrdersAreEarned BY DEF StoryInv, Story, Earned, OrdersAreEarned
<1>2. AnswersAreTrue BY DEF StoryInv, Story, Justified, AnswersAreTrue
<1>3. WorkIsLogged BY DEF StoryInv, Story, Justified, Logged, Refused, WorkIsLogged
<1>4. ProtectionsHold BY DEF StoryInv, Story, Justified, Protected, ProtectionsHold
<1> QED BY <1>1, <1>2, <1>3, <1>4

(***************************************************************************)
(* Whichever process serves it and whatever else fails, an order reaches   *)
(* the broker only for an authorized proposal that agent, policy and       *)
(* gatekeeper let pass, and once (platform.py:396-566, kairos_sysd.py:     *)
(* 911-1006).                                                              *)
(***************************************************************************)
THEOREM AgentOrdersAreEarned == Spec => []OrdersAreEarned
BY InitStoryInv, StoryInvKept, StoryGives, PTL DEF Spec

(***************************************************************************)
(* What a client is told of its proposal is so, although the verdict of    *)
(* the engine is thrown away: the order it was told of is at the broker,   *)
(* and none is there when it was told of anything else (platform.py:       *)
(* 396-566, kairos_sysd.py:971-1000).                                      *)
(***************************************************************************)
THEOREM AgentAnswersAreTrue == Spec => []AnswersAreTrue
BY InitStoryInv, StoryInvKept, StoryGives, PTL DEF Spec

(***************************************************************************)
(* The verdict on whatever was done, answered or denied is in the audit    *)
(* log, unless that line could not be written (kairos_sysd.py:142-155,     *)
(* 939-946, 985-994).                                                      *)
(***************************************************************************)
THEOREM AgentWorkIsLogged == Spec => []WorkIsLogged
BY InitStoryInv, StoryInvKept, StoryGives, PTL DEF Spec

(***************************************************************************)
(* Neither the daemon nor a process of root's own ever reports that RiskD  *)
(* was stopped, its limits changed or, with a catalog, a core package      *)
(* removed (kairos_sysd.py:360-365, 474-492, 648-654).                     *)
(***************************************************************************)
THEOREM AgentProtectionsHold == Spec => []ProtectionsHold
BY InitStoryInv, StoryInvKept, StoryGives, PTL DEF Spec

----------------------------------------------------------------------------
(* What the platforms remember *)

\* Steps that leave the history alone, and the platforms there are.
LEMMA ReadBackStays ==
  ASSUME RecordsAreReadBack, history' = history,
         \A h \in Hosts : worker'[h].loaded =>
           /\ worker[h].loaded /\ worker'[h].memory = worker[h].memory
           /\ worker'[h].missed = worker[h].missed
  PROVE  RecordsAreReadBack'
BY DEF RecordsAreReadBack, Range

LEMMA LoadReadsBack ==
  ASSUME TypeInv, RecordsAreReadBack, NEW h \in Hosts, get_ai_platform(h)
  PROVE  RecordsAreReadBack'
<1>1. /\ worker \in [Hosts -> Worker] /\ mishaps \in 0..MaxMishaps
      /\ history' = history /\ history \in Seq(Line)
  BY ShapeOfHost DEF get_ai_platform, TypeInv, Traces
<1>2. /\ Range(ReadableRecords) \subseteq Range(worker'[h].memory) \cup worker'[h].missed
      /\ \A g \in Hosts \ {h} : worker'[g] = worker[g]
  <2>1. PICK v \in Worker :
          /\ worker' = [worker EXCEPT ![h] = v]
          /\ Range(ReadableRecords) \subseteq Range(v.memory) \cup v.missed
    BY <1>1, LoadFacts
  <2> QED BY <1>1, <2>1
<1>3. ASSUME NEW g \in Hosts, worker'[g].loaded, NEW k \in DOMAIN history'
      PROVE  \/ history'[k].nr \in {0} \cup Range(worker'[g].memory) \cup worker'[g].missed
             \/ \E j \in 1..k : history'[j].nr = 0
  <2>1. CASE g = h BY <1>1, <1>2, <2>1, ReadableFacts
  <2>2. CASE g # h BY <1>1, <1>2, <1>3, <2>2 DEF RecordsAreReadBack
  <2> QED BY <2>1, <2>2
<1> QED BY <1>3 DEF RecordsAreReadBack

\* A record is remembered by its platform and missed by all others.
LEMMA RecordIsRemembered ==
  ASSUME TypeInv, NEW h \in Hosts, Record(h)
  PROVE  \A g \in Hosts : worker'[g].loaded =>
           /\ worker[g].loaded
           /\ Number(h) \in Range(worker'[g].memory) \cup worker'[g].missed
           /\ Range(worker[g].memory) \subseteq Range(worker'[g].memory)
           /\ worker[g].missed \subseteq worker'[g].missed
<1> DEFINE n == Number(h)
           v == [worker[h] EXCEPT !.stage = "answer", !.memory = Append(@, n)]
           m(g) == [worker[g] EXCEPT !.missed = @ \cup {n}]
<1>1. worker' = [g \in Hosts |-> IF g = h THEN v
                                 ELSE IF worker[g].loaded THEN m(g) ELSE worker[g]]
  BY DEF Record
<1>2. n \in Nat BY NumberFacts
<1>3. worker[h].memory \in Seq(Nat) BY ConnectionsAreTyped DEF Worker
<1>4. Range(Append(worker[h].memory, n)) = Range(worker[h].memory) \cup {n}
  BY <1>2, <1>3, AppendRange
<1>5. /\ v.loaded = worker[h].loaded /\ v.memory = Append(worker[h].memory, n)
      /\ v.missed = worker[h].missed
  BY ConnectionsAreTyped DEF Worker
<1>6. \A g \in Hosts : /\ m(g).loaded = worker[g].loaded /\ m(g).memory = worker[g].memory
                       /\ m(g).missed = worker[g].missed \cup {n}
  BY ConnectionsAreTyped DEF Worker
<1> HIDE DEF n, v, m
<1>7. \A g \in Hosts : worker'[g] = IF g = h THEN v
                                    ELSE IF worker[g].loaded THEN m(g) ELSE worker[g]
  BY <1>1
<1>8. ASSUME NEW g \in Hosts, worker'[g].loaded
      PROVE  /\ worker[g].loaded
             /\ n \in Range(worker'[g].memory) \cup worker'[g].missed
             /\ Range(worker[g].memory) \subseteq Range(worker'[g].memory)
             /\ worker[g].missed \subseteq worker'[g].missed
  <2>1. CASE g = h BY <1>4, <1>5, <1>7, <1>8, <2>1
  <2>2. CASE g # h
    <3>1. worker'[g] = m(g) /\ worker[g].loaded BY <1>7, <1>8, <2>2
    <3> QED BY <1>6, <3>1
  <2> QED BY <2>1, <2>2
<1> QED BY <1>8 DEF n

LEMMA RecordReadsBack ==
  ASSUME TypeInv, RecordsAreReadBack, NEW h \in Hosts, Record(h)
  PROVE  RecordsAreReadBack'
<1>1. history \in Seq(Line) /\ Number(h) \in Nat BY NumberFacts DEF TypeInv, Traces
<1>2. \/ history' = history
      \/ \E nr \in {0, Number(h)}, e \in BOOLEAN : history' = WithLine(nr, e)
  BY DEF Record
<1>3. /\ \A k \in DOMAIN history :
           k \in DOMAIN history' /\ (history'[k] = history[k] \/ history'[k].nr = 0)
      /\ \A k \in DOMAIN history' :
           \/ k \in DOMAIN history /\ history'[k] = history[k]
           \/ history'[k].nr \in {0, Number(h)}
  <2>1. CASE history' = history BY <2>1
  <2>2. ASSUME NEW nr \in {0, Number(h)}, NEW e \in BOOLEAN, history' = WithLine(nr, e)
        PROVE  /\ \A k \in DOMAIN history :
                    k \in DOMAIN history' /\ (history'[k] = history[k] \/ history'[k].nr = 0)
               /\ \A k \in DOMAIN history' :
                    \/ k \in DOMAIN history /\ history'[k] = history[k]
                    \/ history'[k].nr \in {0, Number(h)}
    <3>1. /\ \A k \in DOMAIN history : k \in DOMAIN history'
          /\ \A k \in DOMAIN history : history[k].ended => history'[k] = history[k]
          /\ \A k \in DOMAIN history :
               ~history[k].ended /\ history'[k] # history[k] => history'[k].nr = 0
          /\ \A k \in DOMAIN history' :
               \/ k \in DOMAIN history /\ history'[k] = history[k]
               \/ history'[k] = [nr |-> 0, ended |-> e]
               \/ history'[k] = [nr |-> nr, ended |-> e]
      <4> DEFINE H == WithLine(nr, e)
      <4>1. nr \in Nat BY <1>1
      <4>2. \A k \in DOMAIN history : k \in DOMAIN H BY <1>1, <4>1, WithLineFacts
      <4>3. \A k \in DOMAIN history : history[k].ended => H[k] = history[k]
        <5>1. \A k \in DOMAIN history :
                history[k].ended \/ ~Cut => k \in DOMAIN H /\ H[k] = history[k]
          BY <1>1, <4>1, WithLineFacts
        <5> HIDE DEF H
        <5> QED BY <5>1
      <4>4. \A k \in DOMAIN history : ~history[k].ended /\ H[k] # history[k] => H[k].nr = 0
        BY <1>1, <4>1, WithLineFacts
      <4>5. \A k \in DOMAIN H : \/ k \in DOMAIN history /\ H[k] = history[k]
                               \/ H[k] = [nr |-> 0, ended |-> e]
                               \/ H[k] = [nr |-> nr, ended |-> e]
        BY <1>1, <4>1, WithLineFacts
      <4>6. history' = H BY <2>2
      <4> HIDE DEF H
      <4> QED BY <4>2, <4>3, <4>4, <4>5, <4>6
    <3> QED BY <3>1
  <2> QED BY <1>2, <2>1, <2>2
<1>4. DOMAIN history = 1..Len(history) /\ Len(history) \in Nat BY <1>1
<1>5. ASSUME NEW g \in Hosts, worker'[g].loaded, NEW k \in DOMAIN history'
      PROVE  \/ history'[k].nr \in {0} \cup Range(worker'[g].memory) \cup worker'[g].missed
             \/ \E j \in 1..k : history'[j].nr = 0
  <2>1. /\ worker[g].loaded
        /\ Number(h) \in Range(worker'[g].memory) \cup worker'[g].missed
        /\ Range(worker[g].memory) \subseteq Range(worker'[g].memory)
        /\ worker[g].missed \subseteq worker'[g].missed
    BY <1>5, RecordIsRemembered
  <2>2. CASE k \in DOMAIN history /\ history'[k] = history[k]
    <3>1. CASE history[k].nr \in {0} \cup Range(worker[g].memory) \cup worker[g].missed
      BY <2>1, <2>2, <3>1
    <3>2. ASSUME NEW j \in 1..k, history[j].nr = 0
          PROVE  history'[j].nr = 0
      <4>1. j \in DOMAIN history BY <1>4, <2>2
      <4> QED BY <1>3, <3>2, <4>1
    <3> QED BY <2>1, <2>2, <3>1, <3>2 DEF RecordsAreReadBack
  <2>3. CASE history'[k].nr \in {0, Number(h)} BY <2>1, <2>3
  <2> QED BY <1>3, <2>2, <2>3
<1> QED BY <1>5 DEF RecordsAreReadBack

\* All other steps end platforms, or leave them as they are.
LEMMA OthersReadBack ==
  ASSUME TypeInv, RecordsAreReadBack,
         \/ Accept \/ ReceiveEmpty \/ SendAnswer \/ FailToAnswer \/ KillDaemon \/ StartDaemon
         \/ \E h \in Hosts : (Work(h) \/ (FailToParse /\ h = Daemon))
                             /\ ~get_ai_platform(h) /\ ~Record(h)
         \/ \E c \in Clients :
              \/ \E r \in Requests : AskInProcess(c, r) \/ Speak(c, r)
              \/ Connect(c) \/ ReturnAnswer(c) \/ Interrupt(c)
  PROVE  RecordsAreReadBack'
<1>0. worker \in [Hosts -> Worker] /\ Daemon \in Hosts /\ \A c \in Clients : c \in Hosts
  BY ConnectionsAreTyped, HostFacts
<1> DEFINE Kept(g) == worker'[g].loaded =>
                        /\ worker[g].loaded /\ worker'[g].memory = worker[g].memory
                        /\ worker'[g].missed = worker[g].missed
<1>1. ASSUME NEW h \in Hosts, Work(h) \/ (FailToParse /\ h = Daemon),
             ~get_ai_platform(h), ~Record(h)
      PROVE  history' = history /\ \A g \in Hosts : Kept(g)
  <2>1. \E s \in Busy, r \in Replies : Proceed(h, s, r) BY <1>1, ProceedsOnly DEF Work
  <2>2. \A g \in Hosts : Kept(g) BY <1>0, <2>1 DEF Proceed, Worker
  <2>3. history' = history
    BY <1>1 DEF Work, FailToParse, Authorize, Answer, FailToLoad, Consult, FailToEvaluate,
                NoProposal, Block, Approve, Send
  <2> QED BY <2>2, <2>3
<1>2. ASSUME Accept \/ ReceiveEmpty \/ StartDaemon
      PROVE  history' = history /\ \A g \in Hosts : Kept(g)
  <2>1. CASE Accept BY <1>0, <2>1 DEF Accept, Worker
  <2>2. CASE ReceiveEmpty BY <1>0, <2>2 DEF ReceiveEmpty, Free, Worker
  <2>3. CASE StartDaemon BY <1>0, <2>3 DEF StartDaemon, Worker
  <2> QED BY <1>2, <2>1, <2>2, <2>3
<1>3. ASSUME SendAnswer
      PROVE  history' = history /\ \A g \in Hosts : Kept(g)
  <2> DEFINE c == worker[Daemon].connection.client
  <2>1. worker' = [worker EXCEPT ![Daemon] = Free, ![c] = Gone] /\ history' = history
    BY <1>3 DEF SendAnswer
  <2>2. /\ Free.loaded = worker[Daemon].loaded /\ Free.memory = worker[Daemon].memory
        /\ Free.missed = worker[Daemon].missed
    BY <1>0 DEF Free, Worker
  <2>3. c \in Hosts /\ c # Daemon BY <1>0, <1>3, SendAnswerShape, HostFacts
  <2> HIDE DEF c
  <2> QED BY <1>0, <2>1, <2>2, <2>3, GoneIsWorker
<1>4. ASSUME FailToAnswer \/ KillDaemon
      PROVE  history' = history /\ \A g \in Hosts : Kept(g)
  BY <1>4, GoneIsWorker DEF FailToAnswer, KillDaemon, EndDaemon
<1>5. ASSUME NEW c \in Clients, NEW r \in Requests, AskInProcess(c, r)
      PROVE  history' = history /\ \A g \in Hosts : Kept(g)
  BY <1>0, <1>5 DEF AskInProcess, Gone
<1>6. ASSUME NEW c \in Clients, NEW r \in Requests, Speak(c, r)
      PROVE  history' = history /\ \A g \in Hosts : Kept(g)
  BY <1>0, <1>6 DEF Speak, Worker
<1>7. ASSUME NEW c \in Clients, Connect(c) \/ ReturnAnswer(c)
      PROVE  history' = history /\ \A g \in Hosts : Kept(g)
  <2>1. CASE Connect(c) BY <1>0, <2>1 DEF Connect, Worker
  <2>2. CASE ReturnAnswer(c) BY <1>0, <2>2, GoneIsWorker DEF ReturnAnswer
  <2> QED BY <1>7, <2>1, <2>2
<1>8. ASSUME NEW c \in Clients, Interrupt(c)
      PROVE  history' = history /\ \A g \in Hosts : Kept(g)
  BY <1>0, <1>8, GoneIsWorker DEF Interrupt, Worker
<1>9. history' = history /\ \A g \in Hosts : Kept(g)
  BY <1>1, <1>2, <1>3, <1>4, <1>5, <1>6, <1>7, <1>8
<1> QED BY <1>9, ReadBackStays

LEMMA ReadBackKept == TypeInv /\ RecordsAreReadBack /\ [Next]_vars => RecordsAreReadBack'
<1> SUFFICES ASSUME TypeInv, RecordsAreReadBack, [Next]_vars PROVE RecordsAreReadBack'
  OBVIOUS
<1>1. CASE UNCHANGED vars BY <1>1, ReadBackStays DEF vars
<1>2. ASSUME NEW h \in Hosts, Work(h) \/ (FailToParse /\ h = Daemon)
      PROVE  RecordsAreReadBack'
  BY <1>2, LoadReadsBack, RecordReadsBack, OthersReadBack
<1> QED BY <1>1, <1>2, HostFacts, OthersReadBack DEF Next, Serve

LEMMA InitReadBack == Init => RecordsAreReadBack
BY DEF Init, RecordsAreReadBack

(***************************************************************************)
(* A platform has in memory whatever of the audit history can be read, but *)
(* what others added since, whatever became of earlier platforms and in    *)
(* whichever order the processes write (platform.py:361-386, 567-568).     *)
(***************************************************************************)
THEOREM AgentRecordsAreReadBack == Spec => []RecordsAreReadBack
<1> DEFINE Inv == TypeInv /\ RecordsAreReadBack
<1>1. Init => Inv BY InitTypes, InitReadBack
<1>2. Inv /\ [Next]_vars => Inv' BY TypesKept, ReadBackKept
<1> QED BY <1>1, <1>2, PTL DEF Spec
=============================================================================
