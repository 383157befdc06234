--------------------------- MODULE PluginPlatform ---------------------------
(***************************************************************************)
(* The plugin manager of plugins/manager.py as its processes use it: the   *)
(* daemon of scripts/services/kairos_sysd.py, which serves the requests on *)
(* its socket one at a time and keeps one manager, and the clients, which  *)
(* work on a manager of their own when the socket does not exist.  All     *)
(* managers share the files of the storage directory, without a lock.      *)
(*                                                                         *)
(* Abstractions:                                                           *)
(*  - the catalog's manifests are signed by the code that reads them and   *)
(*    nobody edits the files, so a verification never fails;               *)
(*  - requests refused by check_authorization, requests that only read,    *)
(*    and connects to a socket nobody listens on change nothing and are    *)
(*    left out;                                                            *)
(*  - a file is one write long, so a reader finds it empty or whole.       *)
(***************************************************************************)
EXTENDS Integers, Sequences, FiniteSets, SequencesExt

CONSTANTS
  Plugins,   \* the catalog
  Defaults,  \* the plugins installed when there are none, in order
  Requests,  \* the pairs of operation and plugin that clients ask for
  Clients,   \* slots for client processes, each with one request
  Daemon,
  Backlog,   \* connections that may wait to be accepted
  Nobody     \* stands for a client that has gone away

ASSUME DefaultsAssumption == Defaults \in Seq(Plugins) /\ Defaults # <<>>
ASSUME BacklogAssumption == Backlog \in Nat
ASSUME ProcessesAssumption == Daemon \notin Clients /\ Nobody \notin Clients \cup {Daemon}

VARIABLES
  files,     \* the file of each plugin
  socket,    \* whether the socket's path exists
  queue,     \* requests sent to the daemon and not accepted yet
  worker,    \* each process: its place in the code and its manager
  promised,  \* history: the state in the last SUCCESS answer on a plugin
  excused    \* history: plugins whose file may differ from the promise

historyVars == <<promised, excused>>
vars == <<files, socket, queue, worker, historyVars>>

Hosts == Clients \cup {Daemon}

Status == {"UNINSTALLED", "INSTALLED", "ENABLED", "DISABLED"}
Outcome == [install |-> "ENABLED", install_only |-> "INSTALLED", enable |-> "ENABLED",
            disable |-> "DISABLED", remove |-> "UNINSTALLED"]
Ops == DOMAIN Outcome

ASSUME RequestsAssumption == Requests \subseteq Ops \X Plugins

Request == [client : Clients \cup {Nobody}, op : Ops, plugin : Plugins]
NoRequest == [op |-> "none"]

Changing == {"open", "write", "unlink", "answer"}
Stages == Changing \cup {"gone", "free", "waiting", "list", "read", "default", "apply", "refuse"}

(***************************************************************************)
(* A process: its request, its installed_plugins and whether they are      *)
(* loaded; while loading, the files left to read and the defaults left to  *)
(* install; while writing, whether the open file still has its name.       *)
(* History: whether the change under way was free of faults, and what the  *)
(* manager may be wrong about: what others touched since the files were    *)
(* listed, and what it failed to read.                                     *)
(***************************************************************************)
Worker == [stage : Stages, request : Request \cup {NoRequest},
           memory : [Plugins -> Status], loaded : BOOLEAN,
           unread : SUBSET Plugins, pending : Seq(Plugins), linked : BOOLEAN,
           clean : BOOLEAN, unsure : SUBSET Plugins]
Gone == [stage |-> "gone", request |-> NoRequest,
         memory |-> [p \in Plugins |-> "UNINSTALLED"], loaded |-> FALSE,
         unread |-> {}, pending |-> <<>>, linked |-> FALSE,
         clean |-> TRUE, unsure |-> {}]

\* The plugin a process is changing.
Subject(h) == IF worker[h].pending # <<>> THEN Head(worker[h].pending)
              ELSE worker[h].request.plugin
Works(h, p) == worker[h].stage \in Changing /\ Subject(h) = p
Loaders == {h \in Hosts : worker[h].loaded \/ worker[h].stage = "read"}
Worked(h) == {p \in Plugins : Works(h, p)}

----------------------------------------------------------------------------
(* The files *)

Absent == [text |-> "none", size |-> 0]
Empty == [text |-> "unreadable", size |-> 0]

\* States are of different lengths, and so are the files that hold them.
Size == [s \in Status \ {"UNINSTALLED"} |->
           CASE s = "INSTALLED" -> 9 [] s = "DISABLED" -> 8 [] s = "ENABLED" -> 7]
Holding(status) == [text |-> status, size |-> Size[status]]

Stored(p) == IF files[p].text \in Status THEN files[p].text ELSE "UNINSTALLED"

(***************************************************************************)
(* The text goes to the start of the file.  What another process wrote     *)
(* since the file was emptied may be longer: its end remains.              *)
(***************************************************************************)
Overlay(old, status) ==
  IF old.size <= Size[status] THEN Holding(status) ELSE [old EXCEPT !.text = "unreadable"]

----------------------------------------------------------------------------
(* Bookkeeping of the histories *)

\* h, becoming w, begins to change p: whoever else is at p can promise nothing.
Changed(h, p, w) ==
  [g \in Hosts |->
     IF g = h THEN [w EXCEPT !.clean = \A k \in Hosts \ {h} : ~Works(k, p)]
     ELSE [worker[g] EXCEPT !.clean = @ /\ ~Works(g, p),
                            !.unsure = IF g \in Loaders THEN @ \cup {p} ELSE @]]

----------------------------------------------------------------------------
(* Loading *)

(***************************************************************************)
(* client_request: to the daemon if its socket exists, in-process if not.  *)
(***************************************************************************)
Ask(c, op, p) ==
  LET r == [client |-> c, op |-> op, plugin |-> p] IN
  /\ worker[c].stage = "gone"
  /\ \/ /\ ~socket
        /\ worker' = [worker EXCEPT ![c] = [Gone EXCEPT !.stage = "list", !.request = r]]
        /\ UNCHANGED queue
     \/ /\ socket /\ worker[Daemon].stage # "gone" /\ Len(queue) < Backlog
        /\ worker' = [worker EXCEPT ![c] = [Gone EXCEPT !.stage = "waiting", !.request = r]]
        /\ queue' = Append(queue, r)
  /\ UNCHANGED <<files, socket, historyVars>>

(***************************************************************************)
(* The daemon's loop takes the next connection; its manager is made by the *)
(* first request that needs it.                                            *)
(***************************************************************************)
Accept ==
  /\ worker[Daemon].stage = "free" /\ queue # <<>>
  /\ worker' = [worker EXCEPT ![Daemon].request = Head(queue),
                              ![Daemon].stage = IF worker[Daemon].loaded THEN "apply"
                                                ELSE "list"]
  /\ queue' = Tail(queue)
  /\ UNCHANGED <<files, socket, historyVars>>

ListFiles(h) ==
  /\ worker[h].stage = "list"
  /\ worker' = [worker EXCEPT ![h].stage = "read",
                              ![h].unread = {p \in Plugins : files[p] # Absent},
                              ![h].unsure = UNION {Worked(g) : g \in Hosts \ {h}}]
  /\ UNCHANGED <<files, socket, queue, historyVars>>

\* Mutant: the state in the file is ignored.
ReadManifestOnly(h) ==
  /\ worker[h].stage = "read"
  /\ \E p \in worker[h].unread :
       worker' = [worker EXCEPT ![h].unread = @ \ {p},
                                ![h].memory[p] = IF Stored(p) = "UNINSTALLED" THEN Stored(p)
                                                 ELSE "ENABLED"]
  /\ UNCHANGED <<files, socket, queue, historyVars>>

\* A file that has gone, cannot be parsed, opened or read is skipped.
ReadFile(h) ==
  /\ worker[h].stage = "read"
  /\ \E p \in worker[h].unread :
       \/ worker' = [worker EXCEPT ![h].unread = @ \ {p}, ![h].memory[p] = Stored(p)]
       \/ worker' = [worker EXCEPT ![h].unread = @ \ {p}, ![h].unsure = @ \cup {p}]
  /\ UNCHANGED <<files, socket, queue, historyVars>>

\* Without any plugin the defaults are to be installed.
EndLoading(h) ==
  /\ worker[h].stage = "read" /\ worker[h].unread = {}
  /\ IF worker[h].memory = Gone.memory
     THEN worker' = [worker EXCEPT ![h].stage = "default", ![h].loaded = TRUE,
                                   ![h].pending = Defaults]
     ELSE worker' = [worker EXCEPT ![h].stage = "apply", ![h].loaded = TRUE]
  /\ UNCHANGED <<files, socket, queue, historyVars>>

InstallDefault(h) ==
  /\ worker[h].stage = "default"
  /\ LET p == Head(worker[h].pending) IN
     /\ worker' = Changed(h, p, [worker[h] EXCEPT !.stage = "open", !.memory[p] = "ENABLED"])
     /\ excused' = excused \cup {p}
  /\ UNCHANGED <<files, socket, queue, promised>>

----------------------------------------------------------------------------
(* A request *)

(***************************************************************************)
(* install_plugin, remove_plugin, enable_plugin, disable_plugin: all but   *)
(* the first want the plugin in memory, and memory is changed first.       *)
(***************************************************************************)
Apply(h) ==
  /\ worker[h].stage = "apply"
  /\ LET r == worker[h].request
         p == r.plugin IN
     IF r.op \in {"install", "install_only"} \/ worker[h].memory[p] # "UNINSTALLED"
     THEN worker' = Changed(h, p, [worker[h] EXCEPT
            !.memory[p] = Outcome[r.op],
            !.stage = IF r.op = "remove" THEN "unlink" ELSE "open"])
     ELSE worker' = [worker EXCEPT ![h].stage = "refuse"]
  /\ UNCHANGED <<files, socket, queue, historyVars>>

\* After a file: the next default, the request, or its answer.
AfterFile(w) ==
  IF w.pending = <<>> THEN [w EXCEPT !.stage = "answer", !.linked = FALSE]
  ELSE [w EXCEPT !.stage = IF Len(w.pending) > 1 THEN "default" ELSE "apply",
                 !.pending = Tail(@), !.linked = FALSE]

\* Mutant: the file is opened without being emptied.
OpenFileInPlace(h) ==
  /\ worker[h].stage = "open"
  /\ files' = [files EXCEPT ![Subject(h)] = IF @ = Absent THEN Empty ELSE @]
  /\ worker' = [worker EXCEPT ![h].stage = "write", ![h].linked = TRUE]
  /\ UNCHANGED <<socket, queue, historyVars>>

\* _persist_installed_plugin, first half: the file is made or emptied.
OpenFile(h) ==
  /\ worker[h].stage = "open"
  /\ \/ /\ files' = [files EXCEPT ![Subject(h)] = Empty]
        /\ worker' = [worker EXCEPT ![h].stage = "write", ![h].linked = TRUE]
     \/ /\ worker' = [worker EXCEPT ![h] = AfterFile([@ EXCEPT !.clean = FALSE])]
        /\ UNCHANGED files
  /\ UNCHANGED <<socket, queue, historyVars>>

\* Second half: the text is written, unless the file has been removed meanwhile.
WriteFile(h) ==
  /\ worker[h].stage = "write"
  /\ \/ /\ files' = IF worker[h].linked
                    THEN [files EXCEPT ![Subject(h)] = Overlay(@, worker[h].memory[Subject(h)])]
                    ELSE files
        /\ worker' = [worker EXCEPT ![h] = AfterFile(@)]
     \/ /\ worker' = [worker EXCEPT ![h] = AfterFile([@ EXCEPT !.clean = FALSE])]
        /\ UNCHANGED files
  /\ UNCHANGED <<socket, queue, historyVars>>

\* The file is removed; who has it open goes on writing to what has no name.
Unlink(h) ==
  /\ worker[h].stage = "unlink"
  /\ \/ /\ files' = [files EXCEPT ![Subject(h)] = Absent]
        /\ worker' = [g \in Hosts |->
             IF g = h THEN [worker[g] EXCEPT !.stage = "answer"]
             ELSE IF Works(g, Subject(h)) THEN [worker[g] EXCEPT !.linked = FALSE]
             ELSE worker[g]]
     \/ /\ files[Subject(h)] # Absent
        /\ worker' = [worker EXCEPT ![h].stage = "answer", ![h].clean = FALSE]
        /\ UNCHANGED files
  /\ UNCHANGED <<socket, queue, historyVars>>

Promise(h) ==
  LET r == worker[h].request IN
  IF worker[h].stage = "answer"
  THEN /\ promised' = [promised EXCEPT ![r.plugin] = Outcome[r.op]]
       /\ excused' = IF worker[h].clean THEN excused \ {r.plugin} ELSE excused \cup {r.plugin}
  ELSE UNCHANGED <<promised, excused>>

\* A client in-process prints the answer and exits.
ReturnAnswer(c) ==
  /\ worker[c].stage \in {"answer", "refuse"}
  /\ Promise(c)
  /\ worker' = [worker EXCEPT ![c] = Gone]
  /\ UNCHANGED <<files, socket, queue>>

\* What the daemon keeps between requests.
Free == [worker[Daemon] EXCEPT !.stage = "free", !.request = NoRequest, !.clean = TRUE]

\* Mutant: a refused request is not answered.
SendSuccess ==
  /\ worker[Daemon].stage \in {"answer", "refuse"} /\ worker[Daemon].request.client # Nobody
  /\ Promise(Daemon)
  /\ worker' = [worker EXCEPT ![Daemon] = Free,
                              ![worker[Daemon].request.client] =
                                 IF worker[Daemon].stage = "answer" THEN Gone ELSE @]
  /\ UNCHANGED <<files, socket, queue>>

\* The daemon answers over the connection.
SendAnswer ==
  /\ worker[Daemon].stage \in {"answer", "refuse"} /\ worker[Daemon].request.client # Nobody
  /\ Promise(Daemon)
  /\ worker' = [worker EXCEPT ![Daemon] = Free, ![worker[Daemon].request.client] = Gone]
  /\ UNCHANGED <<files, socket, queue>>

----------------------------------------------------------------------------
(* The life of the processes *)

\* Without the daemon nobody is answered: waiting clients report an error.
DaemonGone == [g \in Hosts |-> IF g = Daemon \/ worker[g].stage = "waiting" THEN Gone
                               ELSE worker[g]]

(***************************************************************************)
(* A client that went away breaks the connection: sendall raises, and      *)
(* raises again in the handler, which ends the daemon's loop.              *)
(***************************************************************************)
FailToAnswer ==
  /\ worker[Daemon].stage \in {"answer", "refuse"} /\ worker[Daemon].request.client = Nobody
  /\ Promise(Daemon)
  /\ worker' = DaemonGone
  /\ queue' = <<>>
  /\ socket' = FALSE
  /\ UNCHANGED files

\* Killed; the socket stays, or the service manager cleans it up.
KillDaemon ==
  /\ worker[Daemon].stage # "gone"
  /\ worker' = DaemonGone
  /\ queue' = <<>>
  /\ socket' \in BOOLEAN
  /\ excused' = excused \cup Worked(Daemon)
  /\ UNCHANGED <<files, promised>>

StartDaemon ==
  /\ worker[Daemon].stage = "gone"
  /\ worker' = [worker EXCEPT ![Daemon] = [Gone EXCEPT !.stage = "free"]]
  /\ socket' = TRUE
  /\ UNCHANGED <<files, queue, historyVars>>

\* Mutant: what an interrupted client sent is dropped.
Drop(r, c) == IF r # NoRequest /\ r.client = c THEN NoRequest ELSE r

Forget(r, c) == IF r # NoRequest /\ r.client = c THEN [r EXCEPT !.client = Nobody] ELSE r

\* A client is interrupted; what it sent to the daemon stays sent.
Interrupt(c) ==
  /\ worker[c].stage # "gone"
  /\ worker' = [worker EXCEPT ![c] = Gone, ![Daemon].request = Forget(@, c)]
  /\ queue' = [i \in DOMAIN queue |-> Forget(queue[i], c)]
  /\ excused' = excused \cup Worked(c)
  /\ UNCHANGED <<files, socket, promised>>

----------------------------------------------------------------------------

Init ==
  /\ files = [p \in Plugins |-> Absent]
  /\ socket = FALSE
  /\ queue = <<>>
  /\ worker = [h \in Hosts |-> Gone]
  /\ promised = [p \in Plugins |-> "UNINSTALLED"]
  /\ excused = {}

ManagerStep(h) ==
  \/ ListFiles(h) \/ ReadFile(h) \/ EndLoading(h) \/ InstallDefault(h)
  \/ Apply(h) \/ OpenFile(h) \/ WriteFile(h) \/ Unlink(h)

Serve == Accept \/ ManagerStep(Daemon) \/ SendAnswer \/ FailToAnswer

Next ==
  \/ Serve
  \/ \E c \in Clients :
       \/ \E ask \in Requests : Ask(c, ask[1], ask[2])
       \/ ManagerStep(c)
       \/ ReturnAnswer(c)
       \/ Interrupt(c)
  \/ KillDaemon
  \/ StartDaemon

(***************************************************************************)
(* The daemon is scheduled, and no call it makes blocks for ever: clients  *)
(* send their request right after connecting.                              *)
(***************************************************************************)
Spec == Init /\ [][Next]_vars /\ WF_vars(Serve)

----------------------------------------------------------------------------
(* Properties *)

(***************************************************************************)
(* Types: besides the sets the variables range over, only a client waits,  *)
(* only the daemon is free, and work goes on only with a request in hand.  *)
(***************************************************************************)
TypeOK ==
  /\ files \in [Plugins -> [text : (Status \ {"UNINSTALLED"}) \cup {"none", "unreadable"},
                            size : {0} \cup {Size[s] : s \in DOMAIN Size}]]
  /\ socket \in BOOLEAN
  /\ queue \in Seq(Request)
  /\ worker \in [Hosts -> Worker]
  /\ \A h \in Hosts :
       /\ worker[h].stage = "waiting" => h # Daemon
       /\ worker[h].stage = "free" => h = Daemon
       /\ worker[h].request = NoRequest <=> worker[h].stage \in {"gone", "free"}
  /\ promised \in [Plugins -> Status]
  /\ excused \subseteq Plugins

(***************************************************************************)
(* Promises are kept: when nobody is changing a plugin, its file says what *)
(* the last SUCCESS answer said, unless that change could not be written,  *)
(* was made next to another one, was interrupted before its answer, or a   *)
(* load has put the plugin in as a default since (manager.py:370-388).     *)
(***************************************************************************)
PromisesAreKept ==
  \A p \in Plugins \ excused :
    (\A h \in Hosts : ~Works(h, p)) => Stored(p) = promised[p]

(***************************************************************************)
(* A manager that has read the files knows of each plugin what was last    *)
(* answered, whichever process and run answered it, unless the file is     *)
(* excused, this manager failed to read it, or another process touched the *)
(* plugin since the files were listed.  This is what requests are decided  *)
(* on (manager.py:473-517), and what the installation of defaults rests    *)
(* on.                                                                     *)
(***************************************************************************)
MemoryIsCurrent ==
  \A h \in Hosts : worker[h].loaded =>
    \A p \in Plugins \ (excused \cup worker[h].unsure) :
      ~Works(h, p) => worker[h].memory[p] = promised[p]

(***************************************************************************)
(* Every request the daemon has got ends for its client, with an answer or *)
(* with the end of the daemon (kairos_sysd.py:971-1000).                   *)
(***************************************************************************)
RequestsEnd ==
  \A c \in Clients : worker[c].stage = "waiting" ~> worker[c].stage # "waiting"
=============================================================================
