-------------------------------- MODULE Extension --------------------------------
(***************************************************************************)
(* The life cycle of the VS Code extension: starts and restarts of the     *)
(* language server (extension.ts), the watcher of emmy.config.json files   *)
(* (emmyConfigWatcher.ts) and the progress bar.                            *)
(*                                                                         *)
(* The code runs on one event loop; a step is what runs between two        *)
(* awaits, and other handlers may come in at each of them.  The language   *)
(* client is external: stop() waits for a running client, shares the       *)
(* promise of one that is stopping, returns for one that has stopped, and  *)
(* throws for one that is starting or has failed to.  Its promise is       *)
(* rejected if the server does not answer in two seconds, or dies.         *)
(***************************************************************************)
EXTENDS Integers, SequencesExt

CONSTANTS
  ConfigFiles, \* the emmy.config.json files there may be
  MaxStarts,   \* bound on calls of startServer
  MaxCrashes,  \* bound on crashes of the servers
  MaxChanges,  \* bound on changes of config files on disk
  Scenes       \* bound: of "reports" by servers and "changes" on disk, which may
               \* come in one behaviour

ASSUME ExtensionAssumption ==
  MaxStarts \in Nat \ {0} /\ MaxCrashes \in Nat /\ MaxChanges \in Nat

VARIABLES
  starts,      \* the calls of startServer: how far each one is, the state of
               \* its client, the restarts that wait for that to stop, how far
               \* its server has indexed, whether that client has a progress
               \* handler, the client its test request went to, the config
               \* files it found, and (history) those that it may be wrong about
  client,      \* luaContext.client: the start it was created by, or 0
  crashes,
  watchers,    \* file system watchers for config files
  configFiles, \* the EmmyConfigWatcher's list: how often it has each file
  files,       \* the config files on disk
  changes,
  events,      \* of each file, the changes that VS Code has not reported yet
  pending,     \* of each file, the events whose handling is after its await
  missed,      \* history: the files that changed around the search for the list
  rushed,      \* history: the files with an event while another was after its await
  misreported, \* history: the files with an emmy/updateConfig of another type than
               \* the event behind it (both since the list was made)
  scene,       \* the one of Scenes that is played
  bar, timers, \* the progress bar, and the timers that will hide it
  cutOff,      \* history: a server went while its indexing was shown, and none has
               \* reported 100 % since
  patient,     \* history: the user only restarts what has come to rest
  rejected     \* history: a stop() that a restart waited for was rejected

configVars   == <<watchers, configFiles, files, changes, events, pending, missed, rushed, misreported,
                  scene>>
progressVars == <<bar, timers, cutOff>>
userVars     == <<patient, rejected>>
vars == <<starts, client, crashes, configVars, progressVars, userVars>>

EventTypes == {"created", "changed", "deleted"}

New == [phase |-> "finding", state |-> "none", waiting |-> 0, work |-> "idle",
        handled |-> FALSE, asked |-> 0, found |-> {}, unsure |-> {}]

Starts == DOMAIN starts
Underway(i) == starts[i].phase \in {"finding", "found", "starting"}
InProgress == \E i \in Starts : Underway(i)
Alive(i) == starts[i].state \in {"starting", "running", "stopping"}
Waiting == \E i \in Starts : starts[i].waiting > 0
Room == Len(starts) + FoldLeft(LAMBDA n, s : n + s.waiting, 0, starts) < MaxStarts
\* Nothing is under way about a config file.
Settled(uri) == events[uri] = <<>> /\ pending[uri] = <<>>
\* A server at work whose reports are shown.
Shown(i) == starts[i].state = "running" /\ starts[i].handled /\ starts[i].work = "indexing"

\* activate, up to the first await of doStartServer
Init ==
  /\ starts = <<New>> /\ client = 0 /\ crashes = 0
  /\ watchers = 0 /\ configFiles = [f \in ConfigFiles |-> 0]
  /\ files \in SUBSET ConfigFiles /\ changes = 0
  /\ events = [f \in ConfigFiles |-> <<>>] /\ pending = [f \in ConfigFiles |-> <<>>]
  /\ missed = {} /\ rushed = {} /\ misreported = {} /\ scene \in Scenes
  /\ bar = "hidden" /\ timers = 0 /\ cutOff = FALSE
  /\ patient = TRUE /\ rejected = FALSE

-------------------------------------------------------------------------------
(* doStartServer                                                           *)

\* findFiles in watch() looks at the disk.
Find(i) ==
  /\ starts[i].phase = "finding"
  /\ starts' = [starts EXCEPT ![i].phase = "found", ![i].found = files,
                  ![i].unsure = {f \in ConfigFiles : ~Settled(f)}]
  /\ UNCHANGED <<client, crashes, configVars, progressVars, userVars>>

\* Its answer, and the rest of watch(): one more watcher, and what was found for a
\* list.
Watch(i) ==
  /\ watchers' = watchers + 1
  /\ configFiles' = [f \in ConfigFiles |-> IF f \in starts[i].found THEN 1 ELSE 0]
  /\ missed' = starts[i].unsure /\ rushed' = {} /\ misreported' = {}
  /\ UNCHANGED <<files, changes, events, pending, scene>>

\* Then up to client.start(), if there is a server binary.
Create(i) ==
  /\ starts[i].phase = "found"
  /\ Watch(i)
  /\ starts' = [starts EXCEPT ![i].phase = "starting", ![i].state = "starting",
                  ![i].found = {}, ![i].unsure = {}]
  /\ client' = i
  /\ UNCHANGED <<crashes, progressVars, userVars>>

Missing(i) ==
  /\ starts[i].phase = "found"
  /\ Watch(i)
  /\ starts' = [starts EXCEPT ![i].phase = "failed", ![i].found = {}, ![i].unsure = {}]
  /\ UNCHANGED <<client, crashes, progressVars, userVars>>

\* client.start() has ended: the handlers are registered and the test request
\* is sent, both with what luaContext.client is by now.
Register(i) ==
  /\ starts[i].phase = "starting" /\ starts[i].state \in {"running", "stopping", "stopped"}
  /\ starts' = [starts EXCEPT ![i].phase = "verifying", ![i].asked = client, ![client].handled = TRUE]
  /\ UNCHANGED <<client, crashes, configVars, progressVars, userVars>>

\* As if a refused test request were not caught.
AnsweredWell(i) == starts[i].phase = "verifying" /\ starts[starts[i].asked].state = "running"
\* It is answered, or refused because the client is stopping.
Answered(i) == starts[i].phase = "verifying" /\ starts[starts[i].asked].state # "starting"
Verify(i) ==
  /\ Answered(i)
  /\ starts' = [starts EXCEPT ![i].phase = "done", ![i].asked = 0]
  /\ UNCHANGED <<client, crashes, configVars, progressVars, userVars>>

\* The message about a failed start: "Try again", or not.
TryAgain(i) ==
  /\ starts[i].phase = "failed" /\ Room
  /\ starts' = Append([starts EXCEPT ![i].phase = "closed"], New)
  /\ patient' = (patient /\ ~InProgress /\ ~Waiting /\ ~\E j \in Starts : Alive(j))
  /\ UNCHANGED <<client, crashes, configVars, progressVars, rejected>>
Dismiss(i) ==
  /\ starts[i].phase = "failed"
  /\ starts' = [starts EXCEPT ![i].phase = "closed"]
  /\ UNCHANGED <<client, crashes, configVars, progressVars, userVars>>

-------------------------------------------------------------------------------
(* The language client                                                     *)

Connect(i) ==
  /\ starts[i].state = "starting"
  /\ starts' = [starts EXCEPT ![i].state = "running"]
  /\ UNCHANGED <<client, crashes, configVars, progressVars, userVars>>
FailToStart(i) ==
  /\ starts[i].state = "starting"
  /\ starts' = [starts EXCEPT ![i].state = "startFailed", ![i].work = "idle",
                  ![i].phase = IF @ = "starting" THEN "failed" ELSE @]
  /\ UNCHANGED <<client, crashes, configVars, progressVars, userVars>>
\* It starts a server that crashed again by itself.
Crash(i) ==
  /\ starts[i].state = "running" /\ starts[i].phase # "starting" /\ crashes < MaxCrashes
  /\ crashes' = crashes + 1
  /\ starts' = [starts EXCEPT ![i].state = "starting", ![i].work = "idle"]
  /\ cutOff' = (cutOff \/ Shown(i))
  /\ UNCHANGED <<client, configVars, bar, timers, userVars>>

\* stop() is fulfilled, and what waits for it may go on; or it is rejected, because
\* the server is late or dies: the client has stopped as well, and nothing goes on.
Stopped(i) ==
  /\ starts[i].state = "stopping"
  /\ starts' = [starts EXCEPT ![i].state = "stopped", ![i].work = "idle"]
  /\ UNCHANGED <<client, crashes, configVars, progressVars, userVars>>
StopFails(i) ==
  /\ starts[i].state = "stopping"
  /\ starts' = [starts EXCEPT ![i].state = "stopped", ![i].work = "idle", ![i].waiting = 0]
  /\ rejected' = (rejected \/ starts[i].waiting > 0)
  /\ UNCHANGED <<client, crashes, configVars, progressVars, patient>>

-------------------------------------------------------------------------------
(* emmy.restartServer                                                      *)

\* As if the old client were stopped and not waited for.
RestartAtOnce ==
  /\ Room
  /\ client # 0 => starts[client].state = "running"
  /\ starts' = Append([i \in Starts |-> IF i = client THEN [starts[i] EXCEPT !.state = "stopping"]
                                        ELSE starts[i]], New)
  /\ cutOff' = (cutOff \/ (client # 0 /\ Shown(client)))
  /\ patient' = (patient /\ ~InProgress /\ ~Waiting)
  /\ UNCHANGED <<client, crashes, configVars, bar, timers, rejected>>

\* A client that is starting, or has failed to, throws: nothing happens.
Restart ==
  /\ Room
  /\ \/ client = 0 /\ starts' = Append(starts, New) /\ UNCHANGED cutOff
     \/ /\ client # 0
        /\ starts[client].state \in {"running", "stopping", "stopped"}
        /\ starts' = [starts EXCEPT ![client].waiting = @ + 1,
                        ![client].state = IF @ = "running" THEN "stopping" ELSE @]
        /\ cutOff' = (cutOff \/ Shown(client))
  /\ patient' = (patient /\ ~InProgress /\ ~Waiting)
  /\ UNCHANGED <<client, crashes, configVars, bar, timers, rejected>>

\* What follows stop() in restartServer, if it is fulfilled.
Continue(i) ==
  /\ starts[i].state = "stopped" /\ starts[i].waiting > 0
  /\ starts' = Append([starts EXCEPT ![i].waiting = @ - 1], New)
  /\ UNCHANGED <<client, crashes, configVars, progressVars, userVars>>

-------------------------------------------------------------------------------
(* emmy/progressReport                                                     *)

\* loadStdLibrary reports 100 %, indexWorkspace less, again and again, and then 100 %.
NextWork(w) ==
  CASE w = "idle" -> {"ready early"}
    [] w = "ready early" -> {"indexing"}
    [] OTHER -> {"indexing", "ready"}
\* As if only more than 100 % hid the bar.
NeverFull(w) == FALSE
Full(w) == w \in {"ready early", "ready"}
Progress(i) ==
  /\ starts[i].state = "running" /\ starts[i].work # "ready" /\ "reports" \in scene
  /\ \E w \in NextWork(starts[i].work) :
       /\ starts' = [starts EXCEPT ![i].work = w]
       /\ IF starts[i].handled
          THEN /\ bar' = "shown"
               /\ timers' = IF Full(w) THEN timers + 1 ELSE timers
               /\ cutOff' = (cutOff /\ ~Full(w))
          ELSE UNCHANGED progressVars
  /\ UNCHANGED <<client, crashes, configVars, userVars>>

\* setTimeout: three seconds later, whatever has been reported since
Hide ==
  /\ timers > 0
  /\ timers' = timers - 1 /\ bar' = "hidden"
  /\ UNCHANGED <<starts, client, crashes, configVars, cutOff, userVars>>

-------------------------------------------------------------------------------
(* EmmyConfigWatcher                                                       *)

\* A config file is created, changed or deleted, at any time.
Disk(type, uri) ==
  /\ changes < MaxChanges /\ "changes" \in scene
  /\ (type = "created") = (uri \notin files)
  /\ files' = CASE type = "created" -> files \cup {uri}
                [] type = "changed" -> files
                [] OTHER -> files \ {uri}
  /\ changes' = changes + 1
  /\ events' = [events EXCEPT ![uri] = Append(@, type)]
  /\ starts' = [i \in Starts |-> IF starts[i].phase = "found"
                                THEN [starts[i] EXCEPT !.unsure = @ \cup {uri}] ELSE starts[i]]
  /\ UNCHANGED <<client, crashes, watchers, configFiles, pending, missed, rushed, misreported,
                 scene, progressVars, userVars>>

\* As if every event of a known file took it off the list.
TakenOff(type) == type # "created"
Removes(type) == type = "deleted"

\* How many of the watchers find the file on the list, each after what the ones
\* before it have taken off.
Finders(type, uri) ==
  LET n == configFiles[uri] IN
  IF Removes(type) THEN (IF n < watchers THEN n ELSE watchers)
  ELSE IF n > 0 THEN watchers ELSE 0

\* An event comes to every watcher there is.  updateConfig, up to its await: who
\* finds the file on the list reports the event, and takes off one entry if that is
\* its deletion; who does not find it looks its workspace up.
Handle(uri) ==
  /\ events[uri] # <<>>
  /\ LET type    == Head(events[uri])
         finders == Finders(type, uri)
     IN  /\ configFiles' = [configFiles EXCEPT ![uri] = IF Removes(type) THEN @ - finders ELSE @]
         /\ pending' = [pending EXCEPT ![uri] = @ \o [k \in 1 .. watchers - finders |-> type]]
  /\ events' = [events EXCEPT ![uri] = Tail(@)]
  /\ rushed' = IF pending[uri] = <<>> THEN rushed ELSE rushed \cup {uri}
  /\ UNCHANGED <<starts, client, crashes, watchers, files, changes, missed, misreported,
                 scene, progressVars, userVars>>

\* Its workspace is known: it is pushed and reported as created, whatever the event.
Push(uri) ==
  /\ pending[uri] # <<>>
  /\ configFiles' = [configFiles EXCEPT ![uri] = @ + 1]
  /\ misreported' = IF Head(pending[uri]) = "created" THEN misreported ELSE misreported \cup {uri}
  /\ pending' = [pending EXCEPT ![uri] = Tail(@)]
  /\ UNCHANGED <<starts, client, crashes, watchers, files, changes, events, missed, rushed,
                 scene, progressVars, userVars>>

-------------------------------------------------------------------------------
Extending(i) ==
  Find(i) \/ Create(i) \/ Missing(i) \/ Register(i) \/ Verify(i) \/ Continue(i)
Library(i) == Connect(i) \/ FailToStart(i) \/ Stopped(i) \/ StopFails(i)
User == Restart \/ \E i \in Starts : TryAgain(i) \/ Dismiss(i)
Changing == \E type \in EventTypes, uri \in ConfigFiles : Disk(type, uri)
Watching == \E uri \in ConfigFiles : Handle(uri) \/ Push(uri)

Next ==
  \/ \E i \in Starts : Extending(i) \/ Library(i) \/ Crash(i) \/ Progress(i)
  \/ User \/ Changing \/ Watching \/ Hide

\* The event loop runs what is ready, the timers fire, and the servers answer
\* initialize and shutdown or fail to start; nothing makes the user, the disk or
\* a server's indexing go on.
Fairness ==
  /\ \A i \in 1 .. MaxStarts :
       /\ WF_vars(i \in Starts /\ Extending(i))
       /\ WF_vars(i \in Starts /\ Library(i))
  /\ WF_vars(Hide) /\ WF_vars(Watching)
Spec == Init /\ [][Next]_vars /\ Fairness

-------------------------------------------------------------------------------
(* Properties                                                              *)

\* For a user who waits for what is under way before the next restart, there is
\* at most one server, the one of luaContext.client, through crashes, failed
\* starts and restarts of it.
OneServer ==
  patient =>
    /\ \A i \in Starts : Alive(i) => i = client
    /\ \A i, j \in Starts : Underway(i) /\ Underway(j) => i = j

\* A restart that was accepted is followed by a start, unless a stop() that restarts
\* wait for is rejected; and every start comes to an end: it succeeds or shows its
\* failure, even if its client is stopped meanwhile.
StartsEnd ==
  /\ \A n \in 1 .. MaxStarts - 1 :
       (Waiting /\ Len(starts) = n) ~> (Len(starts) > n \/ rejected)
  /\ \A i \in 1 .. MaxStarts : (i \in Starts) ~> (i \in Starts /\ starts[i].phase \in {"done", "failed", "closed"})

\* When nothing is under way about a config file, the list has it if it is on disk,
\* whatever number of watchers reports its changes and however close they come,
\* unless it changed around the search that the list was made of.  With one watcher,
\* and if no event of the file came while another was after its await, the list has
\* it once, or not at all if it is not on disk, and what is reported of it is what
\* happened.
ConfigFilesKnown ==
  watchers > 0 =>
    \A f \in ConfigFiles \ missed :
      /\ Settled(f) /\ f \in files => configFiles[f] > 0
      /\ watchers = 1 /\ f \notin rushed =>
           /\ Settled(f) => configFiles[f] = IF f \in files THEN 1 ELSE 0
           /\ f \notin misreported

\* The bar is not left on: again and again it is hidden, through timers that overlap,
\* servers that overlap, crashes and restarts, unless a server goes on with its
\* indexing, or was cut off in it and no 100 % has been reported since.
BarHides == []<>(bar = "hidden" \/ cutOff \/ \E i \in Starts : Shown(i))

===============================================================================
