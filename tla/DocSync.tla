-------------------------------- MODULE DocSync --------------------------------
(***************************************************************************)
(* How the symbol index follows the editor and the disk.  It has two kinds *)
(* of writers: the main thread, which handles didOpen, didChange, didClose *)
(* and didChangeWatchedFiles one after the other, and the workers of       *)
(* indexWorkspace (here a FileSweep, which IndexPool implements), which    *)
(* read the files that were on disk at the start.  SymbolIndex takes its   *)
(* mutex for each access, never across two of them.                        *)
(*                                                                         *)
(* A text is a value; the server tells two texts apart by their size and   *)
(* quickHash, which is Fingerprint.  Requests only read the index and are  *)
(* left out; the transport is a FIFO, as Transport shows.                  *)
(***************************************************************************)
EXTENDS Integers, Sequences

CONSTANTS
  Uris,        \* normalized uris
  Texts,       \* contents of files and buffers
  Empty,       \* the empty one
  None,        \* no buffer, no file, no document
  Fingerprint, \* [Texts -> size and quickHash]
  Calls,       \* [Texts -> Seq([fn, uri])]: the Include and require calls in it
  Discovered,  \* the files that indexWorkspace finds; others, in the source
               \* roots, only didOpen reaches
  MaxEdits     \* bound: what the editor and the disk do in one behaviour

Names == {"Include", "require"}

ASSUME DocSyncAssumption ==
  /\ Empty \in Texts /\ None \notin Texts
  /\ DOMAIN Fingerprint = Texts
  /\ Calls \in [Texts -> Seq([fn : Names, uri : Uris])]
  /\ Discovered \subseteq Uris
  /\ MaxEdits \in Nat

VARIABLES
  buffer,    \* [Uris -> Texts \cup {None}]: what the editor has open
  disk,      \* [Uris -> Texts \cup {None}]
  edits,     \* editor and disk actions so far
  inbox,     \* notifications main has not taken yet
  main,      \* where the main thread is
  job,       \* the indexFile call at hand: uri, text, made for a dependency
  todo,      \* calls of the opened text that didOpen has not looked at yet
  handle,    \* the DocumentIndex* in publishDiagnostics: "none", "live", "dangling"
  docs,      \* documents_: the text each document was parsed from
  shown,     \* the text whose errors the editor displays
  phase, announced,  \* the workers, as in FileSweep
  held,      \* what the worker that holds a file has read
  lastSure   \* history: the editor's last word on the uri came after the
             \* workers were done with it, and nothing later disturbs it

editorVars == <<buffer, disk, edits, lastSure>>
mainVars   == <<main, job, todo, handle, shown>>
sweepVars  == <<phase, announced, held>>
vars == <<editorVars, inbox, mainVars, docs, sweepVars>>

Sweep == INSTANCE FileSweep WITH Files <- Discovered

NoJob == [uri |-> None, text |-> Empty, dep |-> FALSE]

Init ==
  /\ buffer = [u \in Uris |-> None]
  /\ disk \in [Uris -> Texts \cup {None}]
  /\ \A u \in Discovered : disk[u] # None
  /\ edits = 0 /\ inbox = <<>>
  /\ main = "idle" /\ job = NoJob /\ todo = <<>> /\ handle = "none"
  /\ docs = [u \in Uris |-> None]
  /\ shown = [u \in Uris |-> None]
  /\ Sweep!Init /\ held = [u \in Discovered |-> None]
  /\ lastSure = [u \in Uris |-> FALSE]

-------------------------------------------------------------------------------
(* The editor and the disk.  Watcher events reach the server in the order   *)
(* of the editor's own notifications.                                       *)

Say(kind, u, t) == inbox' = Append(inbox, [kind |-> kind, uri |-> u, text |-> t])

\* Only Include calls are ever found: when none is left, find has set pos to
\* npos, and the search for require starts from there.
Found(fn) == fn = "Include"

Reaches(t) == {Calls[t][i].uri : i \in {i \in 1 .. Len(Calls[t]) : Found(Calls[t][i].fn)}}

Settled(u, t) == t # Empty /\ (u \in Discovered => phase[u] = "done")

EditStep ==
  /\ edits < MaxEdits
  /\ edits' = edits + 1
  /\ UNCHANGED <<mainVars, docs, sweepVars>>

\* The text need not be the one on disk: a hot exit brings back unsaved edits.
Open(u, t) ==
  /\ EditStep
  /\ buffer[u] = None
  /\ buffer' = [buffer EXCEPT ![u] = t]
  /\ Say("open", u, t)
  /\ lastSure' = [v \in Uris |-> /\ v \notin Reaches(t)
                                 /\ IF v = u THEN Settled(u, t) ELSE lastSure[v]]
  /\ UNCHANGED disk

Edit(u, t) ==
  /\ EditStep
  /\ buffer[u] \notin {None, t}
  /\ buffer' = [buffer EXCEPT ![u] = t]
  /\ Say("change", u, t)
  /\ lastSure' = [lastSure EXCEPT ![u] = Settled(u, t)]
  /\ UNCHANGED disk

Close(u) ==
  /\ EditStep
  /\ buffer[u] # None
  /\ buffer' = [buffer EXCEPT ![u] = None]
  /\ Say("close", u, Empty)
  /\ lastSure' = [lastSure EXCEPT ![u] = FALSE]
  /\ UNCHANGED disk

\* A file is saved, or written by another program: created or changed.
Write(u, t) ==
  /\ EditStep
  /\ disk[u] # t
  /\ disk' = [disk EXCEPT ![u] = t]
  /\ Say("written", u, Empty)
  /\ UNCHANGED <<buffer, lastSure>>

Delete(u) ==
  /\ EditStep
  /\ disk[u] # None
  /\ disk' = [disk EXCEPT ![u] = None]
  /\ Say("deleted", u, Empty)
  /\ lastSure' = [lastSure EXCEPT ![u] = FALSE]
  /\ UNCHANGED buffer

EditorStep ==
  \E u \in Uris : \/ Close(u) \/ Delete(u)
                  \/ \E t \in Texts : Open(u, t) \/ Edit(u, t) \/ Write(u, t)

-------------------------------------------------------------------------------
(* The main thread.                                                         *)

\* didOpen and didChange start with indexFile and publishDiagnostics; only
\* didOpen goes on to the dependencies.
Receive ==
  /\ main = "idle" /\ inbox # <<>>
  /\ Head(inbox).kind \in {"open", "change"}
  /\ inbox' = Tail(inbox)
  /\ job' = [uri |-> Head(inbox).uri, text |-> Head(inbox).text, dep |-> FALSE]
  /\ todo' = IF Head(inbox).kind = "open" THEN Calls[Head(inbox).text] ELSE <<>>
  /\ main' = "check"
  /\ UNCHANGED <<editorVars, docs, sweepVars, handle, shown>>

\* didClose, and a deletion the watcher reports: the document is removed and
\* its diagnostics are cleared.  Other watcher events are ignored.
LeaveShown(u) == shown                   \* variant: diagnostics stay behind
Cleared(u) == [shown EXCEPT ![u] = None]

Forget ==
  /\ main = "idle" /\ inbox # <<>>
  /\ inbox' = Tail(inbox)
  /\ \/ /\ Head(inbox).kind \in {"close", "deleted"}
        /\ docs' = [docs EXCEPT ![Head(inbox).uri] = None]
        /\ shown' = Cleared(Head(inbox).uri)
     \/ /\ Head(inbox).kind = "written"
        /\ UNCHANGED <<docs, shown>>
  /\ UNCHANGED <<editorVars, sweepVars, main, job, todo, handle>>

\* indexFile and the first half of updateDocument: an empty text keeps what is
\* there, and so does one with the size and hash of the document in the index.
SkipsStale(u, t) == docs[u] # None       \* variant: any document will do
Identical(u, t) == docs[u] # None /\ Fingerprint[docs[u]] = Fingerprint[t]

Indexed == IF job.dep THEN "deps" ELSE "get"

Check ==
  /\ main = "check"
  /\ main' = IF job.text = Empty \/ Identical(job.uri, job.text)
             THEN Indexed ELSE "store"
  /\ UNCHANGED <<editorVars, inbox, docs, sweepVars, job, todo, handle, shown>>

\* The lock was released in between.
Store ==
  /\ main = "store"
  /\ docs' = [docs EXCEPT ![job.uri] = job.text]
  /\ main' = Indexed
  /\ UNCHANGED <<editorVars, inbox, sweepVars, job, todo, handle, shown>>

\* getDocument hands out a raw pointer and releases the lock.
Missing(u) == docs[u] = None

GetDocument ==
  /\ main = "get"
  /\ IF Missing(job.uri)
     THEN main' = "deps" /\ UNCHANGED handle
     ELSE main' = "publish" /\ handle' = "live"
  /\ UNCHANGED <<editorVars, inbox, docs, sweepVars, job, todo, shown>>

\* The errors are read through the pointer.  If a worker has replaced the
\* document meanwhile it is freed memory: anything may come of it, a crash too.
Publish ==
  /\ main = "publish"
  /\ handle' = "none"
  /\ \/ /\ handle = "live"
        /\ shown' = [shown EXCEPT ![job.uri] = docs[job.uri]]
        /\ main' = "deps"
     \/ /\ handle = "dangling"
        /\ \E t \in Texts : shown' = [shown EXCEPT ![job.uri] = t]
        /\ main' = "deps"
     \/ /\ handle = "dangling"
        /\ main' = "crashed"
        /\ UNCHANGED shown
  /\ UNCHANGED <<editorVars, inbox, docs, sweepVars, job, todo>>

\* The next call in a document just opened: the file it names is read from
\* disk, whether or not the editor has it open.
SameAgain(s) == s                        \* variant: pos = strEnd + 1 forgotten
NextCall(s) == Tail(s)

Dependency ==
  /\ main = "deps"
  /\ IF todo = <<>>
     THEN main' = "idle" /\ job' = NoJob /\ UNCHANGED todo
     ELSE /\ todo' = NextCall(todo)
          /\ IF Found(Head(todo).fn) /\ disk[Head(todo).uri] \notin {None, Empty}
             THEN /\ job' = [uri  |-> Head(todo).uri,
                             text |-> disk[Head(todo).uri], dep |-> TRUE]
                  /\ main' = "check"
             ELSE UNCHANGED <<main, job>>
  /\ UNCHANGED <<editorVars, inbox, docs, sweepVars, handle, shown>>

MainStep ==
  \/ Receive \/ Forget \/ Check \/ Store \/ GetDocument \/ Publish \/ Dependency

-------------------------------------------------------------------------------
(* The workers.                                                             *)

Take(u) ==
  /\ Sweep!Take(u)
  /\ held' = [held EXCEPT ![u] = disk[u]]
  /\ UNCHANGED <<editorVars, inbox, mainVars, docs>>

\* storeDocument frees the document it replaces.
Finish(u) ==
  /\ Sweep!Finish(u)
  /\ IF held[u] \in {None, Empty}
     THEN UNCHANGED <<docs, handle>>
     ELSE /\ docs' = [docs EXCEPT ![u] = held[u]]
          /\ handle' = IF handle = "live" /\ job.uri = u THEN "dangling" ELSE handle
  /\ held' = [held EXCEPT ![u] = None]
  /\ UNCHANGED <<editorVars, inbox, main, job, todo, shown>>

Announce ==
  /\ Sweep!Announce
  /\ UNCHANGED <<editorVars, inbox, mainVars, docs, held>>

WorkerStep == Announce \/ \E u \in Discovered : Take(u) \/ Finish(u)

-------------------------------------------------------------------------------

Next == EditorStep \/ MainStep \/ WorkerStep

\* The server's threads run; the editor owes nothing.
Fairness == WF_vars(MainStep) /\ WF_vars(WorkerStep)

Spec == Init /\ [][Next]_vars /\ Fairness

-------------------------------------------------------------------------------
(* Properties.                                                              *)

Maybe(S) == S \cup {None}

\* Every variable of the main thread, the editor and the workers has its type,
\* and publishDiagnostics holds a document that was there when it asked.
TypeOK ==
  /\ buffer \in [Uris -> Maybe(Texts)] /\ disk \in [Uris -> Maybe(Texts)]
  /\ edits \in 0 .. MaxEdits /\ lastSure \in [Uris -> BOOLEAN]
  /\ inbox \in Seq([kind : {"open", "change", "close", "written", "deleted"},
                    uri : Uris, text : Texts])
  /\ main \in {"idle", "check", "store", "get", "publish", "deps", "crashed"}
  /\ job \in [uri : Maybe(Uris), text : Texts, dep : BOOLEAN]
  /\ todo \in Seq([fn : Names, uri : Uris]) /\ handle \in {"none", "live", "dangling"}
  /\ main \in {"check", "store", "get", "publish"} => job.uri \in Uris
  /\ main \in {"get", "publish"} => ~ job.dep
  /\ handle # "none" <=> main = "publish"
  /\ handle = "live" => docs[job.uri] # None
  /\ docs \in [Uris -> Maybe(Texts)] /\ shown \in [Uris -> Maybe(Texts)]
  /\ phase \in [Discovered -> Sweep!Phases] /\ announced \in BOOLEAN
  /\ held \in [Discovered -> Maybe(Texts)]

\* Nothing is left for main to do.
Quiet == main = "idle" /\ inbox = <<>>

SameDocument(d, t) == d # None /\ t # None /\ Fingerprint[d] = Fingerprint[t]

\* Once main has caught up, the index has the editor's last word on every file
\* on which it came after the workers were done: didOpen, didChange, the skip
\* of updateDocument and the dependency scan lose none of it.
LastWordIndexed ==
  Quiet => \A u \in Uris : lastSure[u] => SameDocument(docs[u], buffer[u])

\* Then the errors on display are those of the document in the index, and a
\* closed file displays none: every publishDiagnostics is overtaken by the next.
DiagnosticsCurrent ==
  Quiet => \A u \in Uris : /\ lastSure[u] => shown[u] = docs[u]
                           /\ buffer[u] = None => shown[u] = None

\* Why the two hold: until main takes it, the editor's last word on u waits in the
\* inbox with nothing behind it that could undo it; from then on main holds it
\* or the index has it, and neither the inbox nor the calls still to be looked
\* at lead to u again.
Disturbs(m, u) == \/ m.uri = u /\ m.kind # "written"
                  \/ m.kind = "open" /\ u \in Reaches(m.text)
LastWord(m, u) == /\ m.uri = u /\ m.kind \in {"open", "change"} /\ m.text = buffer[u]
                  /\ m.kind = "open" => u \notin Reaches(m.text)

Waits(u) == \E i \in 1 .. Len(inbox) :
              /\ LastWord(inbox[i], u)
              /\ \A j \in i + 1 .. Len(inbox) : ~ Disturbs(inbox[j], u)
Taken(u) ==
  /\ \A j \in 1 .. Len(inbox) : ~ Disturbs(inbox[j], u)
  /\ \A k \in 1 .. Len(todo) : Found(todo[k].fn) => todo[k].uri # u
  /\ IF main \in {"check", "store"} /\ job.uri = u
     THEN job.text = buffer[u] /\ ~ job.dep
     ELSE /\ SameDocument(docs[u], buffer[u])
          /\ shown[u] = docs[u] \/ (main \in {"get", "publish"} /\ job.uri = u)
          /\ (main = "publish" /\ job.uri = u) => handle = "live"

LastWordKept ==
  \A u \in Uris : lastSure[u] =>
    /\ buffer[u] \notin {None, Empty}
    /\ u \in Discovered => phase[u] = "done"
    /\ Waits(u) \/ Taken(u)

\* Of a closed file nothing is displayed, or the close is still to come and
\* nothing behind it would display anything.
Speaks(m, u) == m.uri = u /\ m.kind \in {"open", "change"}
Closing(u) == \E i \in 1 .. Len(inbox) :
                /\ inbox[i].uri = u /\ inbox[i].kind = "close"
                /\ \A j \in i + 1 .. Len(inbox) : ~ Speaks(inbox[j], u)
Dark(u) ==
  /\ \A j \in 1 .. Len(inbox) : ~ Speaks(inbox[j], u)
  /\ shown[u] = None
  /\ ~ (main \in {"check", "store", "get", "publish"} /\ job.uri = u /\ ~ job.dep)

ClosedStayDark == \A u \in Uris : buffer[u] = None => Closing(u) \/ Dark(u)

SyncInv == TypeOK /\ LastWordKept /\ ClosedStayDark

\* When the editor rests, so do main and the workers in the end.
ComesToRest == <>[](main = "crashed" \/ (Quiet /\ announced))
===============================================================================
