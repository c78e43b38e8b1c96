------------------------------- MODULE DebugFrames -------------------------------
(***************************************************************************)
(* The frames and variables of a stopped Lua process, as the debug adapter *)
(* shows them: stackTrace, scopes, variables and evaluate                  *)
(* (src/debugger/EmmyDebugSession.ts, EmmyDebugData.ts, DebugSession.ts).  *)
(* A request that has to wait goes on later, between other requests: for   *)
(* the files VS Code searches, and for the Lua process's answers.          *)
(*                                                                         *)
(* One connection that stays and whose lines are read in phase: how it     *)
(* comes about and what upsets it is in EmmyDebugSession.  A value is told *)
(* from others by the stop and the frame it was computed in and by its     *)
(* expression, a sequence of names.                                        *)
(***************************************************************************)
EXTENDS Integers, SequencesExt

CONSTANTS
  Found,       \* [files -> paths]: the first file VS Code finds, or NoPath
  NoPath,
  Stacks,      \* stacks of a stop: sequences of [file, source, env]: whether
               \* it is Lua code (line >= 0), whether _ENV is among its variables
  Members,     \* the names of the variables of a frame, a table or a group
  Groups,      \* those among them that group others (ValueType.GROUP)
  MaxStops, MaxRequests, MaxDepth  \* bounds

ASSUME FramesAssumption ==
  /\ Members \in Seq(STRING) /\ Groups \subseteq ToSet(Members)
  /\ MaxStops \in Nat /\ MaxRequests \in Nat /\ MaxDepth \in Nat
  /\ Stacks \subseteq Seq([file : DOMAIN Found, source : BOOLEAN, env : BOOLEAN]) \ {<<>>}

VARIABLES
  stops,          \* the stacks the Lua process has stopped with
  running,        \* it runs
  toLua, fromLua, \* messages on their way
  breakNotify,    \* the stop whose BreakNotify came last, 0 for none
  stopped,        \* VS Code's view: stopped there
  traces,         \* the stackTrace requests, each with its local variables
  fileCache, searches, findFileSeq, \* _fileCache, findFileReq under way
  currentFrameId,
  handles,        \* the nodes that VS Code has references to
  evalIdCount, waiting,             \* listeners on onEvalRsp
  requests

lua    == <<stops, running>>
files  == <<fileCache, searches, findFileSeq>>
asking == <<evalIdCount, waiting, toLua>>
vars   == <<lua, fromLua, breakNotify, stopped, traces, files, currentFrameId,
            handles, asking, requests>>

Init ==
  /\ stops = <<>> /\ running = TRUE /\ toLua = <<>> /\ fromLua = <<>>
  /\ breakNotify = 0 /\ stopped = FALSE
  /\ traces = <<>> /\ fileCache = <<>> /\ searches = {} /\ findFileSeq = 0
  /\ currentFrameId = 0 /\ handles = <<>>
  /\ evalIdCount = 0 /\ waiting = {} /\ requests = 0

\* Bound: on VS Code's requests.
Request == requests < MaxRequests /\ requests' = requests + 1

-------------------------------------------------------------------------------
(* stackTrace                                                               *)

NoSearch == -1

\* stackTraceRequest keeps the stacks of its stop in a constant.
StackLatest(t) == stops[breakNotify] \* variant: this.breakNotify.stacks
StackOf(t)     == stops[t.stop]

\* What turn i of the loop pushes: a frame of C code is shown only if it is the last.
Turn(stack, i, path) ==
  IF stack[i].source \/ i = Len(stack) THEN <<[level |-> i - 1, path |-> path]>> ELSE <<>>

\* The turns before the next search.  The stack frames are all that they push.
Turns(stack, from, to, cache) ==
  [k \in 1 .. to - from |->
    LET i == from + k - 1
    IN Turn(stack, i, IF stack[i].source THEN cache[stack[i].file] ELSE stack[i].file)]

\* The loop goes on to the next file that is not in the cache, or to its end.
Resume(t, cache) ==
  LET stack   == StackOf(t)
      unknown == {i \in t.next .. Len(stack) :
                    stack[i].source /\ stack[i].file \notin DOMAIN cache}
      next    == IF unknown = {} THEN Len(stack) + 1
                 ELSE CHOOSE i \in unknown : \A j \in unknown : i <= j
  IN [t EXCEPT !.next = next, !.turns = @ \o Turns(stack, t.next, next, cache),
               !.search = IF unknown = {} THEN NoSearch ELSE findFileSeq]

\* findFile: the file that a request now waits for is asked of VS Code.
FindFile(ts, rest) ==
  LET asked == {t \in ToSet(ts) : t.search = findFileSeq}
  IN /\ traces' = ts
     /\ searches' = rest \cup
          {[seq |-> t.search, file |-> StackOf(t)[t.next].file] : t \in asked}
     /\ findFileSeq' = IF asked = {} THEN findFileSeq ELSE findFileSeq + 1

StackTrace ==
  /\ Request /\ stopped
  /\ LET t == [stop |-> breakNotify, next |-> 1, turns |-> <<>>, search |-> NoSearch]
     IN FindFile(Append(traces, Resume(t, fileCache)), searches)
  /\ UNCHANGED <<lua, fromLua, breakNotify, stopped, fileCache, currentFrameId,
                 handles, asking>>

\* A listener whose number it is not waits on.
GivesUp(t) == [t EXCEPT !.search = NoSearch] \* variant: removed at any answer
WaitsOn(t) == t

\* Without a file in the workspace it is the one asked for; this is not cached.
PathOf(file)  == IF Found[file] = NoPath THEN file ELSE Found[file]
CacheOf(file) ==
  IF Found[file] = NoPath THEN fileCache
  ELSE [f \in DOMAIN fileCache \cup {file} |-> IF f = file THEN Found[f] ELSE fileCache[f]]

\* The provider's searches end in any order, each with customRequest findFileRsp.
FindFileRsp(s) ==
  LET cache    == CacheOf(s.file)
      Heard(t) == Resume([t EXCEPT !.next = @ + 1,
                    !.turns = Append(@, Turn(StackOf(t), t.next, PathOf(s.file)))], cache)
  IN /\ s \in searches
     /\ fileCache' = cache
     /\ FindFile([k \in DOMAIN traces |->
                    IF traces[k].search = s.seq THEN Heard(traces[k]) ELSE WaitsOn(traces[k])],
                 searches \ {s})
     /\ UNCHANGED <<lua, fromLua, breakNotify, stopped, currentFrameId, handles,
                    asking, requests>>

-------------------------------------------------------------------------------
(* scopes, variables, evaluate                                              *)
(*                                                                          *)
(* A node of handles: what kind it is, the names on the way to it (getExpr  *)
(* leaves groups out), the value it shows, and two marks of VS Code: the    *)
(* root, the frame it is shown under, and sure, whether that frame was the  *)
(* one of the last scopes request, the program still stopped, each time an  *)
(* evaluation for it was sent.                                              *)

InFocus(root) == stopped /\ root = [stop |-> breakNotify, level |-> currentFrameId]

Named(names, name) == IF name \in Groups THEN names ELSE Append(names, name)
Node(type, path, value, w) ==
  [type |-> type, path |-> path, value |-> value, root |-> w.root, sure |-> w.sure]
Children(w, value, names) ==
  [k \in DOMAIN names |->
    Node(IF names[k] \in Groups THEN "group" ELSE "table", Named(w.path, names[k]),
         [value EXCEPT !.expr = Named(@, names[k])], w)]

TopLevel == 0                    \* variant: every evaluation at the top
Level    == currentFrameId
SameId   == evalIdCount          \* variant: every evaluation has number 0
NextId   == evalIdCount + 1

\* eval: the answer is for use with w, in place of the evaluation that led here.
Eval(use, path, w, others) ==
  /\ evalIdCount' = NextId
  /\ waiting' = others \cup
       {[seq |-> evalIdCount, use |-> use, path |-> path, value |-> w.value,
         root |-> w.root, sure |-> w.sure /\ InFocus(w.root)]}
  /\ toLua' = Append(toLua, [cmd |-> "EvalReq", seq |-> evalIdCount,
                             level |-> Level, expr |-> path])

\* VS Code knows the frames of the answers to its stackTrace requests.
Levels ==
  UNION {{t.turns[i][1].level : i \in {i \in DOMAIN t.turns : t.turns[i] # <<>>}} :
           t \in {t \in ToSet(traces) : t.stop = breakNotify /\ t.search = NoSearch}}

Scopes(level) ==
  /\ Request /\ stopped /\ level \in Levels
  /\ currentFrameId' = level
  /\ LET frame == [stop |-> breakNotify, level |-> level]
         value == [at |-> frame, expr |-> <<>>]
         w     == [root |-> frame, sure |-> TRUE]
     IN handles' = handles \o <<Node("stack", <<>>, value, w), Node("ENV", <<>>, value, w)>>
  /\ UNCHANGED <<lua, fromLua, breakNotify, stopped, traces, files, asking>>

FrameOf(node) == stops[node.value.at.stop][node.value.at.level + 1]

\* variablesRequest and computeChildren.  Bound: MaxDepth.
Variables(node) ==
  /\ Request /\ stopped
  /\ node \in ToSet(handles) /\ node.root.stop = breakNotify /\ Len(node.path) < MaxDepth
  /\ \/ /\ node.type = "stack"
        /\ handles' = handles \o Children(node, node.value,
             Members \o IF FrameOf(node).env THEN <<"_ENV">> ELSE <<>>)
        /\ UNCHANGED asking
     \/ /\ node.type = "group"
        /\ handles' = handles \o Children(node, node.value, Members)
        /\ UNCHANGED asking
     \/ /\ node.type = "table"
        /\ Eval("children", node.path, node, waiting)
        /\ UNCHANGED handles
     \/ /\ node.type = "ENV"
        /\ IF FrameOf(node).env
           THEN Eval("children", <<"_ENV">>, [node EXCEPT !.value.expr = <<"_ENV">>], waiting)
           ELSE Eval("_G", <<"_G">>, node, waiting)
        /\ UNCHANGED handles
  /\ UNCHANGED <<lua, fromLua, breakNotify, stopped, traces, files, currentFrameId>>

\* The frame VS Code names is not looked at.
Evaluate(level) ==
  /\ Request
  /\ level \in IF stopped THEN Levels ELSE {0}
  /\ LET root == [stop |-> breakNotify, level |-> level]
     IN Eval("result", <<"expression">>,
             [root |-> root, sure |-> TRUE, value |-> [at |-> root, expr |-> <<>>]], waiting)
  /\ UNCHANGED <<lua, fromLua, breakNotify, stopped, traces, files, currentFrameId, handles>>

\* continueRequest, and the steps.  VS Code takes the program for running.
Continue ==
  /\ Request /\ stopped /\ stopped' = FALSE
  /\ toLua' = Append(toLua, [cmd |-> "ActionReq"])
  /\ UNCHANGED <<lua, fromLua, breakNotify, traces, files, currentFrameId, handles,
                 evalIdCount, waiting>>

-------------------------------------------------------------------------------
(* Messages of the Lua process: handleDebugMessage.                         *)

OnBreakNotify(msg) ==
  /\ breakNotify' = msg.stop /\ stopped' = TRUE
  /\ UNCHANGED <<handles, asking>>

\* The listener of this number, and what its request does with the answer.
\* Without an answer a variable shows the children it came with.
OnEvalRsp(msg) ==
  LET heard  == {w \in waiting : w.seq = msg.seq}
      others == waiting \ heard
      w      == CHOOSE w \in heard : TRUE
  IN /\ UNCHANGED <<breakNotify, stopped>>
     /\ IF heard = {} THEN UNCHANGED <<handles, asking>>
        ELSE IF w.use = "_G" /\ msg.success
        THEN Eval("children", <<"_G">>, [w EXCEPT !.value = msg.value], others) /\ UNCHANGED handles
        ELSE /\ waiting' = others /\ UNCHANGED <<evalIdCount, toLua>>
             /\ handles' = handles \o
                  CASE w.use = "children" ->
                         Children(w, IF msg.success THEN msg.value ELSE w.value, Members)
                    [] w.use = "result" /\ msg.success -> <<Node("table", w.path, msg.value, w)>>
                    [] OTHER -> <<>>

OnReceive ==
  /\ fromLua # <<>> /\ fromLua' = Tail(fromLua)
  /\ LET msg == Head(fromLua)
     IN IF msg.cmd = "BreakNotify" THEN OnBreakNotify(msg) ELSE OnEvalRsp(msg)
  /\ UNCHANGED <<lua, traces, files, currentFrameId, requests>>

-------------------------------------------------------------------------------
(* The Lua process: its messages in order, answers where it is stopped.     *)

Stop ==
  /\ running /\ running' = FALSE
  /\ Len(stops) < MaxStops
  /\ \E stack \in Stacks : stops' = Append(stops, stack)
  /\ fromLua' = Append(fromLua, [cmd |-> "BreakNotify", stop |-> Len(stops')])
  /\ UNCHANGED <<toLua, breakNotify, stopped, traces, files, currentFrameId, handles,
                 evalIdCount, waiting, requests>>

Answer(msg) ==
  \E success \in {FALSE, msg.level < Len(stops[Len(stops)])} :
    fromLua' = Append(fromLua,
      [cmd |-> "EvalRsp", seq |-> msg.seq, success |-> success,
       value |-> [at |-> [stop |-> Len(stops), level |-> msg.level], expr |-> msg.expr]])

\* While it runs it may leave an evaluation for the next stop, or drop it.
LuaReceive ==
  /\ toLua # <<>> /\ toLua' = Tail(toLua)
  /\ LET msg == Head(toLua)
     IN IF msg.cmd = "ActionReq" THEN running' = TRUE /\ UNCHANGED fromLua
        ELSE /\ UNCHANGED running
             /\ IF running THEN UNCHANGED fromLua ELSE Answer(msg)
  /\ UNCHANGED <<stops, breakNotify, stopped, traces, files, currentFrameId, handles,
                 evalIdCount, waiting, requests>>

Next ==
  \/ StackTrace \/ Continue
  \/ \E level \in Levels \cup {0} : Scopes(level) \/ Evaluate(level)
  \/ \E node \in ToSet(handles) : Variables(node)
  \/ \E s \in searches : FindFileRsp(s)
  \/ OnReceive \/ Stop \/ LuaReceive

\* VS Code ends its searches, the event loop reads every message, and a Lua
\* process that is stopped reads its own.  With bounded requests it is enough
\* that one of the three goes on.
Progress ==
  \/ \E s \in searches : FindFileRsp(s)
  \/ OnReceive
  \/ ~running /\ LuaReceive

Spec == Init /\ [][Next]_vars /\ WF_vars(Progress)

-------------------------------------------------------------------------------
(* Properties                                                               *)

\* Every stack trace lists the frames of the stop it was asked for, from the top
\* and each with the file VS Code finds for it, though the loop over them waits
\* for every search: other traces, the end of other searches and the next stop
\* come in between.
Listed(stack, i) ==
  LET frame == stack[i]
  IN IF ~frame.source /\ i < Len(stack) THEN <<>>
     ELSE <<[level |-> i - 1,
             path  |-> IF frame.source THEN PathOf(frame.file) ELSE frame.file]>>
FramesOfStop ==
  \A t \in ToSet(traces) :
    LET stack == stops[t.stop]
    IN /\ t.next <= Len(stack) + 1
       /\ DOMAIN t.turns = 1 .. t.next - 1
       /\ \A i \in DOMAIN t.turns : t.turns[i] = Listed(stack, i)

\* What a variable shows is its own value in the frame it is shown under, at
\* the stop it is shown for: the adapter names no frame of its own with a
\* reference, and sends every evaluation to the frame of the last scopes
\* request; the answers come later, with other numbers between.
VariablesOfFrame ==
  \A node \in ToSet(handles) :
    node.sure => node.value.at = node.root /\ node.value.expr = node.path

\* Every stack trace comes to its end, and every evaluation that was sent while
\* the program was stopped, for a frame VS Code shows, is answered, whatever else
\* is asked and although the program may go on right behind it.
Ended(t) == t.next > Len(stops[t.stop])
AnswersArrive ==
  /\ (\E t \in ToSet(traces) : ~Ended(t)) ~> (\A t \in ToSet(traces) : Ended(t))
  /\ (\E w \in waiting : w.sure) ~> (\A w \in waiting : ~w.sure)

===============================================================================
