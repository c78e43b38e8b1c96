--------------------------- MODULE EmmyDebugSession ---------------------------
(***************************************************************************)
(* The debug adapter between VS Code and the Lua process it debugs         *)
(* (src/debugger/EmmyDebugSession.ts with its Attach and Launch            *)
(* subclasses).  The adapter is one event loop: every handler runs to its  *)
(* end, so every action below is a whole handler.  A message on the socket *)
(* is two lines, the number of its command and then its JSON.              *)
(*                                                                         *)
(* What has reached a Lua process is abstracted to what it knows:          *)
(* whether it was greeted (InitReq, AddBreakPointReq, ReadyReq), the       *)
(* breakpoints of the last AddBreakPointReq (each one clears what was set  *)
(* before), the evaluations it has not answered, and whether anything was  *)
(* sent to it before the greeting.                                         *)
(***************************************************************************)
EXTENDS Integers, Sequences

CONSTANTS Conns,        \* the connections the adapter may see, in any order
          Paths,        \* source files with breakpoints
          Spots,        \* line, condition and log message of a breakpoint
          NoConn,       \* the client of a session without one
          MaxRequests,  \* requests VS Code makes
          MaxSaid       \* messages the Lua processes send

ASSUME SessionAssumption ==
  NoConn \notin Conns /\ MaxRequests \in Nat /\ MaxSaid \in Nat

\* launch with ideConnectDebugger false and true; the two subclasses.
Kinds == {"listen", "connect", "attach", "launch"}
\* The subclasses inject a debugger and set client while they still dial.
Injecting == {"attach", "launch"}

Breakpoints == [file : Paths, spot : Spots]
Notices == {"BreakNotify", "LogNotify"}
Commands == Notices \cup {"EvalRsp"}

\* The two lines of a message; seq is used by EvalRsp only.
Lines == [part : {"header", "body"}, cmd : Commands, seq : Nat]
Message(cmd, seq) ==
  << [part |-> "header", cmd |-> cmd, seq |-> seq],
     [part |-> "body",   cmd |-> cmd, seq |-> seq] >>

VARIABLES
  kind,         \* which session this is
  client,       \* this.client
  readHeader, currentCmd,   \* the reading state, one for all connections
  breakNotify,  \* "none", "stop" or, a body that is no stop, "garbage"
  breakpoints,  \* this.breakpoints, as a set
  evalIdCount,
  waiting,      \* listeners on onEvalRsp: seq and the connection asked
  timer,        \* disconnectRequest's setTimeout: "off", "armed", "fired"
  listening,    \* the server accepts connections
  dap,          \* what VS Code knows: a subset of Facts
  link,         \* [Conns -> States] how far a connection is
  ended,        \* connections the adapter has called end() on
  wired,        \* connections whose listeners are in place
  wire,         \* [Conns -> Seq(Lines)] lines not yet read
  knows,        \* [Conns -> Knowledge] what the other end was sent
  requests, said,
  faults        \* history: "overlap", "torn"

session == <<readHeader, currentCmd, breakNotify>>
asking  == <<evalIdCount, waiting>>
network == <<link, ended, wired, wire>>
budget  == <<requests, said>>
vars == <<kind, client, session, breakpoints, asking, timer, listening, dap,
          network, knows, budget, faults>>

Facts == {"launched", "initialized", "terminated", "disconnecting"}
States == {"idle", "dialing", "open", "lost", "closed"}
Knowledge == [greeted : BOOLEAN, early : BOOLEAN,
              breaks : SUBSET Breakpoints, asked : SUBSET Nat]
Stranger == [greeted |-> FALSE, early |-> FALSE, breaks |-> {}, asked |-> {}]

Init ==
  /\ kind \in Kinds /\ client = NoConn
  /\ readHeader = TRUE /\ currentCmd = "Unknown" /\ breakNotify = "none"
  /\ breakpoints = {} /\ evalIdCount = 0 /\ waiting = {}
  /\ timer = "off" /\ listening = FALSE /\ dap = {}
  /\ link = [c \in Conns |-> "idle"] /\ ended = {} /\ wired = {}
  /\ wire = [c \in Conns |-> <<>>]
  /\ knows = [c \in Conns |-> Stranger]
  /\ requests = 0 /\ said = 0 /\ faults = {}

-------------------------------------------------------------------------------
(* Sending.  Every message but the greeting's own finds the process greeted *)
(* or comes too early.                                                      *)

Told(k)        == [k EXCEPT !.early = @ \/ ~ k.greeted]
ToldBreaks(k, bps) == [Told(k) EXCEPT !.breaks = bps]
Asked(k, seq)  == [Told(k) EXCEPT !.asked = @ \cup {seq}]
GreetedOnly(k) == [k EXCEPT !.greeted = TRUE]   \* variant: no sendBreakpoints
Greeted(k)     == [k EXCEPT !.greeted = TRUE, !.breaks = breakpoints]

Writable(c) == c \in Conns /\ link[c] # "closed" /\ c \notin ended

\* sendMessage: nothing is sent, and nothing said of it, without a client.
SendMessage(known) ==
  knows' = IF Writable(client) THEN [knows EXCEPT ![client] = known] ELSE knows

-------------------------------------------------------------------------------
(* Launching and connecting.                                                *)

EarlyClient(c) == c              \* variant: set before it is connected
DialClient(c) == IF kind \in Injecting THEN c ELSE client
Dial(c) ==
  /\ link' = [link EXCEPT ![c] = "dialing"]
  /\ client' = DialClient(c)

Launch ==
  /\ "launched" \notin dap
  /\ dap' = dap \cup {"launched"}
  /\ listening' = (kind = "listen")
  /\ IF kind = "connect" THEN \E c \in Conns : Dial(c)
                         ELSE UNCHANGED <<link, client>>
  /\ UNCHANGED <<kind, session, breakpoints, asking, timer, ended, wired, wire,
                 knows, budget, faults>>

\* The awaits of the subclasses are over: the process runs the debugger.
Inject(c) ==
  /\ kind \in Injecting /\ "launched" \in dap
  /\ \A d \in Conns : link[d] = "idle"
  /\ Dial(c)
  /\ UNCHANGED <<kind, session, breakpoints, asking, timer, listening, dap,
                 ended, wired, wire, knows, budget, faults>>

\* The port is taken, or nobody answers: error before any connection.
ListenFails ==
  /\ listening /\ \A c \in Conns : link[c] = "idle"
  /\ listening' = FALSE /\ dap' = dap \cup {"terminated"}
  /\ UNCHANGED <<kind, client, session, breakpoints, asking, timer, network,
                 knows, budget, faults>>

DialFails(c) ==
  /\ link[c] = "dialing"
  /\ link' = [link EXCEPT ![c] = "closed"]
  /\ dap' = IF kind = "connect" THEN dap \cup {"terminated"} ELSE dap
  /\ UNCHANGED <<kind, client, session, breakpoints, asking, timer, listening,
                 ended, wired, wire, knows, budget, faults>>

\* onConnect and readClient.
LeaveDeaf(c) == wired            \* variant: forgets readClient
ReadClient(c) == wired \cup {c}
OnConnect(c) ==
  /\ client' = c
  /\ wired' = ReadClient(c)
  /\ link' = [link EXCEPT ![c] = "open"]
  /\ knows' = IF Writable(c) THEN [knows EXCEPT ![c] = Greeted(@)] ELSE knows
  /\ dap' = dap \cup {"initialized"}

Alive(c) == link[c] \in {"open", "lost"}

\* The listening server takes whoever comes, whether or not it has a client.
Accept(c) ==
  /\ listening /\ link[c] = "idle"
  /\ OnConnect(c)
  /\ faults' = IF \E d \in Conns : Alive(d) THEN faults \cup {"overlap"}
                                            ELSE faults
  /\ UNCHANGED <<kind, session, breakpoints, asking, timer, listening, ended,
                 wire, budget>>

Connected(c) ==
  /\ link[c] = "dialing"
  /\ OnConnect(c)
  /\ UNCHANGED <<kind, session, breakpoints, asking, timer, listening, ended,
                 wire, budget, faults>>

\* customRequest: the user cancels "Wait for connection".
StopWaitConnection ==
  /\ kind = "listen" /\ dap = {"launched"}
  /\ dap' = dap \cup {"terminated"}
  /\ UNCHANGED <<kind, client, session, breakpoints, asking, timer, listening,
                 network, knows, budget, faults>>

-------------------------------------------------------------------------------
(* The Lua process at the other end of c.                                   *)

Say(c, ms) == /\ said < MaxSaid /\ said' = said + 1
              /\ wire' = [wire EXCEPT ![c] = @ \o ms]

Notify(c, cmd) ==
  /\ link[c] = "open" /\ knows[c].greeted
  /\ Say(c, Message(cmd, 0))
  /\ UNCHANGED <<kind, client, session, breakpoints, asking, timer, listening,
                 dap, link, ended, wired, knows, requests, faults>>

Answer(c, seq) ==
  /\ link[c] = "open" /\ seq \in knows[c].asked
  /\ Say(c, Message("EvalRsp", seq))
  /\ knows' = [knows EXCEPT ![c].asked = @ \ {seq}]
  /\ UNCHANGED <<kind, client, session, breakpoints, asking, timer, listening,
                 dap, link, ended, wired, requests, faults>>

\* It exits, or the network fails: of what was on its way a prefix arrives,
\* which may end in the middle of a message.
Lose(c) ==
  /\ link[c] = "open"
  /\ link' = [link EXCEPT ![c] = "lost"]
  /\ \E n \in 0 .. Len(wire[c]) :
       wire' = [wire EXCEPT ![c] = SubSeq(@, 1, n)]
  /\ UNCHANGED <<kind, client, session, breakpoints, asking, timer, listening,
                 dap, ended, wired, knows, budget, faults>>

-------------------------------------------------------------------------------
(* Reading.                                                                 *)

\* handleDebugMessage(cmd, l): l is a header when the phase is lost, and then
\* JSON.parse makes a number of it, which has neither stacks nor seq.
Resolved(cmd, l) ==
  IF cmd = "EvalRsp" /\ l.part = "body" /\ l.cmd = "EvalRsp"
    THEN {w \in waiting : w.seq = l.seq} ELSE {}
HandleDebugMessage(cmd, l) ==
  /\ waiting' = waiting \ Resolved(cmd, l)
  /\ breakNotify' = CASE cmd # "BreakNotify" -> breakNotify
                      [] l.part = "body" /\ l.cmd = "BreakNotify" -> "stop"
                      [] OTHER -> "garbage"

FlippedOnce == FALSE             \* variant: never back to a header
Flipped     == ~ readHeader

OnReceiveLine(c) ==
  /\ c \in wired /\ Alive(c) /\ wire[c] # <<>>
  /\ LET l == Head(wire[c]) IN
       IF readHeader
         THEN /\ currentCmd' = IF l.part = "header" THEN l.cmd ELSE "NaN"
              /\ UNCHANGED <<waiting, breakNotify>>
         ELSE HandleDebugMessage(currentCmd, l) /\ UNCHANGED currentCmd
  /\ readHeader' = Flipped
  /\ wire' = [wire EXCEPT ![c] = Tail(@)]
  /\ UNCHANGED <<kind, client, breakpoints, evalIdCount, timer, listening, dap,
                 link, ended, wired, knows, budget, faults>>

\* onSocketClose takes the listeners off this.client, whoever that is by now.
AlwaysKept == client             \* variant: the closed client stays
AfterClose == IF kind = "listen" THEN NoConn ELSE client
OnSocketClose ==
  /\ wired' = wired \ {client}
  /\ client' = AfterClose
  /\ dap' = IF kind \in {"connect", "attach"} THEN dap \cup {"terminated"} ELSE dap

\* The close event follows the last line that is read; nobody hears it on a
\* connection without listeners.
Close(c) ==
  /\ link[c] = "lost" /\ (c \in wired => wire[c] = <<>>)
  /\ link' = [link EXCEPT ![c] = "closed"]
  /\ wire' = [wire EXCEPT ![c] = <<>>]
  /\ IF c \in wired THEN OnSocketClose ELSE UNCHANGED <<wired, client, dap>>
  /\ faults' = IF readHeader THEN faults ELSE faults \cup {"torn"}
  /\ UNCHANGED <<kind, session, breakpoints, asking, timer, listening, ended,
                 knows, budget>>

-------------------------------------------------------------------------------
(* Requests of VS Code: after InitializedEvent, until it disconnects.       *)

Request ==
  /\ "initialized" \in dap /\ "disconnecting" \notin dap
  /\ requests < MaxRequests /\ requests' = requests + 1
  /\ UNCHANGED <<kind, client, session, timer, listening, dap, network, said,
                 faults>>

SetBreakPoints(f, bps) ==
  /\ Request
  /\ breakpoints' = {b \in breakpoints : b.file # f} \cup bps
  /\ SendMessage(ToldBreaks(knows[client], breakpoints'))
  /\ UNCHANGED asking

SameId == evalIdCount            \* variant: every evaluation has number 0
NextId == evalIdCount + 1
Evaluate ==
  /\ Request
  /\ evalIdCount' = NextId
  /\ waiting' = waiting \cup {[seq |-> evalIdCount, conn |-> client]}
  /\ SendMessage(Asked(knows[client], evalIdCount))
  /\ UNCHANGED breakpoints

\* pause, continue, next, stepIn, stepOut: sendDebugAction.
DebugAction ==
  /\ Request
  /\ SendMessage(Told(knows[client]))
  /\ UNCHANGED <<breakpoints, asking>>

Disconnect ==
  /\ "launched" \in dap /\ "disconnecting" \notin dap
  /\ dap' = dap \cup {"disconnecting"}
  /\ SendMessage(Told(knows[client]))
  /\ timer' = "armed"
  /\ UNCHANGED <<kind, client, session, breakpoints, asking, listening,
                 network, budget, faults>>

\* A second later the server is closed and the client, if any, ended.
Release ==
  /\ timer = "armed" /\ timer' = "fired"
  /\ listening' = FALSE
  /\ ended' = ended \cup ({client} \ {NoConn})
  /\ client' = NoConn
  /\ UNCHANGED <<kind, session, breakpoints, asking, dap, link, wired, wire,
                 knows, budget, faults>>

-------------------------------------------------------------------------------
LuaStep(c) ==
  \/ \E cmd \in Notices : Notify(c, cmd)
  \/ \E seq \in knows[c].asked : Answer(c, seq)
  \/ Lose(c)
ConnStep(c) ==
  \/ Inject(c) \/ DialFails(c) \/ Accept(c) \/ Connected(c)
  \/ OnReceiveLine(c) \/ Close(c)
UserStep ==
  \/ Launch \/ StopWaitConnection \/ Evaluate \/ DebugAction \/ Disconnect
  \/ \E f \in Paths : \E bps \in SUBSET {b \in Breakpoints : b.file = f} :
       SetBreakPoints(f, bps)

Next ==
  \/ UserStep \/ ListenFails \/ Release
  \/ \E c \in Conns : ConnStep(c) \/ LuaStep(c)

\* The event loop gets round to every line and every close it is due.
Fairness == \A c \in Conns : WF_vars(OnReceiveLine(c)) /\ WF_vars(Close(c))

Spec == Init /\ [][Next]_vars /\ Fairness

-------------------------------------------------------------------------------
(* The types of the session.                                                *)
TypeOK ==
  /\ kind \in Kinds /\ client \in Conns \cup {NoConn}
  /\ readHeader \in BOOLEAN
  /\ currentCmd \in Commands \cup {"Unknown", "NaN"}
  /\ breakNotify \in {"none", "stop", "garbage"}
  /\ breakpoints \subseteq Breakpoints
  /\ evalIdCount \in Nat
  /\ waiting \subseteq [seq : Nat, conn : Conns \cup {NoConn}]
  /\ timer \in {"off", "armed", "fired"} /\ listening \in BOOLEAN
  /\ dap \subseteq Facts
  /\ link \in [Conns -> States] /\ ended \subseteq Conns
  /\ wired \subseteq Conns
  /\ wire \in [Conns -> Seq(Lines)]
  /\ knows \in [Conns -> Knowledge]
  /\ requests \in 0 .. MaxRequests /\ said \in 0 .. MaxSaid
  /\ faults \subseteq {"overlap", "torn"}

\* Whoever the adapter talks to has exactly the breakpoints set in the editor,
\* whenever they were set: before the connection, between two, or during one
\* (sendBreakpoints in onConnect and in setBreakPointsRequest).
BreakpointsInForce ==
  \A c \in Conns :
    (c = client /\ link[c] = "open" /\ c \notin ended)
      => knows[c].greeted /\ knows[c].breaks = breakpoints

\* A Lua process gets InitReq, its breakpoints and ReadyReq before anything
\* else.  The one exception is a user who ends an attach or launch session
\* while it still dials, for there this.client is set before the connection is.
GreetingFirst ==
  \A c \in Conns :
    knows[c].early => kind \in Injecting /\ "disconnecting" \in dap

\* The reader is in phase: what it takes for a header is one, a body is given
\* to the handler of its own command, and so breakNotify is a stop.  What can
\* upset it is only a second connection on top of the first, or one that
\* ended between the two lines of a message, for readHeader is not reset.
LinesInPhase ==
  faults = {} =>
    /\ breakNotify # "garbage"
    /\ \A c \in Conns :
         (Alive(c) /\ wire[c] # <<>>) =>
           /\ readHeader <=> Head(wire[c]).part = "header"
           /\ ~ readHeader => currentCmd = Head(wire[c]).cmd

\* As long as no connection came on top of another, the adapter hears every
\* Lua process that is connected, and talks to it until the session is
\* released: the close of one connection never cuts off the next.
EveryoneHeard ==
  "overlap" \notin faults =>
    \A c \in Conns :
      link[c] = "open" => c \in wired /\ (c = client \/ timer = "fired")

\* An evaluation is never settled by a Lua process it was not sent to, however
\* many connections came and went while it was pending.
AnswersOwn ==
  [][\A w \in waiting \ waiting' :
       \E c \in Conns : c = w.conn /\ wire'[c] # wire[c]]_vars

\* A connection that is lost is noticed: a listening session is ready for the
\* next one, the others tell VS Code that debugging is over.  (A launched
\* program overrides onSocketClose and says nothing.)
LossNoticed ==
  \A c \in Conns :
    (link[c] = "lost") ~>
      \/ kind = "launch"
      \/ kind = "listen" /\ client # c
      \/ "terminated" \in dap

-------------------------------------------------------------------------------
(* What makes the safety properties inductive.                              *)

Begun(c) == link[c] \notin {"idle", "dialing"}

\* How connection states, the client, the server and VS Code hang together.
Wiring ==
  /\ listening => kind = "listen" /\ "launched" \in dap
  /\ "launched" \notin dap => dap = {} /\ \A c \in Conns : link[c] = "idle"
  /\ "initialized" \in dap => \E c \in Conns : Begun(c)
  /\ "disconnecting" \notin dap => timer = "off"
  /\ \A c \in Conns :
       /\ ~ Begun(c) => wire[c] = <<>>
       /\ link[c] = "idle" => c # client /\ c \notin ended
       /\ link[c] = "dialing" =>
            kind # "listen" /\ (c = client => kind \in Injecting)

\* Only a listening session sees a second connection; two at a time are an
\* overlap.
OneAtATime ==
  /\ kind # "listen" =>
       \A c, d \in Conns : link[c] # "idle" /\ link[d] # "idle" => c = d
  /\ "overlap" \notin faults =>
       \A c, d \in Conns : Alive(c) /\ Alive(d) => c = d

\* Whoever can be written to was greeted, but for the client that an injecting
\* session has before it is connected.
ClientGreeted ==
  \A c \in Conns :
    c = client /\ Writable(c) /\ ~ knows[c].greeted
      => kind \in Injecting /\ "initialized" \notin dap

\* The lines w read with a header expected, or not, come in their order.
InStep(w) ==
  /\ w # <<>> => /\ readHeader <=> w[1].part = "header"
                 /\ ~ readHeader => currentCmd = w[1].cmd
  /\ \A i \in 1 .. Len(w) - 1 :
       IF w[i].part = "header" THEN w[i + 1].part = "body" /\ w[i + 1].cmd = w[i].cmd
                               ELSE w[i + 1].part = "header"

\* While nothing has gone wrong every line on its way is in step, an open
\* connection carries whole messages, and without one a header is expected.
LinesInStep ==
  faults = {} =>
    /\ breakNotify # "garbage"
    /\ ~ readHeader => \E c \in Conns : Alive(c)
    /\ \A c \in Conns : Alive(c) => InStep(wire[c])
    /\ \A c \in Conns : link[c] = "open" =>
         IF wire[c] = <<>> THEN readHeader
                           ELSE wire[c][Len(wire[c])].part = "body"

\* A number belongs to one evaluation, on whichever connection it turns up.
Belongs(seq, c) ==
  /\ seq < evalIdCount
  /\ \A w \in waiting : w.seq = seq => w.conn = c
NumbersUnique ==
  /\ \A w \in waiting : w.seq < evalIdCount
  /\ \A c \in Conns :
       /\ \A seq \in knows[c].asked : Belongs(seq, c)
       /\ \A i \in 1 .. Len(wire[c]) :
            wire[c][i].cmd = "EvalRsp" => Belongs(wire[c][i].seq, c)

\* The inductive invariant: the properties above and what they rest on.
SessionInv ==
  /\ TypeOK /\ Wiring /\ OneAtATime /\ ClientGreeted /\ LinesInStep
  /\ NumbersUnique /\ BreakpointsInForce /\ GreetingFirst /\ EveryoneHeard
===============================================================================
