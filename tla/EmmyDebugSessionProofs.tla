------------------------ MODULE EmmyDebugSessionProofs ------------------------
(***************************************************************************)
(* The safety properties of EmmyDebugSession, for any number of            *)
(* connections, files, breakpoints, requests and messages.                  *)
(***************************************************************************)
EXTENDS EmmyDebugSession, SequenceTheorems, TLAPS

USE DEF session, asking, network, budget

-------------------------------------------------------------------------------
(* Types.                                                                   *)

\* Whatever is sent, what a Lua process knows keeps its type.
LEMMA KnowledgeTypes ==
  ASSUME NEW k \in Knowledge, NEW bps \in SUBSET Breakpoints, NEW n \in Nat,
         breakpoints \subseteq Breakpoints
  PROVE  /\ Told(k) \in Knowledge /\ ToldBreaks(k, bps) \in Knowledge
         /\ Asked(k, n) \in Knowledge /\ Greeted(k) \in Knowledge
         /\ Stranger \in Knowledge
<1>1. Told(k) \in Knowledge
  BY DEF Told, Knowledge
<1> QED
  BY <1>1 DEF Told, ToldBreaks, Asked, Greeted, Stranger, Knowledge

\* sendMessage changes what the client knows, if anything.
LEMMA SendTypes ==
  ASSUME TypeOK, NEW k, Writable(client) => k \in Knowledge, SendMessage(k)
  PROVE  knows' \in [Conns -> Knowledge]
BY DEF TypeOK, SendMessage, Writable

\* A message is two lines.
LEMMA MessageTypes ==
  ASSUME NEW cmd \in Commands, NEW n \in Nat
  PROVE  Message(cmd, n) \in Seq(Lines)
BY DEF Message, Lines

LEMMA ConnectTypes ==
  ASSUME TypeOK, NEW c \in Conns, OnConnect(c)
  PROVE  /\ client' \in Conns \cup {NoConn} /\ wired' \subseteq Conns
         /\ link' \in [Conns -> States] /\ knows' \in [Conns -> Knowledge]
         /\ dap' \subseteq Facts
<1>1. Greeted(knows[c]) \in Knowledge
  BY KnowledgeTypes, 0 \in Nat, {} \in SUBSET Breakpoints DEF TypeOK
<1> QED
  BY <1>1 DEF TypeOK, OnConnect, ReadClient, States, Facts

LEMMA TypeInit == Init => TypeOK
<1> SUFFICES ASSUME Init PROVE TypeOK
  OBVIOUS
<1>1. Stranger \in Knowledge
  BY DEF Stranger, Knowledge
<1>2. wire \in [Conns -> Seq(Lines)] /\ knows \in [Conns -> Knowledge]
  BY <1>1 DEF Init
<1>3. 0 \in 0 .. MaxRequests /\ 0 \in 0 .. MaxSaid
  BY SessionAssumption DEF SessionAssumption
<1> QED
  BY <1>2, <1>3 DEF Init, TypeOK, States

LEMMA TypeStep == TypeOK /\ [Next]_vars => TypeOK'
<1> SUFFICES ASSUME TypeOK, [Next]_vars PROVE TypeOK'
  OBVIOUS
<1>1. CASE Launch
  BY <1>1 DEF TypeOK, Launch, Dial, DialClient, States, Facts
<1>2. ASSUME NEW c \in Conns, Inject(c) PROVE TypeOK'
  BY <1>2 DEF TypeOK, Inject, Dial, DialClient, States
<1>3. CASE ListenFails
  BY <1>3 DEF TypeOK, ListenFails, Facts
<1>4. ASSUME NEW c \in Conns, DialFails(c) PROVE TypeOK'
  BY <1>4 DEF TypeOK, DialFails, States, Facts
<1>5. ASSUME NEW c \in Conns, Accept(c) PROVE TypeOK'
  <2> USE <1>5 DEF Accept
  <2>1. faults' \subseteq {"overlap", "torn"}
    BY DEF TypeOK
  <2> QED
    BY <2>1, ConnectTypes DEF TypeOK
<1>6. ASSUME NEW c \in Conns, Connected(c) PROVE TypeOK'
  BY <1>6, ConnectTypes DEF Connected, TypeOK
<1>7. CASE StopWaitConnection
  BY <1>7 DEF TypeOK, StopWaitConnection, Facts
<1>8. ASSUME NEW c \in Conns, NEW cmd \in Notices, Notify(c, cmd)
      PROVE  TypeOK'
  <2>1. Message(cmd, 0) \in Seq(Lines)
    BY MessageTypes DEF Commands
  <2> QED
    BY <1>8, <2>1, SessionAssumption DEF TypeOK, Notify, Say, SessionAssumption
<1>9. ASSUME NEW c \in Conns, NEW seq \in knows[c].asked, Answer(c, seq)
      PROVE  TypeOK'
  <2>1. knows[c] \in Knowledge /\ seq \in Nat
    BY DEF TypeOK, Knowledge
  <2>2. Message("EvalRsp", seq) \in Seq(Lines)
    BY <2>1, MessageTypes DEF Commands
  <2>3. [knows[c] EXCEPT !.asked = @ \ {seq}] \in Knowledge
    BY <2>1 DEF Knowledge
  <2>4. knows' \in [Conns -> Knowledge]
    BY <1>9, <2>3 DEF TypeOK, Answer
  <2> QED
    BY <1>9, <2>2, <2>4, SessionAssumption DEF TypeOK, Answer, Say, SessionAssumption
<1>10. ASSUME NEW c \in Conns, Lose(c) PROVE TypeOK'
  <2>1. ASSUME NEW n \in 0 .. Len(wire[c]) PROVE SubSeq(wire[c], 1, n) \in Seq(Lines)
    BY DEF TypeOK
  <2> QED
    BY <1>10, <2>1 DEF TypeOK, Lose, States
<1>11. ASSUME NEW c \in Conns, OnReceiveLine(c) PROVE TypeOK'
  <2> USE <1>11 DEF OnReceiveLine
  <2>1. wire[c] \in Seq(Lines) /\ wire[c] # <<>>
    BY DEF TypeOK
  <2>2. Head(wire[c]) \in Lines /\ Tail(wire[c]) \in Seq(Lines)
    BY <2>1
  <2>3. wire' \in [Conns -> Seq(Lines)]
    BY <2>2 DEF TypeOK
  <2>4. /\ currentCmd' \in Commands \cup {"Unknown", "NaN"}
        /\ breakNotify' \in {"none", "stop", "garbage"}
        /\ waiting' \subseteq waiting
    BY <2>2 DEF TypeOK, Lines, HandleDebugMessage
  <2> QED
    BY <2>3, <2>4 DEF TypeOK, Flipped
<1>12. ASSUME NEW c \in Conns, Close(c) PROVE TypeOK'
  <2> USE <1>12 DEF Close
  <2>1. wire' \in [Conns -> Seq(Lines)] /\ link' \in [Conns -> States]
    BY DEF TypeOK, States
  <2>2. /\ client' \in Conns \cup {NoConn} /\ wired' \subseteq Conns
        /\ dap' \subseteq Facts
    BY DEF TypeOK, OnSocketClose, AfterClose, Facts
  <2>3. faults' \subseteq {"overlap", "torn"}
    BY DEF TypeOK
  <2> QED
    BY <2>1, <2>2, <2>3 DEF TypeOK
<1>13. ASSUME NEW f \in Paths, NEW bps \in SUBSET {b \in Breakpoints : b.file = f},
              SetBreakPoints(f, bps)
       PROVE  TypeOK'
  <2>1. breakpoints' \subseteq Breakpoints
    BY <1>13 DEF SetBreakPoints, TypeOK
  <2>2. Writable(client) => ToldBreaks(knows[client], breakpoints') \in Knowledge
    <3> SUFFICES ASSUME Writable(client)
                 PROVE  ToldBreaks(knows[client], breakpoints') \in Knowledge
      OBVIOUS
    <3>1. knows[client] \in Knowledge
      BY DEF Writable, TypeOK
    <3> QED
      BY <2>1, <3>1 DEF ToldBreaks, Told, Knowledge
  <2>3. knows' \in [Conns -> Knowledge]
    BY <1>13, <2>2, SendTypes DEF SetBreakPoints
  <2> QED
    BY <1>13, <2>1, <2>3, SessionAssumption
       DEF SetBreakPoints, Request, TypeOK, SessionAssumption
<1>14. CASE Evaluate
  <2>1. Writable(client) => Asked(knows[client], evalIdCount) \in Knowledge
    BY KnowledgeTypes, {} \in SUBSET Breakpoints DEF Writable, TypeOK
  <2>2. knows' \in [Conns -> Knowledge]
    BY <1>14, <2>1, SendTypes DEF Evaluate
  <2> QED
    BY <1>14, <2>2, SessionAssumption
       DEF Evaluate, NextId, Request, TypeOK, SessionAssumption
<1>15. CASE DebugAction
  <2>1. Writable(client) => Told(knows[client]) \in Knowledge
    BY KnowledgeTypes, {} \in SUBSET Breakpoints, 0 \in Nat DEF Writable, TypeOK
  <2>2. knows' \in [Conns -> Knowledge]
    BY <1>15, <2>1, SendTypes DEF DebugAction
  <2> QED
    BY <1>15, <2>2, SessionAssumption
       DEF DebugAction, Request, TypeOK, SessionAssumption
<1>16. CASE Disconnect
  <2>1. Writable(client) => Told(knows[client]) \in Knowledge
    BY KnowledgeTypes, {} \in SUBSET Breakpoints, 0 \in Nat DEF Writable, TypeOK
  <2>2. knows' \in [Conns -> Knowledge]
    BY <1>16, <2>1, SendTypes DEF Disconnect
  <2> QED
    BY <1>16, <2>2 DEF Disconnect, TypeOK, Facts
<1>17. CASE Release
  BY <1>17 DEF Release, TypeOK
<1>18. CASE UNCHANGED vars
  BY <1>18 DEF TypeOK, vars
<1> QED
  BY <1>1, <1>2, <1>3, <1>4, <1>5, <1>6, <1>7, <1>8, <1>9, <1>10, <1>11, <1>12,
     <1>13, <1>14, <1>15, <1>16, <1>17, <1>18
     DEF Next, UserStep, ConnStep, LuaStep

-------------------------------------------------------------------------------
(* One lemma for every part of SessionInv.                                 *)

\* The connection states stay consistent.
LEMMA WiringStep == TypeOK /\ Wiring /\ [Next]_vars => Wiring'
<1> SUFFICES ASSUME TypeOK, Wiring, [Next]_vars PROVE Wiring'
  OBVIOUS
<1>1. CASE Launch
  BY <1>1 DEF TypeOK, Wiring, Begun, Launch, Dial, DialClient, Alive, Injecting
<1>2. ASSUME NEW c \in Conns, Inject(c) PROVE Wiring'
  BY <1>2 DEF TypeOK, Wiring, Begun, Inject, Dial, DialClient, Alive, Injecting
<1>3. CASE ListenFails
  BY <1>3 DEF TypeOK, Wiring, Begun, ListenFails
<1>4. ASSUME NEW c \in Conns, DialFails(c) PROVE Wiring'
  BY <1>4 DEF TypeOK, Wiring, Begun, DialFails
<1>5. ASSUME NEW c \in Conns, Accept(c) PROVE Wiring'
  BY <1>5 DEF TypeOK, Wiring, Begun, Accept, OnConnect, ReadClient
<1>6. ASSUME NEW c \in Conns, Connected(c) PROVE Wiring'
  BY <1>6 DEF TypeOK, Wiring, Begun, Connected, OnConnect, ReadClient
<1>7. CASE StopWaitConnection
  BY <1>7 DEF TypeOK, Wiring, Begun, StopWaitConnection
<1>8. ASSUME NEW c \in Conns, NEW cmd \in Notices, Notify(c, cmd) PROVE Wiring'
  BY <1>8 DEF TypeOK, Wiring, Begun, Notify, Say
<1>9. ASSUME NEW c \in Conns, NEW seq \in knows[c].asked, Answer(c, seq) PROVE Wiring'
  BY <1>9 DEF TypeOK, Wiring, Begun, Answer, Say
<1>10. ASSUME NEW c \in Conns, Lose(c) PROVE Wiring'
  BY <1>10 DEF TypeOK, Wiring, Begun, Lose
<1>11. ASSUME NEW c \in Conns, OnReceiveLine(c) PROVE Wiring'
  BY <1>11 DEF TypeOK, Wiring, Begun, OnReceiveLine, Alive, Injecting
<1>12. ASSUME NEW c \in Conns, Close(c) PROVE Wiring'
  BY <1>12, SessionAssumption DEF TypeOK, Wiring, Begun, Close, OnSocketClose, AfterClose,
     SessionAssumption
<1>13. ASSUME NEW f \in Paths, NEW bps \in SUBSET {b \in Breakpoints : b.file = f},
             SetBreakPoints(f, bps)
      PROVE  Wiring'
  BY <1>13 DEF TypeOK, Wiring, Begun, SetBreakPoints, Request
<1>14. CASE Evaluate
  BY <1>14 DEF TypeOK, Wiring, Begun, Evaluate, Request
<1>15. CASE DebugAction
  BY <1>15 DEF TypeOK, Wiring, Begun, DebugAction, Request
<1>16. CASE Disconnect
  BY <1>16 DEF TypeOK, Wiring, Begun, Disconnect
<1>17. CASE Release
  BY <1>17, SessionAssumption DEF TypeOK, Wiring, Begun, Release, SessionAssumption
<1>18. CASE UNCHANGED vars
  BY <1>18 DEF TypeOK, Wiring, Begun, vars
<1> QED
  BY <1>1, <1>2, <1>3, <1>4, <1>5, <1>6, <1>7, <1>8, <1>9,
     <1>10, <1>11, <1>12, <1>13, <1>14, <1>15, <1>16, <1>17, <1>18
     DEF Next, UserStep, ConnStep, LuaStep

\* A second connection is an overlap, and only a listening session has one.
LEMMA OneStep == TypeOK /\ Wiring /\ OneAtATime /\ [Next]_vars => OneAtATime'
<1> SUFFICES ASSUME TypeOK, Wiring, OneAtATime, [Next]_vars PROVE OneAtATime'
  OBVIOUS
<1>1. CASE Launch
  BY <1>1 DEF TypeOK, Wiring, OneAtATime, Alive, Launch, Dial, DialClient
<1>2. ASSUME NEW c \in Conns, Inject(c) PROVE OneAtATime'
  BY <1>2 DEF TypeOK, Wiring, OneAtATime, Alive, Inject, Dial, DialClient
<1>3. CASE ListenFails
  BY <1>3 DEF TypeOK, Wiring, OneAtATime, Alive, ListenFails
<1>4. ASSUME NEW c \in Conns, DialFails(c) PROVE OneAtATime'
  BY <1>4 DEF TypeOK, Wiring, OneAtATime, Alive, DialFails
<1>5. ASSUME NEW c \in Conns, Accept(c) PROVE OneAtATime'
  BY <1>5 DEF TypeOK, Wiring, OneAtATime, Alive, Accept, OnConnect, ReadClient
<1>6. ASSUME NEW c \in Conns, Connected(c) PROVE OneAtATime'
  BY <1>6 DEF TypeOK, Wiring, OneAtATime, Alive, Connected, OnConnect, ReadClient
<1>7. CASE StopWaitConnection
  BY <1>7 DEF TypeOK, Wiring, OneAtATime, Alive, StopWaitConnection
<1>8. ASSUME NEW c \in Conns, NEW cmd \in Notices, Notify(c, cmd) PROVE OneAtATime'
  BY <1>8 DEF TypeOK, Wiring, OneAtATime, Alive, Notify, Say
<1>9. ASSUME NEW c \in Conns, NEW seq \in knows[c].asked, Answer(c, seq) PROVE OneAtATime'
  BY <1>9 DEF TypeOK, Wiring, OneAtATime, Alive, Answer, Say
<1>10. ASSUME NEW c \in Conns, Lose(c) PROVE OneAtATime'
  BY <1>10 DEF TypeOK, Wiring, OneAtATime, Alive, Lose
<1>11. ASSUME NEW c \in Conns, OnReceiveLine(c) PROVE OneAtATime'
  BY <1>11 DEF TypeOK, Wiring, OneAtATime, Alive, OnReceiveLine
<1>12. ASSUME NEW c \in Conns, Close(c) PROVE OneAtATime'
  BY <1>12 DEF TypeOK, Wiring, OneAtATime, Alive, Close, OnSocketClose, AfterClose
<1>13. ASSUME NEW f \in Paths, NEW bps \in SUBSET {b \in Breakpoints : b.file = f},
             SetBreakPoints(f, bps)
      PROVE  OneAtATime'
  BY <1>13 DEF TypeOK, Wiring, OneAtATime, Alive, SetBreakPoints, Request
<1>14. CASE Evaluate
  BY <1>14 DEF TypeOK, Wiring, OneAtATime, Alive, Evaluate, Request
<1>15. CASE DebugAction
  BY <1>15 DEF TypeOK, Wiring, OneAtATime, Alive, DebugAction, Request
<1>16. CASE Disconnect
  BY <1>16 DEF TypeOK, Wiring, OneAtATime, Alive, Disconnect
<1>17. CASE Release
  BY <1>17 DEF TypeOK, Wiring, OneAtATime, Alive, Release
<1>18. CASE UNCHANGED vars
  BY <1>18 DEF TypeOK, Wiring, OneAtATime, Alive, vars
<1> QED
  BY <1>1, <1>2, <1>3, <1>4, <1>5, <1>6, <1>7, <1>8, <1>9,
     <1>10, <1>11, <1>12, <1>13, <1>14, <1>15, <1>16, <1>17, <1>18
     DEF Next, UserStep, ConnStep, LuaStep

\* Whoever can be written to was greeted.
LEMMA GreetedStep == TypeOK /\ Wiring /\ ClientGreeted /\ [Next]_vars => ClientGreeted'
<1> SUFFICES ASSUME TypeOK, Wiring, ClientGreeted, [Next]_vars PROVE ClientGreeted'
  OBVIOUS
<1>1. CASE Launch
  BY <1>1 DEF TypeOK, Wiring, ClientGreeted, Writable, Begun, Launch, Dial, DialClient
<1>2. ASSUME NEW c \in Conns, Inject(c) PROVE ClientGreeted'
  BY <1>2 DEF TypeOK, Wiring, ClientGreeted, Writable, Begun, Inject, Dial, DialClient
<1>3. CASE ListenFails
  BY <1>3 DEF TypeOK, Wiring, ClientGreeted, Writable, Begun, ListenFails
<1>4. ASSUME NEW c \in Conns, DialFails(c) PROVE ClientGreeted'
  BY <1>4 DEF TypeOK, Wiring, ClientGreeted, Writable, Begun, DialFails
<1>5. ASSUME NEW c \in Conns, Accept(c) PROVE ClientGreeted'
  BY <1>5 DEF TypeOK, ClientGreeted, Writable, Accept, OnConnect, ReadClient,
     Greeted, Knowledge
<1>6. ASSUME NEW c \in Conns, Connected(c) PROVE ClientGreeted'
  BY <1>6 DEF TypeOK, ClientGreeted, Writable, Connected, OnConnect, ReadClient,
     Greeted, Knowledge
<1>7. CASE StopWaitConnection
  BY <1>7 DEF TypeOK, Wiring, ClientGreeted, Writable, Begun, StopWaitConnection
<1>8. ASSUME NEW c \in Conns, NEW cmd \in Notices, Notify(c, cmd) PROVE ClientGreeted'
  BY <1>8 DEF TypeOK, Wiring, ClientGreeted, Writable, Begun, Notify, Say
<1>9. ASSUME NEW c \in Conns, NEW seq \in knows[c].asked, Answer(c, seq) PROVE ClientGreeted'
  BY <1>9 DEF TypeOK, Wiring, ClientGreeted, Writable, Begun, Answer, Say
<1>10. ASSUME NEW c \in Conns, Lose(c) PROVE ClientGreeted'
  BY <1>10 DEF TypeOK, Wiring, ClientGreeted, Writable, Begun, Lose
<1>11. ASSUME NEW c \in Conns, OnReceiveLine(c) PROVE ClientGreeted'
  BY <1>11 DEF TypeOK, Wiring, ClientGreeted, Writable, Begun, OnReceiveLine
<1>12. ASSUME NEW c \in Conns, Close(c) PROVE ClientGreeted'
  BY <1>12, SessionAssumption DEF TypeOK, ClientGreeted, Writable, Close, OnSocketClose,
     AfterClose, SessionAssumption
<1>13. ASSUME NEW f \in Paths, NEW bps \in SUBSET {b \in Breakpoints : b.file = f},
             SetBreakPoints(f, bps)
      PROVE  ClientGreeted'
  BY <1>13 DEF TypeOK, ClientGreeted, Writable, SetBreakPoints, Request, SendMessage,
     ToldBreaks, Told, Knowledge
<1>14. CASE Evaluate
  BY <1>14 DEF TypeOK, ClientGreeted, Writable, Evaluate, Request, SendMessage,
     Asked, Told, Knowledge
<1>15. CASE DebugAction
  BY <1>15 DEF TypeOK, ClientGreeted, Writable, DebugAction, Request, SendMessage,
     Told, Knowledge
<1>16. CASE Disconnect
  BY <1>16 DEF TypeOK, ClientGreeted, Writable, Disconnect, SendMessage,
     Told, Knowledge
<1>17. CASE Release
  BY <1>17, SessionAssumption DEF TypeOK, ClientGreeted, Release, SessionAssumption
<1>18. CASE UNCHANGED vars
  BY <1>18 DEF TypeOK, Wiring, ClientGreeted, Writable, Begun, vars
<1> QED
  BY <1>1, <1>2, <1>3, <1>4, <1>5, <1>6, <1>7, <1>8, <1>9,
     <1>10, <1>11, <1>12, <1>13, <1>14, <1>15, <1>16, <1>17, <1>18
     DEF Next, UserStep, ConnStep, LuaStep

\* The breakpoints in force are those set.
LEMMA BreakStep == TypeOK /\ Wiring /\ ClientGreeted /\ BreakpointsInForce /\ [Next]_vars => BreakpointsInForce'
<1> SUFFICES ASSUME TypeOK, Wiring, ClientGreeted, BreakpointsInForce, [Next]_vars PROVE BreakpointsInForce'
  OBVIOUS
<1>1. CASE Launch
  BY <1>1 DEF TypeOK, BreakpointsInForce, Launch, Dial, DialClient
<1>2. ASSUME NEW c \in Conns, Inject(c) PROVE BreakpointsInForce'
  BY <1>2 DEF TypeOK, BreakpointsInForce, Inject, Dial, DialClient
<1>3. CASE ListenFails
  BY <1>3 DEF TypeOK, BreakpointsInForce, ListenFails
<1>4. ASSUME NEW c \in Conns, DialFails(c) PROVE BreakpointsInForce'
  BY <1>4 DEF TypeOK, BreakpointsInForce, DialFails
<1>5. ASSUME NEW c \in Conns, Accept(c) PROVE BreakpointsInForce'
  BY <1>5 DEF TypeOK, Wiring, BreakpointsInForce, Writable, Accept, OnConnect, ReadClient,
     Greeted, Knowledge
<1>6. ASSUME NEW c \in Conns, Connected(c) PROVE BreakpointsInForce'
  BY <1>6 DEF TypeOK, BreakpointsInForce, Writable, Connected, OnConnect, ReadClient,
     Greeted, Knowledge
<1>7. CASE StopWaitConnection
  BY <1>7 DEF TypeOK, BreakpointsInForce, StopWaitConnection
<1>8. ASSUME NEW c \in Conns, NEW cmd \in Notices, Notify(c, cmd) PROVE BreakpointsInForce'
  BY <1>8 DEF TypeOK, BreakpointsInForce, Notify, Say
<1>9. ASSUME NEW c \in Conns, NEW seq \in knows[c].asked, Answer(c, seq) PROVE BreakpointsInForce'
  BY <1>9 DEF TypeOK, BreakpointsInForce, Answer, Knowledge
<1>10. ASSUME NEW c \in Conns, Lose(c) PROVE BreakpointsInForce'
  BY <1>10 DEF TypeOK, BreakpointsInForce, Lose
<1>11. ASSUME NEW c \in Conns, OnReceiveLine(c) PROVE BreakpointsInForce'
  BY <1>11 DEF TypeOK, BreakpointsInForce, OnReceiveLine
<1>12. ASSUME NEW c \in Conns, Close(c) PROVE BreakpointsInForce'
  BY <1>12, SessionAssumption DEF TypeOK, BreakpointsInForce, Close, OnSocketClose,
     AfterClose, SessionAssumption
<1>13. ASSUME NEW f \in Paths, NEW bps \in SUBSET {b \in Breakpoints : b.file = f},
             SetBreakPoints(f, bps)
      PROVE  BreakpointsInForce'
  BY <1>13 DEF TypeOK, ClientGreeted, BreakpointsInForce, Writable, SetBreakPoints,
     Request, SendMessage, ToldBreaks, Told, Knowledge
<1>14. CASE Evaluate
  BY <1>14 DEF TypeOK, BreakpointsInForce, Writable, Evaluate, Request, SendMessage,
     Asked, Told, Knowledge
<1>15. CASE DebugAction
  BY <1>15 DEF TypeOK, BreakpointsInForce, Writable, DebugAction, Request, SendMessage,
     Told, Knowledge
<1>16. CASE Disconnect
  BY <1>16 DEF TypeOK, BreakpointsInForce, Writable, Disconnect, SendMessage,
     Told, Knowledge
<1>17. CASE Release
  BY <1>17, SessionAssumption DEF TypeOK, BreakpointsInForce, Release, SessionAssumption
<1>18. CASE UNCHANGED vars
  BY <1>18 DEF TypeOK, BreakpointsInForce, vars
<1> QED
  BY <1>1, <1>2, <1>3, <1>4, <1>5, <1>6, <1>7, <1>8, <1>9,
     <1>10, <1>11, <1>12, <1>13, <1>14, <1>15, <1>16, <1>17, <1>18
     DEF Next, UserStep, ConnStep, LuaStep

\* Nothing but the end of an injecting session is sent ahead of the greeting.
LEMMA FirstStep == TypeOK /\ Wiring /\ ClientGreeted /\ GreetingFirst /\ [Next]_vars => GreetingFirst'
<1> SUFFICES ASSUME TypeOK, Wiring, ClientGreeted, GreetingFirst, [Next]_vars PROVE GreetingFirst'
  OBVIOUS
<1>1. CASE Launch
  BY <1>1 DEF TypeOK, Wiring, GreetingFirst, Launch
<1>2. ASSUME NEW c \in Conns, Inject(c) PROVE GreetingFirst'
  BY <1>2 DEF TypeOK, GreetingFirst, Inject, Dial, DialClient
<1>3. CASE ListenFails
  BY <1>3 DEF TypeOK, GreetingFirst, ListenFails
<1>4. ASSUME NEW c \in Conns, DialFails(c) PROVE GreetingFirst'
  BY <1>4 DEF TypeOK, GreetingFirst, DialFails
<1>5. ASSUME NEW c \in Conns, Accept(c) PROVE GreetingFirst'
  BY <1>5 DEF TypeOK, GreetingFirst, Accept, OnConnect, Greeted, Knowledge
<1>6. ASSUME NEW c \in Conns, Connected(c) PROVE GreetingFirst'
  BY <1>6 DEF TypeOK, GreetingFirst, Connected, OnConnect, Greeted, Knowledge
<1>7. CASE StopWaitConnection
  BY <1>7 DEF TypeOK, GreetingFirst, StopWaitConnection
<1>8. ASSUME NEW c \in Conns, NEW cmd \in Notices, Notify(c, cmd) PROVE GreetingFirst'
  BY <1>8 DEF TypeOK, GreetingFirst, Notify, Say
<1>9. ASSUME NEW c \in Conns, NEW seq \in knows[c].asked, Answer(c, seq) PROVE GreetingFirst'
  BY <1>9 DEF TypeOK, GreetingFirst, Answer, Knowledge
<1>10. ASSUME NEW c \in Conns, Lose(c) PROVE GreetingFirst'
  BY <1>10 DEF TypeOK, GreetingFirst, Lose
<1>11. ASSUME NEW c \in Conns, OnReceiveLine(c) PROVE GreetingFirst'
  BY <1>11 DEF TypeOK, GreetingFirst, OnReceiveLine
<1>12. ASSUME NEW c \in Conns, Close(c) PROVE GreetingFirst'
  BY <1>12 DEF TypeOK, GreetingFirst, Close, OnSocketClose, AfterClose
<1>13. ASSUME NEW f \in Paths, NEW bps \in SUBSET {b \in Breakpoints : b.file = f},
             SetBreakPoints(f, bps)
      PROVE  GreetingFirst'
  BY <1>13 DEF TypeOK, ClientGreeted, GreetingFirst, SetBreakPoints, Request, SendMessage,
     Writable, ToldBreaks, Told, Knowledge
<1>14. CASE Evaluate
  BY <1>14 DEF TypeOK, ClientGreeted, GreetingFirst, Evaluate, Request, SendMessage,
     Writable, Asked, Told, Knowledge
<1>15. CASE DebugAction
  BY <1>15 DEF TypeOK, ClientGreeted, GreetingFirst, DebugAction, Request, SendMessage,
     Writable, Told, Knowledge
<1>16. CASE Disconnect
  BY <1>16 DEF TypeOK, ClientGreeted, GreetingFirst, Disconnect, SendMessage,
     Writable, Told, Knowledge
<1>17. CASE Release
  BY <1>17 DEF TypeOK, GreetingFirst, Release
<1>18. CASE UNCHANGED vars
  BY <1>18 DEF TypeOK, GreetingFirst, vars
<1> QED
  BY <1>1, <1>2, <1>3, <1>4, <1>5, <1>6, <1>7, <1>8, <1>9,
     <1>10, <1>11, <1>12, <1>13, <1>14, <1>15, <1>16, <1>17, <1>18
     DEF Next, UserStep, ConnStep, LuaStep

\* The close of one connection cuts off no other.
LEMMA HeardStep == TypeOK /\ Wiring /\ OneAtATime /\ EveryoneHeard /\ [Next]_vars => EveryoneHeard'
<1> SUFFICES ASSUME TypeOK, Wiring, OneAtATime, EveryoneHeard, [Next]_vars PROVE EveryoneHeard'
  OBVIOUS
<1>1. CASE Launch
  BY <1>1 DEF TypeOK, Wiring, EveryoneHeard, Launch, Dial
<1>2. ASSUME NEW c \in Conns, Inject(c) PROVE EveryoneHeard'
  BY <1>2 DEF TypeOK, EveryoneHeard, Inject, Dial, DialClient
<1>3. CASE ListenFails
  BY <1>3 DEF TypeOK, EveryoneHeard, ListenFails
<1>4. ASSUME NEW c \in Conns, DialFails(c) PROVE EveryoneHeard'
  BY <1>4 DEF TypeOK, EveryoneHeard, DialFails
<1>5. ASSUME NEW c \in Conns, Accept(c) PROVE EveryoneHeard'
  BY <1>5 DEF TypeOK, EveryoneHeard, Alive, Accept, OnConnect, ReadClient
<1>6. ASSUME NEW c \in Conns, Connected(c) PROVE EveryoneHeard'
  BY <1>6 DEF TypeOK, Wiring, OneAtATime, EveryoneHeard, Connected, OnConnect, ReadClient
<1>7. CASE StopWaitConnection
  BY <1>7 DEF TypeOK, EveryoneHeard, StopWaitConnection
<1>8. ASSUME NEW c \in Conns, NEW cmd \in Notices, Notify(c, cmd) PROVE EveryoneHeard'
  BY <1>8 DEF TypeOK, EveryoneHeard, Notify, Say
<1>9. ASSUME NEW c \in Conns, NEW seq \in knows[c].asked, Answer(c, seq) PROVE EveryoneHeard'
  BY <1>9 DEF TypeOK, EveryoneHeard, Answer, Say
<1>10. ASSUME NEW c \in Conns, Lose(c) PROVE EveryoneHeard'
  BY <1>10 DEF TypeOK, EveryoneHeard, Lose
<1>11. ASSUME NEW c \in Conns, OnReceiveLine(c) PROVE EveryoneHeard'
  BY <1>11 DEF TypeOK, EveryoneHeard, OnReceiveLine
<1>12. ASSUME NEW c \in Conns, Close(c) PROVE EveryoneHeard'
  BY <1>12 DEF TypeOK, OneAtATime, EveryoneHeard, Alive, Close, OnSocketClose, AfterClose
<1>13. ASSUME NEW f \in Paths, NEW bps \in SUBSET {b \in Breakpoints : b.file = f},
             SetBreakPoints(f, bps)
      PROVE  EveryoneHeard'
  BY <1>13 DEF TypeOK, EveryoneHeard, SetBreakPoints, Request
<1>14. CASE Evaluate
  BY <1>14 DEF TypeOK, EveryoneHeard, Evaluate, Request
<1>15. CASE DebugAction
  BY <1>15 DEF TypeOK, EveryoneHeard, DebugAction, Request
<1>16. CASE Disconnect
  BY <1>16 DEF TypeOK, Wiring, EveryoneHeard, Disconnect
<1>17. CASE Release
  BY <1>17 DEF TypeOK, EveryoneHeard, Release
<1>18. CASE UNCHANGED vars
  BY <1>18 DEF TypeOK, EveryoneHeard, vars
<1> QED
  BY <1>1, <1>2, <1>3, <1>4, <1>5, <1>6, <1>7, <1>8, <1>9,
     <1>10, <1>11, <1>12, <1>13, <1>14, <1>15, <1>16, <1>17, <1>18
     DEF Next, UserStep, ConnStep, LuaStep

\* Arithmetic of the last index, and of the last two.
LEMMA LastIndex ==
  ASSUME NEW k \in Nat, k # 0, k # 1
  PROVE  k - 1 \in 1 .. k - 1 /\ k - 1 + 1 = k /\ k - 1 # 0
OBVIOUS

LEMMA LastTwo ==
  ASSUME NEW k \in Nat, NEW i \in 1 .. k + 2, ~ (i <= k)
  PROVE  i - k \in 1 .. 2
OBVIOUS

\* Two lines behind w.
LEMMA AppendTwo ==
  ASSUME NEW w \in Seq(Lines), NEW m \in Seq(Lines), Len(m) = 2,
         NEW k \in Nat, k = Len(w)
  PROVE  /\ Len(w \o m) = k + 2
         /\ \A j \in 1 .. k + 2 :
              (w \o m)[j] = IF j <= k THEN w[j] ELSE m[j - k]
<1>1. /\ Len(w \o m) = Len(w) + Len(m)
      /\ \A j \in 1 .. Len(w) + Len(m) :
           (w \o m)[j] = IF j <= Len(w) THEN w[j] ELSE m[j - Len(w)]
  BY ConcatProperties
<1> QED
  BY <1>1

\* A whole message behind whole messages leaves everything in step.
LEMMA InStepAppend ==
  ASSUME NEW w \in Seq(Lines), NEW cmd \in Commands, NEW n \in Nat, InStep(w),
         IF w = <<>> THEN readHeader ELSE w[Len(w)].part = "body"
  PROVE  LET v == w \o Message(cmd, n)
         IN  InStep(v) /\ v # <<>> /\ v[Len(v)].part = "body"
<1> DEFINE m == Message(cmd, n)
           v == w \o m
<1>1. /\ m \in Seq(Lines) /\ Len(m) = 2
      /\ m[1] = [part |-> "header", cmd |-> cmd, seq |-> n]
      /\ m[2] = [part |-> "body", cmd |-> cmd, seq |-> n]
  BY MessageTypes DEF Message
<1> HIDE DEF m
<1>2. /\ v \in Seq(Lines) /\ Len(v) = Len(w) + 2
      /\ v[Len(w) + 1] = m[1] /\ v[Len(w) + 2] = m[2]
      /\ \A i \in 1 .. Len(w) : v[i] = w[i]
  <2>1. /\ v \in Seq(Lines) /\ Len(v) = Len(w) + Len(m)
        /\ \A i \in 1 .. Len(w) + Len(m) :
             v[i] = IF i <= Len(w) THEN w[i] ELSE m[i - Len(w)]
    BY <1>1, ConcatProperties
  <2> HIDE DEF v
  <2> PICK k \in Nat : k = Len(w)
    OBVIOUS
  <2>2. /\ Len(v) = k + 2
        /\ \A i \in 1 .. k + 2 : v[i] = IF i <= k THEN w[i] ELSE m[i - k]
    BY <1>1, <2>1
  <2>3. v[k + 1] = m[k + 1 - k] /\ v[k + 2] = m[k + 2 - k]
    BY <2>2
  <2>4. k + 1 - k = 1 /\ k + 2 - k = 2
    OBVIOUS
  <2>5. \A i \in 1 .. k : v[i] = w[i]
    BY <2>2
  <2> QED
    BY <2>1, <2>2, <2>3, <2>4, <2>5
<1> HIDE DEF v
<1>3. v # <<>> /\ v[Len(v)].part = "body"
  BY <1>1, <1>2
<1>4. /\ readHeader <=> v[1].part = "header"
      /\ ~ readHeader => currentCmd = v[1].cmd
  <2>1. CASE w = <<>>
    <3>1. Len(w) + 1 = 1
      BY <2>1
    <3> QED
      BY <1>1, <1>2, <2>1, <3>1
  <2>2. CASE w # <<>>
    <3>1. 1 \in 1 .. Len(w) /\ v[1] = w[1]
      BY <1>2, <2>2, EmptySeq
    <3> QED
      BY <2>2, <3>1 DEF InStep
  <2> QED
    BY <2>1, <2>2
<1>5. ASSUME NEW i \in 1 .. Len(v) - 1
      PROVE  IF v[i].part = "header"
               THEN v[i + 1].part = "body" /\ v[i + 1].cmd = v[i].cmd
               ELSE v[i + 1].part = "header"
  <2>1. CASE i < Len(w)
    <3>1. i \in 1 .. Len(w) - 1 /\ v[i] = w[i] /\ v[i + 1] = w[i + 1]
      BY <1>2, <2>1
    <3> QED
      BY <3>1 DEF InStep
  <2>2. CASE i = Len(w)
    <3>1. w # <<>> /\ v[i] = w[Len(w)] /\ v[i + 1] = m[1]
      BY <1>2, <2>2
    <3> QED
      BY <1>1, <3>1
  <2>3. CASE i = Len(w) + 1
    BY <1>1, <1>2, <2>3
  <2> QED
    BY <1>2, <2>1, <2>2, <2>3
<1> QED
  BY <1>3, <1>4, <1>5 DEF InStep, v, m

\* So does what is left of the lines when the rest is lost.
LEMMA InStepPrefix ==
  ASSUME NEW w \in Seq(Lines), NEW n \in 0 .. Len(w), InStep(w)
  PROVE  InStep(SubSeq(w, 1, n))
<1> DEFINE v == SubSeq(w, 1, n)
<1>1. /\ v \in Seq(Lines) /\ Len(v) = n
      /\ \A i \in 1 .. n : v[i] = w[i]
  OBVIOUS
<1> HIDE DEF v
<1>2. ASSUME v # <<>> PROVE w # <<>> /\ v[1] = w[1]
  <2>1. 1 \in 1 .. n
    BY <1>1, <1>2, EmptySeq
  <2> QED
    BY <1>1, <2>1
<1>3. ASSUME NEW i \in 1 .. Len(v) - 1
      PROVE  i \in 1 .. Len(w) - 1 /\ v[i] = w[i] /\ v[i + 1] = w[i + 1]
  BY <1>1
<1>4. v # <<>> => /\ readHeader <=> v[1].part = "header"
                  /\ ~ readHeader => currentCmd = v[1].cmd
  BY <1>2 DEF InStep
<1>5. \A i \in 1 .. Len(v) - 1 :
        IF v[i].part = "header" THEN v[i + 1].part = "body" /\ v[i + 1].cmd = v[i].cmd
                                ELSE v[i + 1].part = "header"
  BY <1>3 DEF InStep
<1> QED
  BY <1>4, <1>5 DEF InStep, v

\* Reading a line turns what comes next from one part into the other.
LEMMA InStepTail ==
  ASSUME NEW w \in Seq(Lines), w # <<>>, InStep(w),
         readHeader' = ~ readHeader,
         currentCmd' = IF readHeader THEN w[1].cmd ELSE currentCmd
  PROVE  InStep(Tail(w))'
<1> DEFINE v == Tail(w)
<1>1. /\ v \in Seq(Lines) /\ Len(v) = Len(w) - 1
      /\ \A i \in 1 .. Len(v) : v[i] = w[i + 1]
  OBVIOUS
<1>2. ASSUME NEW i \in 1 .. Len(v) - 1
      PROVE  IF v[i].part = "header"
               THEN v[i + 1].part = "body" /\ v[i + 1].cmd = v[i].cmd
               ELSE v[i + 1].part = "header"
  <2>1. i + 1 \in 1 .. Len(w) - 1 /\ v[i] = w[i + 1] /\ v[i + 1] = w[i + 2]
    BY <1>1
  <2> QED
    BY <2>1 DEF InStep
<1>3. ASSUME v # <<>>
      PROVE  /\ readHeader' <=> v[1].part = "header"
             /\ ~ readHeader' => currentCmd' = v[1].cmd
  <2>1. 1 \in 1 .. Len(w) - 1 /\ v[1] = w[2] /\ w[1] \in Lines
    BY <1>1, <1>3
  <2>2. IF w[1].part = "header" THEN w[2].part = "body" /\ w[2].cmd = w[1].cmd
                                ELSE w[2].part = "header"
    BY <2>1 DEF InStep
  <2>3. readHeader <=> w[1].part = "header"
    BY DEF InStep
  <2> QED
    BY <2>1, <2>2, <2>3
<1> QED
  BY <1>2, <1>3 DEF InStep

\* Lines stay in step while no connection overlaps another or breaks off.
LEMMA PhaseStep == TypeOK /\ Wiring /\ OneAtATime /\ LinesInStep /\ [Next]_vars => LinesInStep'
<1> SUFFICES ASSUME TypeOK, Wiring, OneAtATime, LinesInStep, [Next]_vars PROVE LinesInStep'
  OBVIOUS
<1>1. CASE Launch
  <2>1. \A d \in Conns : ~ Alive(d) /\ ~ Alive(d)'
    BY <1>1 DEF TypeOK, Wiring, Alive, Launch, Dial
  <2>2. \A d \in Conns : link'[d] # "open"
    BY <2>1 DEF Alive
  <2> QED
    BY <1>1, <2>1, <2>2 DEF LinesInStep, Launch
<1>2. ASSUME NEW c \in Conns, Inject(c) PROVE LinesInStep'
  BY <1>2 DEF TypeOK, LinesInStep, InStep, Alive, Inject, Dial, DialClient
<1>3. CASE ListenFails
  BY <1>3 DEF TypeOK, LinesInStep, InStep, Alive, ListenFails
<1>4. ASSUME NEW c \in Conns, DialFails(c) PROVE LinesInStep'
  BY <1>4 DEF TypeOK, LinesInStep, InStep, Alive, DialFails
<1>5. ASSUME NEW c \in Conns, Accept(c) PROVE LinesInStep'
  <2> SUFFICES ASSUME faults' = {} PROVE LinesInStep'
    BY DEF LinesInStep
  <2>1. /\ faults = {} /\ \A d \in Conns : ~ Alive(d)
    BY <1>5 DEF Accept
  <2>2. readHeader /\ wire[c] = <<>>
    BY <1>5, <2>1 DEF LinesInStep, Wiring, Begun, Accept
  <2>3. \A d \in Conns : (Alive(d)' \/ link'[d] = "open") => d = c
    BY <1>5, <2>1 DEF TypeOK, Alive, Accept, OnConnect
  <2> QED
    BY <1>5, <2>1, <2>2, <2>3 DEF LinesInStep, InStep, Accept
<1>6. ASSUME NEW c \in Conns, Connected(c) PROVE LinesInStep'
  <2> SUFFICES ASSUME faults = {} PROVE LinesInStep'
    BY <1>6 DEF LinesInStep, Connected
  <2>1. \A d \in Conns : ~ Alive(d)
    BY <1>6 DEF Wiring, OneAtATime, Alive, Connected
  <2>2. readHeader /\ wire[c] = <<>>
    BY <1>6, <2>1 DEF LinesInStep, Wiring, Begun, Connected
  <2>3. \A d \in Conns : (Alive(d)' \/ link'[d] = "open") => d = c
    BY <1>6, <2>1 DEF TypeOK, Alive, Connected, OnConnect
  <2> QED
    BY <1>6, <2>2, <2>3 DEF LinesInStep, InStep, Connected
<1>7. CASE StopWaitConnection
  BY <1>7 DEF TypeOK, LinesInStep, InStep, Alive, StopWaitConnection
<1>8. ASSUME NEW c \in Conns, NEW cmd \in Notices, Notify(c, cmd) PROVE LinesInStep'
  <2> SUFFICES ASSUME faults = {} PROVE LinesInStep'
    BY <1>8 DEF LinesInStep, Notify
  <2>1. /\ wire[c] \in Seq(Lines) /\ InStep(wire[c])
        /\ IF wire[c] = <<>> THEN readHeader ELSE wire[c][Len(wire[c])].part = "body"
    BY <1>8 DEF TypeOK, LinesInStep, Alive, Notify
  <2>a. wire[c] \o Message(cmd, 0) \in Seq(Lines)
    <3>1. Message(cmd, 0) \in Seq(Lines)
      BY MessageTypes DEF TypeOK, Knowledge, Commands
    <3> QED
      BY <2>1, <3>1, ConcatProperties
  <2> PICK v \in Seq(Lines) : v = wire[c] \o Message(cmd, 0)
    BY <2>a
  <2>2. InStep(v) /\ v # <<>> /\ v[Len(v)].part = "body"
    BY <2>1, <1>8, InStepAppend DEF TypeOK, Knowledge, Commands
  <2>3. InStep(v)'
    BY <2>2, <1>8 DEF InStep, Notify
  <2>4. wire' = [wire EXCEPT ![c] = v]
    BY <1>8 DEF Notify, Say
  <2> HIDE DEF InStep
  <2>5. /\ wire'[c] = v
        /\ \A d \in Conns : d # c => wire'[d] = wire[d]
    BY <2>4 DEF TypeOK
  <2>6. \A d \in Conns : Alive(d) => InStep(wire[d])'
    <3> SUFFICES ASSUME NEW d \in Conns, Alive(d) PROVE InStep(wire[d])'
      OBVIOUS
    <3>1. CASE d = c
      BY <2>3, <2>5, <3>1 DEF InStep
    <3>2. CASE d # c
      <4>1. InStep(wire[d])
        BY DEF LinesInStep
      <4> QED
        BY <1>8, <2>5, <3>2, <4>1 DEF InStep, Notify
    <3> QED
      BY <3>1, <3>2
  <2> QED
    BY <1>8, <2>2, <2>5, <2>6 DEF TypeOK, LinesInStep, Alive, Notify
<1>9. ASSUME NEW c \in Conns, NEW seq \in knows[c].asked, Answer(c, seq) PROVE LinesInStep'
  <2> SUFFICES ASSUME faults = {} PROVE LinesInStep'
    BY <1>9 DEF LinesInStep, Answer
  <2>1. /\ wire[c] \in Seq(Lines) /\ InStep(wire[c])
        /\ IF wire[c] = <<>> THEN readHeader ELSE wire[c][Len(wire[c])].part = "body"
    BY <1>9 DEF TypeOK, LinesInStep, Alive, Answer
  <2>a. wire[c] \o Message("EvalRsp", seq) \in Seq(Lines)
    <3>1. Message("EvalRsp", seq) \in Seq(Lines)
      BY MessageTypes DEF TypeOK, Knowledge, Commands
    <3> QED
      BY <2>1, <3>1, ConcatProperties
  <2> PICK v \in Seq(Lines) : v = wire[c] \o Message("EvalRsp", seq)
    BY <2>a
  <2>2. InStep(v) /\ v # <<>> /\ v[Len(v)].part = "body"
    BY <2>1, <1>9, InStepAppend DEF TypeOK, Knowledge, Commands
  <2>3. InStep(v)'
    BY <2>2, <1>9 DEF InStep, Answer
  <2>4. wire' = [wire EXCEPT ![c] = v]
    BY <1>9 DEF Answer, Say
  <2> HIDE DEF InStep
  <2>5. /\ wire'[c] = v
        /\ \A d \in Conns : d # c => wire'[d] = wire[d]
    BY <2>4 DEF TypeOK
  <2>6. \A d \in Conns : Alive(d) => InStep(wire[d])'
    <3> SUFFICES ASSUME NEW d \in Conns, Alive(d) PROVE InStep(wire[d])'
      OBVIOUS
    <3>1. CASE d = c
      BY <2>3, <2>5, <3>1 DEF InStep
    <3>2. CASE d # c
      <4>1. InStep(wire[d])
        BY DEF LinesInStep
      <4> QED
        BY <1>9, <2>5, <3>2, <4>1 DEF InStep, Answer
    <3> QED
      BY <3>1, <3>2
  <2> QED
    BY <1>9, <2>2, <2>5, <2>6 DEF TypeOK, LinesInStep, Alive, Answer
<1>10. ASSUME NEW c \in Conns, Lose(c) PROVE LinesInStep'
  <2> SUFFICES ASSUME faults = {} PROVE LinesInStep'
    BY <1>10 DEF LinesInStep, Lose
  <2>1. wire[c] \in Seq(Lines) /\ InStep(wire[c])
    BY <1>10 DEF TypeOK, LinesInStep, Alive, Lose
  <2> PICK n \in 0 .. Len(wire[c]) : wire' = [wire EXCEPT ![c] = SubSeq(@, 1, n)]
    BY <1>10 DEF Lose
  <2>a. SubSeq(wire[c], 1, n) \in Seq(Lines)
    BY <2>1
  <2> PICK v \in Seq(Lines) : v = SubSeq(wire[c], 1, n)
    BY <2>a
  <2>2. InStep(v)
    BY <2>1, InStepPrefix
  <2>3. InStep(v)'
    BY <2>2, <1>10 DEF InStep, Lose
  <2>4. /\ wire'[c] = v
        /\ \A d \in Conns : d # c => wire'[d] = wire[d]
    BY DEF TypeOK
  <2>5. ASSUME NEW d \in Conns, Alive(d) PROVE InStep(wire[d])'
    <3>1. CASE d = c
      BY <2>3, <2>4, <3>1 DEF InStep
    <3>2. CASE d # c
      <4>1. InStep(wire[d])
        BY <2>5 DEF LinesInStep
      <4> QED
        BY <1>10, <2>4, <3>2, <4>1 DEF InStep, Lose
    <3> QED
      BY <3>1, <3>2
  <2>6. \A d \in Conns : Alive(d) <=> Alive(d)'
    BY <1>10 DEF TypeOK, Alive, Lose
  <2> QED
    BY <1>10, <2>4, <2>5, <2>6 DEF TypeOK, LinesInStep, Lose
<1>11. ASSUME NEW c \in Conns, OnReceiveLine(c) PROVE LinesInStep'
  <2> SUFFICES ASSUME faults = {} PROVE LinesInStep'
    BY <1>11 DEF LinesInStep, OnReceiveLine
  <2> PICK w \in Seq(Lines) : w = wire[c]
    BY DEF TypeOK
  <2>1. /\ w # <<>> /\ InStep(w) /\ Alive(c) /\ w[1] \in Lines /\ Head(w) = w[1]
        /\ \A d \in Conns : Alive(d) => d = c
    BY <1>11 DEF LinesInStep, OneAtATime, OnReceiveLine
  <2>2. /\ readHeader <=> w[1].part = "header"
        /\ ~ readHeader => currentCmd = w[1].cmd
    BY <2>1 DEF InStep
  <2>3. /\ readHeader' = ~ readHeader
        /\ currentCmd' = IF readHeader THEN w[1].cmd ELSE currentCmd
    BY <1>11, <2>1, <2>2 DEF OnReceiveLine, Flipped
  <2>4. InStep(Tail(w))'
    BY <2>1, <2>3, InStepTail
  <2>5. breakNotify' # "garbage"
    BY <1>11, <2>1, <2>2 DEF LinesInStep, OnReceiveLine, HandleDebugMessage, Lines
  <2>6. wire'[c] = Tail(w)
    BY <1>11 DEF TypeOK, OnReceiveLine
  <2>7. \A d \in Conns : Alive(d)' <=> d = c
    BY <1>11, <2>1 DEF OnReceiveLine, Alive
  <2>8. InStep(wire[c])'
    BY <2>4, <2>6 DEF InStep
  <2>9. ASSUME link[c] = "open"
        PROVE  IF Tail(w) = <<>> THEN readHeader'
                                 ELSE Tail(w)[Len(Tail(w))].part = "body"
    <3>1. w[Len(w)].part = "body"
      BY <2>1, <2>9 DEF LinesInStep
    <3>a. /\ Len(w) \in Nat \ {0} /\ Tail(w) \in Seq(Lines)
          /\ Len(Tail(w)) = Len(w) - 1
          /\ \A i \in 1 .. Len(Tail(w)) : Tail(w)[i] = w[i + 1]
      BY <2>1, EmptySeq, HeadTailProperties
    <3>2. CASE Len(w) = 1
      <4>1. Tail(w) = <<>>
        BY <3>a, <3>2, EmptySeq
      <4>2. w[1].part = "body"
        BY <3>1, <3>2
      <4> QED
        BY <2>2, <2>3, <4>1, <4>2
    <3>3. CASE Len(w) # 1
      <4> PICK k \in Nat : k = Len(w)
        BY <3>a
      <4>a. k # 0 /\ k # 1
        BY <3>a, <3>3
      <4>1. k - 1 \in 1 .. k - 1 /\ k - 1 + 1 = k /\ k - 1 # 0
        BY <4>a, LastIndex
      <4>2. Len(Tail(w)) = k - 1 /\ Tail(w)[k - 1] = w[k]
        BY <3>a, <4>1
      <4>3. Tail(w) # <<>>
        BY <4>1, <4>2, EmptySeq
      <4> QED
        BY <3>1, <4>2, <4>3
    <3> QED
      BY <3>2, <3>3
  <2>10. \A d \in Conns : link'[d] = "open" => d = c /\ link[c] = "open"
    BY <1>11, <2>1 DEF OnReceiveLine, Alive
  <2> QED
    BY <2>1, <2>5, <2>6, <2>7, <2>8, <2>9, <2>10 DEF LinesInStep
<1>12. ASSUME NEW c \in Conns, Close(c) PROVE LinesInStep'
  <2> SUFFICES ASSUME faults = {}, readHeader PROVE LinesInStep'
    BY <1>12 DEF LinesInStep, Close
  <2>1. \A d \in Conns : Alive(d)' => Alive(d) /\ wire'[d] = wire[d]
    BY <1>12 DEF TypeOK, Alive, Close
  <2>2. \A d \in Conns : link'[d] = "open" => link[d] = "open" /\ Alive(d)'
    BY <1>12 DEF TypeOK, Alive, Close
  <2> QED
    BY <1>12, <2>1, <2>2 DEF LinesInStep, InStep, Close
<1>13. ASSUME NEW f \in Paths, NEW bps \in SUBSET {b \in Breakpoints : b.file = f},
             SetBreakPoints(f, bps)
      PROVE  LinesInStep'
  BY <1>13 DEF TypeOK, LinesInStep, InStep, Alive, SetBreakPoints, Request
<1>14. CASE Evaluate
  BY <1>14 DEF TypeOK, LinesInStep, InStep, Alive, Evaluate, Request
<1>15. CASE DebugAction
  BY <1>15 DEF TypeOK, LinesInStep, InStep, Alive, DebugAction, Request
<1>16. CASE Disconnect
  BY <1>16 DEF TypeOK, LinesInStep, InStep, Alive, Disconnect
<1>17. CASE Release
  BY <1>17 DEF TypeOK, LinesInStep, InStep, Alive, Release
<1>18. CASE UNCHANGED vars
  BY <1>18 DEF TypeOK, LinesInStep, InStep, Alive, vars
<1> QED
  BY <1>1, <1>2, <1>3, <1>4, <1>5, <1>6, <1>7, <1>8, <1>9,
     <1>10, <1>11, <1>12, <1>13, <1>14, <1>15, <1>16, <1>17, <1>18
     DEF Next, UserStep, ConnStep, LuaStep

\* Belongs after the step, for a number and a connection of either state.
BelongsNext(seq, c) ==
  /\ seq < evalIdCount'
  /\ \A w \in waiting' : w.seq = seq => w.conn = c

\* NumbersUnique looks at waiting, evalIdCount, the questions a process has and
\* the lines of a wire: fewer of them keep it.
LEMMA NumbersFewer ==
  ASSUME TypeOK, NumbersUnique, TypeOK', evalIdCount' = evalIdCount,
         waiting' \subseteq waiting,
         \A c \in Conns : knows'[c].asked \subseteq knows[c].asked,
         \A c \in Conns : \A i \in 1 .. Len(wire'[c]) :
           \E j \in 1 .. Len(wire[c]) : wire'[c][i] = wire[c][j]
  PROVE  NumbersUnique'
<1>1. \A seq, c : Belongs(seq, c) => BelongsNext(seq, c)
  BY DEF Belongs, BelongsNext
<1>2. \A w \in waiting' : w.seq < evalIdCount'
  BY DEF NumbersUnique
<1>3. ASSUME NEW c \in Conns, NEW seq \in knows'[c].asked
      PROVE  BelongsNext(seq, c)
  <2>1. Belongs(seq, c)
    BY <1>3 DEF NumbersUnique
  <2> QED
    BY <1>1, <2>1
<1>4. ASSUME NEW c \in Conns, NEW i \in 1 .. Len(wire'[c]),
             wire'[c][i].cmd = "EvalRsp"
      PROVE  BelongsNext(wire'[c][i].seq, c)
  <2> PICK j \in 1 .. Len(wire[c]) : wire'[c][i] = wire[c][j]
    OBVIOUS
  <2> PICK l : l = wire[c][j]
    OBVIOUS
  <2>1. Belongs(l.seq, c)
    BY <1>4 DEF NumbersUnique
  <2>2. BelongsNext(l.seq, c)
    BY <2>1 DEF Belongs, BelongsNext
  <2> QED
    BY <2>2 DEF Belongs, BelongsNext
<1> QED
  BY <1>2, <1>3, <1>4 DEF NumbersUnique, Belongs, BelongsNext

\* A number belongs to one evaluation, wherever it turns up.
LEMMA NumberStep == TypeOK /\ NumbersUnique /\ [Next]_vars => NumbersUnique'
<1> SUFFICES ASSUME TypeOK, NumbersUnique, [Next]_vars PROVE NumbersUnique'
  OBVIOUS
<1>a. TypeOK'
  BY TypeStep
<1>1. CASE Launch
  BY <1>1 DEF Launch, NumbersUnique, Belongs, BelongsNext, Dial
<1>2. ASSUME NEW c \in Conns, Inject(c) PROVE NumbersUnique'
  BY <1>2 DEF Inject, NumbersUnique, Belongs, BelongsNext, Dial
<1>3. CASE ListenFails
  BY <1>3 DEF ListenFails, NumbersUnique, Belongs, BelongsNext
<1>4. ASSUME NEW c \in Conns, DialFails(c) PROVE NumbersUnique'
  BY <1>4 DEF DialFails, NumbersUnique, Belongs, BelongsNext
<1>5. ASSUME NEW c \in Conns, Accept(c) PROVE NumbersUnique'
  <2>1. \A d \in Conns : knows'[d].asked \subseteq knows[d].asked
    BY <1>5 DEF TypeOK, Accept, OnConnect, Greeted, Knowledge
  <2>2. wire' = wire /\ waiting' = waiting /\ evalIdCount' = evalIdCount
    BY <1>5 DEF Accept
  <2> QED
    BY <2>1, <2>2, <1>a, NumbersFewer
<1>6. ASSUME NEW c \in Conns, Connected(c) PROVE NumbersUnique'
  <2>1. \A d \in Conns : knows'[d].asked \subseteq knows[d].asked
    BY <1>6 DEF TypeOK, Connected, OnConnect, Greeted, Knowledge
  <2>2. wire' = wire /\ waiting' = waiting /\ evalIdCount' = evalIdCount
    BY <1>6 DEF Connected
  <2> QED
    BY <2>1, <2>2, <1>a, NumbersFewer
<1>7. CASE StopWaitConnection
  BY <1>7 DEF StopWaitConnection, NumbersUnique, Belongs, BelongsNext
<1>8. ASSUME NEW c \in Conns, NEW cmd \in Notices, Notify(c, cmd) PROVE NumbersUnique'
  <2> PICK m \in Seq(Lines) :
         /\ wire'[c] = wire[c] \o m /\ Len(m) = 2
         /\ \A i \in 1 .. 2 : m[i].cmd = cmd /\ m[i].seq = 0
    <3>1. Message(cmd, 0) \in Seq(Lines)
      BY MessageTypes DEF TypeOK, Knowledge, Commands
    <3>2. wire'[c] = wire[c] \o Message(cmd, 0)
      BY <1>8 DEF TypeOK, Notify, Say
    <3>3. /\ Len(Message(cmd, 0)) = 2
          /\ \A i \in 1 .. 2 : /\ Message(cmd, 0)[i].cmd = cmd
                              /\ Message(cmd, 0)[i].seq = 0
      BY DEF Message
    <3> QED
      BY <3>1, <3>2, <3>3
  <2>1. \A d \in Conns : d # c => wire'[d] = wire[d]
    BY <1>8 DEF TypeOK, Notify, Say
  <2>2. /\ waiting' = waiting /\ evalIdCount' = evalIdCount
        /\ \A d \in Conns : knows'[d].asked \subseteq knows[d].asked
    BY <1>8 DEF TypeOK, Knowledge, Notify
  <2>3. \A s, d : Belongs(s, d) => BelongsNext(s, d)
    BY <2>2 DEF Belongs, BelongsNext
  <2>4. ASSUME NEW d \in Conns, NEW i \in 1 .. Len(wire'[d]),
               wire'[d][i].cmd = "EvalRsp"
        PROVE  BelongsNext(wire'[d][i].seq, d)
    <3>1. CASE i \in 1 .. Len(wire[d]) /\ wire'[d][i] = wire[d][i]
      <4> PICK l : l = wire[d][i]
        OBVIOUS
      <4>1. BelongsNext(l.seq, d)
        BY <2>3, <2>4, <3>1 DEF NumbersUnique
      <4> QED
        BY <3>1, <4>1 DEF Belongs, BelongsNext
    <3>2. CASE ~ (i \in 1 .. Len(wire[d]) /\ wire'[d][i] = wire[d][i])
      <4>1. d = c
        BY <2>1, <3>2
      <4>2. wire[c] \in Seq(Lines)
        BY DEF TypeOK
      <4> PICK k \in Nat : k = Len(wire[c])
        BY <4>2
      <4>a. /\ Len(wire'[c]) = k + 2
            /\ \A j \in 1 .. k + 2 :
                 wire'[c][j] = IF j <= k THEN wire[c][j] ELSE m[j - k]
        BY <4>2, AppendTwo
      <4>3. /\ i \in 1 .. k + 2
            /\ wire'[c][i] = IF i <= k THEN wire[c][i] ELSE m[i - k]
        BY <4>1, <4>a
      <4>4. ~ (i <= k)
        BY <3>2, <4>1, <4>3
      <4>5. i - k \in 1 .. 2 /\ wire'[c][i] = m[i - k]
        BY <4>3, <4>4, LastTwo
      <4>6. cmd = "EvalRsp" /\ wire'[c][i].seq = 0
        BY <2>4, <4>1, <4>5
      <4>7. BelongsNext(0, c)
        BY <2>3, <4>6 DEF NumbersUnique, Notices
      <4> QED
        BY <4>1, <4>6, <4>7 DEF Belongs, BelongsNext
    <3> QED
      BY <3>1, <3>2
  <2>5. ASSUME NEW d \in Conns, NEW s \in knows'[d].asked PROVE BelongsNext(s, d)
    BY <2>2, <2>3 DEF NumbersUnique
  <2> QED
    BY <2>2, <2>4, <2>5 DEF NumbersUnique, Belongs, BelongsNext
<1>9. ASSUME NEW c \in Conns, NEW seq \in knows[c].asked, Answer(c, seq) PROVE NumbersUnique'
  <2> PICK m \in Seq(Lines) :
         /\ wire'[c] = wire[c] \o m /\ Len(m) = 2
         /\ \A i \in 1 .. 2 : m[i].cmd = "EvalRsp" /\ m[i].seq = seq
    <3>1. Message("EvalRsp", seq) \in Seq(Lines)
      BY MessageTypes DEF TypeOK, Knowledge, Commands
    <3>2. wire'[c] = wire[c] \o Message("EvalRsp", seq)
      BY <1>9 DEF TypeOK, Answer, Say
    <3>3. /\ Len(Message("EvalRsp", seq)) = 2
          /\ \A i \in 1 .. 2 : /\ Message("EvalRsp", seq)[i].cmd = "EvalRsp"
                              /\ Message("EvalRsp", seq)[i].seq = seq
      BY DEF Message
    <3> QED
      BY <3>1, <3>2, <3>3
  <2>1. \A d \in Conns : d # c => wire'[d] = wire[d]
    BY <1>9 DEF TypeOK, Answer, Say
  <2>2. /\ waiting' = waiting /\ evalIdCount' = evalIdCount
        /\ \A d \in Conns : knows'[d].asked \subseteq knows[d].asked
    BY <1>9 DEF TypeOK, Knowledge, Answer
  <2>3. \A s, d : Belongs(s, d) => BelongsNext(s, d)
    BY <2>2 DEF Belongs, BelongsNext
  <2>4. ASSUME NEW d \in Conns, NEW i \in 1 .. Len(wire'[d]),
               wire'[d][i].cmd = "EvalRsp"
        PROVE  BelongsNext(wire'[d][i].seq, d)
    <3>1. CASE i \in 1 .. Len(wire[d]) /\ wire'[d][i] = wire[d][i]
      <4> PICK l : l = wire[d][i]
        OBVIOUS
      <4>1. BelongsNext(l.seq, d)
        BY <2>3, <2>4, <3>1 DEF NumbersUnique
      <4> QED
        BY <3>1, <4>1 DEF Belongs, BelongsNext
    <3>2. CASE ~ (i \in 1 .. Len(wire[d]) /\ wire'[d][i] = wire[d][i])
      <4>1. d = c
        BY <2>1, <3>2
      <4>2. wire[c] \in Seq(Lines)
        BY DEF TypeOK
      <4> PICK k \in Nat : k = Len(wire[c])
        BY <4>2
      <4>a. /\ Len(wire'[c]) = k + 2
            /\ \A j \in 1 .. k + 2 :
                 wire'[c][j] = IF j <= k THEN wire[c][j] ELSE m[j - k]
        BY <4>2, AppendTwo
      <4>3. /\ i \in 1 .. k + 2
            /\ wire'[c][i] = IF i <= k THEN wire[c][i] ELSE m[i - k]
        BY <4>1, <4>a
      <4>4. ~ (i <= k)
        BY <3>2, <4>1, <4>3
      <4>5. i - k \in 1 .. 2 /\ wire'[c][i] = m[i - k]
        BY <4>3, <4>4, LastTwo
      <4>6. "EvalRsp" = "EvalRsp" /\ wire'[c][i].seq = seq
        BY <2>4, <4>1, <4>5
      <4>7. BelongsNext(seq, c)
        BY <2>3, <4>6 DEF NumbersUnique, Notices
      <4> QED
        BY <4>1, <4>6, <4>7 DEF Belongs, BelongsNext
    <3> QED
      BY <3>1, <3>2
  <2>5. ASSUME NEW d \in Conns, NEW s \in knows'[d].asked PROVE BelongsNext(s, d)
    BY <2>2, <2>3 DEF NumbersUnique
  <2> QED
    BY <2>2, <2>4, <2>5 DEF NumbersUnique, Belongs, BelongsNext
<1>10. ASSUME NEW c \in Conns, Lose(c) PROVE NumbersUnique'
  <2> PICK n \in 0 .. Len(wire[c]) : wire' = [wire EXCEPT ![c] = SubSeq(@, 1, n)]
    BY <1>10 DEF Lose
  <2>1. ASSUME NEW d \in Conns, NEW i \in 1 .. Len(wire'[d])
        PROVE  i \in 1 .. Len(wire[d]) /\ wire'[d][i] = wire[d][i]
    <3>1. wire[d] \in Seq(Lines) /\ (d # c => wire'[d] = wire[d])
      BY DEF TypeOK
    <3>2. ASSUME d = c
          PROVE  /\ wire'[d] = SubSeq(wire[d], 1, n) /\ Len(wire'[d]) = n
                 /\ \A j \in 1 .. n : wire'[d][j] = wire[d][j]
      BY <3>1, <3>2 DEF TypeOK
    <3> QED
      BY <3>1, <3>2
  <2> QED
    BY <1>10, <1>a, <2>1, NumbersFewer DEF Lose
<1>11. ASSUME NEW c \in Conns, OnReceiveLine(c) PROVE NumbersUnique'
  <2>1. ASSUME NEW d \in Conns, NEW i \in 1 .. Len(wire'[d])
        PROVE  \E j \in 1 .. Len(wire[d]) : wire'[d][i] = wire[d][j]
    <3>1. wire[d] \in Seq(Lines) /\ (d # c => wire'[d] = wire[d])
      BY <1>11 DEF TypeOK, OnReceiveLine
    <3>2. CASE d = c
      <4> PICK w \in Seq(Lines) : w = wire[c]
        BY DEF TypeOK
      <4>1. w # <<>> /\ wire'[c] = Tail(w)
        BY <1>11 DEF TypeOK, OnReceiveLine
      <4> PICK k \in Nat : k = Len(w)
        OBVIOUS
      <4>2. /\ Len(Tail(w)) = k - 1
            /\ \A j \in 1 .. k - 1 : Tail(w)[j] = w[j + 1]
        BY <4>1, HeadTailProperties
      <4>3. i \in 1 .. k - 1 /\ i + 1 \in 1 .. k
        BY <3>2, <4>1, <4>2
      <4> QED
        BY <3>2, <4>1, <4>2, <4>3
    <3> QED
      BY <3>1, <3>2
  <2>2. waiting' \subseteq waiting /\ knows' = knows /\ evalIdCount' = evalIdCount
    BY <1>11 DEF OnReceiveLine, HandleDebugMessage
  <2> QED
    BY <1>a, <2>1, <2>2, NumbersFewer
<1>12. ASSUME NEW c \in Conns, Close(c) PROVE NumbersUnique'
  <2>1. \A d \in Conns : Len(wire'[d]) = 0 \/ wire'[d] = wire[d]
    BY <1>12, EmptySeq DEF TypeOK, Close
  <2>2. \A d \in Conns : \A i \in 1 .. Len(wire'[d]) :
          i \in 1 .. Len(wire[d]) /\ wire'[d][i] = wire[d][i]
    BY <2>1
  <2> QED
    BY <1>12, <1>a, <2>2, NumbersFewer DEF Close
<1>13. ASSUME NEW f \in Paths, NEW bps \in SUBSET {b \in Breakpoints : b.file = f},
             SetBreakPoints(f, bps)
      PROVE  NumbersUnique'
  <2>1. \A d \in Conns : knows'[d].asked \subseteq knows[d].asked
    BY <1>13 DEF TypeOK, SetBreakPoints, Request, SendMessage, Writable, ToldBreaks, Told, Knowledge
  <2>2. wire' = wire /\ waiting' = waiting /\ evalIdCount' = evalIdCount
    BY <1>13 DEF SetBreakPoints, Request
  <2> QED
    BY <2>1, <2>2, <1>a, NumbersFewer
<1>14. CASE Evaluate
  <2>1. /\ evalIdCount \in Nat /\ evalIdCount' = evalIdCount + 1 /\ wire' = wire
        /\ waiting' = waiting \cup {[seq |-> evalIdCount, conn |-> client]}
    BY <1>14 DEF TypeOK, Evaluate, NextId, Request
  <2>2. \A d \in Conns :
          knows'[d].asked \subseteq
            knows[d].asked \cup (IF d = client THEN {evalIdCount} ELSE {})
    BY <1>14 DEF TypeOK, Evaluate, SendMessage, Writable, Asked, Told, Knowledge
  <2>3. ASSUME NEW s \in Nat, NEW d, Belongs(s, d) PROVE BelongsNext(s, d)
    BY <2>1, <2>3 DEF Belongs, BelongsNext
  <2>4. BelongsNext(evalIdCount, client)
    <3> SUFFICES ASSUME NEW w \in waiting', w.seq = evalIdCount
                 PROVE  w.conn = client
      BY <2>1 DEF Belongs, BelongsNext
    <3>1. w \notin waiting
      BY <2>1 DEF NumbersUnique
    <3> QED
      BY <2>1, <3>1
  <2>5. \A w \in waiting' : w.seq < evalIdCount'
    BY <2>1 DEF NumbersUnique, TypeOK
  <2>6. ASSUME NEW d \in Conns, NEW s \in knows'[d].asked PROVE BelongsNext(s, d)
    <3>1. CASE s \in knows[d].asked
      <4>1. s \in Nat /\ Belongs(s, d)
        BY <3>1 DEF TypeOK, Knowledge, NumbersUnique
      <4> QED
        BY <2>3, <4>1
    <3>2. CASE s \notin knows[d].asked
      <4>1. s = evalIdCount /\ d = client
        BY <2>2, <3>2
      <4> QED
        BY <2>4, <4>1 DEF Belongs, BelongsNext
    <3> QED
      BY <3>1, <3>2
  <2>7. ASSUME NEW d \in Conns, NEW i \in 1 .. Len(wire[d]),
               wire[d][i].cmd = "EvalRsp"
        PROVE  BelongsNext(wire[d][i].seq, d)
    <3> PICK l \in Lines : l = wire[d][i]
      BY DEF TypeOK
    <3>1. l.seq \in Nat /\ Belongs(l.seq, d)
      BY <2>7 DEF NumbersUnique, Lines
    <3>2. BelongsNext(l.seq, d)
      BY <2>3, <3>1
    <3> QED
      BY <2>1, <3>2 DEF Belongs, BelongsNext
  <2> QED
    BY <2>1, <2>5, <2>6, <2>7 DEF NumbersUnique, Belongs, BelongsNext
<1>15. CASE DebugAction
  <2>1. \A d \in Conns : knows'[d].asked \subseteq knows[d].asked
    BY <1>15 DEF TypeOK, DebugAction, Request, SendMessage, Writable, Told, Knowledge
  <2>2. wire' = wire /\ waiting' = waiting /\ evalIdCount' = evalIdCount
    BY <1>15 DEF DebugAction, Request
  <2> QED
    BY <2>1, <2>2, <1>a, NumbersFewer
<1>16. CASE Disconnect
  <2>1. \A d \in Conns : knows'[d].asked \subseteq knows[d].asked
    BY <1>16 DEF TypeOK, Disconnect, Request, SendMessage, Writable, Told, Knowledge
  <2>2. wire' = wire /\ waiting' = waiting /\ evalIdCount' = evalIdCount
    BY <1>16 DEF Disconnect, Request
  <2> QED
    BY <2>1, <2>2, <1>a, NumbersFewer
<1>17. CASE Release
  BY <1>17 DEF Release, NumbersUnique, Belongs, BelongsNext
<1>18. CASE UNCHANGED vars
  BY <1>18 DEF vars, NumbersUnique, Belongs, BelongsNext
<1> QED
  BY <1>1, <1>2, <1>3, <1>4, <1>5, <1>6, <1>7, <1>8, <1>9,
     <1>10, <1>11, <1>12, <1>13, <1>14, <1>15, <1>16, <1>17, <1>18
     DEF Next, UserStep, ConnStep, LuaStep

\* A step of the session takes an evaluation off the waiting list only for its
\* own answer.
LEMMA OwnStep ==
  ASSUME TypeOK, NumbersUnique, [Next]_vars, NEW w \in waiting \ waiting'
  PROVE  \E c \in Conns : c = w.conn /\ wire'[c] # wire[c]
<1>1. \E c \in Conns : OnReceiveLine(c)
  BY DEF Next, UserStep, ConnStep, LuaStep, Launch, Inject, ListenFails, DialFails,
     Accept, Connected, StopWaitConnection, Notify, Answer, Lose, Close,
     SetBreakPoints, Evaluate, DebugAction, Disconnect, Release, Request, vars
<1> PICK c \in Conns : OnReceiveLine(c)
  BY <1>1
<1> PICK v \in Seq(Lines) : v = wire[c]
  BY DEF TypeOK
<1>2. v # <<>> /\ wire'[c] = Tail(v) /\ Head(v) = v[1]
  BY DEF TypeOK, OnReceiveLine
<1>3. v[1].cmd = "EvalRsp" /\ v[1].seq = w.seq
  BY <1>2 DEF OnReceiveLine, HandleDebugMessage, Resolved
<1>4. 1 \in 1 .. Len(v)
  BY <1>2, EmptySeq
<1>5. w.conn = c
  BY <1>3, <1>4 DEF NumbersUnique, Belongs, BelongsNext
<1>6. wire'[c] # wire[c]
  <2> PICK k \in Nat : k = Len(v)
    OBVIOUS
  <2>1. Len(Tail(v)) = k - 1 /\ k - 1 # k
    BY <1>2, HeadTailProperties
  <2>2. Tail(v) # v
    BY <2>1
  <2> QED
    BY <1>2, <2>2
<1> QED
  BY <1>5, <1>6

-------------------------------------------------------------------------------
(* The theorems.                                                            *)

LEMMA InvInit == Init => SessionInv
<1> SUFFICES ASSUME Init PROVE SessionInv
  OBVIOUS
<1>1. TypeOK
  BY TypeInit
<1>2. Wiring /\ OneAtATime /\ ClientGreeted
  BY SessionAssumption DEF Init, Wiring, Begun, OneAtATime, Alive, ClientGreeted,
     Writable, SessionAssumption
<1>3. LinesInStep
  BY DEF Init, LinesInStep, Alive
<1>4. NumbersUnique
  BY DEF Init, NumbersUnique, Stranger
<1>5. BreakpointsInForce /\ GreetingFirst /\ EveryoneHeard
  BY DEF Init, BreakpointsInForce, GreetingFirst, EveryoneHeard, Stranger
<1> QED
  BY <1>1, <1>2, <1>3, <1>4, <1>5 DEF SessionInv

LEMMA InvStep == SessionInv /\ [Next]_vars => SessionInv'
BY TypeStep, WiringStep, OneStep, GreetedStep, BreakStep, FirstStep, HeardStep,
   PhaseStep, NumberStep DEF SessionInv

\* The invariant that carries all the others: how connection states, client and
\* greeting hang together, which lines are in step, whose the numbers are.
THEOREM SessionSafe == Spec => []SessionInv
BY InvInit, InvStep, PTL DEF Spec

\* Every variable of the session keeps its type.
THEOREM SessionTypes == Spec => []TypeOK
<1>1. SessionInv => TypeOK
  BY DEF SessionInv
<1> QED
  BY <1>1, SessionSafe, PTL

\* The breakpoints of the editor are in force on whoever is connected, however
\* connections and setBreakPoints requests are interleaved.
THEOREM BreakpointsHold == Spec => []BreakpointsInForce
<1>1. SessionInv => BreakpointsInForce
  BY DEF SessionInv
<1> QED
  BY <1>1, SessionSafe, PTL

\* InitReq, breakpoints and ReadyReq come first on every connection, but for
\* the end of an injecting session that still dials.
THEOREM GreetingComesFirst == Spec => []GreetingFirst
<1>1. SessionInv => GreetingFirst
  BY DEF SessionInv
<1> QED
  BY <1>1, SessionSafe, PTL

\* The reader takes headers for headers and bodies for bodies as long as no two
\* connections overlap and none breaks off in the middle of a message.
THEOREM ReaderInPhase == Spec => []LinesInPhase
<1>1. ASSUME SessionInv PROVE LinesInPhase
  <2> SUFFICES ASSUME faults = {}, NEW c \in Conns, Alive(c), wire[c] # <<>>
               PROVE  /\ readHeader <=> Head(wire[c]).part = "header"
                      /\ ~ readHeader => currentCmd = Head(wire[c]).cmd
    BY <1>1 DEF LinesInPhase, SessionInv, LinesInStep
  <2>1. wire[c] \in Seq(Lines) /\ InStep(wire[c])
    BY <1>1 DEF SessionInv, TypeOK, LinesInStep
  <2>2. Head(wire[c]) = wire[c][1]
    BY <2>1
  <2> QED
    BY <2>1, <2>2 DEF InStep
<1> QED
  BY <1>1, SessionSafe, PTL

\* Without overlap every connected Lua process is heard.
THEOREM NobodyCutOff == Spec => []EveryoneHeard
<1>1. SessionInv => EveryoneHeard
  BY DEF SessionInv
<1> QED
  BY <1>1, SessionSafe, PTL

\* An evaluation is settled only by the process it was sent to.
THEOREM AnswersComeHome == Spec => AnswersOwn
<1>1. SessionInv /\ [Next]_vars =>
        [\A w \in waiting \ waiting' :
           \E c \in Conns : c = w.conn /\ wire'[c] # wire[c]]_vars
  BY OwnStep DEF SessionInv
<1> QED
  BY <1>1, SessionSafe, PTL DEF Spec, AnswersOwn
===============================================================================
