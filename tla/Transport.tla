------------------------------- MODULE Transport -------------------------------
(***************************************************************************)
(* The stdio transport of emmylua-ls together with the main loop it feeds: *)
(*                                                                         *)
(*   client --stdin--> readerLoop --queue_--> receive/dispatch --stdout--> *)
(*                                                                         *)
(* Three threads run: the reader thread (Transport::readerLoop), the main  *)
(* thread (the loop at the end of main.cpp, Transport::receive and         *)
(* Dispatcher::dispatch), and the detached indexing thread that the        *)
(* "initialized" notification starts, seen here only as a second writer of *)
(* stdout.  A frame is a position in the client's stream; its kind says    *)
(* how the code classifies it.                                             *)
(***************************************************************************)
EXTENDS Integers, Sequences

CONSTANTS Streams,  \* the frame sequences a client may send
          Notices   \* how many notifications the indexing thread sends

(* What the reader and the dispatcher tell apart about a frame:
     request       integer "id"; its handler, or the lack of one, gives an answer
     notification  no "id"
     initialized   the notification that starts the indexing thread
     exit          the notification that ends the main loop
     dropped       not JSON, or an "id" that get<int>() refuses
     nonObject     JSON that is not an object (body.value() throws in main)
     noLength      no Content-Length header, or one that is not positive
     badLength     a Content-Length that std::stoi refuses                  *)
Kinds == {"request", "notification", "initialized", "exit", "dropped",
          "nonObject", "noLength", "badLength"}

ASSUME TransportAssumption ==
  /\ Streams \subseteq Seq(Kinds)
  /\ Notices \in Nat

VARIABLES
  stream,      \* what this client sends, chosen once
  sent,        \* frames written to the server's stdin
  closed,      \* the client closed its end of the pipe
  running,     \* running_
  reader,      \* where the reader thread is
  got,         \* frames the reader has taken from stdin
  queue,       \* queue_
  main,        \* where the main thread is
  msg,         \* the message main took last, 0 before the first
  shouldExit,  \* main's shouldExit
  answers,     \* requests answered, in order (history)
  writer,      \* who holds writeMutex_
  wire,        \* the last piece written to stdout
  indexer,     \* where the indexing thread is
  told,        \* notifications it has sent
  outcome      \* "up", "exited" (return 0) or "terminated" (std::terminate)

client     == <<stream, sent, closed>>
output     == <<answers, writer, wire>>
background == <<indexer, told>>
vars == <<client, running, reader, got, queue, main, msg, shouldExit,
          output, background, outcome>>

Quiet == [by |-> "none", part |-> "body"]

Init ==
  /\ stream \in Streams /\ sent = 0 /\ closed = FALSE
  /\ running = TRUE /\ reader = "test" /\ got = 0
  /\ queue = <<>>
  /\ main = "test" /\ msg = 0 /\ shouldExit = FALSE
  /\ answers = <<>> /\ writer = "none" /\ wire = Quiet
  /\ indexer = "off" /\ told = 0
  /\ outcome = "up"

-------------------------------------------------------------------------------
(* The client.  It sends whole frames; closing the pipe in the middle of a
   frame and between two frames lead the reader down the same path.        *)

ClientSend ==
  /\ ~ closed
  /\ sent < Len(stream)
  /\ sent' = sent + 1
  /\ UNCHANGED <<stream, closed, running, reader, got, queue, main, msg,
                 shouldExit, output, background, outcome>>

ClientClose ==
  /\ ~ closed
  /\ closed' = TRUE
  /\ UNCHANGED <<stream, sent, running, reader, got, queue, main, msg,
                 shouldExit, output, background, outcome>>

-------------------------------------------------------------------------------
(* queueMutex_ and queueCv_.  receive() holds the mutex from the test of the
   predicate until the wait has enrolled it, so main = "block" is the one
   state between two steps in which the mutex is taken.                     *)

UnlockedQueue == TRUE       \* variant: running without the mutex
QueueMutexFree == main # "block"

EnqueueFirst(q, k) == <<k>> \o q     \* variant: newest first
Enqueue(q, k) == Append(q, k)

Wake == main' = IF main = "waiting" THEN "check" ELSE main

-------------------------------------------------------------------------------
(* The reader thread.                                                       *)

ReaderUnchanged == UNCHANGED <<client, msg, shouldExit, output, background>>

\* while (running_.load())
ReaderTest ==
  /\ reader = "test"
  /\ reader' = IF running THEN "header" ELSE "gone"
  /\ ReaderUnchanged /\ UNCHANGED <<running, got, queue, main, outcome>>

\* The header lines of the next frame.  The loop also tests running_ after
\* every character, so that a stopped reader may leave in the middle of it.
ReadHeader ==
  /\ reader = "header"
  /\ got < sent
  /\ got' = got + 1
  /\ \/ /\ stream[got + 1] = "badLength"
        /\ outcome' = "terminated"
        /\ UNCHANGED reader
     \/ /\ stream[got + 1] = "noLength"
        /\ reader' = "test"
        /\ UNCHANGED outcome
     \/ /\ stream[got + 1] \notin {"badLength", "noLength"}
        /\ reader' = "body"
        /\ UNCHANGED outcome
     \/ /\ ~ running
        /\ reader' = "gone"
        /\ UNCHANGED outcome
  /\ ReaderUnchanged /\ UNCHANGED <<running, queue, main>>

\* End of stdin: running_ is cleared without queueMutex_.
ReaderEof ==
  /\ reader = "header"
  /\ closed /\ got = sent
  /\ running' = FALSE
  /\ reader' = "wakeAll"
  /\ ReaderUnchanged /\ UNCHANGED <<got, queue, main, outcome>>

\* A body that cannot be parsed is logged and forgotten.
ReadBody ==
  /\ reader = "body"
  /\ reader' = IF stream[got] = "dropped" THEN "test" ELSE "push"
  /\ ReaderUnchanged /\ UNCHANGED <<running, got, queue, main, outcome>>

Push ==
  /\ reader = "push"
  /\ QueueMutexFree
  /\ queue' = Enqueue(queue, got)
  /\ reader' = "wakeOne"
  /\ ReaderUnchanged /\ UNCHANGED <<running, got, main, outcome>>

Notify ==
  /\ \/ reader = "wakeOne" /\ reader' = "test"
     \/ reader = "wakeAll" /\ reader' = "gone"
  /\ Wake
  /\ ReaderUnchanged /\ UNCHANGED <<running, got, queue, outcome>>

ReaderStep ==
  /\ outcome = "up"
  /\ ReaderTest \/ ReadHeader \/ ReaderEof \/ ReadBody \/ Push \/ Notify

-------------------------------------------------------------------------------
(* Writing one message: header and body go out under writeMutex_.           *)

UnlockedWrite == TRUE       \* variant: two threads write at once
WriteMutexFree == writer = "none"

WriteHeader(t) ==
  /\ WriteMutexFree
  /\ writer' = t
  /\ wire' = [by |-> t, part |-> "header"]

WriteBody(t) ==
  /\ writer' = "none"
  /\ wire' = [by |-> t, part |-> "body"]

-------------------------------------------------------------------------------
(* The main thread.                                                         *)

MainUnchanged == UNCHANGED <<client, got>>

\* while (!shouldExit && transport->isRunning())
LoopWhileRunning == running            \* variant: exit forgotten
LoopGuard == ~ shouldExit /\ running

LoopTest ==
  /\ main = "test"
  /\ main' = IF LoopGuard THEN "check" ELSE "stop"
  /\ MainUnchanged
  /\ UNCHANGED <<running, reader, queue, msg, shouldExit, output, background,
                 outcome>>

\* receive(): the predicate is tested with the mutex held.
Receive ==
  /\ main = "check"
  /\ \/ /\ queue # <<>>
        /\ msg' = Head(queue)
        /\ queue' = Tail(queue)
        /\ main' = "dispatch"
     \/ /\ queue = <<>> /\ running
        /\ main' = "block"
        /\ UNCHANGED <<msg, queue>>
     \/ /\ queue = <<>> /\ ~ running
        /\ main' = "stop"
        /\ UNCHANGED <<msg, queue>>
  /\ MainUnchanged
  /\ UNCHANGED <<running, reader, shouldExit, output, background, outcome>>

\* The wait enrols main with the condition variable and frees the mutex.
Block ==
  /\ main = "block"
  /\ main' = "waiting"
  /\ MainUnchanged
  /\ UNCHANGED <<running, reader, queue, msg, shouldExit, output, background,
                 outcome>>

\* A condition variable may also wake for no reason.
SpuriousWakeup ==
  /\ outcome = "up"
  /\ main = "waiting"
  /\ main' = "check"
  /\ MainUnchanged
  /\ UNCHANGED <<running, reader, queue, msg, shouldExit, output, background,
                 outcome>>

\* Only requests, messages with an "id", are answered.
AnswersEverything(k) ==                \* variant: notifications answered too
  stream[k] \in {"request", "notification"}
NeedsAnswer(k) == stream[k] = "request"

\* shouldExit is set before the handler runs.  body.value() of a message that
\* is not an object throws, and nothing in main catches it.
Dispatch ==
  /\ main = "dispatch"
  /\ shouldExit' = (shouldExit \/ stream[msg] = "exit")
  /\ \/ /\ NeedsAnswer(msg)
        /\ main' = "respond"
        /\ UNCHANGED <<indexer, outcome>>
     \/ /\ stream[msg] = "initialized"
        /\ main' = "test"
        /\ indexer' = IF indexer = "off" THEN "send" ELSE indexer
        /\ UNCHANGED outcome
     \/ /\ stream[msg] = "nonObject"
        /\ outcome' = "terminated"
        /\ UNCHANGED <<main, indexer>>
     \/ /\ stream[msg] \in {"notification", "exit"} /\ ~ NeedsAnswer(msg)
        /\ main' = "test"
        /\ UNCHANGED <<indexer, outcome>>
  /\ MainUnchanged
  /\ UNCHANGED <<running, reader, queue, msg, output, told>>

\* Whichever of sendResponse and sendError it is, a request gets one message.
Respond ==
  /\ \/ /\ main = "respond"
        /\ WriteHeader("main")
        /\ main' = "respondBody"
        /\ UNCHANGED answers
     \/ /\ main = "respondBody"
        /\ WriteBody("main")
        /\ answers' = Append(answers, msg)
        /\ main' = "test"
  /\ MainUnchanged
  /\ UNCHANGED <<running, reader, queue, msg, shouldExit, background, outcome>>

\* stop(): returns at once when the reader has already cleared running_; main
\* then returns, and the destructor meets a thread that nobody joined.
Stop ==
  /\ main = "stop"
  /\ IF running THEN /\ running' = FALSE
                     /\ main' = "join"
                     /\ UNCHANGED outcome
                ELSE /\ outcome' = "terminated"
                     /\ UNCHANGED <<running, main>>
  /\ MainUnchanged
  /\ UNCHANGED <<reader, queue, msg, shouldExit, output, background>>

Join ==
  /\ main = "join"
  /\ reader = "gone"
  /\ outcome' = "exited"
  /\ MainUnchanged
  /\ UNCHANGED <<running, reader, queue, main, msg, shouldExit, output,
                 background>>

MainStep ==
  /\ outcome = "up"
  /\ LoopTest \/ Receive \/ Block \/ Dispatch \/ Respond \/ Stop \/ Join

-------------------------------------------------------------------------------
(* The indexing thread: progress reports and emmy/indexingDone.             *)

IndexerStep ==
  /\ outcome = "up"
  /\ \/ /\ indexer = "send" /\ told < Notices
        /\ WriteHeader("indexer")
        /\ indexer' = "body"
        /\ UNCHANGED told
     \/ /\ indexer = "body"
        /\ WriteBody("indexer")
        /\ told' = told + 1
        /\ indexer' = "send"
     \/ /\ indexer = "send" /\ told = Notices
        /\ indexer' = "done"
        /\ UNCHANGED <<writer, wire, told>>
  /\ UNCHANGED <<client, running, reader, got, queue, main, msg, shouldExit,
                 answers, outcome>>

-------------------------------------------------------------------------------

Next ==
  \/ ClientSend \/ ClientClose
  \/ ReaderStep \/ MainStep \/ IndexerStep
  \/ SpuriousWakeup

\* The threads of the server are scheduled; the client owes nothing, and a
\* spurious wakeup need never come.  When they do come, main takes the mutex
\* again and again: the reader, blocked in lock(), gets it in the end.
Fairness ==
  /\ WF_vars(ReaderStep) /\ WF_vars(MainStep) /\ WF_vars(IndexerStep)
  /\ SF_vars(outcome = "up" /\ Push)

Spec == Init /\ [][Next]_vars /\ Fairness

-------------------------------------------------------------------------------
(* Properties.                                                              *)

ReaderPlaces == {"test", "header", "body", "push", "wakeOne", "wakeAll", "gone"}
MainPlaces == {"test", "check", "block", "waiting", "dispatch", "respond",
               "respondBody", "stop", "join"}
Frames == 1 .. Len(stream)
Accepted(k) == stream[k] \notin {"dropped", "noLength", "badLength"}

\* Every variable has its type, and no count runs past the stream.
TypeOK ==
  /\ stream \in Seq(Kinds) /\ sent \in 0 .. Len(stream) /\ closed \in BOOLEAN
  /\ running \in BOOLEAN /\ reader \in ReaderPlaces /\ got \in 0 .. sent
  /\ queue \in Seq(Frames)
  /\ main \in MainPlaces /\ msg \in 0 .. got /\ shouldExit \in BOOLEAN
  /\ answers \in Seq(Frames)
  /\ writer \in {"none", "main", "indexer"}
  /\ wire \in [by : {"none", "main", "indexer"}, part : {"header", "body"}]
  /\ indexer \in {"off", "send", "body", "done"} /\ told \in 0 .. Notices
  /\ indexer = "body" => told < Notices
  /\ outcome \in {"up", "exited", "terminated"}

\* The queue hands every frame the reader accepted to main exactly once and in
\* order: what lies between main's message and the reader's last frame is in
\* the queue, oldest first, or still in the reader's hand.  It is about the
\* push in readerLoop and the pop in receive.
ReaderHolds(k) == k = got /\ reader \in {"body", "push"}
FifoDelivery ==
  /\ \A i \in 1 .. Len(queue) : queue[i] > msg /\ queue[i] <= got
  /\ \A i, j \in 1 .. Len(queue) : i < j => queue[i] < queue[j]
  /\ \A k \in msg + 1 .. got :
       Accepted(k) => \/ \E i \in 1 .. Len(queue) : queue[i] = k
                      \/ ReaderHolds(k)
                      \/ k = got /\ reader = "gone"

\* Main never begins the next message with a request unanswered behind it, and
\* never answers anything but a request: Dispatcher::dispatch sends exactly one
\* message per request, whichever of its paths it takes.
Answering(k) == k = msg /\ main \in {"dispatch", "respond", "respondBody"}
AnswersKeepUp ==
  \A k \in 1 .. msg :
    (\E i \in 1 .. Len(answers) : answers[i] = k)
      <=> (stream[k] = "request" /\ ~ Answering(k))

\* Frames pass the reader, the queue, main and the answers in stream order:
\* what the reader holds is newer than all that is queued, main's message older
\* than all of it, and the answers lag behind main.  It is what makes the two
\* invariants above inductive.
InStreamOrder ==
  /\ reader \in {"body", "push"} =>
       /\ got > msg /\ stream[got] \notin {"noLength", "badLength"}
       /\ \A i \in 1 .. Len(queue) : queue[i] < got
  /\ reader = "push" => Accepted(got)
  /\ main \in {"dispatch", "respond", "respondBody"} => msg > 0
  /\ main \in {"respond", "respondBody"} => stream[msg] = "request"
  /\ \A i \in 1 .. Len(answers) : answers[i] <= msg
  /\ \A i, j \in 1 .. Len(answers) : i < j => answers[i] < answers[j]

IInv == TypeOK /\ FifoDelivery /\ AnswersKeepUp /\ InStreamOrder

\* Between a header and its body nobody else writes to stdout: writeMessage
\* holds writeMutex_ across the two, whichever thread calls it.
FramesWhole ==
  [][wire.part = "header" => wire' = [wire EXCEPT !.part = "body"]]_wire

\* Once main has taken the exit notification it takes no other message.
NothingAfterExit == [][shouldExit => msg' = msg]_vars

\* The service promised in LspService: requests are answered once, in order.
Service == INSTANCE LspService WITH arrived <- got
RefinesService == Service!Spec
===============================================================================
