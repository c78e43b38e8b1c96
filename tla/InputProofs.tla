------------------------------- MODULE InputProofs -------------------------------
(***************************************************************************)
(* What the server reads.                                                  *)
(*                                                                         *)
(* Transport, for every set of streams and every number of notices: its    *)
(* type invariant, FIFO delivery, one answer per request, whole frames on  *)
(* stdout, and the refinement of LspService.                               *)
(*                                                                         *)
(* Lexer, for texts of any length: the bounds of tokens and comments, and  *)
(* where long brackets and strings end.                                    *)
(***************************************************************************)
EXTENDS Transport, Lexer, SequenceTheorems, WellFoundedInduction, TLAPS

-------------------------------------------------------------------------------
(* Transport                                                               *)

LEMMA InitIInv == Init => IInv
<1> SUFFICES ASSUME Init PROVE IInv
  OBVIOUS
<1>1. TypeOK
  <2>1. stream \in Seq(Kinds)
    BY TransportAssumption DEF TransportAssumption, Init
  <2>2. Len(stream) \in Nat /\ <<>> \in Seq(Frames)
    BY <2>1
  <2>3. wire \in [by : {"none", "main", "indexer"}, part : {"header", "body"}]
    BY DEF Init, Quiet
  <2>4. told \in 0 .. Notices
    BY TransportAssumption DEF TransportAssumption, Init
  <2>5. sent \in 0 .. Len(stream) /\ got \in 0 .. sent /\ msg \in 0 .. got
    BY <2>2 DEF Init
  <2>6. closed \in BOOLEAN /\ running \in BOOLEAN /\ shouldExit \in BOOLEAN
    BY DEF Init
  <2>7. QED
    BY <2>1, <2>2, <2>3, <2>4, <2>5, <2>6
    DEF Init, TypeOK, ReaderPlaces, MainPlaces
<1>2. FifoDelivery /\ AnswersKeepUp /\ InStreamOrder
  BY DEF Init, FifoDelivery, AnswersKeepUp, InStreamOrder
<1>3. QED
  BY <1>1, <1>2 DEF IInv

\* The client only adds to what may be read.
LEMMA ClientKeepsIInv ==
  ASSUME IInv, ClientSend \/ ClientClose
  PROVE  IInv'
<1>1. TypeOK'
  <2>1. sent' \in 0 .. Len(stream) /\ got \in 0 .. sent'
    <3>1. sent \in Nat /\ got \in 0 .. sent /\ Len(stream) \in Nat /\ sent <= Len(stream)
      BY DEF IInv, TypeOK
    <3>2. sent' = sent \/ (sent < Len(stream) /\ sent' = sent + 1)
      BY DEF ClientSend, ClientClose
    <3>3. QED
      BY <3>1, <3>2
  <2>2. closed' \in BOOLEAN
    BY DEF IInv, TypeOK, ClientSend, ClientClose
  <2>3. QED
    BY <2>1, <2>2 DEF IInv, ClientSend, ClientClose, TypeOK, Frames, output, background
<1>2. FifoDelivery' /\ AnswersKeepUp' /\ InStreamOrder'
  BY DEF IInv, ClientSend, ClientClose, FifoDelivery, AnswersKeepUp,
         InStreamOrder, Accepted, ReaderHolds, Answering, output, background
<1>3. QED
  BY <1>1, <1>2 DEF IInv

LEMMA ReaderKeepsIInv ==
  ASSUME IInv, ReaderStep
  PROVE  IInv'
<1> USE DEF IInv, Frames, Accepted, ReaderHolds, Answering, ReaderUnchanged,
            client, output, background
<1>1. CASE ReaderTest
  BY <1>1 DEF ReaderTest, TypeOK, FifoDelivery, AnswersKeepUp, InStreamOrder,
              ReaderPlaces
<1>2. CASE ReadHeader
  <2>1. /\ reader = "header" /\ got < sent /\ got' = got + 1
        /\ outcome' \in {"up", "exited", "terminated"}
        /\ reader' \in {"header", "test", "body", "gone"}
        /\ reader' = "body" => stream[got'] \notin {"noLength", "badLength"}
        /\ reader' \in {"header", "test"} => ~ Accepted(got')
        /\ UNCHANGED <<stream, sent, closed, running, queue, main, msg,
                       shouldExit, answers, writer, wire, indexer, told>>
    BY <1>2 DEF ReadHeader, TypeOK
  <2>2. msg \in Nat /\ got \in Nat /\ sent \in Nat /\ msg <= got
    BY DEF TypeOK
  <2>3. TypeOK'
    <3>1. got' \in 0 .. sent /\ msg \in 0 .. got' /\ reader' \in ReaderPlaces
      BY <2>1, <2>2 DEF ReaderPlaces
    <3>2. QED
      BY <2>1, <3>1 DEF TypeOK
  <2>4. \A i \in 1 .. Len(queue) : queue[i] > msg /\ queue[i] < got'
    BY <2>1, <2>2 DEF TypeOK, FifoDelivery
  <2>5. FifoDelivery'
    <3>1. ASSUME NEW k \in msg + 1 .. got', Accepted(k)
          PROVE  \/ \E i \in 1 .. Len(queue) : queue[i] = k
                 \/ k = got' /\ reader' \in {"body", "push", "gone"}
      <4>1. CASE k = got'
        BY <2>1, <3>1, <4>1
      <4>2. CASE k # got'
        <5>1. k \in msg + 1 .. got
          BY <2>1, <2>2, <4>2
        <5>2. QED
          BY <2>1, <3>1, <5>1 DEF FifoDelivery
      <4>3. QED
        BY <4>1, <4>2
    <3>2. \A i \in 1 .. Len(queue) : queue[i] > msg /\ queue[i] <= got'
      BY <2>1, <2>2, <2>4 DEF TypeOK
    <3>3. QED
      BY <2>1, <3>1, <3>2 DEF FifoDelivery
  <2>6. AnswersKeepUp'
    BY <2>1 DEF AnswersKeepUp
  <2>7. InStreamOrder'
    BY <2>1, <2>2, <2>4 DEF InStreamOrder
  <2>8. QED BY <2>3, <2>5, <2>6, <2>7
<1>3. CASE ReaderEof
  <2> USE <1>3 DEF ReaderEof
  <2>1. TypeOK'
    BY DEF TypeOK, ReaderPlaces
  <2>2. FifoDelivery'
    BY DEF TypeOK, FifoDelivery
  <2>3. AnswersKeepUp' /\ InStreamOrder'
    BY DEF TypeOK, AnswersKeepUp, InStreamOrder
  <2>4. QED BY <2>1, <2>2, <2>3
<1>4. CASE ReadBody
  <2> USE <1>4 DEF ReadBody
  <2>1. TypeOK'
    BY DEF TypeOK, ReaderPlaces
  <2>2. FifoDelivery'
    BY DEF TypeOK, FifoDelivery
  <2>3. AnswersKeepUp' /\ InStreamOrder'
    BY DEF TypeOK, AnswersKeepUp, InStreamOrder
  <2>4. QED BY <2>1, <2>2, <2>3
<1>5. CASE Push
  <2> USE <1>5 DEF Push, Enqueue
  <2>1. TypeOK'
    BY DEF TypeOK, ReaderPlaces, InStreamOrder
  <2>2. got \in Nat /\ queue \in Seq(Nat) /\ Len(queue) \in Nat
    BY DEF TypeOK
  <2>3. /\ Len(queue') = Len(queue) + 1
        /\ queue'[Len(queue) + 1] = got
        /\ \A i \in 1 .. Len(queue) : queue'[i] = queue[i]
    BY <2>2
  <2>4. FifoDelivery'
    <3>1. \A i \in 1 .. Len(queue') : queue'[i] > msg /\ queue'[i] <= got
      BY <2>2, <2>3 DEF FifoDelivery, InStreamOrder
    <3>2. \A i, j \in 1 .. Len(queue') : i < j => queue'[i] < queue'[j]
      <4> SUFFICES ASSUME NEW i \in 1 .. Len(queue'), NEW j \in 1 .. Len(queue'), i < j
                   PROVE  queue'[i] < queue'[j]
        OBVIOUS
      <4>1. i \in 1 .. Len(queue) /\ (j \in 1 .. Len(queue) \/ j = Len(queue) + 1)
        BY <2>2, <2>3
      <4>2. CASE j \in 1 .. Len(queue)
        BY <2>3, <4>1, <4>2 DEF FifoDelivery
      <4>3. CASE j = Len(queue) + 1
        BY <2>3, <4>1, <4>3 DEF InStreamOrder
      <4>4. QED
        BY <4>1, <4>2, <4>3
    <3>3. ASSUME NEW k \in msg + 1 .. got, Accepted(k)
          PROVE  \E i \in 1 .. Len(queue') : queue'[i] = k
      BY <2>2, <2>3, <3>3 DEF FifoDelivery
    <3>4. QED
      BY <3>1, <3>2, <3>3 DEF FifoDelivery
  <2>5. AnswersKeepUp'
    BY DEF TypeOK, AnswersKeepUp
  <2>6. InStreamOrder'
    BY DEF TypeOK, InStreamOrder
  <2>7. QED BY <2>1, <2>4, <2>5, <2>6
<1>6. CASE Notify
  <2> USE <1>6 DEF Notify, Wake
  <2>1. TypeOK'
    BY DEF TypeOK, ReaderPlaces, MainPlaces
  <2>2. FifoDelivery'
    BY DEF TypeOK, FifoDelivery
  <2>3. AnswersKeepUp'
    BY DEF TypeOK, AnswersKeepUp
  <2>4. InStreamOrder'
    BY DEF TypeOK, InStreamOrder
  <2>5. QED BY <2>1, <2>2, <2>3, <2>4
<1>7. QED
  BY <1>1, <1>2, <1>3, <1>4, <1>5, <1>6 DEF ReaderStep

\* What receive() takes from a queue that is not empty.
LEMMA HeadOfQueue ==
  ASSUME IInv, queue # <<>>
  PROVE  /\ Head(queue) = queue[1] /\ Head(queue) \in Frames
         /\ Head(queue) \in msg + 1 .. got
         /\ Tail(queue) \in Seq(Frames) /\ Len(Tail(queue)) = Len(queue) - 1
         /\ \A i \in 1 .. Len(Tail(queue)) : Tail(queue)[i] = queue[i + 1]
<1>1. queue \in Seq(Frames) /\ Len(queue) \in Nat /\ Len(queue) >= 1
  BY DEF IInv, TypeOK
<1>2. msg \in Nat /\ got \in Nat
  BY DEF IInv, TypeOK
<1>3. queue[1] > msg /\ queue[1] <= got /\ queue[1] \in Frames
  BY <1>1 DEF IInv, FifoDelivery
<1>4. queue[1] \in Nat
  BY <1>3 DEF Frames
<1>5. QED
  BY <1>1, <1>2, <1>3, <1>4

\* A frame that lies before the head of the queue was never a request.
LEMMA NoRequestSkipped ==
  ASSUME IInv, queue # <<>>,
         NEW k \in msg + 1 .. Head(queue) - 1
  PROVE  stream[k] # "request"
<1>1. /\ Head(queue) = queue[1] /\ queue[1] \in msg + 1 .. got
      /\ msg \in Nat /\ got \in Nat /\ k \in Nat /\ Len(queue) \in Nat
  BY HeadOfQueue DEF IInv, TypeOK
<1>2. k \in msg + 1 .. got /\ k # got
  BY <1>1
<1>3. \A i \in 1 .. Len(queue) : queue[i] # k
  <2> SUFFICES ASSUME NEW i \in 1 .. Len(queue) PROVE queue[i] # k
    OBVIOUS
  <2>1. i = 1 \/ queue[1] < queue[i]
    BY <1>1 DEF IInv, FifoDelivery
  <2>2. queue[i] \in Frames
    BY <1>1 DEF IInv, TypeOK
  <2>3. QED
    BY <1>1, <2>1, <2>2 DEF Frames
<1>4. ~ Accepted(k)
  BY <1>2, <1>3 DEF IInv, FifoDelivery, ReaderHolds
<1>5. QED
  BY <1>4 DEF Accepted

LEMMA ReceiveKeepsIInv ==
  ASSUME IInv, Receive
  PROVE  IInv'
<1> USE DEF MainUnchanged, client, output, background
<1>1. CASE queue = <<>>
  <2> USE <1>1 DEF Receive
  <2>1. TypeOK'
    <3>1. main' \in MainPlaces
      BY DEF MainPlaces
    <3>2. UNCHANGED <<stream, sent, closed, running, reader, got, queue, msg,
                      shouldExit, answers, writer, wire, indexer, told, outcome>>
      OBVIOUS
    <3>3. QED
      BY <3>1, <3>2 DEF IInv, TypeOK, Frames
  <2>2. FifoDelivery'
    BY DEF IInv, FifoDelivery, Accepted, ReaderHolds
  <2>3. AnswersKeepUp'
    BY DEF IInv, AnswersKeepUp, Answering
  <2>4. InStreamOrder'
    BY DEF IInv, InStreamOrder, Accepted
  <2>5. QED
    BY <2>1, <2>2, <2>3, <2>4 DEF IInv
<1>2. CASE queue # <<>>
  <2> DEFINE h == Head(queue)
  <2> HIDE DEF h
  <2>1. /\ msg' = h /\ queue' = Tail(queue) /\ main' = "dispatch"
        /\ main = "check"
        /\ UNCHANGED <<stream, sent, closed, running, reader, got, shouldExit,
                       answers, writer, wire, indexer, told, outcome>>
    BY <1>2 DEF Receive, h
  <2>2. /\ h = queue[1] /\ h \in Frames /\ h \in msg + 1 .. got
        /\ Tail(queue) \in Seq(Frames) /\ Len(Tail(queue)) = Len(queue) - 1
        /\ \A i \in 1 .. Len(Tail(queue)) : Tail(queue)[i] = queue[i + 1]
    BY <1>2, HeadOfQueue DEF h
  <2>3. /\ msg \in Nat /\ got \in Nat /\ Len(queue) \in Nat /\ h \in Nat
        /\ Len(queue) >= 1 /\ h > msg /\ h <= got
    BY <1>2, <2>2 DEF IInv, TypeOK
  <2>4. TypeOK'
    <3>1. queue' \in Seq(Frames)'
      BY <2>1, <2>2 DEF Frames
    <3>2. msg' \in 0 .. got'
      BY <2>1, <2>3
    <3>3. QED
      BY <2>1, <3>1, <3>2 DEF IInv, TypeOK, MainPlaces, Frames
  <2>5. \A i \in 1 .. Len(queue') : i + 1 \in 1 .. Len(queue) /\ queue'[i] = queue[i + 1]
    BY <2>1, <2>2, <2>3
  <2>6. FifoDelivery'
    <3>1. ASSUME NEW i \in 1 .. Len(queue')
          PROVE  queue'[i] > msg' /\ queue'[i] <= got'
      <4>1. 1 < i + 1 /\ 1 \in 1 .. Len(queue)
        BY <2>3
      <4>2. queue[1] < queue[i + 1] /\ queue[i + 1] <= got
        BY <2>5, <4>1 DEF IInv, FifoDelivery
      <4>3. QED
        BY <2>1, <2>2, <2>3, <2>5, <4>2
    <3>2. ASSUME NEW i \in 1 .. Len(queue'), NEW j \in 1 .. Len(queue'), i < j
          PROVE  queue'[i] < queue'[j]
      BY <2>5, <3>2 DEF IInv, FifoDelivery
    <3>3. ASSUME NEW k \in msg' + 1 .. got', Accepted(k)'
          PROVE  \/ \E i \in 1 .. Len(queue') : queue'[i] = k
                 \/ ReaderHolds(k)'
                 \/ k = got' /\ reader' = "gone"
      <4>1. k \in msg + 1 .. got /\ k > h /\ Accepted(k)
        BY <2>1, <2>3, <3>3 DEF Accepted
      <4>2. CASE \E i \in 1 .. Len(queue) : queue[i] = k
        <5>1. PICK i \in 1 .. Len(queue) : queue[i] = k
          BY <4>2
        <5>2. i # 1
          BY <2>2, <2>3, <4>1, <5>1
        <5>3. i - 1 \in 1 .. Len(queue') /\ queue'[i - 1] = queue[i]
          BY <2>1, <2>2, <2>3, <5>2
        <5>4. QED
          BY <5>1, <5>3
      <4>3. CASE ReaderHolds(k) \/ (k = got /\ reader = "gone")
        BY <2>1, <4>3 DEF ReaderHolds
      <4>4. QED
        BY <4>1, <4>2, <4>3 DEF IInv, FifoDelivery
    <3>4. QED
      BY <3>1, <3>2, <3>3 DEF FifoDelivery
  <2>7. AnswersKeepUp'
    <3> SUFFICES ASSUME NEW k \in 1 .. h
                 PROVE  (\E i \in 1 .. Len(answers) : answers[i] = k)
                          <=> (stream[k] = "request" /\ k # h)
      BY <2>1 DEF AnswersKeepUp, Answering
    <3>1. CASE k \in 1 .. msg
      BY <2>1, <2>3, <3>1 DEF IInv, AnswersKeepUp, Answering
    <3>2. CASE k > msg
      <4>1. \A i \in 1 .. Len(answers) : answers[i] # k
        BY <2>3, <3>2 DEF IInv, TypeOK, InStreamOrder, Frames
      <4>2. CASE k = h
        BY <4>1, <4>2
      <4>3. CASE k # h
        <5>1. k \in msg + 1 .. h - 1
          BY <2>3, <3>2, <4>3
        <5>2. stream[k] # "request"
          BY <1>2, <5>1, NoRequestSkipped DEF h
        <5>3. QED
          BY <4>1, <5>2
      <4>4. QED
        BY <4>2, <4>3
    <3>3. QED
      BY <2>3, <3>1, <3>2
  <2>8. InStreamOrder'
    <3>1. reader \in {"body", "push"} =>
            /\ got > h /\ stream[got] \notin {"noLength", "badLength"}
            /\ \A i \in 1 .. Len(queue') : queue'[i] < got
      BY <2>2, <2>3, <2>5 DEF IInv, InStreamOrder
    <3>2. reader = "push" => Accepted(got)
      BY DEF IInv, InStreamOrder
    <3>3. \A i \in 1 .. Len(answers) : answers[i] <= h
      BY <2>3 DEF IInv, TypeOK, InStreamOrder, Frames
    <3>4. \A i, j \in 1 .. Len(answers) : i < j => answers[i] < answers[j]
      BY DEF IInv, InStreamOrder
    <3>5. QED
      BY <2>1, <2>3, <3>1, <3>2, <3>3, <3>4 DEF InStreamOrder, Accepted
  <2>9. QED
    BY <2>4, <2>6, <2>7, <2>8 DEF IInv
<1>3. QED
  BY <1>1, <1>2

LEMMA RespondKeepsIInv ==
  ASSUME IInv, Respond
  PROVE  IInv'
<1> USE DEF MainUnchanged, client, output, background
<1>1. CASE main = "respond"
  <2> USE <1>1 DEF Respond, WriteHeader
  <2>1. TypeOK'
    BY DEF IInv, TypeOK, MainPlaces, Frames
  <2>2. FifoDelivery'
    BY DEF IInv, FifoDelivery, Accepted, ReaderHolds
  <2>3. AnswersKeepUp'
    BY DEF IInv, AnswersKeepUp, Answering
  <2>4. InStreamOrder'
    BY DEF IInv, InStreamOrder, Accepted
  <2>5. QED
    BY <2>1, <2>2, <2>3, <2>4 DEF IInv
<1>2. CASE main = "respondBody"
  <2>1. /\ answers' = Append(answers, msg) /\ main' = "test"
        /\ writer' = "none" /\ wire' = [by |-> "main", part |-> "body"]
        /\ UNCHANGED <<stream, sent, closed, running, reader, got, queue, msg,
                       shouldExit, indexer, told, outcome>>
    BY <1>2 DEF Respond, WriteHeader, WriteBody
  <2>2. /\ msg \in Frames /\ msg \in Nat /\ stream[msg] = "request"
        /\ answers \in Seq(Frames) /\ Len(answers) \in Nat
    BY <1>2 DEF IInv, TypeOK, InStreamOrder, Frames
  <2>3. \A i \in 1 .. Len(answers) : answers[i] < msg /\ answers[i] \in Frames
    <3> SUFFICES ASSUME NEW i \in 1 .. Len(answers)
                 PROVE  answers[i] < msg /\ answers[i] \in Frames
      OBVIOUS
    <3>1. answers[i] \in Frames
      BY <2>2
    <3>2. answers[i] <= msg
      BY DEF IInv, InStreamOrder
    <3>3. answers[i] # msg
      <4>1. msg \in 1 .. msg /\ Answering(msg)
        BY <1>2, <2>2 DEF Answering, Frames
      <4>2. QED
        BY <4>1 DEF IInv, AnswersKeepUp
    <3>4. QED
      BY <2>2, <3>1, <3>2, <3>3 DEF Frames
  <2>4. /\ Len(answers') = Len(answers) + 1 /\ answers' \in Seq(Frames)
        /\ answers'[Len(answers) + 1] = msg
        /\ \A i \in 1 .. Len(answers) : answers'[i] = answers[i]
    BY <2>1, <2>2
  <2>5. TypeOK'
    BY <2>1, <2>4 DEF IInv, TypeOK, MainPlaces, Frames
  <2>6. FifoDelivery'
    BY <2>1 DEF IInv, FifoDelivery, Accepted, ReaderHolds
  <2>7. AnswersKeepUp'
    <3> SUFFICES ASSUME NEW k \in 1 .. msg
                 PROVE  (\E i \in 1 .. Len(answers') : answers'[i] = k)
                          <=> stream[k] = "request"
      BY <2>1 DEF AnswersKeepUp, Answering
    <3>1. (\E i \in 1 .. Len(answers') : answers'[i] = k)
            <=> (k = msg \/ \E i \in 1 .. Len(answers) : answers[i] = k)
      BY <2>2, <2>4
    <3>2. CASE k = msg
      BY <2>2, <3>1, <3>2
    <3>3. CASE k # msg
      BY <3>1, <3>3 DEF IInv, AnswersKeepUp, Answering
    <3>4. QED
      BY <3>2, <3>3
  <2>8. InStreamOrder'
    <3>1. \A i \in 1 .. Len(answers') : answers'[i] <= msg
      BY <2>2, <2>3, <2>4 DEF Frames
    <3>2. \A i, j \in 1 .. Len(answers') : i < j => answers'[i] < answers'[j]
      <4> SUFFICES ASSUME NEW i \in 1 .. Len(answers'),
                          NEW j \in 1 .. Len(answers'), i < j
                   PROVE  answers'[i] < answers'[j]
        OBVIOUS
      <4>1. i \in 1 .. Len(answers) /\ (j \in 1 .. Len(answers) \/ j = Len(answers) + 1)
        BY <2>2, <2>4
      <4>2. CASE j \in 1 .. Len(answers)
        BY <2>4, <4>1, <4>2 DEF IInv, InStreamOrder
      <4>3. CASE j = Len(answers) + 1
        BY <2>3, <2>4, <4>1, <4>3
      <4>4. QED
        BY <4>1, <4>2, <4>3
    <3>3. QED
      BY <2>1, <3>1, <3>2 DEF IInv, InStreamOrder, Accepted
  <2>9. QED
    BY <2>5, <2>6, <2>7, <2>8 DEF IInv
<1>3. QED
  BY <1>1, <1>2 DEF Respond

\* The steps of main that neither take a message nor answer one.
LEMMA DispatchKeepsIInv ==
  ASSUME IInv, Dispatch
  PROVE  IInv'
<1> USE DEF Dispatch, NeedsAnswer, MainUnchanged, client, output, background
<1>1. msg \in 0 .. got /\ msg > 0 /\ main = "dispatch"
  BY DEF IInv, TypeOK, InStreamOrder
<1>2. shouldExit' \in BOOLEAN
  BY DEF IInv, TypeOK
<1>3. TypeOK'
  <2>1. main' \in MainPlaces /\ outcome' \in {"up", "exited", "terminated"}
    BY DEF IInv, TypeOK, MainPlaces
  <2>2. indexer' \in {"off", "send", "body", "done"}
    BY DEF IInv, TypeOK
  <2>3. QED
    BY <1>2, <2>1, <2>2 DEF IInv, TypeOK, Frames
<1>4. FifoDelivery'
  BY DEF IInv, FifoDelivery, Accepted, ReaderHolds
<1>5. AnswersKeepUp'
  <2> SUFFICES ASSUME NEW k \in 1 .. msg
               PROVE  (\E i \in 1 .. Len(answers) : answers[i] = k)
                        <=> (stream[k] = "request" /\ ~ Answering(k)')
    BY DEF AnswersKeepUp
  <2>1. CASE k # msg
    BY <2>1 DEF IInv, AnswersKeepUp, Answering
  <2>2. CASE k = msg
    <3>1. stream[msg] = "request" => Answering(msg)'
      BY <1>1 DEF Answering
    <3>2. ~ \E i \in 1 .. Len(answers) : answers[i] = msg
      BY <1>1, <2>2 DEF IInv, AnswersKeepUp, Answering
    <3>3. QED
      BY <2>2, <3>1, <3>2
  <2>3. QED
    BY <2>1, <2>2
<1>6. InStreamOrder'
  BY <1>1 DEF IInv, InStreamOrder, Accepted
<1>7. QED
  BY <1>3, <1>4, <1>5, <1>6 DEF IInv

LEMMA OtherMainStepsKeepIInv ==
  ASSUME IInv, LoopTest \/ Block \/ SpuriousWakeup \/ Stop \/ Join
  PROVE  IInv'
<1> USE DEF LoopTest, Block, SpuriousWakeup, Stop, Join, MainUnchanged, client,
            output, background
<1>1. TypeOK'
  <2>1. main' \in MainPlaces /\ outcome' \in {"up", "exited", "terminated"}
    BY DEF IInv, TypeOK, MainPlaces
  <2>2. running' \in BOOLEAN
    BY DEF IInv, TypeOK
  <2>3. QED
    BY <2>1, <2>2 DEF IInv, TypeOK, Frames
<1>2. FifoDelivery'
  BY DEF IInv, FifoDelivery, Accepted, ReaderHolds
<1>3. AnswersKeepUp'
  BY DEF IInv, AnswersKeepUp, Answering
<1>4. InStreamOrder'
  BY DEF IInv, InStreamOrder, Accepted
<1>5. QED
  BY <1>1, <1>2, <1>3, <1>4 DEF IInv

LEMMA IndexerKeepsIInv ==
  ASSUME IInv, IndexerStep
  PROVE  IInv'
<1> USE DEF IndexerStep, WriteHeader, WriteBody, client, output, background
<1>1. TypeOK'
  <2>1. told' \in 0 .. Notices
    BY TransportAssumption DEF TransportAssumption, IInv, TypeOK
  <2>2. /\ writer' \in {"none", "main", "indexer"}
        /\ wire' \in [by : {"none", "main", "indexer"}, part : {"header", "body"}]
        /\ indexer' \in {"off", "send", "body", "done"}
    BY DEF IInv, TypeOK
  <2>3. QED
    BY <2>1, <2>2 DEF IInv, TypeOK, Frames
<1>2. FifoDelivery'
  BY DEF IInv, FifoDelivery, Accepted, ReaderHolds
<1>3. AnswersKeepUp'
  BY DEF IInv, AnswersKeepUp, Answering
<1>4. InStreamOrder'
  BY DEF IInv, InStreamOrder, Accepted
<1>5. QED
  BY <1>1, <1>2, <1>3, <1>4 DEF IInv

LEMMA StepKeepsIInv == IInv /\ [Next]_vars => IInv'
<1> SUFFICES ASSUME IInv, [Next]_vars PROVE IInv'
  OBVIOUS
<1>1. CASE ClientSend \/ ClientClose
  BY <1>1, ClientKeepsIInv
<1>2. CASE ReaderStep
  BY <1>2, ReaderKeepsIInv
<1>3. CASE MainStep \/ SpuriousWakeup
  BY <1>3, ReceiveKeepsIInv, RespondKeepsIInv, DispatchKeepsIInv,
     OtherMainStepsKeepIInv DEF MainStep
<1>4. CASE IndexerStep
  BY <1>4, IndexerKeepsIInv
<1>5. CASE UNCHANGED vars
  <2>1. TypeOK'
    BY <1>5 DEF vars, client, output, background, IInv, TypeOK, Frames
  <2>2. FifoDelivery' /\ AnswersKeepUp' /\ InStreamOrder'
    BY <1>5 DEF vars, client, output, background, IInv, FifoDelivery,
       AnswersKeepUp, InStreamOrder, Accepted, ReaderHolds, Answering
  <2>3. QED
    BY <2>1, <2>2 DEF IInv
<1>6. QED
  BY <1>1, <1>2, <1>3, <1>4, <1>5 DEF Next

LEMMA Inductive == Spec => []IInv
  BY InitIInv, StepKeepsIInv, PTL DEF Spec

\* Whatever the client sends and however the threads interleave, every
\* variable keeps its type: no position ever runs past the stream.
THEOREM TypeCorrect == Spec => []TypeOK
<1>1. IInv => TypeOK
  BY DEF IInv
<1>2. QED
  BY <1>1, Inductive, PTL

\* readerLoop and receive hand every accepted frame over once and in order.
THEOREM QueueIsFifo == Spec => []FifoDelivery
<1>1. IInv => FifoDelivery
  BY DEF IInv
<1>2. QED
  BY <1>1, Inductive, PTL

\* dispatch answers every request it took, and nothing else.
THEOREM NoRequestForgotten == Spec => []AnswersKeepUp
<1>1. IInv => AnswersKeepUp
  BY DEF IInv
<1>2. QED
  BY <1>1, Inductive, PTL

-------------------------------------------------------------------------------
(* writeMutex_ is held by whoever has written a header and not its body.     *)
WriterInv ==
  /\ writer = "none" <=> wire.part = "body"
  /\ writer # "none" => writer = wire.by
  /\ writer = "main" <=> main = "respondBody"
  /\ writer = "indexer" <=> indexer = "body"

LEMMA WriterInductive == Spec => []WriterInv
<1>1. Init => WriterInv
  BY DEF Init, WriterInv, Quiet
<1>2. IInv /\ WriterInv /\ [Next]_vars => WriterInv'
  <2> SUFFICES ASSUME IInv, WriterInv, [Next]_vars PROVE WriterInv'
    OBVIOUS
  <2> USE DEF IInv, TypeOK, WriterInv, client, output, background
  <2>1. CASE ClientSend \/ ClientClose
    BY <2>1 DEF ClientSend, ClientClose
  <2>2. CASE ReaderStep
    BY <2>2 DEF ReaderStep, ReaderUnchanged, ReaderTest, ReadHeader, ReaderEof,
       ReadBody, Push, Notify, Wake
  <2>3. CASE Respond
    BY <2>3 DEF Respond, WriteHeader, WriteBody, WriteMutexFree
  <2>4. CASE Dispatch
    BY <2>4 DEF Dispatch
  <2>5. CASE LoopTest \/ Receive \/ Block \/ SpuriousWakeup \/ Stop \/ Join
    BY <2>5 DEF LoopTest, Receive, Block, SpuriousWakeup, Stop, Join
  <2>6. CASE IndexerStep
    BY <2>6 DEF IndexerStep, WriteHeader, WriteBody, WriteMutexFree
  <2>7. CASE UNCHANGED vars
    BY <2>7 DEF vars
  <2>8. QED
    BY <2>1, <2>2, <2>3, <2>4, <2>5, <2>6, <2>7 DEF Next, MainStep
<1>3. QED
  BY <1>1, <1>2, Inductive, PTL DEF Spec

\* writeMessage: a header is followed by its own body, whoever else writes.
THEOREM WholeFrames == Spec => FramesWhole
<1>1. TypeOK /\ WriterInv /\ [Next]_vars
        => [wire.part = "header" => wire' = [wire EXCEPT !.part = "body"]]_wire
  <2> SUFFICES ASSUME TypeOK, WriterInv, [Next]_vars, wire.part = "header",
                      wire' # wire
               PROVE  wire' = [wire EXCEPT !.part = "body"]
    OBVIOUS
  <2>1. CASE Respond
    BY <2>1 DEF Respond, WriteHeader, WriteBody, WriteMutexFree, WriterInv, TypeOK
  <2>2. CASE IndexerStep
    BY <2>2 DEF IndexerStep, WriteHeader, WriteBody, WriteMutexFree, WriterInv,
       TypeOK
  <2>3. ASSUME ~ Respond, ~ IndexerStep PROVE wire' = wire
    BY <2>3 DEF Next, MainStep, ReaderStep, ClientSend, ClientClose,
       ReaderUnchanged, ReaderTest, ReadHeader, ReaderEof, ReadBody, Push,
       Notify, LoopTest, Receive, Block, Dispatch, SpuriousWakeup, Stop, Join,
       vars, output
  <2>4. QED
    BY <2>1, <2>2, <2>3
<1>2. QED
  BY <1>1, TypeCorrect, WriterInductive, PTL DEF Spec, FramesWhole

\* Once exit is taken, main is on its way out.
ExitInv == shouldExit => main \in {"dispatch", "test", "stop", "join"}
                         /\ (main = "dispatch" => stream[msg] = "exit")

\* The main loop takes no message after exit.
THEOREM ExitIsLast == Spec => NothingAfterExit
<1>1. Init => ExitInv
  BY DEF Init, ExitInv
<1>2. ExitInv /\ [Next]_vars => ExitInv'
  <2> SUFFICES ASSUME ExitInv, [Next]_vars PROVE ExitInv'
    OBVIOUS
  <2> USE DEF ExitInv, client, output, background
  <2>1. CASE ReaderStep
    BY <2>1 DEF ReaderStep, ReaderUnchanged, ReaderTest, ReadHeader, ReaderEof,
       ReadBody, Push, Notify, Wake
  <2>2. CASE Dispatch
    BY <2>2 DEF Dispatch, NeedsAnswer, MainUnchanged
  <2>3. CASE LoopTest \/ Receive \/ Block \/ SpuriousWakeup \/ Stop \/ Join \/ Respond
    BY <2>3 DEF LoopTest, LoopGuard, Receive, Block, SpuriousWakeup, Stop, Join,
       Respond, MainUnchanged
  <2>4. CASE ClientSend \/ ClientClose \/ IndexerStep \/ UNCHANGED vars
    BY <2>4 DEF ClientSend, ClientClose, IndexerStep, vars
  <2>5. QED
    BY <2>1, <2>2, <2>3, <2>4 DEF Next, MainStep
<1>3. ExitInv /\ [Next]_vars => [shouldExit => msg' = msg]_vars
  BY DEF ExitInv, Next, MainStep, ReaderStep, ClientSend, ClientClose,
     IndexerStep, ReaderUnchanged, ReaderTest, ReadHeader, ReaderEof, ReadBody,
     Push, Notify, LoopTest, Receive, Block, Dispatch, SpuriousWakeup, Respond,
     Stop, Join, vars
<1>4. QED
  BY <1>1, <1>2, <1>3, PTL DEF Spec, NothingAfterExit

-------------------------------------------------------------------------------
(* The refinement: reading a header is the arrival of a frame, the last byte
   of a response is the answer, and every other step stutters.              *)

LEMMA AnswerIsNext ==
  ASSUME IInv, main = "respondBody", answers' = Append(answers, msg),
         UNCHANGED <<stream, got>>
  PROVE  Service!Next
<1> DEFINE last == Service!LastOf(answers)
<1>1. /\ msg \in Frames /\ msg \in 1 .. got /\ msg \in Nat /\ got \in Nat
      /\ answers \in Seq(Frames) /\ Len(answers) \in Nat /\ stream[msg] = "request"
  BY DEF IInv, TypeOK, InStreamOrder, Frames
<1>2. \A i \in 1 .. Len(answers) : answers[i] \in Frames /\ answers[i] # msg
  <2>1. msg \in 1 .. msg /\ Answering(msg)
    BY <1>1 DEF Answering
  <2>2. QED
    BY <1>1, <2>1 DEF IInv, AnswersKeepUp
<1>3. last \in Nat /\ last < msg
  <2>1. CASE answers = <<>>
    BY <1>1, <2>1 DEF Service!LastOf
  <2>2. CASE answers # <<>>
    <3>1. Len(answers) \in 1 .. Len(answers)
      BY <1>1, <2>2
    <3>2. last = answers[Len(answers)] /\ last \in Frames /\ last # msg
      BY <1>2, <2>2, <3>1 DEF Service!LastOf
    <3>3. last <= msg
      BY <3>1, <3>2 DEF IInv, InStreamOrder
    <3>4. QED
      BY <1>1, <3>2, <3>3 DEF Frames
  <2>3. QED
    BY <2>1, <2>2
<1>4. \A i \in 1 .. Len(answers) : answers[i] <= last
  <2> SUFFICES ASSUME NEW i \in 1 .. Len(answers) PROVE answers[i] <= last
    OBVIOUS
  <2>1. answers # <<>> /\ Len(answers) \in 1 .. Len(answers)
    BY <1>1
  <2>2. last = answers[Len(answers)]
    BY <2>1 DEF Service!LastOf
  <2>3. i = Len(answers) \/ answers[i] < answers[Len(answers)]
    BY <2>1 DEF IInv, InStreamOrder
  <2>4. answers[i] \in Nat
    BY <1>2 DEF Frames
  <2>5. QED
    BY <1>3, <2>2, <2>3, <2>4
<1>5. ASSUME NEW j \in last + 1 .. msg - 1
      PROVE  stream[j] # "request"
  <2>1. j \in 1 .. msg /\ j # msg /\ j > last /\ j \in Nat
    BY <1>1, <1>3
  <2>2. \A i \in 1 .. Len(answers) : answers[i] # j
    BY <1>3, <1>4, <2>1
  <2>3. QED
    BY <2>1, <2>2 DEF IInv, AnswersKeepUp, Answering
<1>6. Service!Answer(msg)
  BY <1>1, <1>5 DEF Service!Answer, Service!IsRequest
<1>7. msg \in last + 1 .. got
  BY <1>1, <1>3
<1>8. QED
  BY <1>6, <1>7 DEF Service!Next

\* What the threads do between them is what LspService promises the client.
THEOREM Refinement == Spec => RefinesService
<1>1. Init => Service!Init
  BY DEF Init, Service!Init
<1>2. IInv /\ [Next]_vars => [Service!Next]_(Service!serviceVars)
  <2> SUFFICES ASSUME IInv, [Next]_vars
               PROVE  Service!Next \/ UNCHANGED <<stream, got, answers>>
    BY DEF Service!serviceVars
  <2>1. CASE ReadHeader
    <3>1. got < Len(stream) /\ got' = got + 1 /\ UNCHANGED <<stream, answers>>
      BY <2>1 DEF ReadHeader, ReaderUnchanged, client, output, IInv, TypeOK
    <3>2. QED
      BY <3>1 DEF Service!Next, Service!Arrive
  <2>2. CASE Respond
    <3>1. CASE main = "respond"
      BY <2>2, <3>1 DEF Respond, MainUnchanged, client
    <3>2. CASE main = "respondBody"
      BY <2>2, <3>2, AnswerIsNext DEF Respond, MainUnchanged, client
    <3>3. QED
      BY <2>2, <3>1, <3>2 DEF Respond
  <2>3. ASSUME ~ ReadHeader, ~ Respond PROVE UNCHANGED <<stream, got, answers>>
    BY <2>3 DEF Next, MainStep, ReaderStep, ClientSend, ClientClose,
       IndexerStep, ReaderUnchanged, MainUnchanged, ReaderTest, ReaderEof,
       ReadBody, Push, Notify, LoopTest, Receive, Block, Dispatch,
       SpuriousWakeup, Stop, Join, vars, client, output
  <2>4. QED
    BY <2>1, <2>2, <2>3
<1>3. QED
  BY <1>1, <1>2, Inductive, PTL DEF Spec, RefinesService, Service!Spec

-------------------------------------------------------------------------------
(* Lexer                                                                   *)

(***************************************************************************)
(* Numbers.                                                                *)
(***************************************************************************)

\* A set of numbers has a least one.
LEMMA MinimumExists ==
  ASSUME NEW T, T \subseteq Nat, T # {}
  PROVE  \E x \in T : \A y \in T : x <= y
<1> DEFINE R == {ss \in Nat \X Nat : ss[1] < ss[2]}
<1>1. IsWellFoundedOn(R, Nat)
  <2>1. OpToRel(<, Nat) = R
    BY DEF OpToRel
  <2> QED  BY <2>1, NatLessThanWellFounded
<1>2. PICK x \in T : \A y \in T : ~ (<<y, x>> \in R)
  <2> HIDE DEF R
  <2> QED  BY <1>1, WFMin
<1>3. ASSUME NEW y \in T  PROVE x <= y
  <2>1. <<y, x>> \in Nat \X Nat /\ ~ (<<y, x>> \in R)
    BY <1>2
  <2>2. ~ (y < x)
    <3>1. <<y, x>>[1] = y /\ <<y, x>>[2] = x
      OBVIOUS
    <3> HIDE <1>2
    <3> QED  BY <2>1, <3>1
  <2> QED  BY <2>2
<1> QED  BY <1>3

\* Induction from the end of a text to its beginning.
LEMMA FromTheEnd ==
  ASSUME NEW n \in Nat, NEW T,
         \A q \in 1 .. n : (\A r \in q + 1 .. n : r \in T) => q \in T
  PROVE  \A q \in 1 .. n : q \in T
<1> DEFINE Bad == {m \in Nat : \E q \in 1 .. n : q = n - m /\ q \notin T}
<1> SUFFICES ASSUME Bad # {}  PROVE FALSE
  <2> SUFFICES ASSUME NEW q \in 1 .. n, q \notin T  PROVE Bad # {}
    OBVIOUS
  <2>1. n - q \in Nat /\ q = n - (n - q)
    OBVIOUS
  <2> QED  BY <2>1
<1>1. PICK m \in Bad : \A x \in Bad : m <= x
  <2> HIDE DEF Bad
  <2>1. Bad \subseteq Nat
    BY DEF Bad
  <2> QED  BY <2>1, MinimumExists
<1>2. PICK q \in 1 .. n : q = n - m /\ q \notin T
  OBVIOUS
<1>3. ASSUME NEW r \in q + 1 .. n  PROVE r \in T
  <2> SUFFICES ASSUME r \notin T  PROVE FALSE
    OBVIOUS
  <2>1. n - r \in Nat /\ r = n - (n - r) /\ r \in 1 .. n
    BY <1>2
  <2>2. n - r \in Bad
    BY <2>1
  <2>3. m <= n - r
    BY <1>1, <2>2
  <2> QED  BY <1>2, <2>3
<1> QED  BY <1>2, <1>3

\* A scan: where it does not stop it goes on further behind.  There is a
\* function that tells for each place where the scan from there ends.
Scans(f, n, B, val, nxt) == f = [q \in 1 .. n |-> IF q \in B THEN val[q] ELSE f[nxt[q]]]

LEMMA ScanExists ==
  ASSUME NEW n \in Nat, NEW B, NEW val, NEW nxt,
         \A q \in 1 .. n : q \in B \/ nxt[q] \in q + 1 .. n
  PROVE  \E f : Scans(f, n, B, val, nxt)
<1> SUFFICES \E f : f = [q \in 1 .. n |-> IF q \in B THEN val[q] ELSE f[nxt[q]]]
  BY DEF Scans
<1> DEFINE From(m) == \E f : f = [q \in m .. n |-> IF q \in B THEN val[q] ELSE f[nxt[q]]]
           T == {m \in 1 .. n : From(m)}
<1>1. ASSUME NEW m \in 1 .. n, \A r \in m + 1 .. n : r \in T  PROVE m \in T
  <2> DEFINE A(f) == [q \in m .. n |-> IF q = m THEN IF m \in B THEN val[m] ELSE f[nxt[m]]
                                       ELSE f[q]]
  <2>1. \E f : f = [q \in m + 1 .. n |-> IF q \in B THEN val[q] ELSE f[nxt[q]]]
    <3>1. CASE m = n
      <4>1. m + 1 .. n = {}
        BY <3>1
      <4> DEFINE f == [q \in {} |-> q]
      <4>2. f = [q \in m + 1 .. n |-> IF q \in B THEN val[q] ELSE f[nxt[q]]]
        BY <4>1
      <4> HIDE DEF f
      <4> QED  BY <4>2
    <3>2. CASE m # n
      <4>1. m + 1 \in m + 1 .. n
        BY <3>2
      <4> QED  BY <1>1, <4>1
    <3> QED  BY <3>1, <3>2
  <2>2. PICK f : f = [q \in m + 1 .. n |-> IF q \in B THEN val[q] ELSE f[nxt[q]]]
    BY <2>1
  <2> DEFINE g == A(f)
  <2>3. \A q \in m + 1 .. n : g[q] = f[q] /\ q \in m .. n /\ q # m
    OBVIOUS
  <2>4. ASSUME NEW q \in m .. n  PROVE g[q] = IF q \in B THEN val[q] ELSE g[nxt[q]]
    <3>1. q \in B \/ nxt[q] \in m + 1 .. n
      OBVIOUS
    <3>2. CASE q = m
      BY <2>3, <3>1, <3>2
    <3>3. CASE q # m
      <4>1. q \in m + 1 .. n
        BY <3>3
      <4>2. f[q] = IF q \in B THEN val[q] ELSE f[nxt[q]]
        BY <2>2, <4>1
      <4> HIDE DEF g
      <4> QED  BY <2>3, <3>1, <4>1, <4>2
    <3> QED  BY <3>2, <3>3
  <2>5. g = [q \in m .. n |-> g[q]]
    OBVIOUS
  <2> HIDE DEF g
  <2>6. g = [q \in m .. n |-> IF q \in B THEN val[q] ELSE g[nxt[q]]]
    BY <2>4, <2>5
  <2> QED  BY <2>6
<1> HIDE DEF T
<1>2. \A q \in 1 .. n : q \in T
  BY <1>1, FromTheEnd
<1>3. CASE n = 0
  <2> DEFINE f == [q \in {} |-> q]
  <2>1. f = [q \in 1 .. n |-> IF q \in B THEN val[q] ELSE f[nxt[q]]]
    BY <1>3
  <2> HIDE DEF f
  <2> QED  BY <2>1
<1>4. CASE n # 0
  <2>1. 1 \in T
    BY <1>2, <1>4
  <2> QED  BY <2>1 DEF T
<1> QED  BY <1>3, <1>4

-------------------------------------------------------------------------------
(* The text                                                                 *)

TextOK == source \in Seq(STRING \ {Nul})
Place  == 1 .. End

LEMMA Characters ==
  ASSUME TextOK
  PROVE  /\ Len(source) \in Nat /\ End \in Nat /\ End \in Place
         /\ \A p \in 1 .. Len(source) : At(p) # Nul /\ At(p) = source[p]
         /\ \A p \in Int : p >= End => At(p) = Nul
         /\ \A p \in Place : At(p) # Nul => p + 1 \in Place
<1>1. Len(source) \in Nat /\ \A p \in 1 .. Len(source) : source[p] \in STRING \ {Nul}
  BY LenProperties, ElementOfSeq DEF TextOK
<1> QED  BY <1>1 DEF At, End, Place

LEMMA ForwardLemma ==
  ASSUME TextOK, NEW p \in Place, NEW n \in Nat
  PROVE  /\ Forward(p, n) \in Place /\ p <= Forward(p, n)
         /\ n > 0 /\ p # End => p < Forward(p, n)
         /\ Forward(p, n) <= p + n
         /\ p + n \in Place => Forward(p, n) = p + n
<1>1. End \in Nat /\ p \in 1 .. End
  BY Characters DEF Place
<1>2. CASE p + n < End
  BY <1>1, <1>2 DEF Forward, Place
<1>3. CASE ~ (p + n < End)
  <2>1. Forward(p, n) = End
    BY <1>3 DEF Forward
  <2> QED  BY <1>1, <1>3, <2>1 DEF Place
<1> QED  BY <1>2, <1>3

LEMMA RunLemma ==
  ASSUME TextOK, NEW p \in Place, NEW chars, Nul \notin chars
  PROVE  /\ Run(p, chars) \in Place /\ p <= Run(p, chars)
         /\ At(Run(p, chars)) \notin chars
         /\ \A r \in p .. Run(p, chars) - 1 : At(r) \in chars
<1> DEFINE T == {q \in p .. End : At(q) \notin chars}
<1>1. End \in Nat /\ At(End) = Nul /\ p \in 1 .. End
  BY Characters DEF Place
<1>2. T \subseteq Nat /\ End \in T
  BY <1>1
<1>3. PICK q \in T : \A r \in T : q <= r
  <2> HIDE DEF T
  <2> QED  BY <1>2, MinimumExists
<1>4. \A r \in p .. q - 1 : At(r) \in chars
  BY <1>1, <1>3
<1>5. \E x \in p .. End : At(x) \notin chars /\ \A r \in p .. x - 1 : At(r) \in chars
  BY <1>3, <1>4
<1> DEFINE x == Run(p, chars)
<1>6. x \in p .. End /\ At(x) \notin chars /\ \A r \in p .. x - 1 : At(r) \in chars
  BY <1>5 DEF Run
<1> HIDE DEF x
<1>7. x \in Place /\ p <= x
  BY <1>1, <1>6 DEF Place
<1> QED  BY <1>6, <1>7 DEF x

\* What is not in any run of characters.
LEMMA NulApart ==
  /\ Nul \notin {"="} /\ Nul \notin Blank /\ Nul \notin Digit /\ Nul \notin HexDigit
  /\ Nul \notin Word /\ Nul \notin Digit \cup {"_"} /\ Nul \notin HexDigit \cup {"_"}
  /\ Nul \notin Quote /\ Nul \notin Letter \cup {"_"} /\ Nul \notin Blank \ {"\n"}
  /\ Nul # "]" /\ Nul # "[" /\ Nul # "-" /\ Nul # "." /\ Nul # "\n" /\ Nul # "\\"
BY Zenon DEF Nul, Blank, Digit, HexDigit, Word, Letter, Quote

-------------------------------------------------------------------------------
(* Long brackets                                                            *)

\* Nothing closes between q and r.
LEMMA ClosedFrom ==
  ASSUME TextOK, NEW q \in Place, NEW r \in Place, NEW e \in Place, NEW level \in Nat,
         q <= r, Closed(r, e, level),
         \A x \in q .. r - 1 : ~ClosesAt(x, level)
  PROVE  Closed(q, e, level)
<1>1. End \in Nat
  BY Characters
<1> HIDE DEF ClosesAt
<1> QED  BY <1>1 DEF Closed, Place

LEMMA LongStop ==
  ASSUME TextOK, NEW level \in Nat, NEW kind, NEW p \in Place
  PROVE  LongEnd(p, level, kind) \in Place /\ Closed(p, LongEnd(p, level, kind), level)
                                           /\ p <= LongEnd(p, level, kind)
<1> DEFINE R(q) == Run(q + 1, {"="})
           Matches(q) == At(q) = "]" /\ At(R(q)) = "]" /\ R(q) - q - 1 = level
           stop == CHOOSE f : f =
             [q \in 1 .. End |->
                CASE q = End -> q
                  [] q # End /\ At(q) # "]" -> f[q + 1]
                  [] q # End /\ At(q) = "]" /\ At(R(q)) = "]" /\ R(q) - q - 1 = level -> R(q) + 1
                  [] OTHER -> f[Passed(R(q), kind)]]
<1>1. LongEnd(p, level, kind) = stop[p]
  BY DEF LongEnd
<1>t. End \in Nat /\ End \in Place /\ At(End) = Nul /\ \A q \in Place : q # End => q + 1 \in Place
  BY Characters DEF Place
<1>2. ASSUME NEW q \in Place, q # End
      PROVE  /\ R(q) \in Place /\ q + 1 <= R(q) /\ At(R(q)) # "="
             /\ \A x \in q + 1 .. R(q) - 1 : At(x) = "="
  <2>1. q + 1 \in Place /\ Nul \notin {"="}
    BY <1>t, <1>2, NulApart
  <2> QED  BY <2>1, RunLemma
<1>3. ASSUME NEW q \in Place, q # End
      PROVE  Passed(R(q), kind) \in R(q) .. End
             /\ (At(R(q)) = "]" => Passed(R(q), kind) = R(q)) /\ Passed(R(q), kind) <= R(q) + 1
  <2>1. R(q) \in Place
    BY <1>2, <1>3
  <2> HIDE DEF R
  <2>2. Forward(R(q), 1) \in Place /\ R(q) <= Forward(R(q), 1) /\ Forward(R(q), 1) <= R(q) + 1
    BY <2>1, ForwardLemma
  <2>3. Passed(R(q), kind) = R(q) \/ (At(R(q)) # "]" /\ Passed(R(q), kind) = Forward(R(q), 1))
    BY DEF Passed, BracketPassed, CommentPassed
  <2> QED  BY <1>t, <2>1, <2>2, <2>3 DEF Place
\* Where the scan stops, and where it goes on.
<1> DEFINE B   == {q \in Place : q = End \/ Matches(q)}
           val == [q \in Place |-> IF q = End THEN q ELSE R(q) + 1]
           nxt == [q \in Place |-> IF At(q) # "]" THEN q + 1 ELSE Passed(R(q), kind)]
           Body(f) == [q \in 1 .. End |->
                CASE q = End -> q
                  [] q # End /\ At(q) # "]" -> f[q + 1]
                  [] q # End /\ At(q) = "]" /\ At(R(q)) = "]" /\ R(q) - q - 1 = level -> R(q) + 1
                  [] OTHER -> f[Passed(R(q), kind)]]
<1>4. ASSUME NEW f  PROVE Body(f) = [q \in 1 .. End |-> IF q \in B THEN val[q] ELSE f[nxt[q]]]
  BY DEF Place
<1>5. \A q \in 1 .. End : q \in B \/ nxt[q] \in q + 1 .. End
  <2> SUFFICES ASSUME NEW q \in Place, q # End  PROVE nxt[q] \in q + 1 .. End
    BY DEF Place
  <2> HIDE DEF R
  <2>1. Passed(R(q), kind) \in q + 1 .. End
    BY <1>2, <1>3, <1>t DEF Place
  <2> QED  BY <1>t, <2>1 DEF Place
<1> HIDE DEF R, B, val, nxt, Matches, Body
<1>6. \E f : Scans(f, End, B, val, nxt)
  BY <1>t, <1>5, ScanExists, Zenon
<1>7. \E f : f = Body(f)
  <2>1. PICK f : f = [q \in 1 .. End |-> IF q \in B THEN val[q] ELSE f[nxt[q]]]
    BY <1>6 DEF Scans
  <2>2. Body(f) = [q \in 1 .. End |-> IF q \in B THEN val[q] ELSE f[nxt[q]]]
    BY <1>4
  <2>3. f = Body(f)
    BY <2>1, <2>2
  <2> QED  BY <2>3
<1>8. stop = CHOOSE f : f = Body(f)
  BY DEF Body, R
<1> HIDE DEF stop
<1>9. stop = Body(stop)
  BY <1>7, <1>8
<1>10. stop = [q \in 1 .. End |-> IF q \in B THEN val[q] ELSE stop[nxt[q]]]
  BY <1>4, <1>9
<1>11. \A q \in Place : stop[q] = IF q \in B THEN val[q] ELSE stop[nxt[q]]
  BY <1>10 DEF Place
<1> DEFINE Good == {q \in Place : stop[q] \in Place /\ q <= stop[q] /\ Closed(q, stop[q], level)}
<1>12. ASSUME NEW q \in 1 .. End, \A r \in q + 1 .. End : r \in Good  PROVE q \in Good
  <2>1. q \in Place /\ \A x \in q + 1 .. End : x \in Place
    BY <1>12, <1>t DEF Place
  <2>2. CASE q = End
    <3>1. stop[q] = End
      BY <1>11, <2>1, <2>2 DEF B, val
    <3>2. ~ClosesAt(End, level)
      BY <1>t, NulApart DEF ClosesAt
    <3> QED  BY <1>t, <2>1, <2>2, <3>1, <3>2 DEF Closed, Good
  <2>3. CASE q # End /\ Matches(q)
    <3>1. stop[q] = R(q) + 1
      BY <1>11, <2>1, <2>3 DEF B, val
    <3>2. At(q) = "]" /\ At(R(q)) = "]" /\ R(q) = q + level + 1 /\ R(q) \in Place
      <4>1. At(q) = "]" /\ At(R(q)) = "]" /\ R(q) - q - 1 = level
        BY <2>3 DEF Matches
      <4>2. R(q) \in Place
        BY <1>2, <2>1, <2>3
      <4>3. R(q) = q + level + 1
        <5>1. q \in Int /\ R(q) \in Int
          BY <1>t, <2>1, <4>2 DEF Place
        <5> HIDE <2>1, <2>3
        <5> QED  BY <4>1, <5>1
      <4> QED  BY <4>1, <4>2, <4>3
    <3>3. R(q) + 1 \in Place
      BY <3>2, Characters, NulApart
    <3>4. ClosesAt(q, level)
      <4>1. \A r \in q + 1 .. q + level : At(r) = "="
        BY <1>2, <2>1, <2>3, <3>2 DEF Place
      <4> QED  BY <3>2, <4>1 DEF ClosesAt
    <3>5. Closed(q, R(q) + 1, level)
      <4>1. q \in Int /\ level \in Int
        BY <1>t, <2>1 DEF Place
      <4>2. PICK e : e = R(q) + 1
        OBVIOUS
      <4>3. PICK b : b = e - level - 2
        OBVIOUS
      <4>4. b = q
        BY <3>2, <4>1, <4>2, <4>3
      <4>5. b >= q /\ e - level - 3 = q - 1
        BY <3>2, <4>1, <4>2, <4>4
      <4>6. q .. q - 1 = {}
        BY <4>1
      <4>7. ClosesAt(b, level)
        BY <3>4, <4>4
      <4> HIDE DEF ClosesAt
      <4>8. \A x \in q .. e - level - 3 : ~ClosesAt(x, level)
        BY <4>5, <4>6
      <4> QED  BY <4>2, <4>3, <4>5, <4>7, <4>8, Zenon DEF Closed
    <3> QED  BY <1>2, <2>1, <2>3, <3>1, <3>3, <3>5 DEF Good, Place
  <2>4. CASE q # End /\ ~Matches(q)
    <3>1. stop[q] = stop[nxt[q]] /\ nxt[q] \in q + 1 .. End
      BY <1>5, <1>11, <2>1, <2>4 DEF B, Place
    <3>2. nxt[q] \in Good
      BY <1>12, <3>1
    <3>3. ASSUME NEW x \in q .. nxt[q] - 1  PROVE ~ClosesAt(x, level)
      <4>1. CASE At(q) # "]"
        <5>1. nxt[q] = q + 1
          BY <2>1, <4>1 DEF nxt
        <5>2. x = q
          BY <2>1, <5>1 DEF Place
        <5> QED  BY <4>1, <5>2 DEF ClosesAt
      <4>2. CASE At(q) = "]"
        <5>1. nxt[q] = Passed(R(q), kind)
          BY <2>1, <4>2 DEF nxt
        <5>2. CASE x = q
          <6> SUFFICES ASSUME ClosesAt(q, level)  PROVE FALSE
            BY <5>2
          <6>1. At(q + level + 1) = "]" /\ \A r \in q + 1 .. q + level : At(r) = "="
            BY DEF ClosesAt
          <6>2. R(q) \in Place /\ q + 1 <= R(q) /\ At(R(q)) # "="
                /\ \A y \in q + 1 .. R(q) - 1 : At(y) = "="
            BY <1>2, <2>1, <2>4
          <6>3. ~ (R(q) < q + level + 1)
            BY <2>1, <6>1, <6>2 DEF Place
          <6>4. ~ (R(q) > q + level + 1)
            <7> SUFFICES ASSUME R(q) > q + level + 1  PROVE FALSE
              OBVIOUS
            <7>1. q + level + 1 \in q + 1 .. R(q) - 1
              BY <2>1, <6>2 DEF Place
            <7> QED  BY <6>1, <6>2, <7>1
          <6>5. R(q) = q + level + 1
            BY <2>1, <6>2, <6>3, <6>4 DEF Place
          <6>6. R(q) - q - 1 = level
            BY <2>1, <6>5 DEF Place
          <6> QED  BY <2>4, <4>2, <6>1, <6>5, <6>6 DEF Matches
        <5>3. CASE x \in q + 1 .. R(q) - 1
          BY <1>2, <2>1, <2>4, <5>3 DEF ClosesAt
        <5>4. CASE x = R(q) /\ At(R(q)) # "]"
          BY <5>4 DEF ClosesAt
        <5>5. x = q \/ x \in q + 1 .. R(q) - 1 \/ (x = R(q) /\ At(R(q)) # "]")
          <6>1. R(q) \in Int /\ q \in Int /\ nxt[q] \in Int /\ x \in Int
            BY <1>2, <1>t, <2>1, <2>4, <3>1 DEF Place
          <6>2. At(R(q)) = "]" => nxt[q] = R(q)
            BY <1>3, <2>1, <2>4, <5>1
          <6>3. nxt[q] <= R(q) + 1
            BY <1>3, <2>1, <2>4, <5>1
          <6>4. q <= x /\ x <= nxt[q] - 1
            BY <2>1, <3>1, <6>1
          <6> HIDE <2>1, <2>4
          <6>5. x = q \/ x \in q + 1 .. R(q) - 1 \/ x = R(q)
            BY <6>1, <6>3, <6>4
          <6>6. x = R(q) => At(R(q)) # "]"
            BY <6>1, <6>2, <6>4
          <6> QED  BY <6>5, <6>6
        <5> QED  BY <5>2, <5>3, <5>4, <5>5
      <4> QED  BY <4>1, <4>2
    <3>4. Closed(q, stop[q], level)
      <4>1. nxt[q] \in Place /\ stop[nxt[q]] \in Place /\ nxt[q] <= stop[nxt[q]] /\ q <= nxt[q]
            /\ Closed(nxt[q], stop[nxt[q]], level)
        BY <2>1, <3>1, <3>2 DEF Good, Place
      <4> QED  BY <2>1, <3>1, <3>3, <4>1, ClosedFrom
    <3> QED  BY <2>1, <3>1, <3>2, <3>4 DEF Good, Place
  <2> QED  BY <2>2, <2>3, <2>4
<1> HIDE DEF Good
<1>13. \A q \in 1 .. End : q \in Good
  BY <1>t, <1>12, FromTheEnd
<1> QED  BY <1>1, <1>13 DEF Good, Place

-------------------------------------------------------------------------------
(* Every pass stays in the text                                             *)

\* The places from p on.
Behind(p) == p .. End

LEMMA BehindLemma ==
  ASSUME TextOK
  PROVE  /\ \A p \in Place : p \in Behind(p) /\ Behind(p) \subseteq Place
         /\ \A p \in Place : \A q \in Behind(p) : q \in Place /\ p <= q
                                               /\ Behind(q) \subseteq Behind(p)
         /\ \A p, q \in Place : p <= q => q \in Behind(p)
BY Characters DEF Behind, Place

LEMMA RunBehind ==
  ASSUME TextOK, NEW p \in Place, NEW chars, Nul \notin chars
  PROVE  Run(p, chars) \in Behind(p)
BY RunLemma, BehindLemma

LEMMA ForwardBehind ==
  ASSUME TextOK, NEW p \in Place, NEW n \in Nat
  PROVE  Forward(p, n) \in Behind(p)
BY ForwardLemma, BehindLemma

LEMMA ExponentLemma ==
  ASSUME TextOK, NEW p \in Place
  PROVE  Exponent(p) \in Behind(p)
<1> DEFINE n == IF At(p + 1) \in {"+", "-"} THEN 2 ELSE 1
<1>1. n \in Nat
  OBVIOUS
<1> HIDE DEF n
<1>2. Forward(p, n) \in Behind(p)
  BY <1>1, ForwardBehind
<1>3. Exponent(p) = Run(Forward(p, n), Digit \cup {"_"})
  BY DEF Exponent, n
<1>4. Forward(p, n) \in Place /\ Behind(Forward(p, n)) \subseteq Behind(p)
  BY <1>2, BehindLemma
<1>5. Run(Forward(p, n), Digit \cup {"_"}) \in Behind(Forward(p, n))
  BY <1>4, RunBehind, NulApart
<1> QED  BY <1>3, <1>4, <1>5

LEMMA NumberLemma ==
  ASSUME TextOK, NEW p \in Place
  PROVE  NumberEnd(p) \in Behind(p)
<1>1. \A q \in Place : Forward(q, 1) \in Behind(q) /\ Forward(q, 2) \in Behind(q)
  BY ForwardBehind
<1>2. \A q \in Place : /\ Run(q, Digit \cup {"_"}) \in Behind(q)
                       /\ Run(q, HexDigit \cup {"_"}) \in Behind(q)
  BY RunBehind, NulApart
<1>3. \A q \in Place : Exponent(q) \in Behind(q)
  BY ExponentLemma
<1>4. \A q \in Place : q \in Behind(q) /\ Behind(q) \subseteq Place
  BY BehindLemma
<1>5. \A q \in Behind(p) : q \in Place /\ Behind(q) \subseteq Behind(p)
  BY BehindLemma
<1>6. HexEnd(p) \in Behind(p)
  <2> DEFINE int  == Run(Forward(p, 2), HexDigit \cup {"_"})
             frac == IF At(int) = "." THEN Run(Forward(int, 1), HexDigit \cup {"_"}) ELSE int
  <2>1. int \in Behind(p)
    BY <1>1, <1>2, <1>5
  <2>2. frac \in Behind(p)
    <3> HIDE DEF int
    <3>1. Forward(int, 1) \in Behind(p)
      BY <1>1, <1>5, <2>1
    <3>2. Run(Forward(int, 1), HexDigit \cup {"_"}) \in Behind(p)
      BY <1>2, <1>5, <3>1
    <3> QED  BY <2>1, <3>2
  <2>3. HexEnd(p) = IF At(frac) = "p" THEN Exponent(frac) ELSE frac
    BY DEF HexEnd
  <2> HIDE DEF frac
  <2> QED  BY <1>3, <1>5, <2>2, <2>3
<1>7. DecimalEnd(p) \in Behind(p)
  <2> DEFINE int  == Run(p, Digit \cup {"_"})
             frac == IF At(int) = "." /\ At(int + 1) \in Digit
                     THEN Run(Forward(int, 1), Digit \cup {"_"}) ELSE int
  <2>1. int \in Behind(p)
    BY <1>2
  <2>2. frac \in Behind(p)
    <3> HIDE DEF int
    <3>1. Forward(int, 1) \in Behind(p)
      BY <1>1, <1>5, <2>1
    <3>2. Run(Forward(int, 1), Digit \cup {"_"}) \in Behind(p)
      BY <1>2, <1>5, <3>1
    <3> QED  BY <2>1, <3>2
  <2>3. DecimalEnd(p) = IF At(frac) = "e" THEN Exponent(frac) ELSE frac
    BY DEF DecimalEnd
  <2> HIDE DEF frac
  <2> QED  BY <1>3, <1>5, <2>2, <2>3
<1> QED  BY <1>6, <1>7 DEF NumberEnd

\* An operator has its characters in the text.
LEMMA OperatorLemma ==
  ASSUME TextOK, NEW p \in Place, At(p) # Nul
  PROVE  OperatorLength(p) \in 1 .. 3 /\ p + OperatorLength(p) \in Place
<1>t. End \in Nat /\ Place = 1 .. End
  BY Characters DEF Place
<1>1. \A q \in Place : At(q) # Nul => q + 1 \in Place
  BY Characters
<1>2. p + 1 \in Place
  BY <1>1
<1>3. ASSUME At(p + 1) # Nul  PROVE p + 2 \in Place
  BY <1>1, <1>2, <1>3, <1>t
<1>4. ASSUME At(p + 1) # Nul, At(p + 2) # Nul  PROVE p + 3 \in Place
  BY <1>1, <1>3, <1>4, <1>t
<1>5. CASE At(p) = "." /\ At(p + 1) = "." /\ At(p + 2) = "."
  <2>1. OperatorLength(p) = 3
    BY <1>5 DEF OperatorLength
  <2>2. At(p + 1) # Nul /\ At(p + 2) # Nul
    BY <1>5, NulApart
  <2>3. p + 3 \in Place
    BY <1>4, <2>2
  <2> QED  BY <2>1, <2>3
<1>6. CASE ~(At(p) = "." /\ At(p + 1) = "." /\ At(p + 2) = ".") /\ <<At(p), At(p + 1)>> \in Doubles
  <2>1. OperatorLength(p) = 2
    BY <1>6 DEF OperatorLength
  <2>2. At(p + 1) # Nul
    <3>1. At(p + 1) \in {"/", ":", ".", "=", "<", ">"}
      BY <1>6 DEF Doubles
    <3> QED  BY <3>1 DEF Nul
  <2> QED  BY <1>3, <2>1, <2>2
<1>7. CASE ~(At(p) = "." /\ At(p + 1) = "." /\ At(p + 2) = ".") /\ <<At(p), At(p + 1)>> \notin Doubles
  <2>1. OperatorLength(p) = 1
    BY <1>7 DEF OperatorLength
  <2> QED  BY <1>2, <2>1
<1> QED  BY <1>5, <1>6, <1>7

LEMMA HereLemma ==
  ASSUME TextOK, pos \in Place
  PROVE  Here \in Place
BY RunLemma, NulApart DEF Here

-------------------------------------------------------------------------------
(* Strings                                                                  *)

\* Where the backslashes in front of i begin.
Begins(q, i, start) ==
  /\ q \in start + 1 .. i
  /\ \A r \in q .. i - 1 : source[r] = "\\"
  /\ q = start + 1 \/ source[q - 1] # "\\"

LEMMA BeginsLemma ==
  ASSUME NEW start \in Nat, NEW i \in Nat, start < i
  PROVE  \E q \in Nat : /\ Begins(q, i, start)
                        /\ \A x : Begins(x, i, start) => x = q
                        /\ Escaped(i, start) <=> (i - q) % 2 = 1
<1> DEFINE T == {q \in start + 1 .. i : \A r \in q .. i - 1 : source[r] = "\\"}
<1>1. T \subseteq Nat /\ i \in T
  OBVIOUS
<1>2. PICK q \in T : \A x \in T : q <= x
  <2> HIDE DEF T
  <2> QED  BY <1>1, MinimumExists
<1>3. q \in Nat /\ q \in start + 1 .. i /\ \A r \in q .. i - 1 : source[r] = "\\"
  OBVIOUS
<1>4. q = start + 1 \/ source[q - 1] # "\\"
  <2> SUFFICES ASSUME q # start + 1, source[q - 1] = "\\"  PROVE FALSE
    OBVIOUS
  <2>1. q - 1 \in start + 1 .. i /\ \A r \in q - 1 .. i - 1 : r = q - 1 \/ r \in q .. i - 1
    BY <1>3
  <2>2. q - 1 \in T
    BY <1>3, <2>1
  <2> QED  BY <1>2, <1>3, <2>2
<1>5. Begins(q, i, start)
  BY <1>3, <1>4 DEF Begins
<1>6. ASSUME NEW x, Begins(x, i, start)  PROVE x = q
  <2>1. x \in start + 1 .. i /\ \A r \in x .. i - 1 : source[r] = "\\"
    BY <1>6 DEF Begins
  <2>2. q <= x
    BY <1>2, <2>1
  <2>3. SUFFICES ASSUME q < x  PROVE FALSE
    BY <1>3, <2>1, <2>2
  <2>4. x - 1 \in q .. i - 1 /\ x # start + 1
    BY <1>3, <2>1, <2>3
  <2> QED  BY <1>3, <1>6, <2>4 DEF Begins
<1>7. Escaped(i, start) <=> (i - q) % 2 = 1
  <2> DEFINE b == CHOOSE x \in start + 1 .. i :
                    /\ \A r \in x .. i - 1 : source[r] = "\\"
                    /\ x = start + 1 \/ source[x - 1] # "\\"
  <2>1. b = CHOOSE x : Begins(x, i, start)
    BY DEF Begins
  <2>2. Escaped(i, start) <=> (i - b) % 2 = 1
    BY DEF Escaped
  <2> HIDE DEF b
  <2>3. b = q
    BY <1>5, <1>6, <2>1
  <2> QED  BY <2>2, <2>3
<1> QED  BY <1>3, <1>5, <1>6, <1>7

\* Every second backslash of a row escapes what follows, and nothing else does.
LEMMA EscapedLemma ==
  ASSUME NEW start \in Nat
  PROVE  /\ ~Escaped(start + 1, start)
         /\ \A i \in Nat : start < i =>
              (Escaped(i + 1, start) <=> source[i] = "\\" /\ ~Escaped(i, start))
<1>1. ~Escaped(start + 1, start)
  <2>1. PICK q \in Nat : Begins(q, start + 1, start) /\ (Escaped(start + 1, start) <=> (start + 1 - q) % 2 = 1)
    BY BeginsLemma
  <2>2. q = start + 1
    BY <2>1 DEF Begins
  <2>3. start + 1 - q = 0
    BY <2>2
  <2> QED  BY <2>1, <2>3
<1>2. ASSUME NEW i \in Nat, start < i
      PROVE  Escaped(i + 1, start) <=> source[i] = "\\" /\ ~Escaped(i, start)
  <2>1. PICK q \in Nat : /\ Begins(q, i, start) /\ \A x : Begins(x, i, start) => x = q
                         /\ Escaped(i, start) <=> (i - q) % 2 = 1
    BY <1>2, BeginsLemma
  <2>2. PICK p \in Nat : /\ Begins(p, i + 1, start) /\ \A x : Begins(x, i + 1, start) => x = p
                         /\ Escaped(i + 1, start) <=> (i + 1 - p) % 2 = 1
    <3>1. i + 1 \in Nat /\ start < i + 1
      BY <1>2
    <3> QED  BY <3>1, BeginsLemma
  <2>3. CASE source[i] # "\\"
    <3>1. p \in start + 1 .. i + 1 /\ \A r \in p .. i : source[r] = "\\"
      BY <2>2 DEF Begins
    <3>2. p = i + 1
      BY <2>3, <3>1
    <3>3. i + 1 - p = 0
      BY <3>2
    <3> QED  BY <2>2, <2>3, <3>3
  <2>4. CASE source[i] = "\\"
    <3>1. q \in start + 1 .. i /\ (\A r \in q .. i - 1 : source[r] = "\\")
          /\ (q = start + 1 \/ source[q - 1] # "\\")
      BY <2>1 DEF Begins
    <3>2. q \in start + 1 .. i + 1 /\ \A r \in q .. i + 1 - 1 : source[r] = "\\"
      BY <2>4, <3>1
    <3>3. q = p
      BY <2>2, <3>1, <3>2 DEF Begins
    <3>4. i - q \in Nat /\ i + 1 - q = (i - q) + 1
      BY <3>1
    <3>5. PICK d \in Nat : d = i - q
      BY <3>4
    <3>6. (d + 1) % 2 = 1 <=> ~(d % 2 = 1)
      OBVIOUS
    <3> QED  BY <2>1, <2>2, <2>4, <3>3, <3>4, <3>5, <3>6
  <2> QED  BY <2>3, <2>4
<1> QED  BY <1>1, <1>2

\* What a string may end with, and what may be part of an escape sequence.
LEMMA CharactersApart ==
  /\ \A c \in Quote : c # "\\" /\ c # "\n" /\ c # Nul /\ c \notin Blank /\ c \notin HexDigit
                      /\ c # "{" /\ c # "}"
  /\ "\\" \notin Blank /\ "\\" \notin HexDigit /\ "\n" \notin HexDigit
  /\ "{" # "\n" /\ "}" # "\n" /\ "}" # "\\" /\ "{" # Nul /\ "}" # Nul
  /\ "x" # "\\" /\ "u" # "\\" /\ "z" # "\\" /\ "x" # Nul /\ "u" # Nul /\ "z" # Nul
  /\ "\n" # "\\" /\ Digit \subseteq HexDigit
BY Zenon DEF Quote, Nul, Blank, HexDigit, Digit

LEMMA DigitsLemma ==
  ASSUME TextOK, NEW q \in Place, q + 1 \in Place, At(q + 1) \in Digit
  PROVE  LET digits == {x \in q + 2 .. q + 4 : \A r \in q + 1 .. x - 1 : At(r) \in Digit}
             end    == CHOOSE x \in digits : \A r \in digits : r <= x
         IN end \in digits /\ end \in Place
<1> DEFINE digits == {x \in q + 2 .. q + 4 : \A r \in q + 1 .. x - 1 : At(r) \in Digit}
           end    == CHOOSE x \in digits : \A r \in digits : r <= x
<1>t. q \in Nat /\ End \in Nat /\ Place = 1 .. End
  BY Characters DEF Place
<1>1. q + 2 \in digits
  <2>1. PICK x : x = q + 2
    OBVIOUS
  <2>2. x \in q + 2 .. q + 4 /\ \A r \in q + 1 .. x - 1 : r = q + 1
    BY <1>t, <2>1
  <2>3. \A r \in q + 1 .. x - 1 : At(r) \in Digit
    BY <2>2
  <2>4. x \in digits
    BY <2>2, <2>3
  <2> QED  BY <2>1, <2>4
<1>2. digits \subseteq {q + 2, q + 3, q + 4} /\ \A x \in digits : x \in Nat
  BY <1>t
<1> HIDE DEF digits
<1>3. \E x \in digits : \A r \in digits : r <= x
  <2>1. CASE q + 4 \in digits
    <3>1. \A r \in digits : r <= q + 4
      BY <1>2, <1>t
    <3> QED  BY <2>1, <3>1
  <2>2. CASE q + 4 \notin digits /\ q + 3 \in digits
    <3>1. \A r \in digits : r <= q + 3
      BY <1>2, <1>t, <2>2
    <3> QED  BY <2>2, <3>1
  <2>3. CASE q + 4 \notin digits /\ q + 3 \notin digits
    <3>1. \A r \in digits : r <= q + 2
      BY <1>2, <1>t, <2>3
    <3> QED  BY <1>1, <3>1
  <2> QED  BY <2>1, <2>2, <2>3
<1>4. end \in digits
  BY <1>3
<1> HIDE DEF end
<1>5. end \in q + 2 .. q + 4 /\ \A r \in q + 1 .. end - 1 : At(r) \in Digit
  BY <1>4 DEF digits
<1>6. end - 1 \in q + 1 .. end - 1 /\ end \in Int
  BY <1>5, <1>t
<1>7. At(end - 1) # Nul
  BY <1>5, <1>6, NulApart
<1>8. end - 1 < End
  BY <1>6, <1>7, Characters
<1>9. end \in Place
  BY <1>5, <1>6, <1>8, <1>t
<1> QED  BY <1>4, <1>9 DEF digits, end

\* The kinds of escape sequences.
LEMMA EscapeKinds ==
  ASSUME TextOK, NEW q \in Place, q + 1 \in Place
  PROVE  /\ At(q + 1) = "z" => Escape(q) = Run(Forward(q, 2), Blank)
         /\ At(q + 1) = "x" => Escape(q) = Forward(q, 4)
         /\ At(q + 1) = "u" => Escape(q) = Forward(Run(Forward(q, 3), HexDigit), 1)
         /\ At(q + 1) \in Digit => /\ Escape(q) \in Place /\ Escape(q) \in q + 2 .. q + 4
                                   /\ \A r \in q + 1 .. Escape(q) - 1 : At(r) \in Digit
         /\ At(q + 1) \notin {"z", "x", "u"} /\ At(q + 1) \notin Digit => Escape(q) = Forward(q, 2)
<1>1. "z" \notin Digit /\ "x" \notin Digit /\ "u" \notin Digit
  BY Zenon DEF Digit
<1>2. ASSUME At(q + 1) \in Digit
      PROVE  /\ Escape(q) \in Place /\ Escape(q) \in q + 2 .. q + 4
             /\ \A r \in q + 1 .. Escape(q) - 1 : At(r) \in Digit
  <2> DEFINE digits == {x \in q + 2 .. q + 4 : \A r \in q + 1 .. x - 1 : At(r) \in Digit}
             end    == CHOOSE x \in digits : \A r \in digits : r <= x
  <2>1. end \in digits /\ end \in Place
    BY <1>2, DigitsLemma
  <2>2. At(q + 1) # "z" /\ At(q + 1) # "x" /\ At(q + 1) # "u"
    BY <1>1, <1>2
  <2>3. Escape(q) = end
    BY <1>2, <2>2 DEF Escape
  <2> HIDE DEF end
  <2> QED  BY <2>1, <2>3
<1>3. At(q + 1) = "z" => Escape(q) = Run(Forward(q, 2), Blank)
  BY <1>1 DEF Escape
<1>4. At(q + 1) = "x" => Escape(q) = Forward(q, 4)
  BY <1>1 DEF Escape
<1>5. At(q + 1) = "u" => Escape(q) = Forward(Run(Forward(q, 3), HexDigit), 1)
  BY <1>1 DEF Escape
<1>6. At(q + 1) \notin {"z", "x", "u"} /\ At(q + 1) \notin Digit => Escape(q) = Forward(q, 2)
  BY <1>1 DEF Escape
<1> QED  BY <1>2, <1>3, <1>4, <1>5, <1>6

\* An escape sequence ends behind its backslash, and behind what that escapes.
LEMMA EscapeBehind ==
  ASSUME TextOK, NEW q \in Place, q # End
  PROVE  /\ Escape(q) \in Behind(q + 1) /\ q + 1 \in Place
         /\ q + 1 # End => q + 2 \in Place /\ Escape(q) \in Behind(q + 2)
         /\ q + 1 = End => Escape(q) = End
<1>t. q \in Nat /\ End \in Nat /\ Place = 1 .. End /\ q + 1 \in Place
  BY Characters DEF Place
<1>1. At(q + 1) # Nul => q + 1 # End
  BY Characters
<1>2. ASSUME q + 1 = End  PROVE Escape(q) = End
  <2>1. At(q + 1) = Nul
    BY <1>2, Characters
  <2>2. Nul \notin {"z", "x", "u"} /\ Nul \notin Digit
    BY CharactersApart, NulApart
  <2>3. Escape(q) = Forward(q, 2)
    BY <1>t, <2>1, <2>2, EscapeKinds
  <2> QED  BY <1>2, <1>t, <2>3 DEF Forward
<1>3. ASSUME q + 1 # End  PROVE q + 2 \in Place /\ Escape(q) \in Behind(q + 2)
  <2>1. q + 2 \in Place
    BY <1>3, <1>t
  <2>2. Forward(q, 2) = q + 2 /\ Forward(q, 4) \in Behind(q + 2) /\ Forward(q, 3) \in Behind(q + 2)
    BY <1>t, <2>1 DEF Forward, Behind
  <2>3. q + 2 \in Behind(q + 2)
    BY <2>1, BehindLemma
  <2>4. CASE At(q + 1) = "z"
    <3>1. Escape(q) = Run(q + 2, Blank)
      BY <1>t, <2>2, <2>4, EscapeKinds
    <3>2. Run(q + 2, Blank) \in Behind(q + 2)
      BY <2>1, RunBehind, NulApart
    <3> QED  BY <2>1, <3>1, <3>2
  <2>5. CASE At(q + 1) = "x"
    BY <1>t, <2>1, <2>2, <2>5, EscapeKinds
  <2>6. CASE At(q + 1) = "u"
    <3> DEFINE r == Run(Forward(q, 3), HexDigit)
    <3>1. Forward(q, 3) \in Place /\ Behind(Forward(q, 3)) \subseteq Behind(q + 2)
      BY <2>1, <2>2, BehindLemma
    <3>2. r \in Behind(Forward(q, 3))
      BY <3>1, RunBehind, NulApart
    <3>3. Escape(q) = Forward(r, 1)
      BY <1>t, <2>6, EscapeKinds
    <3> HIDE DEF r
    <3>4. r \in Place /\ Behind(r) \subseteq Behind(q + 2)
      BY <2>1, <3>1, <3>2, BehindLemma
    <3>5. Forward(r, 1) \in Behind(r)
      BY <3>4, ForwardBehind
    <3> QED  BY <2>1, <3>3, <3>4, <3>5
  <2>7. CASE At(q + 1) \in Digit
    <3>1. Escape(q) \in Place /\ Escape(q) \in q + 2 .. q + 4
      BY <1>t, <2>7, EscapeKinds
    <3>2. q + 2 <= Escape(q)
      BY <1>t, <3>1
    <3> QED  BY <2>1, <3>1, <3>2, BehindLemma
  <2>8. CASE At(q + 1) \notin {"z", "x", "u"} /\ At(q + 1) \notin Digit
    BY <1>t, <2>1, <2>2, <2>3, <2>8, EscapeKinds
  <2> QED  BY <2>1, <2>4, <2>5, <2>6, <2>7, <2>8
<1>4. Escape(q) \in Behind(q + 1)
  <2>1. CASE q + 1 = End
    BY <1>2, <1>t, <2>1, BehindLemma
  <2>2. CASE q + 1 # End
    <3>1. q + 2 \in Behind(q + 1)
      BY <1>3, <1>t, <2>2 DEF Behind
    <3> QED  BY <1>3, <1>t, <2>2, <3>1, BehindLemma
  <2> QED  BY <2>1, <2>2
<1> QED  BY <1>2, <1>3, <1>4, <1>t

\* A regular escape sequence has no end of the string in it, and escapes
\* nothing behind it.
LEMMA EscapeStep ==
  ASSUME TextOK, NEW start \in Nat, NEW q \in Place, start < q, At(q) = "\\",
         ~Escaped(q, start), q + 1 \in Place, q + 1 # End, Regular(q + 1), NEW quote \in Quote
  PROVE  /\ ~Escaped(Escape(q), start)
         /\ \A x \in q + 2 .. Escape(q) - 1 : At(x) \notin {quote, "\n"}
<1>t. q \in Nat /\ End \in Nat /\ Place = 1 .. End /\ q + 2 \in Place
  BY Characters DEF Place
<1>s. \A p \in 1 .. End - 1 : source[p] = At(p)
  BY <1>t DEF At
<1>c. quote \notin Blank /\ quote \notin HexDigit /\ quote # "{" /\ quote # "}"
  BY CharactersApart
<1>1. ASSUME NEW e \in Place, q < e - 1, At(e - 1) # "\\"  PROVE ~Escaped(e, start)
  <2>1. e - 1 \in Nat /\ start < e - 1 /\ e - 1 \in 1 .. End - 1 /\ (e - 1) + 1 = e
    BY <1>1, <1>t
  <2>2. Escaped((e - 1) + 1, start) => source[e - 1] = "\\"
    BY <2>1, EscapedLemma
  <2> QED  BY <1>1, <1>s, <2>1, <2>2
<1>2. Escape(q) \in Place /\ q + 2 <= Escape(q)
  <2>1. Escape(q) \in Behind(q + 2) /\ q + 2 \in Place
    BY EscapeBehind, <1>t
  <2> QED  BY <2>1, BehindLemma
<1>f. Forward(q, 2) = q + 2
  BY <1>t DEF Forward
<1> DEFINE e == Escape(q)
<1>3. CASE At(q + 1) = "z"
  <2> DEFINE r == Run(q + 2, Blank \ {"\n"})
  <2>1. At(r) # "\n"
    <3>1. q + 1 + 1 = q + 2
      BY <1>t
    <3> QED  BY <1>3, <3>1 DEF Regular
  <2>2. r \in Place /\ At(r) \notin Blank \ {"\n"} /\ \A x \in q + 2 .. r - 1 : At(x) \in Blank \ {"\n"}
    BY <1>t, RunLemma, NulApart
  <2>3. e = Run(q + 2, Blank)
    BY <1>3, <1>f, EscapeKinds
  <2>4. e \in Place /\ \A x \in q + 2 .. e - 1 : At(x) \in Blank
    <3> DEFINE b == Run(q + 2, Blank)
    <3>1. b \in Place /\ \A x \in q + 2 .. b - 1 : At(x) \in Blank
      BY <1>t, RunLemma, NulApart
    <3> HIDE DEF e, b
    <3>2. e = b
      BY <2>3 DEF b
    <3> QED  BY <3>1, <3>2
  <2> HIDE DEF e, r
  <2>5. e <= r
    <3> SUFFICES ASSUME r < e  PROVE FALSE
      BY <1>t, <2>2, <2>4
    <3>1. q + 2 <= r
      <4>1. r \in Behind(q + 2)
        BY <1>t, RunBehind, NulApart DEF r
      <4> QED  BY <1>t, <4>1, BehindLemma
    <3>2. r \in q + 2 .. e - 1
      BY <1>t, <2>2, <2>4, <3>1
    <3> QED  BY <2>1, <2>2, <2>4, <3>2
  <2>6. \A x \in q + 2 .. e - 1 : At(x) \in Blank \ {"\n"}
    BY <1>t, <2>2, <2>4, <2>5
  <2>7. \A x \in q + 2 .. e - 1 : At(x) \notin {quote, "\n"}
    BY <1>c, <2>6
  <2>8. At(e - 1) # "\\"
    <3>1. e - 1 = q + 1 \/ e - 1 \in q + 2 .. e - 1
      BY <1>2, <1>t DEF e
    <3> QED  BY <1>3, <2>6, <3>1, CharactersApart
  <2> QED  BY <1>1, <1>2, <1>t, <2>7, <2>8 DEF e
<1>4. CASE At(q + 1) = "x"
  <2>1. At(q + 2) \in HexDigit /\ At(q + 3) \in HexDigit
    <3>1. q + 1 + 1 = q + 2 /\ q + 1 + 2 = q + 3
      BY <1>t
    <3> QED  BY <1>4, <3>1 DEF Regular
  <2>2. q + 4 \in Place
    <3>1. At(q + 3) # Nul
      BY <2>1, NulApart
    <3>2. q + 3 < End
      BY <1>t, <3>1, Characters
    <3> QED  BY <1>t, <3>2
  <2>3. e = q + 4
    <3>1. Forward(q, 4) = q + 4
      BY <1>t, <2>2 DEF Forward
    <3> QED  BY <1>4, <3>1, EscapeKinds
  <2> HIDE DEF e
  <2>4. \A x \in q + 2 .. e - 1 : x = q + 2 \/ x = q + 3
    BY <1>t, <2>3
  <2>5. \A x \in q + 2 .. e - 1 : At(x) \in HexDigit
    BY <2>1, <2>4
  <2>6. e - 1 = q + 3
    BY <1>t, <2>3
  <2>7. At(e - 1) # "\\"
    BY <2>1, <2>6, CharactersApart
  <2>8. q < e - 1
    BY <1>t, <2>6
  <2>9. \A x \in q + 2 .. e - 1 : At(x) \notin {quote, "\n"}
    BY <1>c, <2>5, CharactersApart
  <2> QED  BY <1>1, <1>2, <2>7, <2>8, <2>9 DEF e
<1>5. CASE At(q + 1) = "u"
  <2> DEFINE r == Run(q + 3, HexDigit)
  <2>1. At(q + 2) = "{" /\ At(r) = "}"
    <3>1. q + 1 + 1 = q + 2 /\ q + 1 + 2 = q + 3
      BY <1>t
    <3> QED  BY <1>5, <3>1 DEF Regular
  <2>2. q + 3 \in Place
    <3>1. At(q + 2) # Nul
      BY <2>1, CharactersApart
    <3>2. q + 2 < End
      BY <1>t, <3>1, Characters
    <3> QED  BY <1>t, <3>2
  <2>3. r \in Place /\ q + 3 <= r /\ \A x \in q + 3 .. r - 1 : At(x) \in HexDigit
    BY <2>2, RunLemma, NulApart
  <2>4. e = Forward(r, 1)
    <3>1. Forward(q, 3) = q + 3
      BY <1>t, <2>2 DEF Forward
    <3> QED  BY <1>5, <3>1, EscapeKinds
  <2> HIDE DEF e, r
  <2>5. e = r + 1
    <3>1. At(r) # Nul
      BY <2>1, CharactersApart
    <3>2. r < End
      BY <1>t, <2>3, <3>1, Characters
    <3> QED  BY <1>t, <2>3, <2>4, <3>2 DEF Forward
  <2>6. \A x \in q + 2 .. e - 1 : x = q + 2 \/ x \in q + 3 .. r - 1 \/ x = r
    BY <1>t, <2>3, <2>5
  <2>7. \A x \in q + 2 .. e - 1 : At(x) \notin {quote, "\n"}
    BY <1>c, <2>1, <2>3, <2>6, CharactersApart
  <2>8. e - 1 = r /\ q < e - 1
    BY <1>t, <2>3, <2>5
  <2>9. At(e - 1) # "\\"
    BY <2>1, <2>8, CharactersApart
  <2> QED  BY <1>1, <1>2, <2>7, <2>8, <2>9 DEF e
<1>6. CASE At(q + 1) \in Digit
  <2>1. e \in q + 2 .. q + 4 /\ \A x \in q + 1 .. e - 1 : At(x) \in Digit
    BY <1>6, EscapeKinds
  <2> HIDE DEF e
  <2>2. e - 1 \in q + 1 .. e - 1 /\ q < e - 1 /\ \A x \in q + 2 .. e - 1 : x \in q + 1 .. e - 1
    BY <1>t, <2>1
  <2>3. At(e - 1) # "\\"
    BY <2>1, <2>2, CharactersApart
  <2>4. \A x \in q + 2 .. e - 1 : At(x) \notin {quote, "\n"}
    BY <1>c, <2>1, <2>2, CharactersApart
  <2> QED  BY <1>1, <1>2, <2>2, <2>3, <2>4 DEF e
<1>7. CASE At(q + 1) \notin {"z", "x", "u"} /\ At(q + 1) \notin Digit
  <2>1. e = q + 2
    BY <1>7, <1>f, EscapeKinds
  <2> HIDE DEF e
  <2>2. q + 2 .. e - 1 = {}
    BY <1>t, <2>1
  <2>3. Escaped(q + 1, start)
    <3>1. source[q] = "\\"
      BY <1>t, <1>s
    <3> QED  BY <1>t, <3>1, EscapedLemma
  <2>4. ~Escaped(q + 1 + 1, start)
    <3>1. q + 1 \in Nat /\ start < q + 1
      BY <1>t
    <3> QED  BY <2>3, <3>1, EscapedLemma
  <2>5. q + 1 + 1 = e
    BY <1>t, <2>1
  <2> QED  BY <2>2, <2>4, <2>5 DEF e
<1> QED  BY <1>3, <1>4, <1>5, <1>6, <1>7

\* Where the scan of a string stops, and that it has passed over nothing that
\* ends the string if the escapes on its way are regular.
LEMMA StringStopLemma ==
  ASSUME TextOK, NEW start \in Nat, NEW quote \in Quote, NEW p \in Place,
         start < p, ~Escaped(p, start)
  PROVE  LET s == StringStop(p, quote)
         IN /\ s \in Behind(p) /\ At(s) \in {quote, "\n", Nul}
            /\ (\A x \in p .. s - 1 : Escaped(x, start) => Regular(x)) =>
                 /\ ~Escaped(s, start) \/ s = End
                 /\ \A x \in p .. s - 1 : At(x) \in {quote, "\n"} => Escaped(x, start)
<1> DEFINE stop == CHOOSE f : f =
             [q \in 1 .. End |->
                CASE At(q) \in {quote, "\n", Nul} -> q
                  [] At(q) = "\\" -> f[Escape(q)]
                  [] OTHER -> f[q + 1]]
           B   == {q \in Place : At(q) \in {quote, "\n", Nul}}
           val == [q \in Place |-> q]
           nxt == [q \in Place |-> IF At(q) = "\\" THEN Escape(q) ELSE q + 1]
           Body(f) == [q \in 1 .. End |->
                CASE At(q) \in {quote, "\n", Nul} -> q
                  [] At(q) = "\\" -> f[Escape(q)]
                  [] OTHER -> f[q + 1]]
<1>1. StringStop(p, quote) = stop[p]
  BY DEF StringStop
<1>t. End \in Nat /\ End \in Place /\ At(End) = Nul /\ (\A q \in Place : q # End => q + 1 \in Place)
      /\ \A q \in Place : At(q) = Nul => q = End
  BY Characters DEF Place, End
<1>c. quote # "\\" /\ quote # "\n" /\ quote # Nul /\ "\n" # "\\" /\ Nul # "\\"
  BY CharactersApart, NulApart
<1>4. ASSUME NEW f  PROVE Body(f) = [q \in 1 .. End |-> IF q \in B THEN val[q] ELSE f[nxt[q]]]
  <2> SUFFICES ASSUME NEW q \in 1 .. End
               PROVE  Body(f)[q] = IF q \in B THEN val[q] ELSE f[nxt[q]]
    OBVIOUS
  <2>1. CASE At(q) \in {quote, "\n", Nul}
    BY <1>c, <2>1 DEF Place
  <2>2. CASE At(q) \notin {quote, "\n", Nul} /\ At(q) = "\\"
    BY <2>2 DEF Place
  <2>3. CASE At(q) \notin {quote, "\n", Nul} /\ At(q) # "\\"
    BY <2>3 DEF Place
  <2> QED  BY <2>1, <2>2, <2>3
<1>5. \A q \in 1 .. End : q \in B \/ nxt[q] \in q + 1 .. End
  <2> SUFFICES ASSUME NEW q \in Place, q # End  PROVE nxt[q] \in q + 1 .. End
    BY <1>t DEF Place
  <2>1. Escape(q) \in q + 1 .. End /\ q + 1 \in q + 1 .. End
    BY <1>t, EscapeBehind DEF Behind, Place
  <2> QED  BY <2>1
<1> HIDE DEF B, val, nxt, Body
<1>6. \E f : Scans(f, End, B, val, nxt)
  BY <1>t, <1>5, ScanExists, Zenon
<1>7. \E f : f = Body(f)
  <2>1. PICK f : f = [q \in 1 .. End |-> IF q \in B THEN val[q] ELSE f[nxt[q]]]
    BY <1>6 DEF Scans
  <2>2. Body(f) = [q \in 1 .. End |-> IF q \in B THEN val[q] ELSE f[nxt[q]]]
    BY <1>4
  <2>3. f = Body(f)
    BY <2>1, <2>2
  <2> QED  BY <2>3
<1>8. stop = CHOOSE f : f = Body(f)
  BY DEF Body
<1> HIDE DEF stop
<1>9. stop = Body(stop)
  BY <1>7, <1>8
<1>10. stop = [q \in 1 .. End |-> IF q \in B THEN val[q] ELSE stop[nxt[q]]]
  BY <1>4, <1>9
<1>11. \A q \in Place : stop[q] = IF q \in B THEN val[q] ELSE stop[nxt[q]]
  BY <1>10 DEF Place
<1> DEFINE Free(q, s) == \A x \in q .. s - 1 : At(x) \in {quote, "\n"} => Escaped(x, start)
           Fine(q, s) == \A x \in q .. s - 1 : Escaped(x, start) => Regular(x)
           Loose(q) == ~Escaped(q, start) \/ q = End
           Good == {q \in Place :
                      /\ stop[q] \in Behind(q) /\ At(stop[q]) \in {quote, "\n", Nul}
                      /\ start < q /\ Loose(q) /\ Fine(q, stop[q]) =>
                           Loose(stop[q]) /\ Free(q, stop[q])}
<1>12. ASSUME NEW q \in 1 .. End, \A r \in q + 1 .. End : r \in Good  PROVE q \in Good
  <2>1. q \in Place /\ q \in Nat /\ \A x \in q + 1 .. End : x \in Place
    BY <1>t DEF Place
  <2>2. CASE q \in B
    <3>1. stop[q] = q /\ At(q) \in {quote, "\n", Nul}
      BY <1>11, <2>1, <2>2 DEF B, val
    <3>2. Free(q, q)
      BY <2>1
    <3>3. q \in Behind(q)
      BY <2>1, BehindLemma
    <3> HIDE DEF Free, Fine, Loose
    <3> QED  BY <2>1, <3>1, <3>2, <3>3
  <2>3. CASE q \notin B
    <3> DEFINE n == nxt[q]
    <3>1. stop[q] = stop[n] /\ n \in q + 1 .. End /\ n \in Good
      BY <1>5, <1>11, <1>12, <2>1, <2>3
    <3>2. n \in Place /\ n \in Behind(q) /\ n = IF At(q) = "\\" THEN Escape(q) ELSE q + 1
      BY <2>1, <3>1 DEF nxt, Behind, Place
    <3>3. At(q) # quote /\ At(q) # "\n" /\ At(q) # Nul /\ q # End /\ q + 1 \in Place
      BY <1>t, <2>1, <2>3 DEF B
    <3> HIDE DEF n
    <3>4. stop[n] \in Behind(n) /\ stop[n] \in Behind(q) /\ At(stop[n]) \in {quote, "\n", Nul}
      BY <2>1, <3>1, <3>2, BehindLemma
    <3>n. n \in Nat /\ stop[n] \in Nat /\ q < n /\ n <= stop[n]
      BY <1>t, <2>1, <3>1, <3>4 DEF Behind
    <3>5. ASSUME start < q, Loose(q), Fine(q, stop[n])  PROVE Loose(stop[n]) /\ Free(q, stop[n])
      <4>1. ~Escaped(q, start)
        BY <3>3, <3>5
      <4>2. Loose(n) /\ Free(q, n)
        <5>1. CASE At(q) # "\\"
          <6>1. n = q + 1 /\ source[q] # "\\"
            BY <1>t, <2>1, <3>2, <3>3, <5>1 DEF At, Place
          <6>2. ~Escaped(q + 1, start)
            BY <2>1, <3>5, <6>1, EscapedLemma
          <6>3. \A x \in q .. n - 1 : x = q
            BY <2>1, <6>1
          <6> QED  BY <3>3, <6>1, <6>2, <6>3
        <5>2. CASE At(q) = "\\" /\ q + 1 = End
          <6>1. n = End
            BY <2>1, <3>2, <3>3, <5>2, EscapeBehind
          <6>2. \A x \in q .. n - 1 : x = q
            BY <2>1, <5>2, <6>1
          <6> QED  BY <3>3, <6>1, <6>2
        <5>3. CASE At(q) = "\\" /\ q + 1 # End
          <6>1. n = Escape(q) /\ n \in Behind(q + 2) /\ q + 2 \in Place
            BY <2>1, <3>2, <3>3, <5>3, EscapeBehind
          <6>2. q + 2 <= n
            BY <6>1, BehindLemma
          <6>3. Escaped(q + 1, start)
            <7>1. source[q] = "\\"
              BY <1>t, <2>1, <3>3, <5>3 DEF At, Place
            <7> QED  BY <2>1, <3>5, <4>1, <7>1, EscapedLemma
          <6>4. Regular(q + 1)
            <7>1. q + 1 \in q .. stop[n] - 1
              BY <2>1, <3>n, <6>2
            <7> QED  BY <3>5, <6>3, <7>1
          <6>5. ~Escaped(n, start) /\ \A x \in q + 2 .. n - 1 : At(x) \notin {quote, "\n"}
            BY <2>1, <3>3, <3>5, <4>1, <5>3, <6>1, <6>4, EscapeStep
          <6>6. \A x \in q .. n - 1 : x = q \/ x = q + 1 \/ x \in q + 2 .. n - 1
            BY <2>1, <3>n
          <6> QED  BY <3>3, <6>3, <6>5, <6>6
        <5> QED  BY <5>1, <5>2, <5>3
      <4>3. start < n /\ Fine(n, stop[n])
        <5>1. \A x \in n .. stop[n] - 1 : x \in q .. stop[n] - 1
          BY <2>1, <3>n
        <5>2. start < n
          BY <2>1, <3>5, <3>n
        <5> QED  BY <3>5, <5>1, <5>2
      <4>4. Loose(stop[n]) /\ Free(n, stop[n])
        <5> HIDE DEF Free, Fine, Loose
        <5> QED  BY <3>1, <4>2, <4>3
      <4>5. \A x \in q .. stop[n] - 1 : x \in q .. n - 1 \/ x \in n .. stop[n] - 1
        BY <2>1, <3>n
      <4>6. Free(q, stop[n])
        BY <4>2, <4>4, <4>5
      <4> QED  BY <4>4, <4>6
    <3> HIDE DEF Free, Fine, Loose
    <3> QED  BY <2>1, <3>1, <3>4, <3>5
  <2> QED  BY <2>2, <2>3
<1> HIDE DEF Good
<1>13. \A q \in 1 .. End : q \in Good
  BY <1>t, <1>12, FromTheEnd
<1>14. p \in Good
  BY <1>13 DEF Place
<1>15. stop[p] \in Behind(p) /\ At(stop[p]) \in {quote, "\n", Nul}
       /\ (Fine(p, stop[p]) => Loose(stop[p]) /\ Free(p, stop[p]))
  BY <1>14 DEF Good
<1> QED  BY <1>1, <1>15

\* As StringsClose has it, of one token.
StringJudged(type, start, length) ==
  LET last == start + length - 1
      stops == {q \in start + 1 .. Len(source) :
                  source[q] \in {At(start), "\n"} /\ ~Escaped(q, start)}
  IN type = "string" /\ At(start) \in Quote
     /\ (\A q \in start + 1 .. last : Escaped(q, start) => Regular(q)) =>
       IF stops = {} THEN last = Len(source)
       ELSE LET first == CHOOSE q \in stops : \A r \in stops : q <= r
            IN last = IF source[first] = "\n" THEN first - 1 ELSE first

LEMMA StringClosed ==
  ASSUME TextOK, NEW start \in Place, At(start) \in Quote, NEW end,
         end = StringEnd(start + 1, At(start))
  PROVE  /\ start + 1 \in Place /\ end \in Behind(start + 1)
         /\ StringJudged("string", start, end - start)
<1> DEFINE quote == At(start)
           s     == StringStop(start + 1, quote)
           last  == end - 1
           stops == {q \in start + 1 .. Len(source) :
                       source[q] \in {quote, "\n"} /\ ~Escaped(q, start)}
<1>t. start \in Nat /\ End \in Nat /\ Place = 1 .. End /\ End = Len(source) + 1 /\ Len(source) \in Nat
  BY Characters DEF Place, End
<1>1. start + 1 \in Place /\ start < start + 1
  <2>1. At(start) # Nul
    BY CharactersApart
  <2> QED  BY <1>t, <2>1, Characters
<1>2. ~Escaped(start + 1, start)
  BY <1>t, EscapedLemma
<1>3. /\ s \in Behind(start + 1) /\ At(s) \in {quote, "\n", Nul}
      /\ (\A x \in start + 1 .. s - 1 : Escaped(x, start) => Regular(x)) =>
           /\ ~Escaped(s, start) \/ s = End
           /\ \A x \in start + 1 .. s - 1 : At(x) \in {quote, "\n"} => Escaped(x, start)
  BY <1>t, <1>1, <1>2, StringStopLemma
<1>4. end = IF At(s) = quote THEN s + 1 ELSE s
  BY DEF StringEnd
<1>q. quote \in Quote /\ quote # "\n" /\ quote # Nul /\ "\n" # Nul
  BY CharactersApart, NulApart
<1>s. \A x \in 1 .. End - 1 : source[x] = At(x)
  BY <1>t DEF At
<1> HIDE DEF s, quote
<1>5. s \in Place /\ start + 1 <= s
  BY <1>1, <1>3, BehindLemma
<1>6. end \in Place /\ start + 1 <= end
  <2>1. At(s) = quote => s + 1 \in Place
    BY <1>5, <1>q, Characters
  <2> QED  BY <1>t, <1>4, <1>5, <2>1
<1>7. ASSUME \A q \in start + 1 .. last : Escaped(q, start) => Regular(q)
      PROVE  IF stops = {} THEN last = Len(source)
             ELSE LET first == CHOOSE q \in stops : \A r \in stops : q <= r
                  IN last = IF source[first] = "\n" THEN first - 1 ELSE first
  <2>1. \A x \in start + 1 .. s - 1 : x \in start + 1 .. last
    BY <1>t, <1>4, <1>5
  <2>2. ~Escaped(s, start) \/ s = End
    BY <1>3, <1>7, <2>1
  <2>3. \A x \in start + 1 .. s - 1 : At(x) \in {quote, "\n"} => Escaped(x, start)
    BY <1>3, <1>7, <2>1
  <2>4. CASE s = End
    <3>1. At(s) = Nul
      BY <2>4, <1>t, Characters
    <3>2. last = Len(source)
      BY <1>t, <1>4, <1>q, <2>4, <3>1
    <3>3. \A x \in start + 1 .. Len(source) : x \in start + 1 .. s - 1 /\ source[x] = At(x)
      BY <1>t, <1>s, <2>4
    <3>4. stops = {}
      BY <2>3, <3>3
    <3> QED  BY <3>2, <3>4
  <2>5. CASE s # End
    <3>1. ~Escaped(s, start) /\ At(s) # Nul /\ s \in start + 1 .. Len(source) /\ source[s] = At(s)
      <4>1. s \in 1 .. Len(source) /\ s \in 1 .. End - 1 /\ s \in start + 1 .. Len(source)
        BY <1>t, <1>5, <2>5
      <4> QED  BY <1>s, <2>2, <2>5, <4>1, Characters
    <3>2. At(s) \in {quote, "\n"}
      BY <1>3, <3>1
    <3>3. s \in stops
      BY <3>1, <3>2
    <3>4. ASSUME NEW x \in stops  PROVE x \in Nat /\ s <= x
      <4>1. x \in start + 1 .. Len(source) /\ source[x] \in {quote, "\n"} /\ ~Escaped(x, start)
        OBVIOUS
      <4>2. x \in Nat /\ x \in 1 .. End - 1
        BY <1>t, <4>1
      <4>3. x \notin start + 1 .. s - 1
        BY <1>s, <2>3, <4>1, <4>2
      <4> QED  BY <1>t, <1>5, <4>1, <4>2, <4>3
    <3> DEFINE first == CHOOSE q \in stops : \A r \in stops : q <= r
    <3> HIDE DEF stops
    <3>5. \E q \in stops : \A r \in stops : q <= r
      BY <3>3, <3>4
    <3>6. first \in stops /\ \A r \in stops : first <= r
      BY <3>5
    <3> HIDE DEF first
    <3>7. first = s
      <4>1. first <= s /\ s <= first /\ first \in Nat /\ s \in Nat
        BY <3>3, <3>4, <3>6, <1>t, <1>5
      <4> QED  BY <4>1
    <3>8. last = IF source[s] = "\n" THEN s - 1 ELSE s
      BY <1>4, <1>q, <1>t, <1>5, <3>1, <3>2
    <3> QED  BY <3>3, <3>7, <3>8 DEF first
  <2> QED  BY <2>4, <2>5
<1>8. last = start + (end - start) - 1
  BY <1>t, <1>6
<1>9. StringJudged("string", start, end - start)
  <2> DEFINE l == start + (end - start) - 1
  <2>1. l = last
    BY <1>8
  <2> HIDE DEF l, last
  <2> QED  BY <1>7, <2>1 DEF StringJudged, quote, l
<1> QED  BY <1>1, <1>6, <1>9, BehindLemma

-------------------------------------------------------------------------------
(* What holds of a text's tokens and comments                               *)

\* As LongBracketsMatch has it, of one token and of one comment.
LongJudged(type, start, length) ==
  LET open == Run(start, {"="})
  IN type = "string" /\ At(start) \notin Quote =>
       Closed(open + 1, start + length, open - start)
CommentJudged(start, end, level) == level # Line => Closed(start + level + 4, end, level)

Type    == {"eof", "name", "number", "string", "operator", "invalid"}
Token   == [type : Type, start : Place, length : Nat]
Comment == [start : Place, end : Place, level : Nat \cup {Line}, doc : BOOLEAN]

LexerTypes ==
  /\ TextOK /\ pos \in Place
  /\ tokens \in Seq(Token) /\ comments \in Seq(Comment)

TokenOK(t) ==
  \E type \in Type, start \in Place, length \in Nat :
    /\ t = [type |-> type, start |-> start, length |-> length]
    /\ LongJudged(type, start, length) /\ StringJudged(type, start, length)
CommentOK(c) ==
  \E start, end \in Place, level \in Nat \cup {Line}, doc \in BOOLEAN :
    /\ c = [start |-> start, end |-> end, level |-> level, doc |-> doc]
    /\ CommentJudged(start, end, level)
TokensInv(ts)   == ts \in Seq(Token) /\ \A i \in DOMAIN ts : TokenOK(ts[i])
CommentsInv(cs) == cs \in Seq(Comment) /\ \A i \in DOMAIN cs : CommentOK(cs[i])
LexerInv == TextOK /\ pos \in Place /\ TokensInv(tokens) /\ CommentsInv(comments)

\* The text stays, so what was said of it is still true.
LEMMA SameText ==
  ASSUME source' = source, TextOK, pos' \in Place, TokensInv(tokens'), CommentsInv(comments')
  PROVE  LexerInv'
<1>1. TextOK' /\ (pos \in Place)' /\ Place' = Place
  BY DEF TextOK, Place, End
<1>2. \A type, start, length : LongJudged(type, start, length)' = LongJudged(type, start, length)
  BY DEF LongJudged, Closed, ClosesAt, Run, At, End
<1>3. \A type, start, length : StringJudged(type, start, length)' = StringJudged(type, start, length)
  BY DEF StringJudged, Escaped, Regular, Run, At, End
<1>4. \A start, end, level : CommentJudged(start, end, level)' = CommentJudged(start, end, level)
  BY DEF CommentJudged, Closed, ClosesAt, At, End
<1>5. Token' = Token /\ Comment' = Comment
  BY <1>1 DEF Token, Comment, Type, Line
<1>6. TokensInv(tokens)'
  BY <1>1, <1>2, <1>3, <1>5 DEF TokensInv, TokenOK, Type
<1>7. CommentsInv(comments)'
  BY <1>1, <1>4, <1>5 DEF CommentsInv, CommentOK, Line
<1> QED  BY <1>1, <1>6, <1>7 DEF LexerInv

LEMMA TokenRead ==
  ASSUME LexerInv, NEW type \in Type, NEW start \in Place, NEW length \in Nat, NEW end \in Place,
         LongJudged(type, start, length), StringJudged(type, start, length),
         Read(type, start, length, end)
  PROVE  LexerInv'
<1> DEFINE t == [type |-> type, start |-> start, length |-> length]
<1>1. tokens' = Append(tokens, t) /\ pos' = end /\ source' = source /\ comments' = comments
  BY DEF Read
<1>2. t \in Token /\ TokenOK(t)
  BY DEF Token, TokenOK
<1> HIDE DEF t
<1>3. tokens \in Seq(Token) /\ \A i \in DOMAIN tokens : TokenOK(tokens[i])
  BY DEF LexerInv, TokensInv
<1>4. /\ Append(tokens, t) \in Seq(Token)
      /\ \A i \in DOMAIN Append(tokens, t) :
           (i \in DOMAIN tokens /\ Append(tokens, t)[i] = tokens[i]) \/ Append(tokens, t)[i] = t
  <2>1. Len(Append(tokens, t)) = Len(tokens) + 1 /\ Append(tokens, t) \in Seq(Token)
        /\ (\A i \in 1 .. Len(tokens) : Append(tokens, t)[i] = tokens[i])
        /\ Append(tokens, t)[Len(tokens) + 1] = t
    BY <1>2, <1>3, AppendProperties
  <2>2. DOMAIN tokens = 1 .. Len(tokens) /\ DOMAIN Append(tokens, t) = 1 .. Len(tokens) + 1
        /\ Len(tokens) \in Nat
    BY <1>3, <2>1, LenProperties
  <2> QED  BY <2>1, <2>2
<1>5. TokensInv(Append(tokens, t))
  BY <1>2, <1>3, <1>4 DEF TokensInv
<1> QED  BY <1>1, <1>5, SameText DEF LexerInv

\* Not a string, so nothing is asked of it.
LEMMA OtherRead ==
  ASSUME LexerInv, NEW type \in Type \ {"string"}, NEW start \in Place, NEW length \in Nat,
         NEW end \in Place, Read(type, start, length, end)
  PROVE  LexerInv'
<1>1. LongJudged(type, start, length) /\ StringJudged(type, start, length)
  BY DEF LongJudged, StringJudged
<1> QED  BY <1>1, TokenRead

LEMMA LengthLemma ==
  ASSUME TextOK, NEW p \in Place, NEW q \in Behind(p)
  PROVE  q \in Place /\ q - p \in Nat /\ p <= q
BY Characters DEF Place, Behind

LEMMA WordsRead ==
  ASSUME LexerInv, ReadEof \/ ReadName \/ ReadNumber \/ ReadOperator
  PROVE  LexerInv'
<1>t. TextOK /\ pos \in Place /\ Here \in Place /\ End \in Place
  BY HereLemma, Characters DEF LexerInv
<1>1. CASE ReadEof
  <2>1. Read("eof", End, 0, End) /\ "eof" \in Type \ {"string"} /\ 0 \in Nat
    BY <1>1 DEF ReadEof, Type
  <2> QED  BY <1>t, <2>1, OtherRead
<1>2. CASE ReadName
  <2> DEFINE end == Run(Here, Word)
  <2>1. Read("name", Here, end - Here, end) /\ "name" \in Type \ {"string"}
    BY <1>2 DEF ReadName, Type
  <2>2. end \in Behind(Here)
    BY <1>t, RunBehind, NulApart
  <2> HIDE DEF end
  <2>3. end \in Place /\ end - Here \in Nat
    BY <1>t, <2>2, LengthLemma
  <2> QED  BY <1>t, <2>1, <2>3, OtherRead
<1>3. CASE ReadNumber
  <2> DEFINE end == NumberEnd(Here)
  <2>1. Read("number", Here, end - Here, end) /\ "number" \in Type \ {"string"}
    BY <1>3 DEF ReadNumber, Type
  <2>2. end \in Behind(Here)
    BY <1>t, NumberLemma
  <2> HIDE DEF end
  <2>3. end \in Place /\ end - Here \in Nat
    BY <1>t, <2>2, LengthLemma
  <2> QED  BY <1>t, <2>1, <2>3, OtherRead
<1>4. CASE ReadOperator
  <2> DEFINE length == OperatorLength(Here)
  <2>1. Read("operator", Here, length, Here + length) /\ "operator" \in Type \ {"string"}
    BY <1>4 DEF ReadOperator, Type
  <2>2. At(Here) # Nul
    BY <1>4 DEF ReadOperator
  <2>3. length \in Nat /\ Here + length \in Place
    BY <1>t, <2>2, OperatorLemma
  <2> HIDE DEF length
  <2> QED  BY <1>t, <2>1, <2>3, OtherRead
<1> QED  BY <1>1, <1>2, <1>3, <1>4

LEMMA StringRead ==
  ASSUME LexerInv, ReadString
  PROVE  LexerInv'
<1>t. TextOK /\ Here \in Place /\ At(Here) \in Quote
  BY HereLemma DEF LexerInv, ReadString
<1> DEFINE end == StringEnd(Here + 1, At(Here))
<1>1. Read("string", Here, end - Here, end)
  BY DEF ReadString
<1>2. Here + 1 \in Place /\ end \in Behind(Here + 1) /\ StringJudged("string", Here, end - Here)
  BY <1>t, StringClosed
<1> HIDE DEF end
<1>3. end \in Place /\ end - Here \in Nat
  <2>1. end \in Place /\ end - (Here + 1) \in Nat /\ Here + 1 <= end
    BY <1>t, <1>2, LengthLemma
  <2>2. Here \in Nat /\ end \in Nat
    BY <1>t, <2>1, Characters DEF Place
  <2> QED  BY <2>1, <2>2
<1>4. LongJudged("string", Here, end - Here)
  BY <1>t DEF LongJudged
<1>5. "string" \in Type
  BY DEF Type
<1> QED  BY <1>1, <1>2, <1>3, <1>4, <1>5, <1>t, TokenRead

\* The equals signs of a long bracket, from the place behind its first bracket.
LEMMA OpenLemma ==
  ASSUME TextOK, NEW p \in Place, At(p) # Nul
  PROVE  LET open == Run(p + 1, {"="})
         IN /\ p + 1 \in Place /\ open \in Place /\ open - p - 1 \in Nat
            /\ At(open) = "[" => open + 1 \in Place
<1> DEFINE open == Run(p + 1, {"="})
<1>1. p + 1 \in Place
  BY Characters
<1>2. open \in Place /\ p + 1 <= open
  BY <1>1, RunLemma, NulApart
<1> HIDE DEF open
<1>3. open - p - 1 \in Nat
  BY <1>1, <1>2, Characters DEF Place
<1>4. At(open) = "[" => open + 1 \in Place
  BY <1>2, Characters, NulApart
<1> QED  BY <1>1, <1>2, <1>3, <1>4 DEF open

LEMMA LongStringRead ==
  ASSUME LexerInv, ReadLongString
  PROVE  LexerInv'
<1>t. TextOK /\ Here \in Place /\ At(Here) = "[" /\ At(Here + 1) \in {"[", "="}
  BY HereLemma DEF LexerInv, ReadLongString, Bracketed
<1> DEFINE open  == Run(Here + 1, {"="})
           level == open - Here - 1
           end   == LongEnd(open + 1, level, "string")
<1>1. /\ Here + 1 \in Place /\ open \in Place /\ level \in Nat
      /\ At(open) = "[" => open + 1 \in Place
  BY <1>t, OpenLemma, NulApart
<1>n. Here \in Nat /\ open \in Nat
  BY <1>t, <1>1, Characters DEF Place
<1>2. CASE At(open) = "["
  <2>1. Read("string", Here + 1, end - Here - 1, end)
    BY <1>2 DEF ReadLongString
  <2>2. end \in Place /\ Closed(open + 1, end, level) /\ open + 1 <= end
    BY <1>t, <1>1, <1>2, LongStop
  <2> HIDE DEF end, open
  <2>n. end \in Nat
    BY <1>t, <2>2, Characters DEF Place
  <2>3. level = open - (Here + 1) /\ Here + 1 + (end - Here - 1) = end
    BY <1>n, <2>n
  <2>4. end - Here - 1 \in Nat
    BY <1>n, <1>1, <2>n, <2>2
  <2>5. LongJudged("string", Here + 1, end - Here - 1)
    <3>1. Closed(open + 1, Here + 1 + (end - Here - 1), open - (Here + 1))
      BY <2>2, <2>3
    <3> QED  BY ONLY <3>1, Zenon DEF LongJudged, open
  <2>6. StringJudged("string", Here + 1, end - Here - 1)
    <3>1. At(Here + 1) \notin Quote
      <4>1. "[" \notin Quote /\ "=" \notin Quote
        BY Zenon DEF Quote
      <4> QED  BY <1>t, <4>1
    <3> QED  BY <3>1, Zenon DEF StringJudged
  <2>7. "string" \in Type
    BY DEF Type
  <2> QED  BY <1>1, <2>1, <2>2, <2>4, <2>5, <2>6, <2>7, TokenRead
<1>3. CASE At(open) # "["
  <2>1. Read("invalid", Here + 1, 1, open)
    BY <1>3 DEF ReadLongString
  <2>2. "invalid" \in Type \ {"string"} /\ 1 \in Nat
    BY DEF Type
  <2> HIDE DEF open
  <2> QED  BY <1>1, <2>1, <2>2, OtherRead
<1> QED  BY <1>2, <1>3

LEMMA LineEndLemma ==
  ASSUME TextOK, NEW p \in Place
  PROVE  \E q \in p .. End : /\ At(q) \in {"\n", Nul}
                             /\ \A r \in p .. q - 1 : At(r) \notin {"\n", Nul}
<1> DEFINE T == {q \in p .. End : At(q) \in {"\n", Nul}}
<1>1. End \in Nat /\ At(End) = Nul /\ p \in 1 .. End
  BY Characters DEF Place
<1>2. T \subseteq Nat /\ End \in T
  BY <1>1
<1>3. PICK q \in T : \A r \in T : q <= r
  <2> HIDE DEF T
  <2> QED  BY <1>2, MinimumExists
<1>4. \A r \in p .. q - 1 : At(r) \notin {"\n", Nul}
  BY <1>1, <1>3
<1> QED  BY <1>3, <1>4

LEMMA CommentRead ==
  ASSUME LexerInv, SkipComment
  PROVE  LexerInv'
<1>t. /\ TextOK /\ Here \in Place /\ At(Here) = "-" /\ At(Here + 1) = "-"
      /\ comments \in Seq(Comment) /\ \A i \in DOMAIN comments : CommentOK(comments[i])
  BY HereLemma DEF LexerInv, CommentsInv, SkipComment, Commented
<1>n. Here \in Nat /\ End \in Nat /\ Place = 1 .. End
  BY <1>t, Characters DEF Place
<1>1. Here + 1 \in Place /\ Here + 2 \in Place
  <2>1. Here + 1 \in Place
    BY <1>t, Characters, NulApart
  <2>2. Here + 1 + 1 \in Place
    BY <1>t, <2>1, Characters, NulApart
  <2> QED  BY <1>n, <2>1, <2>2
<1> DEFINE open  == IF Bracketed(Here + 2) THEN Run(Here + 3, {"="}) ELSE Here + 2
           long  == Bracketed(Here + 2) /\ At(open) = "["
           level == IF long THEN open - Here - 3 ELSE Line
           end   == IF long THEN LongEnd(open + 1, level, "comment")
                    ELSE CHOOSE q \in open .. End :
                           At(q) \in {"\n", Nul} /\ \A r \in open .. q - 1 : At(r) \notin {"\n", Nul}
           doc   == ~long /\ At(open) = "-"
           c     == [start |-> Here, end |-> end, level |-> level, doc |-> doc]
<1>2. comments' = Append(comments, c) /\ pos' = end /\ source' = source /\ tokens' = tokens
  BY DEF SkipComment
<1>3. open \in Place /\ (long => open + 1 \in Place /\ open - Here - 3 \in Nat)
  <2>1. CASE Bracketed(Here + 2)
    <3> DEFINE o == Run(Here + 2 + 1, {"="})
    <3>1. At(Here + 2) # Nul
      BY <2>1, NulApart DEF Bracketed
    <3>2. o \in Place /\ o - (Here + 2) - 1 \in Nat /\ (At(o) = "[" => o + 1 \in Place)
      BY <1>t, <1>1, <3>1, OpenLemma
    <3>3. open = o
      <4>1. Here + 2 + 1 = Here + 3
        BY <1>n
      <4> QED  BY <2>1, <4>1
    <3> HIDE DEF o, open
    <3>4. o - (Here + 2) - 1 = o - Here - 3
      BY <1>n, <3>2
    <3> QED  BY <3>2, <3>3, <3>4
  <2>2. CASE ~Bracketed(Here + 2)
    BY <1>1, <2>2
  <2> QED  BY <2>1, <2>2
<1> HIDE DEF open
<1>4. end \in Place /\ CommentJudged(Here, end, level) /\ level \in Nat \cup {Line}
  <2>1. CASE long
    <3>1. level = open - Here - 3 /\ end = LongEnd(open + 1, level, "comment") /\ level \in Nat
      BY <1>3, <2>1
    <3> HIDE DEF end, level
    <3>2. end \in Place /\ Closed(open + 1, end, level)
      BY <1>t, <1>3, <2>1, <3>1, LongStop
    <3>3. Here + level + 4 = open + 1
      <4>1. open \in Int
        BY <1>3, <1>n
      <4> QED  BY <1>n, <3>1, <4>1
    <3> QED  BY <3>1, <3>2, <3>3 DEF CommentJudged
  <2>2. CASE ~long
    <3>1. level = Line
      BY <2>2
    <3>2. end \in open .. End
      <4>1. \E q \in open .. End : At(q) \in {"\n", Nul} /\ \A r \in open .. q - 1 : At(r) \notin {"\n", Nul}
        BY <1>t, <1>3, LineEndLemma
      <4> QED  BY <2>2, <4>1
    <3> HIDE DEF end, level
    <3>3. end \in Place
      BY <1>3, <1>n, <3>2
    <3> QED  BY <3>1, <3>3 DEF CommentJudged
  <2> QED  BY <2>1, <2>2
<1>5. c \in Comment /\ CommentOK(c)
  <2>1. doc \in BOOLEAN
    OBVIOUS
  <2> HIDE DEF end, level, doc
  <2> QED  BY <1>t, <1>4, <2>1 DEF Comment, CommentOK
<1> HIDE DEF c, end, level
<1>6. /\ Append(comments, c) \in Seq(Comment)
      /\ \A i \in DOMAIN Append(comments, c) :
           (i \in DOMAIN comments /\ Append(comments, c)[i] = comments[i]) \/ Append(comments, c)[i] = c
  <2>1. Len(Append(comments, c)) = Len(comments) + 1 /\ Append(comments, c) \in Seq(Comment)
        /\ (\A i \in 1 .. Len(comments) : Append(comments, c)[i] = comments[i])
        /\ Append(comments, c)[Len(comments) + 1] = c
    BY <1>t, <1>5, AppendProperties
  <2>2. DOMAIN comments = 1 .. Len(comments) /\ DOMAIN Append(comments, c) = 1 .. Len(comments) + 1
        /\ Len(comments) \in Nat
    BY <1>t, <2>1, LenProperties
  <2> QED  BY <2>1, <2>2
<1>7. CommentsInv(Append(comments, c))
  BY <1>t, <1>5, <1>6 DEF CommentsInv
<1> QED  BY <1>2, <1>4, <1>7, SameText DEF LexerInv

LEMMA ByteSkipped ==
  ASSUME LexerInv, SkipNonASCII
  PROVE  LexerInv'
<1>1. TextOK /\ Here \in Place /\ At(Here) # Nul /\ pos' = Here + 1
      /\ source' = source /\ tokens' = tokens /\ comments' = comments
  BY HereLemma, NonASCIIAssumption DEF LexerInv, SkipNonASCII, ByteBehind
<1>2. Here + 1 \in Place
  BY <1>1, Characters
<1> QED  BY <1>1, <1>2, SameText DEF LexerInv

LEMMA LexerInitially ==
  ASSUME LexerInit
  PROVE  LexerInv
<1>1. TextOK /\ pos = 1 /\ tokens = <<>> /\ comments = <<>>
  BY TextsAssumption DEF LexerInit, TextOK
<1>2. 1 \in Place
  BY <1>1, Characters DEF Place
<1>3. TokensInv(<<>>) /\ CommentsInv(<<>>)
  BY DEF TokensInv, CommentsInv
<1> QED  BY <1>1, <1>2, <1>3 DEF LexerInv

LEMMA LexerStep ==
  ASSUME LexerInv, [LexerNext]_lexerVars
  PROVE  LexerInv'
<1>1. CASE UNCHANGED lexerVars
  <2>1. source' = source /\ pos' = pos /\ tokens' = tokens /\ comments' = comments
    BY <1>1 DEF lexerVars
  <2> QED  BY <2>1, SameText DEF LexerInv
<1>2. CASE LexerNext
  BY <1>2, WordsRead, StringRead, LongStringRead, ByteSkipped, CommentRead DEF LexerNext, ReadToken
<1> QED  BY <1>1, <1>2

\* Whatever is read: types, and a position that stays in the text, whose end
\* no number, escape sequence, operator or bracket passes.
THEOREM LexerStays == LexerSpec => []LexerTypes
<1>1. LexerInv => LexerTypes
  BY DEF LexerInv, LexerTypes, TokensInv, CommentsInv
<1> QED  BY <1>1, LexerInitially, LexerStep, PTL DEF LexerSpec

\* A long string or comment ends behind the first closing bracket of its own
\* level.
THEOREM LongBracketsDoMatch == LexerSpec => []LongBracketsMatch
<1>1. ASSUME LexerInv  PROVE LongBracketsMatch
  <2>1. ASSUME NEW i \in DOMAIN tokens
        PROVE  LET t == tokens[i]
                   open == Run(t.start, {"="})
               IN t.type = "string" /\ At(t.start) \notin Quote =>
                    Closed(open + 1, t.start + t.length, open - t.start)
    <3>1. PICK type \in Type, start \in Place, length \in Nat :
            /\ tokens[i] = [type |-> type, start |-> start, length |-> length]
            /\ LongJudged(type, start, length)
      BY <1>1 DEF LexerInv, TokensInv, TokenOK
    <3> QED  BY <3>1 DEF LongJudged
  <2>2. ASSUME NEW i \in DOMAIN comments, comments[i].level # Line
        PROVE  Closed(comments[i].start + comments[i].level + 4, comments[i].end, comments[i].level)
    BY <1>1, <2>2 DEF LexerInv, CommentsInv, CommentOK, CommentJudged
  <2> QED  BY <2>1, <2>2 DEF LongBracketsMatch
<1> QED  BY <1>1, LexerInitially, LexerStep, PTL DEF LexerSpec

\* If its escapes are regular, a string ends with the first quote of its kind
\* that no backslash escapes, or in front of the end of its line.
THEOREM StringsDoClose == LexerSpec => []StringsClose
<1>1. ASSUME LexerInv  PROVE StringsClose
  <2>1. ASSUME NEW i \in DOMAIN tokens
        PROVE  StringJudged(tokens[i].type, tokens[i].start, tokens[i].length)
    BY <1>1 DEF LexerInv, TokensInv, TokenOK
  <2> QED  BY <2>1, Zenon DEF StringsClose, StringJudged
<1> QED  BY <1>1, LexerInitially, LexerStep, PTL DEF LexerSpec
================================================================================
