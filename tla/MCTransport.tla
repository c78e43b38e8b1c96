------------------------------ MODULE MCTransport ------------------------------
(* Small clients for Transport, and its liveness properties over them.     *)
EXTENDS Transport, FiniteSets

Upto(n, kinds) == UNION {[1 .. m -> kinds] : m \in 0 .. n}

\* Every session of three frames in which the client says initialized at most
\* once.
AnyStreams == Upto(3, Kinds)
OneStart == {s \in AnyStreams : Cardinality({i \in DOMAIN s : s[i] = "initialized"}) < 2}

\* A well-behaved client: it ends its session with exit, or just goes away.
PoliteStreams == {<<>>, <<"request">>, <<"request", "exit">>}

MaxFrames == 3
ExitBefore(k) == \E j \in Frames : j < k /\ stream[j] = "exit"
Answered(k) == \E i \in 1 .. Len(answers) : answers[i] = k

\* While the client keeps its pipe open, a request that has been read is
\* answered, unless an exit came before it or a frame the server cannot bear
\* ended it: the queue's mutex and condition variable lose no wakeup.
RequestsAnswered ==
  \A k \in 1 .. MaxFrames :
    (k <= got /\ stream[k] = "request")
      ~> (Answered(k) \/ closed \/ ExitBefore(k) \/ outcome = "terminated")

\* A client that sends exit and then closes its pipe gets rid of the process.
ExitAndCloseEnds == (shouldExit /\ closed) ~> (outcome # "up")

\* Transport.h: receive "returns false if stopped".  A main thread that waits
\* when running_ is cleared should come back.
ReceiveReturnsIfStopped ==
  (~ running /\ main = "waiting") ~> (main # "waiting" \/ outcome # "up")
===============================================================================
