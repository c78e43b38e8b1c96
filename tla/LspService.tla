------------------------------ MODULE LspService ------------------------------
(***************************************************************************)
(* What the language server promises its client, with no thread, queue or  *)
(* pipe in sight: frames arrive one after the other, and the requests      *)
(* among them are answered once each and in the order in which they came.  *)
(* A frame is named by its position in the stream; the server may stop at  *)
(* any time, so nothing here says that a request is answered in the end.   *)
(***************************************************************************)
EXTENDS Integers, Sequences

VARIABLES stream,   \* the frames of the session, in the order sent
          arrived,  \* how many of them the server has read
          answers   \* the requests answered, in the order of the answers

serviceVars == <<stream, arrived, answers>>

\* The request answered last, 0 before the first answer.
LastOf(s) == IF s = <<>> THEN 0 ELSE s[Len(s)]

IsRequest(k) == stream[k] = "request"

Init ==
  /\ arrived = 0
  /\ answers = <<>>

Arrive ==
  /\ arrived < Len(stream)
  /\ arrived' = arrived + 1
  /\ UNCHANGED <<stream, answers>>

\* k is the oldest request that has no answer yet.
Answer(k) ==
  /\ IsRequest(k)
  /\ \A j \in LastOf(answers) + 1 .. k - 1 : ~ IsRequest(j)
  /\ answers' = Append(answers, k)
  /\ UNCHANGED <<stream, arrived>>

Next == Arrive \/ \E k \in LastOf(answers) + 1 .. arrived : Answer(k)

Spec == Init /\ [][Next]_serviceVars
===============================================================================
