------------------------------- MODULE MCDocSync -------------------------------
(* Two files and a handful of texts; what the repository says of them.       *)
EXTENDS DocSync

\* "a" and "A" agree in size and quickHash, as "Aa" and "BB" do; "i" includes
\* file 2 and "r" requires it; every other text is told from the rest.
FingerprintOf == [t \in Texts |-> IF t = "A" THEN "a" ELSE t]
CallsOf ==
  [t \in Texts |-> CASE t = "i" -> <<[fn |-> "Include", uri |-> 2]>>
                     [] t = "r" -> <<[fn |-> "require", uri |-> 2]>>
                     [] OTHER   -> <<>>]

\* DESIGN.md: a change "only re-parses that file and updates the entry of that
\* file in the global index".  When all is done the entry of an open document
\* whose file exists should be the editor's.
OpenBuffersWin ==
  (Quiet /\ announced) =>
    \A u \in Uris : (buffer[u] \notin {None, Empty} /\ disk[u] # None)
                       => SameDocument(docs[u], buffer[u])
===============================================================================
