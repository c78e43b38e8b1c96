----------------------------- MODULE DocSyncProofs -----------------------------
(***************************************************************************)
(* DocSync, for every set of files, texts and calls and for behaviours of  *)
(* any length: its types, and that the index and the diagnostics end with  *)
(* the editor's last word wherever it came after the workers.              *)
(***************************************************************************)
EXTENDS DocSync, TLAPS

Message == [kind : {"open", "change", "close", "written", "deleted"},
            uri : Uris, text : Texts]

-------------------------------------------------------------------------------
(* The inbox.                                                               *)

LEMMA AppendEnd ==
  ASSUME NEW S, NEW q \in Seq(S), NEW m \in S
  PROVE  /\ Append(q, m) \in Seq(S) /\ Len(q) \in Nat
         /\ Len(Append(q, m)) = Len(q) + 1
         /\ \A i \in 1 .. Len(q) : Append(q, m)[i] = q[i]
         /\ Append(q, m)[Len(q) + 1] = m
OBVIOUS

LEMMA TailShift ==
  ASSUME NEW S, NEW q \in Seq(S), q # <<>>
  PROVE  /\ Tail(q) \in Seq(S) /\ Len(q) \in Nat \ {0} /\ Head(q) = q[1] /\ Head(q) \in S
         /\ Len(Tail(q)) = Len(q) - 1
         /\ \A i \in 1 .. Len(q) - 1 : Tail(q)[i] = q[i + 1]
OBVIOUS

\* What the editor's next message does to those before it.
LEMMA SayKeeps ==
  ASSUME inbox \in Seq(Message), NEW m \in Message, inbox' = Append(inbox, m),
         UNCHANGED <<mainVars, docs>>, NEW u \in Uris
  PROVE  /\ buffer'[u] = buffer[u] /\ ~ Disturbs(m, u) =>
              (Waits(u) => Waits(u)') /\ (Taken(u) => Taken(u)')
         /\ ~ Speaks(m, u) => (Closing(u) => Closing(u)') /\ (Dark(u) => Dark(u)')
         /\ LastWord(m, u)' => Waits(u)'
         /\ m.uri = u /\ m.kind = "close" => Closing(u)'
<1> DEFINE n == Len(inbox)
<1>1. /\ n \in Nat /\ Len(inbox') = n + 1
      /\ \A i \in 1 .. n : inbox'[i] = inbox[i]
      /\ inbox'[n + 1] = m
  BY AppendEnd
<1>u. UNCHANGED <<main, job, todo, handle, shown, docs>>
  BY DEF mainVars
<1> HIDE DEF n
<1>2. ASSUME buffer'[u] = buffer[u], ~ Disturbs(m, u), Waits(u)
      PROVE  Waits(u)'
  <2>1. PICK i \in 1 .. n : /\ LastWord(inbox[i], u)
                            /\ \A j \in i + 1 .. n : ~ Disturbs(inbox[j], u)
    BY <1>2 DEF Waits, n
  <2>2. i \in 1 .. n + 1 /\ inbox'[i] = inbox[i]
    BY <1>1
  <2>3. LastWord(inbox[i], u)'
    BY <1>2, <2>1, <2>2 DEF LastWord
  <2>4. ASSUME NEW j \in i + 1 .. n + 1 PROVE ~ Disturbs(inbox'[j], u)
    <3>1. CASE j = n + 1
      BY <1>1, <1>2, <3>1
    <3>2. CASE j # n + 1
      <4>1. j \in i + 1 .. n /\ j \in 1 .. n
        BY <1>1, <3>2
      <4>2. QED
        BY <1>1, <2>1, <4>1
    <3>3. QED
      BY <3>1, <3>2
  <2>5. QED
    BY <1>1, <2>2, <2>3, <2>4 DEF Waits
<1>3. ASSUME buffer'[u] = buffer[u], ~ Disturbs(m, u), Taken(u)
      PROVE  Taken(u)'
  <2>1. ASSUME NEW j \in 1 .. n + 1 PROVE ~ Disturbs(inbox'[j], u)
    <3>1. CASE j = n + 1
      BY <1>1, <1>3, <3>1
    <3>2. CASE j # n + 1
      <4>1. j \in 1 .. n
        BY <1>1, <3>2
      <4>2. QED
        BY <1>1, <1>3, <4>1 DEF Taken, n
    <3>3. QED
      BY <3>1, <3>2
  <2>2. \A j \in 1 .. Len(inbox') : ~ Disturbs(inbox'[j], u)
    BY <1>1, <2>1
  <2>3. QED
    BY <1>3, <1>u, <2>2 DEF Taken
<1>4. ASSUME ~ Speaks(m, u), Closing(u)
      PROVE  Closing(u)'
  <2>1. PICK i \in 1 .. n : /\ inbox[i].uri = u /\ inbox[i].kind = "close"
                            /\ \A j \in i + 1 .. n : ~ Speaks(inbox[j], u)
    BY <1>4 DEF Closing, n
  <2>2. i \in 1 .. n + 1 /\ inbox'[i] = inbox[i]
    BY <1>1
  <2>3. ASSUME NEW j \in i + 1 .. n + 1 PROVE ~ Speaks(inbox'[j], u)
    <3>1. CASE j = n + 1
      BY <1>1, <1>4, <3>1
    <3>2. CASE j # n + 1
      <4>1. j \in i + 1 .. n /\ j \in 1 .. n
        BY <1>1, <3>2
      <4>2. QED
        BY <1>1, <2>1, <4>1
    <3>3. QED
      BY <3>1, <3>2
  <2>4. QED
    BY <1>1, <2>1, <2>2, <2>3 DEF Closing
<1>5. ASSUME ~ Speaks(m, u), Dark(u)
      PROVE  Dark(u)'
  <2>1. ASSUME NEW j \in 1 .. n + 1 PROVE ~ Speaks(inbox'[j], u)
    <3>1. CASE j = n + 1
      BY <1>1, <1>5, <3>1
    <3>2. CASE j # n + 1
      <4>1. j \in 1 .. n
        BY <1>1, <3>2
      <4>2. QED
        BY <1>1, <1>5, <4>1 DEF Dark, n
    <3>3. QED
      BY <3>1, <3>2
  <2>2. \A j \in 1 .. Len(inbox') : ~ Speaks(inbox'[j], u)
    BY <1>1, <2>1
  <2>3. QED
    BY <1>5, <1>u, <2>2 DEF Dark
<1>6. n + 1 \in 1 .. n + 1 /\ ~ \E j \in n + 2 .. n + 1 : TRUE
  BY <1>1
<1>7. LastWord(m, u)' => Waits(u)'
  <2> SUFFICES ASSUME LastWord(m, u)' PROVE Waits(u)'
    OBVIOUS
  <2>1. PICK k \in 1 .. n + 1 : k = n + 1
    BY <1>6
  <2>2. LastWord(inbox[k], u)'
    BY <1>1, <2>1 DEF LastWord
  <2>3. \A j \in k + 1 .. n + 1 : ~ Disturbs(inbox'[j], u)
    BY <1>1, <2>1
  <2>4. QED
    BY <1>1, <2>2, <2>3 DEF Waits
<1>8. m.uri = u /\ m.kind = "close" => Closing(u)'
  <2>1. \A j \in (n + 1) + 1 .. n + 1 : ~ Speaks(inbox'[j], u)
    BY <1>1
  <2>2. QED
    BY <1>1, <1>6, <2>1 DEF Closing
<1>9. QED
  BY <1>2, <1>3, <1>4, <1>5, <1>7, <1>8

\* What taking the first message does to those behind it.
LEMMA TakeKeeps ==
  ASSUME inbox \in Seq(Message), inbox # <<>>, inbox' = Tail(inbox),
         UNCHANGED buffer, NEW u \in Uris
  PROVE  /\ Waits(u) => \/ Waits(u)'
                        \/ /\ LastWord(Head(inbox), u)
                           /\ \A j \in 1 .. Len(inbox') : ~ Disturbs(inbox'[j], u)
         /\ (\A j \in 1 .. Len(inbox) : ~ Disturbs(inbox[j], u))
              => /\ ~ Disturbs(Head(inbox), u)
                 /\ \A j \in 1 .. Len(inbox') : ~ Disturbs(inbox'[j], u)
         /\ Closing(u) => \/ Closing(u)'
                          \/ /\ Head(inbox).uri = u /\ Head(inbox).kind = "close"
                             /\ \A j \in 1 .. Len(inbox') : ~ Speaks(inbox'[j], u)
         /\ (\A j \in 1 .. Len(inbox) : ~ Speaks(inbox[j], u))
              => /\ ~ Speaks(Head(inbox), u)
                 /\ \A j \in 1 .. Len(inbox') : ~ Speaks(inbox'[j], u)
<1> DEFINE n == Len(inbox)
<1>1. /\ n \in Nat \ {0} /\ Len(inbox') = n - 1 /\ Head(inbox) = inbox[1]
      /\ \A i \in 1 .. n - 1 : inbox'[i] = inbox[i + 1]
  BY TailShift
<1> HIDE DEF n
<1>2. \A i \in 2 .. n : i - 1 \in 1 .. n - 1 /\ inbox'[i - 1] = inbox[i]
  <2> TAKE i \in 2 .. n
  <2>1. i - 1 \in 1 .. n - 1 /\ (i - 1) + 1 = i
    BY <1>1
  <2>2. QED
    BY <1>1, <2>1
<1>3. ASSUME Waits(u), ~ Waits(u)'
      PROVE  LastWord(Head(inbox), u) /\ \A j \in 1 .. n - 1 : ~ Disturbs(inbox'[j], u)
  <2>1. PICK i \in 1 .. n : /\ LastWord(inbox[i], u)
                            /\ \A j \in i + 1 .. n : ~ Disturbs(inbox[j], u)
    BY <1>3 DEF Waits, n
  <2>2. CASE i = 1
    <3>1. ASSUME NEW j \in 1 .. n - 1 PROVE ~ Disturbs(inbox'[j], u)
      <4>1. j + 1 \in i + 1 .. n
        BY <1>1, <2>2
      <4>2. QED
        BY <1>1, <2>1, <4>1
    <3>2. QED
      BY <1>1, <2>1, <2>2, <3>1
  <2>3. CASE i # 1
    <3>1. i \in 2 .. n /\ i - 1 \in 1 .. n - 1
      BY <1>1, <2>3
    <3>2. LastWord(inbox[i - 1], u)'
      BY <1>2, <2>1, <3>1 DEF LastWord
    <3>3. ASSUME NEW j \in (i - 1) + 1 .. n - 1 PROVE ~ Disturbs(inbox'[j], u)
      <4>1. j \in 1 .. n - 1 /\ j + 1 \in i + 1 .. n
        BY <1>1, <3>1
      <4>2. QED
        BY <1>1, <2>1, <4>1
    <3>4. Waits(u)'
      BY <1>1, <3>1, <3>2, <3>3 DEF Waits
    <3>5. QED
      BY <1>3, <3>4
  <2>4. QED
    BY <2>2, <2>3
<1>4. ASSUME \A j \in 1 .. n : ~ Disturbs(inbox[j], u)
      PROVE  ~ Disturbs(Head(inbox), u) /\ \A j \in 1 .. n - 1 : ~ Disturbs(inbox'[j], u)
  <2>1. 1 \in 1 .. n /\ \A j \in 1 .. n - 1 : j + 1 \in 1 .. n
    BY <1>1
  <2>2. QED
    BY <1>1, <1>4, <2>1
<1>5. ASSUME Closing(u), ~ Closing(u)'
      PROVE  /\ Head(inbox).uri = u /\ Head(inbox).kind = "close"
             /\ \A j \in 1 .. n - 1 : ~ Speaks(inbox'[j], u)
  <2>1. PICK i \in 1 .. n : /\ inbox[i].uri = u /\ inbox[i].kind = "close"
                            /\ \A j \in i + 1 .. n : ~ Speaks(inbox[j], u)
    BY <1>5 DEF Closing, n
  <2>2. CASE i = 1
    <3>1. ASSUME NEW j \in 1 .. n - 1 PROVE ~ Speaks(inbox'[j], u)
      <4>1. j + 1 \in i + 1 .. n
        BY <1>1, <2>2
      <4>2. QED
        BY <1>1, <2>1, <4>1
    <3>2. QED
      BY <1>1, <2>1, <2>2, <3>1
  <2>3. CASE i # 1
    <3>1. i \in 2 .. n /\ i - 1 \in 1 .. n - 1
      BY <1>1, <2>3
    <3>2. inbox'[i - 1].uri = u /\ inbox'[i - 1].kind = "close"
      BY <1>2, <2>1, <3>1
    <3>3. ASSUME NEW j \in (i - 1) + 1 .. n - 1 PROVE ~ Speaks(inbox'[j], u)
      <4>1. j \in 1 .. n - 1 /\ j + 1 \in i + 1 .. n
        BY <1>1, <3>1
      <4>2. QED
        BY <1>1, <2>1, <4>1
    <3>4. Closing(u)'
      BY <1>1, <3>1, <3>2, <3>3 DEF Closing
    <3>5. QED
      BY <1>5, <3>4
  <2>4. QED
    BY <2>2, <2>3
<1>6. ASSUME \A j \in 1 .. n : ~ Speaks(inbox[j], u)
      PROVE  ~ Speaks(Head(inbox), u) /\ \A j \in 1 .. n - 1 : ~ Speaks(inbox'[j], u)
  <2>1. 1 \in 1 .. n /\ \A j \in 1 .. n - 1 : j + 1 \in 1 .. n
    BY <1>1
  <2>2. QED
    BY <1>1, <1>6, <2>1
<1>7. QED
  BY <1>1, <1>3, <1>4, <1>5, <1>6 DEF n

-------------------------------------------------------------------------------
(* The invariant holds at the start, and every action keeps the types.      *)

LEMMA InitSync == Init => SyncInv
<1> SUFFICES ASSUME Init PROVE SyncInv
  OBVIOUS
<1>1. TypeOK
  <2>1. job \in [uri : Maybe(Uris), text : Texts, dep : BOOLEAN]
    BY DocSyncAssumption DEF Init, NoJob, Maybe, DocSyncAssumption
  <2>2. edits \in 0 .. MaxEdits
    BY DocSyncAssumption DEF Init, DocSyncAssumption
  <2>3. phase \in [Discovered -> Sweep!Phases] /\ announced \in BOOLEAN
    BY DEF Init, Sweep!Init, Sweep!Phases
  <2>4. buffer \in [Uris -> Maybe(Texts)] /\ disk \in [Uris -> Maybe(Texts)]
        /\ docs \in [Uris -> Maybe(Texts)] /\ shown \in [Uris -> Maybe(Texts)]
        /\ held \in [Discovered -> Maybe(Texts)] /\ lastSure \in [Uris -> BOOLEAN]
    BY DEF Init, Maybe
  <2>5. inbox \in Seq(Message) /\ todo \in Seq([fn : Names, uri : Uris])
    BY DEF Init
  <2>6. QED
    BY <2>1, <2>2, <2>3, <2>4, <2>5 DEF Init, TypeOK, Message
<1>2. LastWordKept /\ ClosedStayDark
  BY DEF Init, LastWordKept, ClosedStayDark, Dark
<1>3. QED
  BY <1>1, <1>2 DEF SyncInv

LEMMA SayType ==
  ASSUME TypeOK, NEW u \in Uris, NEW t \in Texts,
         NEW k \in {"open", "change", "close", "written", "deleted"}, Say(k, u, t)
  PROVE  inbox' \in Seq(Message)
<1>1. [kind |-> k, uri |-> u, text |-> t] \in Message
  BY DEF Message
<1>2. inbox \in Seq(Message)
  BY DEF TypeOK, Message
<1>3. QED
  BY <1>1, <1>2, AppendEnd DEF Say

LEMMA EditorKeepsType == TypeOK /\ EditorStep => TypeOK'
<1> SUFFICES ASSUME TypeOK, EditorStep PROVE TypeOK'
  OBVIOUS
<1>1. /\ UNCHANGED <<main, job, todo, handle, shown, docs, phase, announced, held>>
      /\ edits < MaxEdits /\ edits' = edits + 1
  BY DEF EditorStep, Open, Edit, Close, Write, Delete, EditStep, mainVars, sweepVars
<1>2. edits' \in 0 .. MaxEdits
  BY <1>1, DocSyncAssumption DEF TypeOK, DocSyncAssumption
<1>3. PICK u \in Uris : \/ Close(u) \/ Delete(u)
                        \/ \E t \in Texts : Open(u, t) \/ Edit(u, t) \/ Write(u, t)
  BY DEF EditorStep
<1>4. inbox' \in Seq(Message)
  <2>1. CASE Close(u) \/ Delete(u)
    BY <2>1, SayType, DocSyncAssumption DEF Close, Delete, DocSyncAssumption
  <2>2. ASSUME NEW t \in Texts, Open(u, t) \/ Edit(u, t) \/ Write(u, t)
        PROVE  inbox' \in Seq(Message)
    BY <2>2, SayType, DocSyncAssumption DEF Open, Edit, Write, DocSyncAssumption
  <2>3. QED
    BY <1>3, <2>1, <2>2
<1>5. buffer' \in [Uris -> Maybe(Texts)] /\ disk' \in [Uris -> Maybe(Texts)]
  <2>1. CASE Close(u) \/ Delete(u)
    BY <2>1 DEF TypeOK, Maybe, Close, Delete
  <2>2. ASSUME NEW t \in Texts, Open(u, t) \/ Edit(u, t) \/ Write(u, t)
        PROVE  buffer' \in [Uris -> Maybe(Texts)] /\ disk' \in [Uris -> Maybe(Texts)]
    <3>1. t \in Maybe(Texts)
      BY DEF Maybe
    <3>2. buffer \in [Uris -> Maybe(Texts)] /\ disk \in [Uris -> Maybe(Texts)]
      BY DEF TypeOK
    <3>3. /\ buffer' = buffer \/ buffer' = [buffer EXCEPT ![u] = t]
          /\ disk' = disk \/ disk' = [disk EXCEPT ![u] = t]
      BY <2>2 DEF Open, Edit, Write
    <3>4. QED
      BY <3>1, <3>2, <3>3
  <2>3. QED
    BY <1>3, <2>1, <2>2
<1>6. lastSure' \in [Uris -> BOOLEAN]
  <2>1. CASE Close(u) \/ Delete(u)
    BY <2>1 DEF TypeOK, Close, Delete
  <2>2. ASSUME NEW t \in Texts, Open(u, t) \/ Edit(u, t) \/ Write(u, t)
        PROVE  lastSure' \in [Uris -> BOOLEAN]
    <3>1. CASE Open(u, t)
      <4>1. \A v \in Uris : Settled(u, t) \in BOOLEAN /\ lastSure[v] \in BOOLEAN
        BY DEF TypeOK, Settled
      <4>2. QED
        BY <3>1, <4>1 DEF Open
    <3>2. CASE Edit(u, t)
      <4>1. Settled(u, t) \in BOOLEAN
        BY DEF Settled
      <4>2. QED
        BY <3>2, <4>1 DEF TypeOK, Edit
    <3>3. CASE Write(u, t)
      BY <3>3 DEF TypeOK, Write
    <3>4. QED
      BY <2>2, <3>1, <3>2, <3>3
  <2>3. QED
    BY <1>3, <2>1, <2>2
<1>7. QED
  BY <1>1, <1>2, <1>4, <1>5, <1>6 DEF TypeOK, Message

LEMMA MainKeepsType == TypeOK /\ MainStep => TypeOK'
<1> SUFFICES ASSUME TypeOK, MainStep PROVE TypeOK'
  OBVIOUS
<1>1. inbox \in Seq(Message)
  BY DEF TypeOK, Message
<1>2. CASE Receive
  <2>1. inbox' \in Seq(Message) /\ Head(inbox) \in Message
    BY <1>1, <1>2, TailShift DEF Receive
  <2>2. Head(inbox).uri \in Uris /\ Head(inbox).text \in Texts
    BY <2>1 DEF Message
  <2>3. job' \in [uri : Maybe(Uris), text : Texts, dep : BOOLEAN]
        /\ job'.uri \in Uris /\ job'.dep = FALSE
    BY <1>2, <2>2 DEF Receive, Maybe
  <2>4. todo' \in Seq([fn : Names, uri : Uris])
    <3>1. Calls[Head(inbox).text] \in Seq([fn : Names, uri : Uris])
      BY <2>2, DocSyncAssumption DEF DocSyncAssumption
    <3>2. <<>> \in Seq([fn : Names, uri : Uris])
      OBVIOUS
    <3>3. todo' = Calls[Head(inbox).text] \/ todo' = <<>>
      BY <1>2 DEF Receive
    <3>4. QED
      BY <3>1, <3>2, <3>3
  <2>5. handle = "none" /\ handle' = handle /\ main' = "check"
    BY <1>2 DEF Receive, TypeOK
  <2>6. UNCHANGED <<buffer, disk, edits, lastSure, docs, shown, phase, announced, held>>
    BY <1>2 DEF Receive, editorVars, sweepVars
  <2>7. QED
    BY <2>1, <2>3, <2>4, <2>5, <2>6 DEF TypeOK, Message
<1>3. CASE Forget
  <2>1. inbox' \in Seq(Message) /\ Head(inbox) \in Message
    BY <1>1, <1>3, TailShift DEF Forget
  <2>2. docs' \in [Uris -> Maybe(Texts)] /\ shown' \in [Uris -> Maybe(Texts)]
    BY <1>3 DEF Forget, Cleared, TypeOK, Maybe
  <2>3. UNCHANGED <<buffer, disk, edits, lastSure, phase, announced, held,
                    main, job, todo, handle>> /\ main = "idle"
    BY <1>3 DEF Forget, editorVars, sweepVars
  <2>4. QED
    BY <2>1, <2>2, <2>3 DEF TypeOK, Message
<1>4. CASE Check
  <2>1. main' \in {"store", "deps", "get"} /\ main = "check" /\ (main' = "get" => ~ job.dep)
    BY <1>4 DEF Check, Indexed
  <2>2. UNCHANGED <<buffer, disk, edits, lastSure, phase, announced, held,
                    inbox, docs, job, todo, handle, shown>>
    BY <1>4 DEF Check, editorVars, sweepVars
  <2>3. QED
    BY <2>1, <2>2 DEF TypeOK
<1>5. CASE Store
  <2>1. main' \in {"deps", "get"} /\ main = "store" /\ (main' = "get" => ~ job.dep)
    BY <1>5 DEF Store, Indexed
  <2>2. UNCHANGED <<buffer, disk, edits, lastSure, phase, announced, held,
                    inbox, job, todo, handle, shown>>
    BY <1>5 DEF Store, editorVars, sweepVars
  <2>3. docs' \in [Uris -> Maybe(Texts)]
    BY <1>5 DEF Store, TypeOK, Maybe
  <2>4. QED
    BY <2>1, <2>2, <2>3 DEF TypeOK
<1>6. CASE GetDocument
  <2>1. UNCHANGED <<buffer, disk, edits, lastSure, phase, announced, held,
                    inbox, docs, job, todo, shown>>
    BY <1>6 DEF GetDocument, editorVars, sweepVars
  <2>2. /\ main = "get" /\ main' \in {"deps", "publish"}
        /\ handle = "none"
        /\ handle' = (IF main' = "publish" THEN "live" ELSE "none")
        /\ main' = "publish" => docs[job.uri] # None
    BY <1>6 DEF GetDocument, TypeOK, Missing
  <2>3. QED
    BY <2>1, <2>2 DEF TypeOK
<1>7. CASE Publish
  <2>1. UNCHANGED <<buffer, disk, edits, lastSure, phase, announced, held,
                    inbox, docs, job, todo>>
    BY <1>7 DEF Publish, editorVars, sweepVars
  <2>2. shown' \in [Uris -> Maybe(Texts)]
    BY <1>7 DEF Publish, TypeOK, Maybe
  <2>3. handle' = "none" /\ main' \in {"deps", "crashed"}
    BY <1>7 DEF Publish
  <2>4. QED
    BY <2>1, <2>2, <2>3 DEF TypeOK
<1>8. CASE Dependency
  <2>1. UNCHANGED <<buffer, disk, edits, lastSure, phase, announced, held,
                    inbox, docs, handle, shown>> /\ handle = "none"
    BY <1>8 DEF Dependency, editorVars, sweepVars, TypeOK
  <2>2. CASE todo = <<>>
    <3>1. job' \in [uri : Maybe(Uris), text : Texts, dep : BOOLEAN] /\ main' = "idle"
          /\ todo' = todo
      <4>1. NoJob \in [uri : Maybe(Uris), text : Texts, dep : BOOLEAN]
        BY DocSyncAssumption DEF NoJob, Maybe, DocSyncAssumption
      <4>2. QED
        BY <1>8, <2>2, <4>1 DEF Dependency
    <3>2. QED
      BY <2>1, <3>1 DEF TypeOK
  <2>3. CASE todo # <<>>
    <3>1. todo' \in Seq([fn : Names, uri : Uris]) /\ Head(todo) \in [fn : Names, uri : Uris]
      <4>1. todo \in Seq([fn : Names, uri : Uris])
        BY DEF TypeOK
      <4>2. Tail(todo) \in Seq([fn : Names, uri : Uris]) /\ Head(todo) \in [fn : Names, uri : Uris]
        BY <2>3, <4>1, TailShift
      <4>3. todo' = Tail(todo)
        BY <1>8, <2>3 DEF Dependency, NextCall
      <4>4. QED
        BY <4>2, <4>3
    <3>2. Head(todo).uri \in Uris /\ disk[Head(todo).uri] \in Maybe(Texts)
      BY <3>1 DEF TypeOK
    <3>3. CASE main' = "check" /\ job' = [uri |-> Head(todo).uri,
                                         text |-> disk[Head(todo).uri], dep |-> TRUE]
                /\ disk[Head(todo).uri] # None
      <4>1. job' \in [uri : Maybe(Uris), text : Texts, dep : BOOLEAN] /\ job'.uri \in Uris
        BY <3>2, <3>3 DEF Maybe
      <4>2. QED
        BY <2>1, <3>1, <3>3, <4>1 DEF TypeOK
    <3>4. CASE UNCHANGED <<main, job>>
      <4>1. main = "deps"
        BY <1>8 DEF Dependency
      <4>2. QED
        BY <2>1, <3>1, <3>4, <4>1 DEF TypeOK
    <3>5. QED
      BY <1>8, <2>3, <3>3, <3>4 DEF Dependency
  <2>4. QED
    BY <2>2, <2>3
<1>9. QED
  BY <1>2, <1>3, <1>4, <1>5, <1>6, <1>7, <1>8 DEF MainStep

LEMMA WorkersKeepType == TypeOK /\ WorkerStep => TypeOK'
<1> SUFFICES ASSUME TypeOK, WorkerStep PROVE TypeOK'
  OBVIOUS
<1>1. UNCHANGED <<buffer, disk, edits, lastSure, inbox, main, job, todo, shown>>
  BY DEF WorkerStep, Announce, Take, Finish, editorVars, mainVars
<1>2. CASE Announce
  BY <1>1, <1>2 DEF Announce, Sweep!Announce, TypeOK, mainVars
<1>3. ASSUME NEW u \in Discovered, Take(u)
      PROVE  TypeOK'
  <2>1. phase' \in [Discovered -> Sweep!Phases] /\ announced' = announced
    BY <1>3 DEF Take, Sweep!Take, TypeOK, Sweep!Phases
  <2>2. held' \in [Discovered -> Maybe(Texts)]
    BY <1>3, DocSyncAssumption DEF Take, TypeOK, DocSyncAssumption
  <2>3. UNCHANGED <<docs, handle>>
    BY <1>3 DEF Take, mainVars
  <2>4. QED
    BY <1>1, <2>1, <2>2, <2>3 DEF TypeOK
<1>4. ASSUME NEW u \in Discovered, Finish(u)
      PROVE  TypeOK'
  <2>1. phase' \in [Discovered -> Sweep!Phases] /\ announced' = announced
    BY <1>4 DEF Finish, Sweep!Finish, TypeOK, Sweep!Phases
  <2>2. held' \in [Discovered -> Maybe(Texts)] /\ held[u] \in Maybe(Texts) /\ u \in Uris
    BY <1>4, DocSyncAssumption DEF Finish, TypeOK, Maybe, DocSyncAssumption
  <2>3. docs' \in [Uris -> Maybe(Texts)]
    BY <1>4, <2>2 DEF Finish, TypeOK
  <2>4. /\ handle' \in {"none", "live", "dangling"}
        /\ handle' # "none" <=> handle # "none"
        /\ handle' = "live" => handle = "live" /\ docs'[job.uri] # None
    BY <1>4, <2>2 DEF Finish, TypeOK
  <2>5. QED
    BY <1>1, <2>1, <2>2, <2>3, <2>4 DEF TypeOK
<1>5. QED
  BY <1>2, <1>3, <1>4 DEF WorkerStep

LEMMA TypeStep == TypeOK /\ [Next]_vars => TypeOK'
<1>1. TypeOK /\ UNCHANGED vars => TypeOK'
  BY DEF TypeOK, vars, editorVars, mainVars, sweepVars
<1>2. QED
  BY <1>1, EditorKeepsType, MainKeepsType, WorkersKeepType DEF Next

\* Types of DocSync, for any files, texts and number of edits.
THEOREM SyncTypes == Spec => []TypeOK
<1>1. Init => TypeOK
  BY InitSync DEF SyncInv
<1>2. QED
  BY <1>1, TypeStep, PTL DEF Spec

-------------------------------------------------------------------------------
(* Every action keeps the editor's last word, and closed files dark.        *)

\* The part of the invariant that speaks of one file.
Kept(u) ==
  /\ lastSure[u] => /\ buffer[u] \notin {None, Empty}
                    /\ u \in Discovered => phase[u] = "done"
                    /\ Waits(u) \/ Taken(u)
  /\ buffer[u] = None => Closing(u) \/ Dark(u)

LEMMA KeptAll == (LastWordKept /\ ClosedStayDark) <=> \A u \in Uris : Kept(u)
BY DEF LastWordKept, ClosedStayDark, Kept

LEMMA EditorKeeps ==
  ASSUME SyncInv, EditorStep, NEW u \in Uris
  PROVE  Kept(u)'
<1>1. TypeOK /\ Kept(u) /\ inbox \in Seq(Message)
  BY KeptAll DEF SyncInv, TypeOK, Message
<1>2. UNCHANGED <<mainVars, docs, phase>>
  BY DEF EditorStep, Open, Edit, Close, Write, Delete, EditStep, sweepVars
<1>3. PICK v \in Uris : \/ Close(v) \/ Delete(v)
                        \/ \E t \in Texts : Open(v, t) \/ Edit(v, t) \/ Write(v, t)
  BY DEF EditorStep
<1>4. ASSUME NEW t \in Texts, Open(v, t)
      PROVE  Kept(u)'
  <2> DEFINE m == [kind |-> "open", uri |-> v, text |-> t]
  <2>1. m \in Message /\ inbox' = Append(inbox, m)
    BY <1>4 DEF Message, Open, Say
  <2>m. m.uri = v /\ m.kind = "open" /\ m.text = t
    OBVIOUS
  <2> HIDE DEF m
  <2>2. /\ lastSure'[u] = (/\ u \notin Reaches(t)
                           /\ IF u = v THEN Settled(v, t) ELSE lastSure[u])
        /\ buffer' = [buffer EXCEPT ![v] = t]
    BY <1>4 DEF Open
  <2>3. CASE u = v
    <3>1. buffer'[u] = t /\ t # None
      BY <1>1, <2>2, <2>3, DocSyncAssumption DEF TypeOK, DocSyncAssumption
    <3>2. lastSure'[u] => u \notin Reaches(t) /\ Settled(v, t)
      BY <2>2, <2>3
    <3>3. lastSure'[u] => LastWord(m, u)'
      BY <2>m, <2>3, <3>1, <3>2 DEF LastWord
    <3>4. lastSure'[u] => Waits(u)'
      BY <1>1, <1>2, <2>1, <3>3, SayKeeps
    <3>5. QED
      BY <1>2, <2>3, <3>1, <3>2, <3>4 DEF Kept, Settled
  <2>4. CASE u # v
    <3>1. buffer'[u] = buffer[u]
      BY <1>1, <2>2, <2>4 DEF TypeOK
    <3>2. lastSure'[u] => lastSure[u] /\ ~ Disturbs(m, u)
      BY <2>2, <2>4, <2>m DEF Disturbs
    <3>3. ~ Speaks(m, u)
      BY <2>4, <2>m DEF Speaks
    <3>4. QED
      BY <1>1, <1>2, <2>1, <3>1, <3>2, <3>3, SayKeeps DEF Kept
  <2>5. QED
    BY <2>3, <2>4
<1>5. ASSUME NEW t \in Texts, Edit(v, t)
      PROVE  Kept(u)'
  <2> DEFINE m == [kind |-> "change", uri |-> v, text |-> t]
  <2>1. m \in Message /\ inbox' = Append(inbox, m)
    BY <1>5 DEF Message, Edit, Say
  <2>m. m.uri = v /\ m.kind = "change" /\ m.text = t
    OBVIOUS
  <2> HIDE DEF m
  <2>2. lastSure' = [lastSure EXCEPT ![v] = Settled(v, t)] /\ buffer' = [buffer EXCEPT ![v] = t]
    BY <1>5 DEF Edit
  <2>3. CASE u = v
    <3>1. buffer'[u] = t /\ t # None
      BY <1>1, <2>2, <2>3, DocSyncAssumption DEF TypeOK, DocSyncAssumption
    <3>2. lastSure'[u] => Settled(v, t)
      BY <1>1, <2>2, <2>3 DEF TypeOK
    <3>3. LastWord(m, u)'
      BY <2>m, <2>3, <3>1 DEF LastWord
    <3>4. Waits(u)'
      BY <1>1, <1>2, <2>1, <3>3, SayKeeps
    <3>5. QED
      BY <1>2, <2>3, <3>1, <3>2, <3>4 DEF Kept, Settled
  <2>4. CASE u # v
    <3>1. buffer'[u] = buffer[u] /\ lastSure'[u] = lastSure[u]
      BY <1>1, <2>2, <2>4 DEF TypeOK
    <3>2. ~ Disturbs(m, u) /\ ~ Speaks(m, u)
      BY <2>4, <2>m DEF Disturbs, Speaks
    <3>3. QED
      BY <1>1, <1>2, <2>1, <3>1, <3>2, SayKeeps DEF Kept
  <2>5. QED
    BY <2>3, <2>4
<1>6. CASE Close(v)
  <2> DEFINE m == [kind |-> "close", uri |-> v, text |-> Empty]
  <2>1. m \in Message /\ inbox' = Append(inbox, m)
    BY <1>6, DocSyncAssumption DEF Message, Close, Say, DocSyncAssumption
  <2>m. m.uri = v /\ m.kind = "close"
    OBVIOUS
  <2> HIDE DEF m
  <2>2. lastSure' = [lastSure EXCEPT ![v] = FALSE] /\ buffer' = [buffer EXCEPT ![v] = None]
    BY <1>6 DEF Close
  <2>3. CASE u = v
    <3>1. ~ lastSure'[u]
      BY <1>1, <2>2, <2>3 DEF TypeOK
    <3>2. Closing(u)'
      BY <1>1, <1>2, <2>1, <2>3, <2>m, SayKeeps
    <3>3. QED
      BY <3>1, <3>2 DEF Kept
  <2>4. CASE u # v
    <3>1. buffer'[u] = buffer[u] /\ lastSure'[u] = lastSure[u]
      BY <1>1, <2>2, <2>4 DEF TypeOK
    <3>2. ~ Disturbs(m, u) /\ ~ Speaks(m, u)
      BY <2>4, <2>m DEF Disturbs, Speaks
    <3>3. QED
      BY <1>1, <1>2, <2>1, <3>1, <3>2, SayKeeps DEF Kept
  <2>5. QED
    BY <2>3, <2>4
<1>7. ASSUME NEW t \in Texts, Write(v, t)
      PROVE  Kept(u)'
  <2> DEFINE m == [kind |-> "written", uri |-> v, text |-> Empty]
  <2>1. m \in Message /\ inbox' = Append(inbox, m)
    BY <1>7, DocSyncAssumption DEF Message, Write, Say, DocSyncAssumption
  <2>m. m.uri = v /\ m.kind = "written"
    OBVIOUS
  <2> HIDE DEF m
  <2>2. UNCHANGED <<buffer, lastSure>>
    BY <1>7 DEF Write
  <2>3. ~ Disturbs(m, u) /\ ~ Speaks(m, u)
    BY <2>m DEF Disturbs, Speaks
  <2>4. QED
    BY <1>1, <1>2, <2>1, <2>2, <2>3, SayKeeps DEF Kept
<1>8. CASE Delete(v)
  <2> DEFINE m == [kind |-> "deleted", uri |-> v, text |-> Empty]
  <2>1. m \in Message /\ inbox' = Append(inbox, m)
    BY <1>8, DocSyncAssumption DEF Message, Delete, Say, DocSyncAssumption
  <2>m. m.uri = v /\ m.kind = "deleted"
    OBVIOUS
  <2> HIDE DEF m
  <2>2. lastSure' = [lastSure EXCEPT ![v] = FALSE] /\ buffer' = buffer
    BY <1>8 DEF Delete
  <2>3. lastSure'[u] => lastSure[u] /\ u # v
    BY <1>1, <2>2 DEF TypeOK
  <2>4. (u # v => ~ Disturbs(m, u)) /\ ~ Speaks(m, u)
    BY <2>m DEF Disturbs, Speaks
  <2>5. QED
    BY <1>1, <1>2, <2>1, <2>2, <2>3, <2>4, SayKeeps DEF Kept
<1>9. QED
  BY <1>3, <1>4, <1>5, <1>6, <1>7, <1>8

\* Actions that leave the inbox alone leave what waits in it alone.
LEMMA StillWaiting ==
  ASSUME UNCHANGED <<inbox, buffer>>, NEW u \in Uris
  PROVE  Waits(u)' = Waits(u) /\ Closing(u)' = Closing(u)
BY DEF Waits, Closing, LastWord

LEMMA WorkersKeep ==
  ASSUME SyncInv, WorkerStep, NEW u \in Uris
  PROVE  Kept(u)'
<1>1. TypeOK /\ Kept(u)
  BY KeptAll DEF SyncInv
<1>2. UNCHANGED <<buffer, lastSure, inbox, main, job, todo, shown>>
  BY DEF WorkerStep, Announce, Take, Finish, editorVars, mainVars
<1>3. Waits(u)' = Waits(u) /\ Closing(u)' = Closing(u) /\ Dark(u)' = Dark(u)
  BY <1>2, StillWaiting DEF Dark
<1>4. ASSUME lastSure[u]
      PROVE  /\ u \in Discovered => phase'[u] = "done"
             /\ docs'[u] = docs[u]
             /\ job.uri = u => handle' = handle
  <2>1. CASE Announce
    BY <1>1, <1>4, <2>1 DEF Announce, Sweep!Announce, Kept, mainVars
  <2>2. ASSUME NEW v \in Discovered, Take(v) \/ Finish(v)
        PROVE  /\ u \in Discovered => phase'[u] = "done"
               /\ docs'[u] = docs[u]
               /\ job.uri = u => handle' = handle
    <3>1. v # u
      BY <1>1, <1>4, <2>2 DEF Take, Finish, Sweep!Take, Sweep!Finish, Kept
    <3>2. u \in Discovered => phase'[u] = phase[u]
      BY <1>1, <2>2, <3>1 DEF Take, Finish, Sweep!Take, Sweep!Finish, TypeOK
    <3>3. docs'[u] = docs[u]
      BY <1>1, <2>2, <3>1 DEF Take, Finish, TypeOK
    <3>4. job.uri = u => handle' = handle
      BY <1>1, <2>2, <3>1 DEF Take, Finish, mainVars
    <3>5. QED
      BY <1>1, <1>4, <3>2, <3>3, <3>4 DEF Kept
  <2>3. QED
    BY <2>1, <2>2 DEF WorkerStep
<1>5. lastSure[u] /\ Taken(u) => Taken(u)'
  <2> SUFFICES ASSUME lastSure[u], Taken(u) PROVE Taken(u)'
    OBVIOUS
  <2>1. docs'[u] = docs[u] /\ (job.uri = u => handle' = handle)
    BY <1>4
  <2>2. QED
    BY <1>2, <2>1 DEF Taken
<1>6. QED
  BY <1>1, <1>2, <1>3, <1>4, <1>5 DEF Kept

LEMMA MainKeeps ==
  ASSUME SyncInv, MainStep, NEW u \in Uris
  PROVE  Kept(u)'
<1>1. TypeOK /\ Kept(u) /\ inbox \in Seq(Message)
  BY KeptAll DEF SyncInv, TypeOK, Message
<1>2. UNCHANGED <<buffer, lastSure, phase>>
  BY DEF MainStep, Receive, Forget, Check, Store, GetDocument, Publish, Dependency,
         editorVars, sweepVars
<1>t. /\ docs \in [Uris -> Maybe(Texts)] /\ shown \in [Uris -> Maybe(Texts)]
      /\ main \in {"check", "store", "get", "publish"} => job.uri \in Uris
  BY <1>1 DEF TypeOK
\* It is enough to follow Taken and Dark when the inbox stays.
<1>3. ASSUME UNCHANGED inbox, lastSure[u] /\ Taken(u) => Taken(u)', Dark(u) => Dark(u)'
      PROVE  Kept(u)'
  BY <1>1, <1>2, <1>3, StillWaiting DEF Kept
<1>4. CASE Receive
  <2>1. inbox # <<>> /\ inbox' = Tail(inbox) /\ main = "idle" /\ main' = "check"
        /\ UNCHANGED <<docs, shown, handle>>
    BY <1>4 DEF Receive
  <2> DEFINE m == Head(inbox)
  <2>2. /\ job'.uri = m.uri /\ job'.text = m.text /\ ~ job'.dep
        /\ m.kind \in {"open", "change"}
        /\ todo' = IF m.kind = "open" THEN Calls[m.text] ELSE <<>>
        /\ m \in Message
    BY <1>1, <1>4, TailShift DEF Receive
  <2> HIDE DEF m
  <2>3. u \notin Reaches(m.text) \/ m.kind # "open"
          => \A k \in 1 .. Len(todo') : Found(todo'[k].fn) => todo'[k].uri # u
    BY <2>2 DEF Reaches
  <2>4. /\ Waits(u) => \/ Waits(u)'
                       \/ /\ LastWord(m, u)
                          /\ \A j \in 1 .. Len(inbox') : ~ Disturbs(inbox'[j], u)
        /\ Taken(u) => /\ ~ Disturbs(m, u)
                       /\ \A j \in 1 .. Len(inbox') : ~ Disturbs(inbox'[j], u)
        /\ Closing(u) => \/ Closing(u)'
                         \/ m.uri = u /\ m.kind = "close"
        /\ Dark(u) => /\ ~ Speaks(m, u)
                      /\ \A j \in 1 .. Len(inbox') : ~ Speaks(inbox'[j], u)
    BY <1>1, <1>2, <2>1, TakeKeeps DEF Taken, Dark, m
  <2>5. ASSUME LastWord(m, u), \A j \in 1 .. Len(inbox') : ~ Disturbs(inbox'[j], u)
        PROVE  Taken(u)'
    BY <1>2, <2>1, <2>2, <2>3, <2>5 DEF Taken, LastWord
  <2>6. ASSUME Taken(u)
        PROVE  Taken(u)'
    <3>1. m.uri # u /\ (u \notin Reaches(m.text) \/ m.kind # "open")
      BY <2>2, <2>4, <2>6 DEF Disturbs
    <3>2. SameDocument(docs[u], buffer[u]) /\ shown[u] = docs[u]
      BY <2>1, <2>6 DEF Taken
    <3>3. \A k \in 1 .. Len(todo') : Found(todo'[k].fn) => todo'[k].uri # u
      BY <2>3, <3>1
    <3>4. QED
      BY <1>2, <2>1, <2>2, <2>4, <2>6, <3>1, <3>2, <3>3 DEF Taken
  <2>7. Dark(u) => Dark(u)'
    BY <2>1, <2>2, <2>4 DEF Dark, Speaks
  <2>8. Closing(u) => Closing(u)'
    BY <2>2, <2>4
  <2>9. QED
    BY <1>1, <1>2, <2>4, <2>5, <2>6, <2>7, <2>8 DEF Kept
<1>5. CASE Forget
  <2>1. inbox # <<>> /\ inbox' = Tail(inbox) /\ main = "idle"
        /\ UNCHANGED <<main, job, todo, handle>>
    BY <1>5 DEF Forget
  <2> DEFINE m == Head(inbox)
  <2>2. /\ m \in Message
        /\ \/ /\ m.kind \in {"close", "deleted"}
              /\ docs' = [docs EXCEPT ![m.uri] = None]
              /\ shown' = [shown EXCEPT ![m.uri] = None]
           \/ m.kind = "written" /\ UNCHANGED <<docs, shown>>
    BY <1>1, <1>5, <2>1, TailShift DEF Forget, Cleared
  <2> HIDE DEF m
  <2>3. /\ Waits(u) => \/ Waits(u)'
                       \/ LastWord(m, u)
        /\ Taken(u) => /\ ~ Disturbs(m, u)
                       /\ \A j \in 1 .. Len(inbox') : ~ Disturbs(inbox'[j], u)
        /\ Closing(u) => \/ Closing(u)'
                         \/ /\ m.uri = u /\ m.kind = "close"
                            /\ \A j \in 1 .. Len(inbox') : ~ Speaks(inbox'[j], u)
        /\ Dark(u) => \A j \in 1 .. Len(inbox') : ~ Speaks(inbox'[j], u)
    BY <1>1, <1>2, <2>1, TakeKeeps DEF Taken, Dark, m
  <2>4. Waits(u) => Waits(u)'
    BY <2>2, <2>3 DEF LastWord
  <2>5. ASSUME Taken(u)
        PROVE  Taken(u)'
    <3>1. m.uri # u \/ m.kind = "written"
      BY <2>3, <2>5 DEF Disturbs
    <3>2. docs'[u] = docs[u] /\ shown'[u] = shown[u]
      BY <1>t, <2>2, <3>1
    <3>3. QED
      BY <1>2, <2>1, <2>3, <2>5, <3>2 DEF Taken
  <2>6. Dark(u) => Dark(u)'
    <3>1. shown[u] = None => shown'[u] = None
      BY <1>t, <2>2
    <3>2. QED
      BY <2>1, <2>3, <3>1 DEF Dark
  <2>7. Closing(u) => Closing(u)' \/ Dark(u)'
    <3>1. m.uri = u /\ m.kind = "close" => shown'[u] = None
      BY <1>t, <2>2
    <3>2. QED
      BY <2>1, <2>3, <3>1 DEF Dark
  <2>8. QED
    BY <1>1, <1>2, <2>4, <2>5, <2>6, <2>7 DEF Kept
<1>6. CASE Check
  <2>1. UNCHANGED <<inbox, docs, job, todo, handle, shown>> /\ main = "check"
        /\ main' = (IF job.text = Empty \/ Identical(job.uri, job.text)
                    THEN (IF job.dep THEN "deps" ELSE "get") ELSE "store")
    BY <1>6 DEF Check, Indexed
  <2>2. ASSUME lastSure[u], Taken(u)
        PROVE  Taken(u)'
    <3>1. CASE job.uri = u
      <4>1. job.text = buffer[u] /\ ~ job.dep /\ buffer[u] \notin {None, Empty}
        BY <1>1, <2>1, <2>2, <3>1 DEF Taken, Kept
      <4>2. CASE main' = "store"
        BY <1>2, <2>1, <2>2, <3>1, <4>1, <4>2 DEF Taken
      <4>3. CASE main' # "store"
        <5>1. main' = "get" /\ SameDocument(docs[u], buffer[u])
          BY <2>1, <3>1, <4>1, <4>3 DEF Identical, SameDocument
        <5>2. QED
          BY <1>2, <2>1, <2>2, <3>1, <5>1 DEF Taken
      <4>4. QED
        BY <4>2, <4>3
    <3>2. CASE job.uri # u
      BY <1>2, <2>1, <2>2, <3>2 DEF Taken
    <3>3. QED
      BY <3>1, <3>2
  <2>3. Dark(u) => Dark(u)'
    BY <2>1 DEF Dark
  <2>4. QED
    BY <1>3, <2>1, <2>2, <2>3
<1>7. CASE Store
  <2>1. UNCHANGED <<inbox, job, todo, handle, shown>> /\ main = "store"
        /\ docs' = [docs EXCEPT ![job.uri] = job.text]
        /\ main' = IF job.dep THEN "deps" ELSE "get"
    BY <1>7 DEF Store, Indexed
  <2>2. ASSUME lastSure[u], Taken(u)
        PROVE  Taken(u)'
    <3>1. CASE job.uri = u
      <4>1. job.text = buffer[u] /\ ~ job.dep /\ buffer[u] \notin {None, Empty}
        BY <1>1, <2>1, <2>2, <3>1 DEF Taken, Kept
      <4>2. SameDocument(docs'[u], buffer[u]) /\ main' = "get"
        BY <1>t, <2>1, <3>1, <4>1 DEF SameDocument
      <4>3. QED
        BY <1>2, <2>1, <2>2, <3>1, <4>2 DEF Taken
    <3>2. CASE job.uri # u
      <4>1. docs'[u] = docs[u]
        BY <1>t, <2>1, <3>2
      <4>2. QED
        BY <1>2, <2>1, <2>2, <3>2, <4>1 DEF Taken
    <3>3. QED
      BY <3>1, <3>2
  <2>3. Dark(u) => Dark(u)'
    BY <2>1 DEF Dark
  <2>4. QED
    BY <1>3, <2>1, <2>2, <2>3
<1>8. CASE GetDocument
  <2>1. UNCHANGED <<inbox, docs, job, todo, shown>> /\ main = "get"
        /\ IF docs[job.uri] = None THEN main' = "deps"
                                   ELSE main' = "publish" /\ handle' = "live"
    BY <1>8 DEF GetDocument, Missing
  <2>2. Taken(u) => Taken(u)'
    <3> SUFFICES ASSUME Taken(u) PROVE Taken(u)'
      OBVIOUS
    <3>1. SameDocument(docs[u], buffer[u]) /\ (shown[u] = docs[u] \/ job.uri = u)
      BY <2>1 DEF Taken
    <3>2. job.uri = u => main' = "publish" /\ handle' = "live"
      BY <2>1, <3>1 DEF SameDocument
    <3>3. main' \notin {"check", "store"} /\ (main' = "publish" => handle' = "live")
      BY <2>1
    <3>4. QED
      BY <1>2, <2>1, <3>1, <3>2, <3>3 DEF Taken
  <2>3. Dark(u) => Dark(u)'
    BY <2>1 DEF Dark
  <2>4. QED
    BY <1>3, <2>1, <2>2, <2>3
<1>9. CASE Publish
  <2>1. UNCHANGED <<inbox, docs, job, todo>> /\ main = "publish"
        /\ main' \in {"deps", "crashed"} /\ ~ job.dep
    BY <1>1, <1>9 DEF Publish, TypeOK
  <2>2. /\ job.uri # u => shown'[u] = shown[u]
        /\ job.uri = u /\ handle = "live" => shown'[u] = docs[u]
    BY <1>t, <1>9 DEF Publish
  <2>3. Taken(u) => Taken(u)'
    <3> SUFFICES ASSUME Taken(u) PROVE Taken(u)'
      OBVIOUS
    <3>1. /\ SameDocument(docs[u], buffer[u]) /\ (shown[u] = docs[u] \/ job.uri = u)
          /\ job.uri = u => handle = "live"
      BY <2>1 DEF Taken
    <3>2. shown'[u] = docs[u]
      BY <2>2, <3>1
    <3>3. QED
      BY <1>2, <2>1, <3>1, <3>2 DEF Taken
  <2>4. Dark(u) => Dark(u)'
    BY <2>1, <2>2 DEF Dark
  <2>5. QED
    BY <1>3, <2>1, <2>3, <2>4
<1>10. CASE Dependency
  <2>1. UNCHANGED <<inbox, docs, handle, shown>> /\ main = "deps"
    BY <1>10 DEF Dependency
  <2>2. CASE todo = <<>>
    <3>1. main' = "idle" /\ UNCHANGED todo
      BY <1>10, <2>2 DEF Dependency
    <3>2. QED
      BY <1>2, <1>3, <2>1, <3>1 DEF Taken, Dark
  <2>3. CASE todo # <<>>
    <3>1. todo \in Seq([fn : Names, uri : Uris]) /\ todo' = Tail(todo)
      BY <1>1, <1>10, <2>3 DEF TypeOK, Dependency, NextCall
    <3>2. /\ Len(todo) \in Nat \ {0} /\ Head(todo) = todo[1] /\ Len(todo') = Len(todo) - 1
          /\ \A i \in 1 .. Len(todo) - 1 : todo'[i] = todo[i + 1]
      BY <2>3, <3>1, TailShift
    <3>3. \/ Found(Head(todo).fn) /\ main' = "check" /\ job'.uri = Head(todo).uri /\ job'.dep
          \/ UNCHANGED <<main, job>>
      BY <1>10, <2>3 DEF Dependency
    <3>4. Taken(u) => Taken(u)'
      <4> SUFFICES ASSUME Taken(u) PROVE Taken(u)'
        OBVIOUS
      <4>1. \A k \in 1 .. Len(todo) : Found(todo[k].fn) => todo[k].uri # u
        BY DEF Taken
      <4>2. ASSUME NEW k \in 1 .. Len(todo'), Found(todo'[k].fn)
            PROVE  todo'[k].uri # u
        <5>1. k + 1 \in 1 .. Len(todo) /\ todo'[k] = todo[k + 1]
          BY <3>2
        <5>2. QED
          BY <4>1, <4>2, <5>1
      <4>3. 1 \in 1 .. Len(todo) /\ (Found(Head(todo).fn) => Head(todo).uri # u)
        BY <3>2, <4>1
      <4>4. SameDocument(docs[u], buffer[u]) /\ shown[u] = docs[u]
        BY <2>1 DEF Taken
      <4>5. main' = "check" => job'.uri # u
        BY <2>1, <3>3, <4>3
      <4>6. main' \in {"check", "deps"}
        BY <2>1, <3>3
      <4>7. QED
        BY <1>2, <2>1, <4>2, <4>4, <4>5, <4>6 DEF Taken
    <3>5. Dark(u) => Dark(u)'
      BY <2>1, <3>3 DEF Dark
    <3>6. QED
      BY <1>3, <2>1, <3>4, <3>5
  <2>4. QED
    BY <2>2, <2>3
<1>11. QED
  BY <1>4, <1>5, <1>6, <1>7, <1>8, <1>9, <1>10 DEF MainStep

LEMMA StutterKeeps ==
  ASSUME SyncInv, UNCHANGED vars
  PROVE  \A u \in Uris : Kept(u)'
BY KeptAll DEF SyncInv, vars, editorVars, mainVars, sweepVars, Kept, Waits, Taken,
               Closing, Dark, LastWord

LEMMA SyncInductive == SyncInv /\ [Next]_vars => SyncInv'
<1> SUFFICES ASSUME SyncInv, [Next]_vars PROVE SyncInv'
  OBVIOUS
<1>1. TypeOK'
  BY TypeStep DEF SyncInv
<1>2. \A u \in Uris : Kept(u)'
  BY EditorKeeps, MainKeeps, WorkersKeep, StutterKeeps DEF Next
<1>3. (LastWordKept /\ ClosedStayDark)'
  BY <1>2 DEF LastWordKept, ClosedStayDark, Kept
<1>4. QED
  BY <1>1, <1>3 DEF SyncInv

\* The editor's last word on a file is waiting, in main's hands or in the index;
\* and what is closed stays dark.
THEOREM LastWordSafe == Spec => []SyncInv
BY InitSync, SyncInductive, PTL DEF Spec

LEMMA QuietMeans == SyncInv => LastWordIndexed /\ DiagnosticsCurrent
<1> SUFFICES ASSUME SyncInv, Quiet, NEW u \in Uris
             PROVE  /\ lastSure[u] => SameDocument(docs[u], buffer[u]) /\ shown[u] = docs[u]
                    /\ buffer[u] = None => shown[u] = None
  BY DEF LastWordIndexed, DiagnosticsCurrent
<1>1. Len(inbox) = 0 /\ main = "idle"
  BY DEF Quiet
<1>2. ~ Waits(u) /\ ~ Closing(u)
  BY <1>1 DEF Waits, Closing
<1>3. QED
  BY <1>1, <1>2 DEF SyncInv, LastWordKept, ClosedStayDark, Taken, Dark

\* Whatever the interleaving of the editor, the main thread and the workers, once
\* main has caught up the index has the editor's last word on every file on which
\* it came after the workers.
THEOREM IndexFollowsEditor == Spec => []LastWordIndexed
BY LastWordSafe, QuietMeans, PTL

\* And the diagnostics on display are those of that document.
THEOREM DiagnosticsFollowIndex == Spec => []DiagnosticsCurrent
BY LastWordSafe, QuietMeans, PTL
===============================================================================
