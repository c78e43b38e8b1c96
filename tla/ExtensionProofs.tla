----------------------------- MODULE ExtensionProofs -----------------------------
(***************************************************************************)
(* Proofs about the extension's life cycle, for any number of starts,      *)
(* crashes, config files and changes of them.                              *)
(***************************************************************************)
EXTENDS Extension, SequenceTheorems, TLAPS

Phase == {"finding", "found", "starting", "verifying", "done", "failed", "closed"}
State == {"none", "starting", "running", "stopping", "stopped", "startFailed"}
Work  == {"idle", "ready early", "indexing", "ready"}
Start == [phase : Phase, state : State, waiting : Nat, work : Work,
          handled : BOOLEAN, asked : Nat, found : SUBSET ConfigFiles, unsure : SUBSET ConfigFiles]

StartTypes == starts \in Seq(Start) /\ client \in 0 .. Len(starts) /\ patient \in BOOLEAN
ConfigTypes ==
  /\ watchers \in Nat /\ files \in SUBSET ConfigFiles /\ configFiles \in [ConfigFiles -> Nat]
  /\ events \in [ConfigFiles -> Seq(EventTypes)] /\ pending \in [ConfigFiles -> Seq(EventTypes)]
  /\ missed \in SUBSET ConfigFiles /\ rushed \in SUBSET ConfigFiles
  /\ misreported \in SUBSET ConfigFiles
CountTypes == crashes \in Nat /\ changes \in Nat /\ timers \in Nat /\ bar \in {"shown", "hidden"}
HistoryTypes == cutOff \in BOOLEAN /\ rejected \in BOOLEAN
TypeOK == StartTypes /\ ConfigTypes /\ CountTypes /\ HistoryTypes

\* Of one start: who waits for a client to stop waits for one that will or has, and
\* the client comes with the second part of doStartServer.
StopAwaited ==
  \A i \in Starts :
    /\ starts[i].waiting > 0 => starts[i].state \in {"stopping", "stopped"}
    /\ starts[i].phase \in {"finding", "found"} => starts[i].state = "none"

\* A patient user's starts are in one line: at most one thing goes on at a time, a
\* start before it has a client (with no server alive), a server, or a restart
\* that waits for it.
InLine ==
  /\ \A i \in Starts : Alive(i) => i = client
  /\ \A i, j \in Starts : Underway(i) /\ Underway(j) => i = j
  /\ \A i \in Starts : starts[i].waiting > 0 =>
       /\ i = client /\ starts[i].waiting = 1
       /\ \A j \in Starts : ~Underway(j)
  /\ \A i \in Starts : starts[i].phase \in {"finding", "found"} => \A j \in Starts : ~Alive(j)

StartsInv == StartTypes /\ StopAwaited /\ (patient => InLine)

LEMMA NewStart ==
  /\ New \in Start
  /\ New.phase = "finding" /\ New.state = "none" /\ New.waiting = 0
BY DEF New, Start, Phase, State, Work

\* One more start.
LEMMA OneMore ==
  ASSUME NEW ss \in Seq(Start)
  PROVE  /\ Append(ss, New) \in Seq(Start)
         /\ Len(Append(ss, New)) = Len(ss) + 1
         /\ DOMAIN Append(ss, New) = DOMAIN ss \cup {Len(ss) + 1}
         /\ DOMAIN ss = 1 .. Len(ss) /\ Len(ss) \in Nat
         /\ \A j \in DOMAIN ss : Append(ss, New)[j] = ss[j]
         /\ Append(ss, New)[Len(ss) + 1] = New
BY NewStart, AppendProperties, LenProperties

\* Another record for one start.
LEMMA OneChanged ==
  ASSUME NEW ss \in Seq(Start), NEW i \in DOMAIN ss, NEW s \in Start
  PROVE  LET tt == [ss EXCEPT ![i] = s]
         IN  /\ tt \in Seq(Start) /\ Len(tt) = Len(ss) /\ DOMAIN tt = DOMAIN ss
             /\ \A j \in DOMAIN ss : tt[j] = IF j = i THEN s ELSE ss[j]
BY ExceptSeq, LenProperties

LEMMA LengthOf ==
  ASSUME NEW S, NEW s \in Seq(S), NEW n \in Nat, DOMAIN s = 1 .. n
  PROVE  Len(s) = n
<1>1. Len(s) \in Nat /\ 1 .. Len(s) = 1 .. n
  BY LenProperties
<1>2. \A m \in Nat : m = 0 \/ m \in 1 .. m
  OBVIOUS
<1>3. Len(s) <= n /\ n <= Len(s)
  BY <1>1, <1>2
<1> QED  BY <1>1, <1>3

-------------------------------------------------------------------------------
(* Steps of the starts                                                      *)

\* What brings no server to life and no start before its client.
LEMMA LineStays ==
  ASSUME StartsInv, starts' \in Seq(Start), Len(starts') = Len(starts),
         UNCHANGED <<client, patient>>,
         \A j \in Starts :
           /\ starts'[j].waiting = starts[j].waiting \/ starts'[j].waiting = 0
           /\ starts[j].state \in {"stopping", "stopped"} =>
                starts'[j].state \in {"stopping", "stopped"}
           /\ starts[j].state = "none" => starts'[j].state = "none"
           /\ Alive(j)' => Alive(j)
           /\ Underway(j)' => Underway(j)
           /\ starts'[j].phase \in {"finding", "found"} => starts[j].phase \in {"finding", "found"}
  PROVE  StartsInv'
<1>1. Starts' = Starts
  BY LenProperties DEF StartsInv, StartTypes, Starts
<1>2. StartTypes' /\ StopAwaited'
  BY <1>1 DEF StartsInv, StartTypes, StopAwaited
<1>3. patient => InLine'
  BY <1>1 DEF StartsInv, InLine
<1> QED  BY <1>2, <1>3 DEF StartsInv

LEMMA StartOf ==
  ASSUME StartTypes, NEW i \in Starts
  PROVE  starts[i] \in Start
BY ElementOfSeq, LenProperties DEF StartTypes, Starts

LEMMA OneStart ==
  ASSUME StartsInv, UNCHANGED <<client, patient>>,
         NEW i \in Starts, NEW s \in Start, starts' = [starts EXCEPT ![i] = s],
         s.waiting = starts[i].waiting \/ s.waiting = 0,
         starts[i].state \in {"stopping", "stopped"} => s.state \in {"stopping", "stopped"},
         starts[i].state = "none" => s.state = "none",
         s.state \in {"starting", "running", "stopping"} => Alive(i),
         s.phase \in {"finding", "found", "starting"} => Underway(i),
         s.phase \in {"finding", "found"} => starts[i].phase \in {"finding", "found"}
  PROVE  StartsInv'
<1>1. /\ starts' \in Seq(Start) /\ Len(starts') = Len(starts)
      /\ \A j \in Starts : starts'[j] = IF j = i THEN s ELSE starts[j]
  BY OneChanged DEF StartsInv, StartTypes, Starts
<1> QED  BY <1>1, LineStays DEF Alive, Underway

LEMMA FindStep ==
  ASSUME StartsInv, TypeOK, NEW i \in Starts, Find(i)  PROVE  StartsInv'
<1> DEFINE s == [starts[i] EXCEPT !.phase = "found", !.found = files,
                                !.unsure = {f \in ConfigFiles : ~Settled(f)}]
<1>1. starts[i] \in Start
  BY StartOf DEF StartsInv
<1>2. s \in Start
  BY <1>1 DEF TypeOK, ConfigTypes, Start, Phase, State, Work
<1>3. starts' = [starts EXCEPT ![i] = s] /\ UNCHANGED <<client, patient>>
  BY Zenon DEF Find, userVars
<1>4. s.phase = "found" /\ starts[i].phase = "finding" /\ s.state = starts[i].state /\ s.waiting = starts[i].waiting
  BY <1>1 DEF Find, Start, Alive, Underway
<1> HIDE DEF s
<1> QED  BY <1>2, <1>3, <1>4, OneStart DEF Alive, Underway

LEMMA MissingStep ==
  ASSUME StartsInv, NEW i \in Starts, Missing(i)  PROVE  StartsInv'
<1> DEFINE s == [starts[i] EXCEPT !.phase = "failed", !.found = {}, !.unsure = {}]
<1>1. starts[i] \in Start
  BY StartOf DEF StartsInv
<1>2. s \in Start
  BY <1>1 DEF Start, Phase, State, Work
<1>3. starts' = [starts EXCEPT ![i] = s] /\ UNCHANGED <<client, patient>>
  BY Zenon DEF Missing, userVars
<1>4. s.phase = "failed" /\ s.state = starts[i].state /\ s.waiting = starts[i].waiting
  BY <1>1 DEF Missing, Start, Alive, Underway
<1> HIDE DEF s
<1> QED  BY <1>2, <1>3, <1>4, OneStart DEF Alive, Underway

LEMMA VerifyStep ==
  ASSUME StartsInv, NEW i \in Starts, Verify(i)  PROVE  StartsInv'
<1> DEFINE s == [starts[i] EXCEPT !.phase = "done", !.asked = 0]
<1>1. starts[i] \in Start
  BY StartOf DEF StartsInv
<1>2. s \in Start
  BY <1>1 DEF Start, Phase, State, Work
<1>3. starts' = [starts EXCEPT ![i] = s] /\ UNCHANGED <<client, patient>>
  BY Zenon DEF Verify, userVars
<1>4. s.phase = "done" /\ s.state = starts[i].state /\ s.waiting = starts[i].waiting
  BY <1>1 DEF Verify, Start, Alive, Underway
<1> HIDE DEF s
<1> QED  BY <1>2, <1>3, <1>4, OneStart DEF Alive, Underway

LEMMA DismissStep ==
  ASSUME StartsInv, NEW i \in Starts, Dismiss(i)  PROVE  StartsInv'
<1> DEFINE s == [starts[i] EXCEPT !.phase = "closed"]
<1>1. starts[i] \in Start
  BY StartOf DEF StartsInv
<1>2. s \in Start
  BY <1>1 DEF Start, Phase, State, Work
<1>3. starts' = [starts EXCEPT ![i] = s] /\ UNCHANGED <<client, patient>>
  BY Zenon DEF Dismiss, userVars
<1>4. s.phase = "closed" /\ s.state = starts[i].state /\ s.waiting = starts[i].waiting
  BY <1>1 DEF Dismiss, Start, Alive, Underway
<1> HIDE DEF s
<1> QED  BY <1>2, <1>3, <1>4, OneStart DEF Alive, Underway

LEMMA ConnectStep ==
  ASSUME StartsInv, NEW i \in Starts, Connect(i)  PROVE  StartsInv'
<1> DEFINE s == [starts[i] EXCEPT !.state = "running"]
<1>1. starts[i] \in Start
  BY StartOf DEF StartsInv
<1>2. s \in Start
  BY <1>1 DEF Start, Phase, State, Work
<1>3. starts' = [starts EXCEPT ![i] = s] /\ UNCHANGED <<client, patient>>
  BY Zenon DEF Connect, userVars
<1>4. s.state = "running" /\ starts[i].state = "starting" /\ s.phase = starts[i].phase /\ s.waiting = starts[i].waiting
  BY <1>1 DEF Connect, Start, Alive, Underway
<1> HIDE DEF s
<1> QED  BY <1>2, <1>3, <1>4, OneStart DEF Alive, Underway

LEMMA FailToStartStep ==
  ASSUME StartsInv, NEW i \in Starts, FailToStart(i)  PROVE  StartsInv'
<1> DEFINE s == [starts[i] EXCEPT !.state = "startFailed", !.work = "idle",
                                !.phase = IF @ = "starting" THEN "failed" ELSE @]
<1>1. starts[i] \in Start
  BY StartOf DEF StartsInv
<1>2. s \in Start
  BY <1>1 DEF Start, Phase, State, Work
<1>3. starts' = [starts EXCEPT ![i] = s] /\ UNCHANGED <<client, patient>>
  BY Zenon DEF FailToStart, userVars
<1>4. /\ s.state = "startFailed" /\ starts[i].state = "starting" /\ s.waiting = starts[i].waiting
      /\ s.phase = "failed" \/ s.phase = starts[i].phase
  BY <1>1 DEF FailToStart, Start, Alive, Underway
<1> HIDE DEF s
<1> QED  BY <1>2, <1>3, <1>4, OneStart DEF Alive, Underway

LEMMA CrashStep ==
  ASSUME StartsInv, NEW i \in Starts, Crash(i)  PROVE  StartsInv'
<1> DEFINE s == [starts[i] EXCEPT !.state = "starting", !.work = "idle"]
<1>1. starts[i] \in Start
  BY StartOf DEF StartsInv
<1>2. s \in Start
  BY <1>1 DEF Start, Phase, State, Work
<1>3. starts' = [starts EXCEPT ![i] = s] /\ UNCHANGED <<client, patient>>
  BY Zenon DEF Crash, userVars
<1>4. s.state = "starting" /\ starts[i].state = "running" /\ s.phase = starts[i].phase /\ s.waiting = starts[i].waiting
  BY <1>1 DEF Crash, Start, Alive, Underway
<1> HIDE DEF s
<1> QED  BY <1>2, <1>3, <1>4, OneStart DEF Alive, Underway

LEMMA StoppedStep ==
  ASSUME StartsInv, NEW i \in Starts, Stopped(i)  PROVE  StartsInv'
<1> DEFINE s == [starts[i] EXCEPT !.state = "stopped", !.work = "idle"]
<1>1. starts[i] \in Start
  BY StartOf DEF StartsInv
<1>2. s \in Start
  BY <1>1 DEF Start, Phase, State, Work
<1>3. starts' = [starts EXCEPT ![i] = s] /\ UNCHANGED <<client, patient>>
  BY Zenon DEF Stopped, userVars
<1>4. s.state = "stopped" /\ starts[i].state = "stopping" /\ s.phase = starts[i].phase /\ s.waiting = starts[i].waiting
  BY <1>1 DEF Stopped, Start, Alive, Underway
<1> HIDE DEF s
<1> QED  BY <1>2, <1>3, <1>4, OneStart DEF Alive, Underway

LEMMA StopFailsStep ==
  ASSUME StartsInv, NEW i \in Starts, StopFails(i)  PROVE  StartsInv'
<1> DEFINE s == [starts[i] EXCEPT !.state = "stopped", !.work = "idle", !.waiting = 0]
<1>1. starts[i] \in Start
  BY StartOf DEF StartsInv
<1>2. s \in Start
  BY <1>1 DEF Start, Phase, State, Work
<1>3. starts' = [starts EXCEPT ![i] = s] /\ UNCHANGED <<client, patient>>
  BY Zenon DEF StopFails
<1>4. s.state = "stopped" /\ starts[i].state = "stopping" /\ s.phase = starts[i].phase /\ s.waiting = 0
  BY <1>1 DEF StopFails, Start, Alive, Underway
<1> HIDE DEF s
<1> QED  BY <1>2, <1>3, <1>4, OneStart DEF Alive, Underway

LEMMA ProgressStep ==
  ASSUME StartsInv, NEW i \in Starts, Progress(i)  PROVE  StartsInv'
<1>0. PICK w \in NextWork(starts[i].work) : starts' = [starts EXCEPT ![i].work = w]
  BY DEF Progress
<1> DEFINE s == [starts[i] EXCEPT !.work = w]
<1>1. starts[i] \in Start
  BY StartOf DEF StartsInv
<1>2. s \in Start
  BY <1>1 DEF NextWork, Start, Phase, State, Work
<1>3. starts' = [starts EXCEPT ![i] = s] /\ UNCHANGED <<client, patient>>
  BY Zenon, <1>0 DEF Progress, userVars
<1>4. s.state = starts[i].state /\ s.phase = starts[i].phase /\ s.waiting = starts[i].waiting
  BY <1>1 DEF Start
<1> HIDE DEF s
<1> QED  BY <1>2, <1>3, <1>4, OneStart DEF Alive, Underway

\* A change on disk makes what has been found unsure, and nothing else of a start.
LEMMA DiskStarts ==
  ASSUME StartTypes, NEW type \in EventTypes, NEW uri \in ConfigFiles, Disk(type, uri)
  PROVE  /\ starts' \in Seq(Start) /\ Len(starts') = Len(starts) /\ Starts' = Starts
         /\ \A j \in Starts :
              /\ starts'[j].phase = starts[j].phase /\ starts'[j].state = starts[j].state
              /\ starts'[j].waiting = starts[j].waiting /\ starts'[j].found = starts[j].found
              /\ starts[j].phase = "found" => starts'[j].unsure = starts[j].unsure \cup {uri}
<1> DEFINE touch(j) == IF starts[j].phase = "found"
                      THEN [starts[j] EXCEPT !.unsure = starts[j].unsure \cup {uri}] ELSE starts[j]
<1>1. starts' = [j \in Starts |-> touch(j)]
  BY Zenon DEF Disk
<1>2. Starts = 1 .. Len(starts) /\ Len(starts) \in Nat
  BY LenProperties DEF StartTypes, Starts
<1>3. ASSUME NEW j \in Starts
      PROVE  /\ touch(j) \in Start
             /\ touch(j).phase = starts[j].phase /\ touch(j).state = starts[j].state
             /\ touch(j).waiting = starts[j].waiting /\ touch(j).found = starts[j].found
             /\ starts[j].phase = "found" => touch(j).unsure = starts[j].unsure \cup {uri}
  <2>1. starts[j] \in Start
    BY StartOf
  <2> QED  BY <2>1 DEF Start
<1> HIDE DEF touch
<1>4. starts' \in Seq(Start)
  BY <1>1, <1>2, <1>3, SeqDef
<1>5. DOMAIN starts' = 1 .. Len(starts)
  BY <1>1, <1>2
<1>6. Len(starts') = Len(starts)
  BY <1>2, <1>4, <1>5, LengthOf
<1> QED  BY <1>1, <1>2, <1>3, <1>4, <1>5, <1>6 DEF Starts

\* The registration touches two starts: the one that goes on, and the one of the client.
LEMMA RegisterStep ==
  ASSUME StartsInv, NEW i \in Starts, Register(i)  PROVE  StartsInv'
<1> DEFINE s  == [starts[i] EXCEPT !.phase = "verifying", !.asked = client]
           ss == [starts EXCEPT ![i] = s]
           r  == [ss[client] EXCEPT !.handled = TRUE]
<1>1. starts[i] \in Start /\ client \in Nat
  BY StartOf, LenProperties DEF StartsInv, StartTypes
<1>2. s \in Start
  BY <1>1 DEF Start, Phase
<1>3. starts' = [ss EXCEPT ![client] = r] /\ UNCHANGED <<client, patient>>
  BY Zenon DEF Register, userVars
<1>4. s.phase = "verifying" /\ s.state = starts[i].state /\ s.waiting = starts[i].waiting
  BY <1>1 DEF Start
<1> HIDE DEF s
<1>5. /\ ss \in Seq(Start) /\ Len(ss) = Len(starts) /\ DOMAIN ss = Starts
      /\ \A j \in Starts : ss[j] = IF j = i THEN s ELSE starts[j]
  BY <1>2, OneChanged DEF StartsInv, StartTypes, Starts
<1> HIDE DEF ss
<1>6. CASE client \in Starts
  <2>1. ss[client] \in Start
    BY <1>5, <1>6, ElementOfSeq, LenProperties
  <2>2. r \in Start /\ r.phase = ss[client].phase /\ r.state = ss[client].state
        /\ r.waiting = ss[client].waiting
    BY <2>1 DEF Start
  <2> HIDE DEF r
  <2>3. /\ starts' \in Seq(Start) /\ Len(starts') = Len(starts)
        /\ \A j \in Starts : starts'[j] = IF j = client THEN r ELSE ss[j]
    BY <1>3, <1>5, <1>6, <2>2, OneChanged
  <2> QED  BY <1>3, <1>4, <1>5, <2>2, <2>3, LineStays DEF Alive, Underway
<1>7. CASE client \notin Starts
  <2>1. starts' = ss
    BY <1>3, <1>5, <1>7
  <2> QED  BY <1>3, <1>4, <1>5, <2>1, LineStays DEF Alive, Underway
<1> QED  BY <1>6, <1>7

\* The new client takes the place of luaContext.client: no other is alive.
LEMMA CreateStep ==
  ASSUME StartsInv, NEW i \in Starts, Create(i)  PROVE  StartsInv'
<1> DEFINE s == [starts[i] EXCEPT !.phase = "starting", !.state = "starting",
                                !.found = {}, !.unsure = {}]
<1>1. starts[i] \in Start
  BY StartOf DEF StartsInv
<1>2. s \in Start
  BY <1>1 DEF Start, Phase, State
<1>3. starts' = [starts EXCEPT ![i] = s] /\ client' = i /\ UNCHANGED patient
  BY Zenon DEF Create, userVars
<1>4. s.phase = "starting" /\ s.state = "starting" /\ s.waiting = starts[i].waiting
      /\ starts[i].phase = "found"
  BY <1>1 DEF Create, Start
<1> HIDE DEF s
<1>5. /\ starts' \in Seq(Start) /\ Len(starts') = Len(starts) /\ DOMAIN starts' = DOMAIN starts
      /\ \A j \in Starts : starts'[j] = IF j = i THEN s ELSE starts[j]
  BY <1>2, <1>3, OneChanged DEF StartsInv, StartTypes, Starts
<1>6. Starts' = Starts /\ Starts = 1 .. Len(starts)
  BY <1>5, LenProperties DEF Starts, StartsInv, StartTypes
<1>7. StartTypes'
  BY <1>3, <1>5, <1>6 DEF StartsInv, StartTypes
<1>8. starts[i].waiting \in Nat
  BY <1>1 DEF Start
<1>9. StopAwaited'
  BY <1>4, <1>5, <1>6 DEF StartsInv, StopAwaited
<1>10. ASSUME patient  PROVE  InLine'
  <2>1. InLine /\ Underway(i) /\ \A j \in Starts : ~Alive(j)
    BY <1>4, <1>10 DEF StartsInv, InLine, Underway
  <2>2. \A j \in Starts : starts[j].waiting > 0 => FALSE
    BY <2>1 DEF InLine
  <2>3. \A j \in Starts : Underway(j)' => j = i
    BY <1>5, <2>1 DEF Underway, InLine
  <2>4. \A j \in Starts : Alive(j)' => j = i
    BY <1>5, <2>1 DEF Alive
  <2>5. \A j \in Starts : ~ (starts'[j].waiting > 0)
    BY <1>4, <1>5, <2>2
  <2>6. \A j \in Starts : starts'[j].phase \notin {"finding", "found"}
    BY <1>4, <1>5, <2>3 DEF Underway
  <2> QED  BY <1>3, <1>6, <2>3, <2>4, <2>5, <2>6 DEF InLine
<1> QED  BY <1>3, <1>7, <1>9, <1>10 DEF StartsInv

\* A start is begun, for a patient user when nothing else goes on.
LEMMA NewInLine ==
  ASSUME StartsInv, NEW ss \in Seq(Start), Len(ss) = Len(starts),
         starts' = Append(ss, New), UNCHANGED client, patient' \in BOOLEAN,
         \A j \in Starts :
           /\ ss[j].waiting > 0 => ss[j].state \in {"stopping", "stopped"}
           /\ ss[j].phase \in {"finding", "found"} => ss[j].state = "none",
         patient' => \A j \in Starts :
           /\ ss[j].state \notin {"starting", "running", "stopping"}
           /\ ss[j].phase \notin {"finding", "found", "starting"}
           /\ ~ (ss[j].waiting > 0)
  PROVE  StartsInv'
<1> DEFINE n == Len(starts) + 1
<1>1. /\ starts' \in Seq(Start) /\ Len(starts') = n /\ Starts' = Starts \cup {n}
      /\ Starts = 1 .. Len(starts) /\ Len(starts) \in Nat
      /\ \A j \in Starts : starts'[j] = ss[j]
      /\ starts'[n] = New
  BY OneMore, LenProperties DEF Starts, StartsInv, StartTypes
<1>2. client \in 0 .. Len(starts)
  BY DEF StartsInv, StartTypes
<1>3. StartTypes'
  BY <1>1, <1>2 DEF StartTypes
<1>4. n \notin Starts
  BY <1>1
<1> HIDE DEF n
<1>5. StopAwaited'
  BY <1>1, <1>4, NewStart DEF StopAwaited
<1>6. ASSUME patient'  PROVE  InLine'
  <2>1. \A j \in Starts' : ~ Alive(j)' /\ ~ (starts'[j].waiting > 0)
    BY <1>1, <1>6, NewStart DEF Alive
  <2>2. \A j \in Starts' : Underway(j)' => j = n
    BY <1>1, <1>6, NewStart DEF Underway
  <2> QED  BY <2>1, <2>2 DEF InLine
<1> QED  BY <1>3, <1>5, <1>6 DEF StartsInv

LEMMA TryAgainStep ==
  ASSUME StartsInv, NEW i \in Starts, TryAgain(i)  PROVE  StartsInv'
<1> DEFINE s  == [starts[i] EXCEPT !.phase = "closed"]
           ss == [starts EXCEPT ![i] = s]
<1>1. starts[i] \in Start
  BY StartOf DEF StartsInv
<1>2. s \in Start
  BY <1>1 DEF Start, Phase
<1>3. starts' = Append(ss, New) /\ UNCHANGED client
      /\ patient' = (patient /\ ~InProgress /\ ~Waiting /\ ~\E j \in Starts : Alive(j))
  BY Zenon DEF TryAgain, userVars
<1>4. s.phase = "closed" /\ s.state = starts[i].state /\ s.waiting = starts[i].waiting
  BY <1>1 DEF Start
<1> HIDE DEF s
<1>5. /\ ss \in Seq(Start) /\ Len(ss) = Len(starts)
      /\ \A j \in Starts : ss[j] = IF j = i THEN s ELSE starts[j]
  BY <1>2, OneChanged DEF StartsInv, StartTypes, Starts
<1> HIDE DEF ss
<1>6. \A j \in Starts :
        /\ ss[j].waiting > 0 => ss[j].state \in {"stopping", "stopped"}
        /\ ss[j].phase \in {"finding", "found"} => ss[j].state = "none"
  BY <1>4, <1>5 DEF StartsInv, StopAwaited
<1>7. patient' => \A j \in Starts :
        /\ ss[j].state \notin {"starting", "running", "stopping"}
        /\ ss[j].phase \notin {"finding", "found", "starting"}
        /\ ~ (ss[j].waiting > 0)
  BY <1>3, <1>4, <1>5 DEF InProgress, Waiting, Alive, Underway
<1>8. patient' \in BOOLEAN
  BY <1>3
<1> QED  BY <1>3, <1>5, <1>6, <1>7, <1>8, NewInLine

LEMMA ContinueStep ==
  ASSUME StartsInv, NEW i \in Starts, Continue(i)  PROVE  StartsInv'
<1> DEFINE s  == [starts[i] EXCEPT !.waiting = starts[i].waiting - 1]
           ss == [starts EXCEPT ![i] = s]
<1>1. starts[i] \in Start /\ starts[i].waiting \in Nat /\ starts[i].waiting > 0
      /\ starts[i].state = "stopped"
  BY StartOf DEF StartsInv, Start, Continue
<1>2. s \in Start
  BY <1>1 DEF Start
<1>3. starts' = Append(ss, New) /\ UNCHANGED <<client, patient>>
  BY Zenon DEF Continue, userVars
<1>4. s.phase = starts[i].phase /\ s.state = "stopped" /\ s.waiting = starts[i].waiting - 1
  BY <1>1 DEF Start
<1> HIDE DEF s
<1>5. /\ ss \in Seq(Start) /\ Len(ss) = Len(starts)
      /\ \A j \in Starts : ss[j] = IF j = i THEN s ELSE starts[j]
  BY <1>2, OneChanged DEF StartsInv, StartTypes, Starts
<1> HIDE DEF ss
<1>6. \A j \in Starts :
        /\ ss[j].waiting > 0 => ss[j].state \in {"stopping", "stopped"}
        /\ ss[j].phase \in {"finding", "found"} => ss[j].state = "none"
  BY <1>1, <1>4, <1>5 DEF StartsInv, StopAwaited
<1>7. ASSUME patient'
      PROVE  \A j \in Starts :
        /\ ss[j].state \notin {"starting", "running", "stopping"}
        /\ ss[j].phase \notin {"finding", "found", "starting"}
        /\ ~ (ss[j].waiting > 0)
  <2>1. InLine
    BY <1>3, <1>7 DEF StartsInv
  <2>2. i = client /\ starts[i].waiting = 1 /\ \A j \in Starts : ~Underway(j)
    BY <1>1, <2>1 DEF InLine
  <2>3. s.waiting = 0
    BY <1>4, <2>2
  <2>4. \A j \in Starts : j # i => ~ (starts[j].waiting > 0) /\ ~Alive(j)
    BY <2>1, <2>2 DEF InLine
  <2> QED  BY <1>4, <1>5, <2>2, <2>3, <2>4 DEF Alive, Underway
<1>8. patient' \in BOOLEAN
  BY <1>3 DEF StartsInv, StartTypes
<1> QED  BY <1>3, <1>5, <1>6, <1>7, <1>8, NewInLine

LEMMA RestartStep ==
  ASSUME StartsInv, Restart  PROVE  StartsInv'
<1>0. patient' = (patient /\ ~InProgress /\ ~Waiting) /\ UNCHANGED client
  BY DEF Restart, userVars
<1>b. patient' \in BOOLEAN
  BY <1>0
<1>1. CASE client = 0 /\ starts' = Append(starts, New)
  <2>1. \A j \in Starts :
        /\ starts[j].waiting > 0 => starts[j].state \in {"stopping", "stopped"}
        /\ starts[j].phase \in {"finding", "found"} => starts[j].state = "none"
    BY DEF StartsInv, StopAwaited
  <2>2. ASSUME patient'
        PROVE  \A j \in Starts :
        /\ starts[j].state \notin {"starting", "running", "stopping"}
        /\ starts[j].phase \notin {"finding", "found", "starting"}
        /\ ~ (starts[j].waiting > 0)
    <3>1. InLine /\ ~InProgress /\ ~Waiting
      BY <1>0, <2>2 DEF StartsInv
    <3>2. \A j \in Starts : j # 0
      BY LenProperties DEF Starts, StartsInv, StartTypes
    <3> QED  BY <1>1, <3>1, <3>2 DEF InLine, InProgress, Waiting, Alive, Underway
  <2>3. starts \in Seq(Start)
    BY DEF StartsInv, StartTypes
  <2> HIDE DEF StartsInv
  <2> QED  BY <1>0, <1>b, <1>1, <2>1, <2>2, <2>3, NewInLine
<1>2. CASE client # 0
  <2> DEFINE s == [starts[client] EXCEPT !.waiting = starts[client].waiting + 1,
                     !.state = IF starts[client].state = "running" THEN "stopping"
                               ELSE starts[client].state]
  <2>1. client \in Starts /\ Starts = 1 .. Len(starts) /\ Len(starts) \in Nat
    BY <1>2, LenProperties DEF Starts, StartsInv, StartTypes
  <2>2. starts[client] \in Start
    BY <2>1, StartOf DEF StartsInv
  <2>3. starts[client].waiting \in Nat /\ starts[client].state \in {"running", "stopping", "stopped"}
    BY <1>2, <2>2 DEF Start, Restart
  <2>4. s \in Start
    <3>1. starts[client].waiting + 1 \in Nat
      BY <2>3
    <3>2. (IF starts[client].state = "running" THEN "stopping" ELSE starts[client].state) \in State
      BY <2>3 DEF State
    <3> QED  BY <2>2, <3>1, <3>2 DEF Start
  <2>5. starts' = [starts EXCEPT ![client] = s]
    BY Zenon, <1>2 DEF Restart
  <2>6. s.phase = starts[client].phase /\ s.waiting = starts[client].waiting + 1
        /\ s.state \in {"stopping", "stopped"}
    BY <2>2, <2>3 DEF Start
  <2> HIDE DEF s
  <2>7. /\ starts' \in Seq(Start) /\ Len(starts') = Len(starts) /\ DOMAIN starts' = DOMAIN starts
        /\ \A j \in Starts : starts'[j] = IF j = client THEN s ELSE starts[j]
    BY <2>1, <2>4, <2>5, OneChanged DEF StartsInv, StartTypes, Starts
  <2>8. Starts' = Starts
    BY <2>7 DEF Starts
  <2>9. StartTypes'
    BY <1>0, <1>b, <2>7 DEF StartsInv, StartTypes
  <2>10. StopAwaited'
    <3>1. \A j \in Starts : j # client => starts'[j] = starts[j]
      BY <2>7
    <3>2. starts[client].state # "none"
      BY <2>3
    <3>3. starts'[client] = s /\ s.phase \notin {"finding", "found"}
      BY <2>1, <2>6, <2>7, <3>2 DEF StartsInv, StopAwaited
    <3> QED  BY <2>6, <2>8, <3>1, <3>3 DEF StartsInv, StopAwaited
  <2>11. ASSUME patient'  PROVE  InLine'
    <3>1. InLine /\ ~InProgress /\ ~Waiting
      BY <1>0, <2>11 DEF StartsInv
    <3>2. \A j \in Starts : ~Underway(j) /\ ~ (starts[j].waiting > 0)
      BY <3>1 DEF InProgress, Waiting
    <3>3. \A j \in Starts : ~Underway(j)'
      BY <2>1, <2>6, <2>7, <3>2 DEF Underway
    <3>4. \A j \in Starts : Alive(j)' => j = client
      BY <2>7, <3>1 DEF Alive, InLine
    <3>5. s.waiting = 1
      BY <2>1, <2>3, <2>6, <3>2
    <3>6. \A j \in Starts : starts'[j].waiting > 0 => j = client /\ starts'[j].waiting = 1
      BY <2>7, <3>2, <3>5
    <3> QED  BY <1>0, <2>8, <3>3, <3>4, <3>6 DEF InLine, Underway
  <2> QED  BY <2>9, <2>10, <2>11 DEF StartsInv
<1> QED  BY <1>1, <1>2 DEF Restart

LEMMA StartsStep ==
  ASSUME StartsInv, TypeOK, [Next]_vars  PROVE  StartsInv'
<1>1. CASE UNCHANGED <<starts, client, patient>>
  BY <1>1 DEF StartsInv, StartTypes, StopAwaited, InLine, Starts, Alive, Underway
<1>2. CASE UNCHANGED vars
  BY <1>1, <1>2 DEF vars, userVars
<1>3. ASSUME NEW i \in Starts, Extending(i) \/ Library(i) \/ Crash(i) \/ Progress(i)
      PROVE  StartsInv'
  BY <1>3, FindStep, CreateStep, MissingStep, RegisterStep, VerifyStep, ContinueStep,
     ConnectStep, FailToStartStep, StoppedStep, StopFailsStep, CrashStep, ProgressStep
     DEF Extending, Library
<1>4. CASE User
  BY <1>4, RestartStep, TryAgainStep, DismissStep DEF User
<1>5. ASSUME NEW type \in EventTypes, NEW uri \in ConfigFiles, Disk(type, uri)
      PROVE  StartsInv'
  <2>1. UNCHANGED <<client, patient>>
    BY <1>5 DEF Disk, userVars
  <2>2. StartTypes
    BY DEF StartsInv
  <2> QED  BY <1>5, <2>1, <2>2, DiskStarts, LineStays DEF Alive, Underway
<1>6. CASE Watching \/ Hide
  BY <1>1, <1>6 DEF Watching, Hide, Handle, Push, userVars
<1> QED  BY <1>2, <1>3, <1>4, <1>5, <1>6 DEF Next, Changing

-------------------------------------------------------------------------------
(* The list of config files                                                 *)

\* The events q of f alternate, and the last tells whether it is on disk.
Chain(q, f, disk) ==
  /\ \A k \in 1 .. Len(q) - 1 : (q[k + 1] = "created") <=> (q[k] = "deleted")
  /\ q # <<>> => ((q[Len(q)] = "deleted") <=> f \notin disk)

\* A file on disk is on the list, or what is under way will bring it there.
Underlying(f) == f \in files => configFiles[f] > 0 \/ pending[f] # <<>> \/ events[f] # <<>>

\* With one watcher, and none of its events come too close: at most one push of the
\* file is under way, that of its creation; the file is on the list or about to be
\* (Known) as the events handled so far say.
Known(f) == configFiles[f] = 1 \/ pending[f] # <<>>
Exact(f) ==
  /\ configFiles[f] \in {0, 1}
  /\ pending[f] # <<>> =>
       Len(pending[f]) = 1 /\ pending[f][1] = "created" /\ configFiles[f] = 0
  /\ events[f] = <<>> => (Known(f) <=> f \in files)
  /\ events[f] # <<>> => (events[f][1] = "created" <=> ~Known(f))
  /\ f \notin misreported

FileInv(f) ==
  /\ Chain(events[f], f, files)
  /\ watchers > 0 /\ f \notin missed =>
       Underlying(f) /\ (watchers = 1 /\ f \notin rushed => Exact(f))

\* What a start has found is what is on disk, but for what it may be wrong about.
FoundInv ==
  \A i \in Starts : starts[i].phase = "found" =>
    \A f \in ConfigFiles \ starts[i].unsure :
      Settled(f) /\ (f \in starts[i].found <=> f \in files)

ConfigInv == FoundInv /\ \A f \in ConfigFiles : FileInv(f)

LEMMA EmptyChain == ASSUME NEW f, NEW disk  PROVE Chain(<<>>, f, disk)
BY EmptySeq DEF Chain

\* One more change of the file.
LEMMA ChainPut ==
  ASSUME NEW q \in Seq(EventTypes), NEW type \in EventTypes,
         NEW f, NEW disk, NEW after, Chain(q, f, disk),
         type = "created" <=> f \notin disk, type = "deleted" <=> f \notin after
  PROVE  LET r == Append(q, type)
         IN  /\ r \in Seq(EventTypes) /\ r # <<>> /\ Chain(r, f, after)
             /\ r[1] = IF q = <<>> THEN type ELSE q[1]
<1> DEFINE r == Append(q, type)
           n == Len(q)
<1>1. /\ r \in Seq(EventTypes) /\ Len(r) = n + 1 /\ n \in Nat
      /\ \A k \in 1 .. n : r[k] = q[k]
      /\ r[n + 1] = type
  BY AppendProperties, LenProperties
<1>2. r # <<>>
  BY <1>1, EmptySeq
<1>3. q = <<>> <=> n = 0
  BY EmptySeq
<1> HIDE DEF r
<1>4. ASSUME NEW k \in 1 .. Len(r) - 1  PROVE (r[k + 1] = "created") <=> (r[k] = "deleted")
  <2>1. k \in 1 .. n /\ (k = n \/ k \in 1 .. n - 1)
    BY <1>1
  <2>2. CASE k = n
    <3>1. q[n] = "deleted" <=> f \notin disk
      BY <1>1, <1>3, <2>1, <2>2 DEF Chain
    <3> QED  BY <1>1, <2>1, <2>2, <3>1
  <2>3. CASE k \in 1 .. n - 1
    <3>1. (q[k + 1] = "created") <=> (q[k] = "deleted")
      BY <2>3 DEF Chain
    <3>2. k + 1 \in 1 .. n
      BY <1>1, <2>3
    <3> HIDE DEF n
    <3> QED  BY <1>1, <2>1, <3>1, <3>2
  <2> QED  BY <2>1, <2>2, <2>3
<1>5. r[Len(r)] = "deleted" <=> f \notin after
  BY <1>1
<1>6. r[1] = IF q = <<>> THEN type ELSE q[1]
  BY <1>1, <1>3
<1> QED  BY <1>1, <1>2, <1>4, <1>5, <1>6 DEF Chain, r

\* The first event of the file is taken.
LEMMA ChainTake ==
  ASSUME NEW q \in Seq(EventTypes), q # <<>>, NEW f, NEW disk, Chain(q, f, disk)
  PROVE  /\ Head(q) \in EventTypes /\ Head(q) = q[1]
         /\ Tail(q) \in Seq(EventTypes) /\ Chain(Tail(q), f, disk)
         /\ Tail(q) = <<>> => (Head(q) = "deleted" <=> f \notin disk)
         /\ Tail(q) # <<>> => (Tail(q)[1] = "created" <=> Head(q) = "deleted")
<1> DEFINE t == Tail(q)
           n == Len(q)
<1>1. /\ Head(q) \in EventTypes /\ t \in Seq(EventTypes) /\ Len(t) = n - 1
      /\ \A k \in 1 .. Len(t) : t[k] = q[k + 1]
  BY HeadTailProperties
<1>a. n \in Nat \ {0}
  BY EmptySeq
<1>b. Head(q) = q[1]
  OBVIOUS
<1>c. t = <<>> <=> Len(t) = 0
  BY <1>1, EmptySeq
<1>2. n \in Nat \ {0} /\ Head(q) = q[1] /\ (t = <<>> <=> Len(t) = 0)
  BY <1>a, <1>b, <1>c
<1> HIDE DEF t
<1>3. ASSUME NEW k \in 1 .. Len(t) - 1  PROVE (t[k + 1] = "created") <=> (t[k] = "deleted")
  <2>1. k \in 1 .. Len(t) /\ k + 1 \in 1 .. Len(t) /\ k + 1 \in 1 .. n - 1
    BY <1>1, <1>2
  <2>2. (q[k + 1 + 1] = "created") <=> (q[k + 1] = "deleted")
    BY <2>1 DEF Chain
  <2> QED  BY <1>1, <2>1, <2>2
<1>4. ASSUME t # <<>>  PROVE t[Len(t)] = q[n] /\ t[1] = q[2] /\ 1 \in 1 .. n - 1
  <2>1. Len(t) \in 1 .. Len(t) /\ 1 \in 1 .. Len(t) /\ Len(t) + 1 = n
    BY <1>1, <1>2, <1>4
  <2> HIDE DEF n
  <2> QED  BY <1>1, <2>1
<1>5. q[n] = "deleted" <=> f \notin disk
  BY DEF Chain
<1>6. t # <<>> => (t[1] = "created" <=> q[1] = "deleted")
  BY <1>4 DEF Chain
<1>7. t = <<>> => n = 1
  BY <1>1, <1>2
<1>8. Chain(t, f, disk)
  BY <1>3, <1>4, <1>5 DEF Chain
<1> QED  BY <1>1, <1>2, <1>5, <1>6, <1>7, <1>8 DEF t

\* Some more pushes are under way.
LEMMA MorePending ==
  ASSUME NEW a \in Seq(EventTypes), NEW n \in Nat, NEW type \in EventTypes,
         NEW b \in [1 .. n -> {type}]
  PROVE  /\ a \o b \in Seq(EventTypes)
         /\ (a \o b = <<>>) <=> (a = <<>> /\ n = 0)
         /\ a = <<>> /\ n = 1 => Len(a \o b) = 1 /\ (a \o b)[1] = type
<1> DEFINE r == a \o b
<1>1. b \in Seq(EventTypes) /\ \A k \in 1 .. n : b[k] = type
  BY SeqDef
<1>2. Len(b) = n
  BY <1>1, LengthOf
<1>3. /\ r \in Seq(EventTypes) /\ Len(r) = Len(a) + Len(b)
      /\ \A k \in 1 .. Len(a) + Len(b) : r[k] = IF k <= Len(a) THEN a[k] ELSE b[k - Len(a)]
      /\ Len(a) \in Nat
  BY <1>1, ConcatProperties, LenProperties
<1> HIDE DEF r
<1>4. (r = <<>> <=> Len(r) = 0) /\ (a = <<>> <=> Len(a) = 0)
  BY <1>3, EmptySeq
<1>5. ASSUME a = <<>>, n = 1  PROVE Len(r) = 1 /\ r[1] = type
  BY <1>1, <1>2, <1>3, <1>4, <1>5
<1> QED  BY <1>2, <1>3, <1>4, <1>5 DEF r

-------------------------------------------------------------------------------
(* Steps of the config files                                                *)

\* Only Find brings a start to "found", and a change on disk to what it has found.
FoundStays ==
  \A j \in Starts' : starts'[j].phase = "found" =>
    /\ j \in Starts /\ starts[j].phase = "found"
    /\ starts'[j].found = starts[j].found /\ starts'[j].unsure = starts[j].unsure

LEMMA OthersFindNothing ==
  ASSUME StartTypes, NEW i \in Starts,
         \/ Create(i) \/ Missing(i) \/ Register(i) \/ Verify(i) \/ Dismiss(i) \/ Connect(i)
         \/ FailToStart(i) \/ Stopped(i) \/ StopFails(i) \/ Crash(i) \/ Progress(i)
  PROVE  FoundStays
<1>1. /\ DOMAIN starts = 1 .. Len(starts) /\ \A j \in Starts : starts[j] \in Start
      /\ client \in Starts \/ client \notin Starts
  BY LenProperties, StartOf DEF StartTypes
<1>2. CASE Create(i)
  BY <1>1, <1>2 DEF Create, FoundStays, Start, Starts
<1>3. CASE Missing(i)
  BY <1>1, <1>3 DEF Missing, FoundStays, Start, Starts
<1>4. CASE Register(i)
  BY <1>1, <1>4 DEF Register, FoundStays, Start, Starts
<1>5. CASE Verify(i)
  BY <1>1, <1>5 DEF Verify, FoundStays, Start, Starts
<1>6. CASE Dismiss(i)
  BY <1>1, <1>6 DEF Dismiss, FoundStays, Start, Starts
<1>7. CASE Connect(i)
  BY <1>1, <1>7 DEF Connect, FoundStays, Start, Starts
<1>8. CASE FailToStart(i)
  BY <1>1, <1>8 DEF FailToStart, FoundStays, Start, Starts
<1>9. CASE Stopped(i)
  BY <1>1, <1>9 DEF Stopped, FoundStays, Start, Starts
<1>10. CASE StopFails(i)
  BY <1>1, <1>10 DEF StopFails, FoundStays, Start, Starts
<1>11. CASE Crash(i)
  BY <1>1, <1>11 DEF Crash, FoundStays, Start, Starts
<1>12. CASE Progress(i)
  BY <1>1, <1>12 DEF Progress, FoundStays, Start, Starts
<1> QED  BY <1>2, <1>3, <1>4, <1>5, <1>6, <1>7, <1>8, <1>9, <1>10, <1>11, <1>12

LEMMA BegunFindsNothing ==
  ASSUME NEW ss \in Seq(Start), DOMAIN ss = Starts, starts' = Append(ss, New),
         \A j \in Starts : ss[j].phase = "found" =>
           /\ starts[j].phase = "found"
           /\ ss[j].found = starts[j].found /\ ss[j].unsure = starts[j].unsure
  PROVE  FoundStays
BY OneMore, NewStart DEF FoundStays, Starts

FileVars == <<watchers, configFiles, files, events, pending, missed, rushed, misreported>>

LEMMA FilesStay ==
  ASSUME UNCHANGED FileVars, NEW f \in ConfigFiles, FileInv(f)
  PROVE  FileInv(f)'
BY DEF FileVars, FileInv, Chain, Underlying, Exact, Known

\* No start is brought to "found", and nothing that concerns the files changes.
LEMMA ConfigStays ==
  ASSUME ConfigInv, UNCHANGED FileVars, FoundStays
  PROVE  ConfigInv'
<1>1. FoundInv'
  BY DEF ConfigInv, FoundInv, FoundStays, Settled, FileVars
<1> QED  BY <1>1, FilesStay DEF ConfigInv

LEMMA FindKeeps ==
  ASSUME StartTypes, ConfigInv, NEW i \in Starts, Find(i)
  PROVE  ConfigInv'
<1>1. /\ starts' = [starts EXCEPT ![i].phase = "found", ![i].found = files,
                      ![i].unsure = {f \in ConfigFiles : ~Settled(f)}]
      /\ UNCHANGED FileVars
  BY DEF Find, configVars, FileVars
<1>2. \A j \in Starts : starts[j] \in Start
  BY StartOf
<1>3. /\ Starts' = Starts /\ \A j \in Starts : j # i => starts'[j] = starts[j]
      /\ starts'[i].found = files /\ starts'[i].unsure = {f \in ConfigFiles : ~Settled(f)}
  BY <1>1, <1>2 DEF Starts, Start
<1>4. files' = files /\ \A f \in ConfigFiles : Settled(f)' <=> Settled(f)
  BY <1>1 DEF FileVars, Settled
<1>5. FoundInv'
  BY <1>3, <1>4 DEF ConfigInv, FoundInv
<1> QED  BY <1>1, <1>5, FilesStay DEF ConfigInv

\* One more watcher, and a list that is right about what did not change around the
\* search it was made of.
LEMMA WatchStep ==
  ASSUME TypeOK, ConfigInv, NEW i \in Starts, starts[i].phase = "found", Watch(i), FoundStays
  PROVE  ConfigInv' /\ ConfigTypes'
<1>1. /\ watchers' = watchers + 1 /\ missed' = starts[i].unsure /\ rushed' = {} /\ misreported' = {}
      /\ configFiles' = [f \in ConfigFiles |-> IF f \in starts[i].found THEN 1 ELSE 0]
      /\ UNCHANGED <<files, events, pending>>
  BY DEF Watch
<1>2. starts[i].unsure \in SUBSET ConfigFiles
  BY StartOf DEF TypeOK, Start
<1>3. ConfigTypes'
  BY <1>1, <1>2 DEF TypeOK, ConfigTypes
<1>4. ASSUME NEW f \in ConfigFiles  PROVE FileInv(f)'
  <2>1. Chain(events[f], f, files)'
    BY <1>1 DEF ConfigInv, FileInv, Chain
  <2>2. ASSUME f \notin missed'  PROVE Underlying(f)' /\ Exact(f)'
    <3>1. Settled(f) /\ (f \in starts[i].found <=> f \in files)
      BY <1>1, <2>2 DEF ConfigInv, FoundInv
    <3>2. events'[f] = <<>> /\ pending'[f] = <<>> /\ files' = files
      BY <1>1, <3>1 DEF Settled
    <3>3. configFiles'[f] = IF f \in files THEN 1 ELSE 0
      BY <1>1, <3>1
    <3> QED  BY <1>1, <3>2, <3>3 DEF Underlying, Exact, Known
  <2> QED  BY <2>1, <2>2 DEF FileInv
<1>5. FoundInv'
  BY <1>1 DEF ConfigInv, FoundInv, FoundStays, Settled
<1> QED  BY <1>3, <1>4, <1>5 DEF ConfigInv

\* A change on disk is one more event of its file.
LEMMA DiskStep ==
  ASSUME TypeOK, ConfigInv, NEW type \in EventTypes, NEW uri \in ConfigFiles, Disk(type, uri)
  PROVE  ConfigInv' /\ ConfigTypes'
<1>1. /\ type = "created" <=> uri \notin files
      /\ files' = CASE type = "created" -> files \cup {uri}
                    [] type = "changed" -> files
                    [] OTHER -> files \ {uri}
      /\ events' = [events EXCEPT ![uri] = Append(events[uri], type)]
      /\ UNCHANGED <<watchers, configFiles, pending, missed, rushed, misreported>>
  BY DEF Disk
<1>2. type = "deleted" <=> uri \notin files'
  BY <1>1 DEF EventTypes
<1>3. \A f \in ConfigFiles : f # uri => (f \in files' <=> f \in files)
  BY <1>1 DEF EventTypes
<1>4. /\ Append(events[uri], type) \in Seq(EventTypes) /\ Append(events[uri], type) # <<>>
      /\ Chain(Append(events[uri], type), uri, files')
      /\ Append(events[uri], type)[1] = IF events[uri] = <<>> THEN type ELSE events[uri][1]
  <2>1. events[uri] \in Seq(EventTypes) /\ Chain(events[uri], uri, files)
    BY DEF TypeOK, ConfigTypes, ConfigInv, FileInv
  <2>2. type = "created" <=> uri \notin files
    BY <1>1
  <2> QED  BY <1>2, <2>1, <2>2, ChainPut
<1>5. /\ events'[uri] = Append(events[uri], type)
      /\ \A f \in ConfigFiles : f # uri => events'[f] = events[f]
  BY <1>1 DEF TypeOK, ConfigTypes
<1>6. ConfigTypes'
  <2>1. files' \in SUBSET ConfigFiles
    BY <1>1 DEF TypeOK, ConfigTypes, EventTypes
  <2>2. events' \in [ConfigFiles -> Seq(EventTypes)]
    BY <1>1, <1>4 DEF TypeOK, ConfigTypes
  <2> QED  BY <1>1, <2>1, <2>2 DEF TypeOK, ConfigTypes
<1>7. ASSUME NEW f \in ConfigFiles  PROVE FileInv(f)'
  <2>1. CASE f # uri
    <3>1. FileInv(f) /\ events'[f] = events[f] /\ (f \in files' <=> f \in files)
      BY <1>3, <1>5, <2>1 DEF ConfigInv
    <3> QED  BY <1>1, <3>1 DEF FileInv, Chain, Underlying, Exact, Known
  <2>2. CASE f = uri
    <3>1. FileInv(f)
      BY DEF ConfigInv
    <3>2. Chain(events'[f], f, files') /\ events'[f] # <<>>
      BY <1>4, <1>5, <2>2
    <3>3. Exact(f) => Exact(f)'
      <4> SUFFICES ASSUME Exact(f)  PROVE Exact(f)'
        OBVIOUS
      <4>1. Known(f)' <=> Known(f)
        BY <1>1 DEF Known
      <4>2. events'[f][1] = "created" <=> ~Known(f)
        BY <1>1, <1>4, <1>5, <2>2 DEF Exact
      <4> QED  BY <1>1, <3>2, <4>1, <4>2 DEF Exact
    <3> QED  BY <1>1, <3>1, <3>2, <3>3 DEF FileInv, Underlying
  <2> QED  BY <2>1, <2>2
<1>8. FoundInv'
  <2>1. /\ Starts' = Starts
        /\ \A j \in Starts : starts'[j].phase = "found" =>
             /\ starts[j].phase = "found" /\ starts'[j].found = starts[j].found
             /\ starts'[j].unsure = starts[j].unsure \cup {uri}
    BY DiskStarts DEF TypeOK
  <2>2. \A f \in ConfigFiles : f # uri => (Settled(f)' <=> Settled(f))
    BY <1>1, <1>5 DEF Settled
  <2> QED  BY <1>3, <2>1, <2>2 DEF ConfigInv, FoundInv
<1> QED  BY <1>6, <1>7, <1>8 DEF ConfigInv

\* An event of a file on the list is handled at once, of another it waits.
LEMMA HandleStep ==
  ASSUME TypeOK, ConfigInv, NEW uri \in ConfigFiles, Handle(uri)
  PROVE  ConfigInv' /\ ConfigTypes'
<1> DEFINE type    == Head(events[uri])
           finders == Finders(type, uri)
           n == configFiles[uri]
           q == events[uri]
           a == pending[uri]
           t == Tail(events[uri])
           b == pending[uri] \o [k \in 1 .. watchers - finders |-> type]
<1>1. /\ q # <<>>
      /\ configFiles' = [configFiles EXCEPT ![uri] = IF Removes(type) THEN n - finders ELSE n]
      /\ pending' = [pending EXCEPT ![uri] = b]
      /\ events' = [events EXCEPT ![uri] = t]
      /\ rushed' = IF a = <<>> THEN rushed ELSE rushed \cup {uri}
      /\ UNCHANGED <<starts, watchers, files, missed, misreported>>
  BY DEF Handle
<1>2. /\ n \in Nat /\ watchers \in Nat /\ q \in Seq(EventTypes) /\ a \in Seq(EventTypes)
      /\ FileInv(uri) /\ Chain(q, uri, files)
  BY DEF TypeOK, ConfigTypes, ConfigInv, FileInv
<1>3. /\ type \in EventTypes /\ type = q[1]
      /\ t \in Seq(EventTypes) /\ Chain(t, uri, files)
      /\ t = <<>> => (type = "deleted" <=> uri \notin files)
      /\ t # <<>> => (t[1] = "created" <=> type = "deleted")
  BY <1>1, <1>2, ChainTake
<1>4. /\ configFiles'[uri] = IF type = "deleted" THEN n - finders ELSE n
      /\ pending'[uri] = b /\ events'[uri] = t
      /\ \A f \in ConfigFiles : f # uri =>
           configFiles'[f] = configFiles[f] /\ pending'[f] = pending[f] /\ events'[f] = events[f]
  BY <1>1 DEF TypeOK, ConfigTypes, Removes
<1> HIDE DEF type, t, q
<1>5. finders = IF type = "deleted" THEN (IF n < watchers THEN n ELSE watchers)
                ELSE IF n > 0 THEN watchers ELSE 0
  BY DEF Finders, Removes
<1> HIDE DEF finders, n, a
<1>6. finders \in Nat /\ watchers - finders \in Nat /\ n - finders \in Int
      /\ (type = "deleted" => n - finders \in Nat)
  BY <1>2, <1>5
<1>7. /\ b \in Seq(EventTypes)
      /\ (b = <<>>) <=> (a = <<>> /\ watchers - finders = 0)
      /\ a = <<>> /\ watchers - finders = 1 => Len(b) = 1 /\ b[1] = type
  <2> DEFINE m == watchers - finders
             more == [k \in 1 .. m |-> type]
  <2>1. m \in Nat /\ type \in EventTypes /\ pending[uri] \in Seq(EventTypes)
    BY <1>2, <1>3, <1>6 DEF a
  <2>2. b = pending[uri] \o more /\ more \in [1 .. m -> {type}]
    OBVIOUS
  <2> HIDE DEF m, more, b
  <2>3. /\ b \in Seq(EventTypes)
        /\ (b = <<>>) <=> (pending[uri] = <<>> /\ m = 0)
        /\ pending[uri] = <<>> /\ m = 1 => Len(b) = 1 /\ b[1] = type
    BY <2>1, <2>2, MorePending
  <2> QED  BY <2>3 DEF a, m
<1> HIDE DEF b
<1>8. ConfigTypes'
  <2>1. configFiles' \in [ConfigFiles -> Nat]
    BY <1>1, <1>2, <1>6 DEF TypeOK, ConfigTypes, Removes
  <2>2. events' \in [ConfigFiles -> Seq(EventTypes)] /\ pending' \in [ConfigFiles -> Seq(EventTypes)]
    BY <1>1, <1>3, <1>7 DEF TypeOK, ConfigTypes
  <2>3. rushed' \in SUBSET ConfigFiles
    BY <1>1 DEF TypeOK, ConfigTypes
  <2> QED  BY <1>1, <2>1, <2>2, <2>3 DEF TypeOK, ConfigTypes
<1>9. Underlying(uri)' \/ watchers = 0
  <2> SUFFICES ASSUME watchers # 0, uri \in files, t = <<>>, b = <<>>  PROVE configFiles'[uri] > 0
    BY <1>1, <1>4 DEF Underlying
  <2>1. type # "deleted"
    BY <1>3
  <2>2. n > 0
    BY <1>2, <1>5, <1>7, <2>1
  <2> QED  BY <1>4, <2>1, <2>2
<1>10. ASSUME watchers = 1, uri \notin rushed', Exact(uri)  PROVE Exact(uri)'
  <2>1. a = <<>> /\ n \in {0, 1} /\ uri \notin misreported
        /\ (type = "created" <=> n = 0)
    <3>1. a = <<>>
      BY <1>1, <1>10
    <3>2. Known(uri) <=> n = 1
      BY <3>1 DEF Known, n, a
    <3>3. n \in {0, 1} /\ uri \notin misreported /\ (q[1] = "created" <=> ~Known(uri))
      BY <1>1, <1>10 DEF Exact, n, q
    <3> QED  BY <1>3, <3>1, <3>2, <3>3
  <2>2. CASE type = "created"
    <3>1. finders = 0 /\ configFiles'[uri] = 0 /\ Len(b) = 1 /\ b[1] = "created" /\ b # <<>>
      BY <1>4, <1>5, <1>7, <1>10, <2>1, <2>2
    <3>2. Known(uri)'
      BY <1>4, <3>1 DEF Known
    <3> QED  BY <1>1, <1>3, <1>4, <2>1, <2>2, <3>1, <3>2 DEF Exact
  <2>3. CASE type # "created"
    <3>1. n = 1 /\ finders = 1 /\ b = <<>>
      BY <1>5, <1>7, <1>10, <2>1, <2>3
    <3>2. configFiles'[uri] = IF type = "deleted" THEN 0 ELSE 1
      BY <1>4, <3>1
    <3>3. Known(uri)' <=> type # "deleted"
      BY <1>4, <3>1, <3>2 DEF Known
    <3> QED  BY <1>1, <1>3, <1>4, <2>1, <3>1, <3>2, <3>3 DEF Exact
  <2> QED  BY <2>2, <2>3
<1>11. FileInv(uri)'
  <2>1. Chain(events'[uri], uri, files')
    BY <1>1, <1>3, <1>4
  <2>2. uri \notin rushed' => uri \notin rushed
    BY <1>1
  <2> QED  BY <1>1, <1>2, <1>9, <1>10, <2>1, <2>2 DEF FileInv
<1>12. ASSUME NEW f \in ConfigFiles, f # uri  PROVE FileInv(f)'
  <2>1. FileInv(f) /\ (f \in rushed' <=> f \in rushed)
    BY <1>1, <1>12 DEF ConfigInv
  <2> QED  BY <1>1, <1>4, <1>12, <2>1 DEF FileInv, Chain, Underlying, Exact, Known
<1>13. FoundInv'
  <2>1. \A f \in ConfigFiles : f # uri => (Settled(f)' <=> Settled(f))
    BY <1>4 DEF Settled
  <2>2. ~Settled(uri)
    BY <1>1 DEF Settled, q
  <2> QED  BY <1>1, <2>1, <2>2 DEF ConfigInv, FoundInv, Starts
<1> QED  BY <1>8, <1>11, <1>12, <1>13 DEF ConfigInv

LEMMA PushStep ==
  ASSUME TypeOK, ConfigInv, NEW uri \in ConfigFiles, Push(uri)
  PROVE  ConfigInv' /\ ConfigTypes'
<1> DEFINE a == pending[uri]
           b == Tail(pending[uri])
<1>1. /\ a # <<>>
      /\ configFiles' = [configFiles EXCEPT ![uri] = configFiles[uri] + 1]
      /\ misreported' = IF Head(a) = "created" THEN misreported ELSE misreported \cup {uri}
      /\ pending' = [pending EXCEPT ![uri] = b]
      /\ UNCHANGED <<starts, watchers, files, events, missed, rushed>>
  BY DEF Push
<1>2. a \in Seq(EventTypes) /\ configFiles[uri] \in Nat /\ FileInv(uri)
  BY DEF TypeOK, ConfigTypes, ConfigInv
<1>3. b \in Seq(EventTypes) /\ Head(a) = a[1] /\ (Len(a) = 1 => b = <<>>)
  <2>1. b \in Seq(EventTypes) /\ Len(b) = Len(a) - 1
    BY <1>1, <1>2, HeadTailProperties
  <2>2. b = <<>> <=> Len(b) = 0
    BY <2>1, EmptySeq
  <2>3. Head(a) = a[1]
    OBVIOUS
  <2> HIDE DEF a, b
  <2> QED  BY <2>1, <2>2, <2>3
<1>4. /\ configFiles'[uri] = configFiles[uri] + 1 /\ pending'[uri] = b
      /\ \A f \in ConfigFiles : f # uri =>
           configFiles'[f] = configFiles[f] /\ pending'[f] = pending[f]
  BY <1>1 DEF TypeOK, ConfigTypes
<1>5. ConfigTypes'
  <2>1. configFiles' \in [ConfigFiles -> Nat]
    BY <1>1, <1>2 DEF TypeOK, ConfigTypes
  <2>2. pending' \in [ConfigFiles -> Seq(EventTypes)]
    BY <1>1, <1>3 DEF TypeOK, ConfigTypes
  <2>3. misreported' \in SUBSET ConfigFiles
    BY <1>1 DEF TypeOK, ConfigTypes
  <2> QED  BY <1>1, <2>1, <2>2, <2>3 DEF TypeOK, ConfigTypes
<1> HIDE DEF b
<1>6. Underlying(uri)'
  BY <1>2, <1>4 DEF Underlying
<1>7. ASSUME Exact(uri)  PROVE Exact(uri)'
  <2>1. Len(a) = 1 /\ a[1] = "created" /\ configFiles[uri] = 0 /\ uri \notin misreported
    BY <1>1, <1>7 DEF Exact
  <2>2. configFiles'[uri] = 1 /\ pending'[uri] = <<>> /\ misreported' = misreported
    BY <1>1, <1>3, <1>4, <2>1
  <2>3. Known(uri) /\ Known(uri)'
    BY <1>1, <2>2 DEF Known
  <2> QED  BY <1>1, <1>7, <2>1, <2>2, <2>3 DEF Exact
<1>8. FileInv(uri)'
  BY <1>1, <1>2, <1>6, <1>7 DEF FileInv, Chain
<1>9. ASSUME NEW f \in ConfigFiles, f # uri  PROVE FileInv(f)'
  <2>1. FileInv(f) /\ (f \in misreported' <=> f \in misreported)
    BY <1>1, <1>9 DEF ConfigInv
  <2> QED  BY <1>1, <1>4, <1>9, <2>1 DEF FileInv, Chain, Underlying, Exact, Known
<1>10. FoundInv'
  <2>1. \A f \in ConfigFiles : f # uri => (Settled(f)' <=> Settled(f))
    BY <1>1, <1>4 DEF Settled
  <2>2. ~Settled(uri)
    BY <1>1 DEF Settled
  <2> QED  BY <1>1, <2>1, <2>2 DEF ConfigInv, FoundInv, Starts
<1> QED  BY <1>5, <1>8, <1>9, <1>10 DEF ConfigInv

LEMMA ConfigStep ==
  ASSUME TypeOK, ConfigInv, [Next]_vars
  PROVE  ConfigInv' /\ ConfigTypes'
<1>t. StartTypes /\ ConfigTypes
  BY DEF TypeOK
<1> DEFINE Goal == ConfigInv' /\ ConfigTypes'
<1>1. ASSUME FoundStays, UNCHANGED configVars  PROVE Goal
  <2>1. UNCHANGED FileVars
    BY <1>1 DEF FileVars, configVars
  <2>2. ConfigTypes'
    BY <1>t, <2>1 DEF ConfigTypes, FileVars
  <2> QED  BY <1>1, <2>1, <2>2, ConfigStays
<1>2. ASSUME FoundStays, NEW i \in Starts, starts[i].phase = "found", Watch(i)  PROVE Goal
  BY <1>2, WatchStep
<1>3. CASE UNCHANGED <<starts, configVars>>
  BY <1>1, <1>3 DEF FoundStays, Starts
<1>4. ASSUME NEW i \in Starts, Extending(i) \/ Library(i) \/ Crash(i) \/ Progress(i)
      PROVE  Goal
  <2>1. CASE Find(i)
    <3>1. UNCHANGED FileVars
      BY <2>1 DEF Find, FileVars, configVars
    <3>2. ConfigTypes'
      BY <1>t, <3>1 DEF ConfigTypes, FileVars
    <3> QED  BY <1>t, <2>1, <3>2, FindKeeps
  <2>2. CASE Create(i) \/ Missing(i)
    <3>1. FoundStays
      BY <1>t, <2>2, OthersFindNothing
    <3> QED  BY <1>2, <2>2, <3>1 DEF Create, Missing
  <2>3. CASE Register(i) \/ Verify(i) \/ Connect(i) \/ FailToStart(i) \/ Stopped(i)
             \/ StopFails(i) \/ Crash(i) \/ Progress(i)
    <3>1. FoundStays
      BY <1>t, <2>3, OthersFindNothing
    <3>2. UNCHANGED configVars
      BY <2>3 DEF Register, Verify, Connect, FailToStart, Stopped, StopFails, Crash, Progress
    <3> QED  BY <1>1, <3>1, <3>2
  <2>4. CASE Continue(i)
    <3> DEFINE s  == [starts[i] EXCEPT !.waiting = starts[i].waiting - 1]
               ss == [starts EXCEPT ![i] = s]
    <3>1. starts[i] \in Start /\ starts[i].waiting \in Nat /\ starts[i].waiting > 0
      BY <1>t, <2>4, StartOf DEF Start, Continue
    <3>2. s \in Start /\ s.phase = starts[i].phase /\ s.found = starts[i].found
          /\ s.unsure = starts[i].unsure
      BY <3>1 DEF Start
    <3>3. starts' = Append(ss, New) /\ UNCHANGED configVars
      BY Zenon, <2>4 DEF Continue
    <3> HIDE DEF s
    <3>4. /\ ss \in Seq(Start) /\ DOMAIN ss = Starts
          /\ \A j \in Starts : ss[j] = IF j = i THEN s ELSE starts[j]
      BY <1>t, <3>2, OneChanged DEF StartTypes, Starts
    <3> HIDE DEF ss
    <3>5. FoundStays
      BY <3>2, <3>3, <3>4, BegunFindsNothing
    <3> QED  BY <1>1, <3>3, <3>5
  <2> QED  BY <1>4, <2>1, <2>2, <2>3, <2>4 DEF Extending, Library
<1>5. CASE Restart
  <2>1. UNCHANGED configVars
    BY <1>5 DEF Restart
  <2>2. CASE client = 0 /\ starts' = Append(starts, New)
    BY <1>t, <1>1, <2>1, <2>2, BegunFindsNothing DEF StartTypes, Starts
  <2>3. CASE client # 0
    <3>1. client \in Starts
      BY <1>t, <2>3, LenProperties DEF StartTypes, Starts
    <3>2. starts[client] \in Start
      BY <1>t, <3>1, StartOf
    <3>3. starts' = [starts EXCEPT ![client].waiting = @ + 1,
                       ![client].state = IF @ = "running" THEN "stopping" ELSE @]
      BY <1>5, <2>3 DEF Restart
    <3>4. FoundStays
      BY <3>1, <3>2, <3>3 DEF FoundStays, Starts, Start
    <3> QED  BY <1>1, <2>1, <3>4
  <2> QED  BY <1>5, <2>2, <2>3 DEF Restart
<1>6. ASSUME NEW i \in Starts, TryAgain(i)  PROVE Goal
  <2> DEFINE s  == [starts[i] EXCEPT !.phase = "closed"]
             ss == [starts EXCEPT ![i] = s]
  <2>1. starts[i] \in Start
    BY <1>t, StartOf
  <2>2. s \in Start /\ s.phase = "closed"
    BY <2>1 DEF Start, Phase
  <2>3. starts' = Append(ss, New) /\ UNCHANGED configVars
    BY Zenon, <1>6 DEF TryAgain
  <2> HIDE DEF s
  <2>4. /\ ss \in Seq(Start) /\ DOMAIN ss = Starts
        /\ \A j \in Starts : ss[j] = IF j = i THEN s ELSE starts[j]
    BY <1>t, <2>2, OneChanged DEF StartTypes, Starts
  <2> HIDE DEF ss
  <2>5. FoundStays
    BY <2>2, <2>3, <2>4, BegunFindsNothing
  <2> QED  BY <1>1, <2>3, <2>5
<1>7. ASSUME NEW i \in Starts, Dismiss(i)  PROVE Goal
  <2>1. FoundStays
    BY <1>t, <1>7, OthersFindNothing
  <2> QED  BY <1>1, <1>7, <2>1 DEF Dismiss
<1>8. CASE Changing
  BY <1>8, DiskStep DEF Changing
<1>9. CASE Hide
  BY <1>3, <1>9 DEF Hide
<1>10. CASE Watching
  BY <1>10, HandleStep, PushStep DEF Watching
<1>11. CASE UNCHANGED vars
  BY <1>3, <1>11 DEF vars
<1> QED  BY <1>4, <1>5, <1>6, <1>7, <1>8, <1>9, <1>10, <1>11 DEF Next, User

-------------------------------------------------------------------------------
(* The theorems                                                             *)

LEMMA CountStep ==
  ASSUME CountTypes, [Next]_vars  PROVE  CountTypes'
<1>1. CASE UNCHANGED <<crashes, changes, bar, timers>>
  BY <1>1 DEF CountTypes
<1>2. CASE UNCHANGED vars
  BY <1>1, <1>2 DEF vars, configVars, progressVars
<1>3. ASSUME NEW i \in Starts, Extending(i) \/ Library(i)  PROVE CountTypes'
  BY <1>1, <1>3 DEF Extending, Library, Find, Create, Missing, Watch, Register, Verify, Continue,
     Connect, FailToStart, Stopped, StopFails, configVars, progressVars
<1>4. ASSUME NEW i \in Starts, Crash(i)  PROVE CountTypes'
  BY <1>4 DEF Crash, CountTypes, configVars
<1>5. ASSUME NEW i \in Starts, Progress(i)  PROVE CountTypes'
  <2>1. timers' \in Nat /\ bar' \in {"shown", "hidden"}
    BY <1>5 DEF Progress, CountTypes, progressVars
  <2> QED  BY <1>5, <2>1 DEF Progress, CountTypes, configVars
<1>6. CASE User
  BY <1>1, <1>6 DEF User, Restart, TryAgain, Dismiss, configVars, progressVars
<1>7. CASE Changing
  BY <1>7 DEF Changing, Disk, CountTypes, progressVars
<1>8. CASE Hide
  BY <1>8 DEF Hide, CountTypes, configVars
<1>9. CASE Watching
  BY <1>1, <1>9 DEF Watching, Handle, Push, progressVars
<1> QED  BY <1>2, <1>3, <1>4, <1>5, <1>6, <1>7, <1>8, <1>9 DEF Next

LEMMA HistoryStep ==
  ASSUME HistoryTypes, [Next]_vars  PROVE  HistoryTypes'
<1>1. CASE UNCHANGED vars
  BY <1>1 DEF vars, progressVars, userVars, HistoryTypes
<1>2. ASSUME NEW i \in Starts, Extending(i) \/ Library(i)  PROVE HistoryTypes'
  BY Zenon, <1>2 DEF Extending, Library, Find, Create, Missing, Register, Verify, Continue,
     Connect, FailToStart, Stopped, StopFails, progressVars, userVars, HistoryTypes
<1>3. ASSUME NEW i \in Starts, Crash(i) \/ Progress(i)  PROVE HistoryTypes'
  BY Zenon, <1>3 DEF Crash, Progress, progressVars, userVars, HistoryTypes
<1>4. CASE User
  BY Zenon, <1>4 DEF User, Restart, TryAgain, Dismiss, progressVars, userVars, HistoryTypes
<1>5. CASE Changing \/ Watching \/ Hide
  BY Zenon, <1>5 DEF Changing, Watching, Disk, Handle, Push, Hide, progressVars, userVars, HistoryTypes
<1> QED  BY <1>1, <1>2, <1>3, <1>4, <1>5 DEF Next

ExtensionInv == TypeOK /\ StartsInv /\ ConfigInv

LEMMA InitInv == Init => ExtensionInv
<1> SUFFICES ASSUME Init  PROVE ExtensionInv
  OBVIOUS
<1>1. starts = <<New>> /\ starts \in Seq(Start) /\ Len(starts) = 1 /\ DOMAIN starts = {1} /\ starts[1] = New
  BY NewStart DEF Init
<1>2. <<>> \in Seq(EventTypes)
  BY EmptySeq
<1>3. StartTypes
  BY <1>1 DEF Init, StartTypes
<1>4. ConfigTypes /\ CountTypes
  BY <1>2 DEF Init, ConfigTypes, CountTypes
<1>5. HistoryTypes
  BY Zenon DEF Init, HistoryTypes
<1>6. StopAwaited /\ InLine
  BY <1>1, NewStart DEF StopAwaited, InLine, Starts, Alive, Underway
<1>7. ConfigInv
  BY <1>1, NewStart, EmptyChain DEF Init, ConfigInv, FoundInv, FileInv, Starts
<1> QED  BY <1>3, <1>4, <1>5, <1>6, <1>7 DEF ExtensionInv, StartsInv, TypeOK

LEMMA StepInv == ExtensionInv /\ [Next]_vars => ExtensionInv'
<1> SUFFICES ASSUME ExtensionInv, [Next]_vars  PROVE ExtensionInv'
  OBVIOUS
<1>1. StartsInv'
  BY StartsStep DEF ExtensionInv
<1>2. ConfigInv' /\ ConfigTypes'
  BY ConfigStep DEF ExtensionInv
<1>3. CountTypes' /\ HistoryTypes'
  BY CountStep, HistoryStep DEF ExtensionInv, TypeOK
<1> QED  BY <1>1, <1>2, <1>3 DEF ExtensionInv, StartsInv, TypeOK

\* Types, and that each start has a record: client is one of them or 0.
THEOREM ExtensionTypes == Spec => []TypeOK
<1>1. ExtensionInv => TypeOK
  BY DEF ExtensionInv
<1> QED  BY <1>1, InitInv, StepInv, PTL DEF Spec

\* A user who waits for what is under way has one server at most, that of
\* luaContext.client, for any number of restarts, failed starts and stops, and crashes.
THEOREM PatientHasOne == Spec => []OneServer
<1>1. ExtensionInv => OneServer
  BY DEF ExtensionInv, StartsInv, InLine, OneServer
<1> QED  BY <1>1, InitInv, StepInv, PTL DEF Spec

\* Of the config files that did not change around the search its list was made of,
\* the EmmyConfigWatcher misses none, whatever number of watchers restarts have piled
\* up and however close the changes come; with one watcher, and for the files whose
\* events came one after the other, its list is the disk's and its reports are true.
THEOREM ListFollowsDisk == Spec => []ConfigFilesKnown
<1>1. ASSUME ExtensionInv  PROVE ConfigFilesKnown
  <2> SUFFICES ASSUME watchers > 0, NEW f \in ConfigFiles \ missed
               PROVE  /\ Settled(f) /\ f \in files => configFiles[f] > 0
                      /\ watchers = 1 /\ f \notin rushed =>
                           /\ Settled(f) => configFiles[f] = IF f \in files THEN 1 ELSE 0
                           /\ f \notin misreported
    BY DEF ConfigFilesKnown
  <2>1. Underlying(f) /\ (watchers = 1 /\ f \notin rushed => Exact(f))
    BY <1>1 DEF ExtensionInv, ConfigInv, FileInv
  <2>2. Settled(f) /\ f \in files => configFiles[f] > 0
    BY <2>1 DEF Underlying, Settled
  <2>3. ASSUME watchers = 1, f \notin rushed, Settled(f)
        PROVE  configFiles[f] = IF f \in files THEN 1 ELSE 0
    BY <2>1, <2>3 DEF Exact, Known, Settled
  <2> QED  BY <2>1, <2>2, <2>3 DEF Exact
<1> QED  BY <1>1, InitInv, StepInv, PTL DEF Spec

===============================================================================
