------------------------ MODULE SessionLifecycleProofs ------------------------
(* Proofs about SessionLifecycle, for every value of its constants. *)
EXTENDS SessionLifecycle, SequenceTheorems, TLAPS

\* The definitions every step expands: what an action leaves alone.
LEMMA StutterUnfolds ==
  ASSUME UNCHANGED vars
  PROVE  /\ UNCHANGED <<row, messages, observed, queue>>
         /\ UNCHANGED <<process, unlocked, errand, toEnqueue>>
         /\ UNCHANGED <<pc, conversation, history, prefix, unseen, own>>
         /\ UNCHANGED <<catchUp, unrecovered, recovering, toDrain, draining>>
         /\ UNCHANGED <<said, starts, locks, read, promised>>
BY DEF vars, dbVars, processVars, socketVars, catchUpVars, countVars

-----------------------------------------------------------------------------
(* Transcripts. *)

\* A slice of a transcript is a transcript.
LEMMA SliceIsTranscript ==
  ASSUME NEW s \in Transcript, NEW m \in Nat
  PROVE  SubSeq(s, m + 1, Len(s)) \in Transcript
BY SubSeqProperties DEF Transcript

LEMMA AppendIsTranscript ==
  ASSUME NEW s \in Transcript, NEW t \in Turn
  PROVE  /\ Append(s, t) \in Transcript
         /\ Len(Append(s, t)) = Len(s) + 1
         /\ ToSet(Append(s, t)) = ToSet(s) \cup {t}
BY AppendProperties DEF Transcript, ToSet

-----------------------------------------------------------------------------
(* The queue. *)

\* A new row goes behind the others, which stay as they are.
LEMMA AppendedRow ==
  ASSUME NEW q \in Seq(QueueRow), NEW s \in Transcript
  PROVE  LET new == Append(q, [transcript |-> s, status |-> "pending"]) IN
           /\ new \in Seq(QueueRow)
           /\ Len(new) = Len(q) + 1
           /\ DOMAIN new = DOMAIN q \cup {Len(q) + 1}
           /\ \A n \in DOMAIN q : new[n] = q[n]
           /\ new[Len(q) + 1] = [transcript |-> s, status |-> "pending"]
<1> DEFINE r == [transcript |-> s, status |-> "pending"]
<1>1. r \in QueueRow
  BY DEF QueueRow
<1>2. DOMAIN q = 1 .. Len(q) /\ DOMAIN Append(q, r) = 1 .. Len(q) + 1
      /\ Append(q, r) \in Seq(QueueRow)
  BY <1>1, AppendProperties, LenProperties
<1> QED
  BY <1>1, <1>2, AppendProperties, LenProperties

\* Writing the status of one row changes nothing else.
LEMMA UpdatedRow ==
  ASSUME NEW q \in Seq(QueueRow), NEW n \in DOMAIN q,
         NEW status \in {"pending", "processing", "completed", "failed"},
         NEW new, new = [q EXCEPT ![n].status = status]
  PROVE  /\ new \in Seq(QueueRow)
         /\ Len(new) = Len(q)
         /\ DOMAIN new = DOMAIN q
         /\ \A m \in DOMAIN q : m # n => new[m] = q[m]
         /\ new[n].transcript = q[n].transcript
         /\ new[n].status = status
<1> DEFINE r == [q[n] EXCEPT !.status = status]
<1>1. DOMAIN q = 1 .. Len(q) /\ q[n] \in QueueRow
  BY LenProperties, ElementOfSeq
<1>2. r \in QueueRow /\ r.transcript = q[n].transcript /\ r.status = status
  BY <1>1 DEF QueueRow
<1>3. new = [q EXCEPT ![n] = r]
  OBVIOUS
<1>4. new \in Seq(QueueRow) /\ Len(new) = Len(q)
      /\ \A m \in 1 .. Len(q) : new[m] = IF m = n THEN r ELSE q[m]
  BY <1>1, <1>2, <1>3, ExceptSeq
<1>5. DOMAIN new = DOMAIN q
  BY <1>1, <1>3
<1> QED
  BY <1>1, <1>2, <1>4, <1>5

-----------------------------------------------------------------------------
(* Types and control. *)

\* A handler that is to commit, observe or be enqueued has a turn of its own
\* and a conversation.
SocketControl ==
  \A w \in Connection :
    /\ prefix[w] <= Len(history[w])
    /\ unseen[w] => prefix[w] < Len(history[w]) /\ conversation[w] # None
    /\ pc[w] = "closed" => ~unseen[w]
    /\ pc[w] \in {"committing", "idlePass", "idleMark", "lastPass", "lastMark"}
         => unseen[w]
    /\ pc[w] = "streaming" => conversation[w] # None

\* The drain is at a row it has marked, and has open rows before it.
DrainControl ==
  /\ catchUp = "mark" => recovering # None
  /\ \A n \in toDrain : queue[n].status \in {"pending", "processing"}
  /\ catchUp \in {"run", "finish"} =>
       draining \in toDrain /\ queue[draining].status = "processing"

IndInv == TypeOK /\ SocketControl /\ DrainControl

LEMMA EmptyTranscript == <<>> \in Transcript /\ Len(<<>>) = 0
BY EmptySeq DEF Transcript

LEMMA InvInit == Init => IndInv
<1> SUFFICES ASSUME Init PROVE IndInv
  OBVIOUS
<1>1. DbTypeOK
  BY EmptyTranscript DEF Init, DbTypeOK
<1>2. ProcessTypeOK
  BY DEF Init, ProcessTypeOK
<1>3. SocketTypeOK
  BY EmptyTranscript DEF Init, SocketTypeOK, SocketState
<1>4. CatchUpTypeOK
  BY DEF Init, CatchUpTypeOK
<1>5. HistoryTypeOK
  <2>1. Len(queue) = 0
    BY EmptyTranscript DEF Init
  <2> QED
    BY <2>1, BoundsAssumption DEF Init, HistoryTypeOK
<1>6. SocketControl
  BY EmptyTranscript DEF Init, SocketControl
<1>7. DrainControl
  BY DEF Init, DrainControl
<1> QED
  BY <1>1, <1>2, <1>3, <1>4, <1>5, <1>6, <1>7 DEF IndInv, TypeOK

\* What a handler leaves behind.
LEMMA ClosedSocket ==
  ASSUME SocketTypeOK, SocketControl, NEW w \in Connection,
         toEnqueue \subseteq Connection, CloseSocket(w)
  PROVE  SocketTypeOK' /\ SocketControl' /\ toEnqueue' \subseteq Connection
<1>1. SocketTypeOK'
  BY EmptyTranscript DEF SocketTypeOK, CloseSocket, SocketState
<1>2. SocketControl'
  BY EmptyTranscript DEF SocketTypeOK, SocketControl, CloseSocket
<1>3. toEnqueue' \subseteq Connection
  BY DEF CloseSocket
<1> QED
  BY <1>1, <1>2, <1>3

\* The rows the drain counts on survive a new row and an update elsewhere.
LEMMA QueueGrows ==
  ASSUME DbTypeOK, CatchUpTypeOK, HistoryTypeOK, DrainControl,
         NEW s \in Transcript,
         queue' = Append(queue, [transcript |-> s, status |-> "pending"]),
         toDrain' = toDrain, promised' = promised
  PROVE  /\ queue' \in Seq(QueueRow)
         /\ toDrain' \subseteq DOMAIN queue'
         /\ promised' \in 0 .. Len(queue')
         /\ \A n \in toDrain : queue'[n] = queue[n]
<1>1. queue \in Seq(QueueRow) /\ Len(queue) \in Nat
  BY LenProperties DEF DbTypeOK
<1> QED
  BY <1>1, AppendedRow DEF CatchUpTypeOK, HistoryTypeOK

\* The steps of an open socket.
LEMMA InvSocket ==
  ASSUME IndInv, NEW w \in Connection, Socket(w)
  PROVE  IndInv'
<1> USE DEF IndInv, TypeOK
<1>0. /\ history[w] \in Transcript /\ prefix[w] \in Nat /\ Len(history[w]) \in Nat
      /\ Evidence(w) \in Transcript
  <2>1. history[w] \in Transcript /\ prefix[w] \in Nat /\ Len(history[w]) \in Nat
    BY LenProperties DEF Transcript, SocketTypeOK
  <2> QED
    BY <2>1, SliceIsTranscript DEF Evidence
<1>1. ASSUME NEW c \in Conversation \cup {None}, OpenSocket(w, c)
      PROVE  IndInv'
  <2>1. c # None => messages[c] \in Transcript /\ Len(messages[c]) \in Nat
    BY <1>1, LenProperties DEF Transcript, DbTypeOK
  <2>2. SocketTypeOK'
    BY <1>1, <2>1, EmptyTranscript DEF OpenSocket, SocketTypeOK, SocketState
  <2>3. SocketControl'
    BY <1>1, <2>1, EmptyTranscript DEF OpenSocket, SocketTypeOK, SocketControl
  <2>4. UNCHANGED <<dbVars, processVars, catchUpVars, countVars, read, promised>>
    BY <1>1 DEF OpenSocket
  <2> QED
    BY <2>2, <2>3, <2>4 DEF dbVars, processVars, catchUpVars, countVars, DbTypeOK,
       ProcessTypeOK, CatchUpTypeOK, HistoryTypeOK, DrainControl
<1>2. CASE BeginTurn(w)
  <2>1. DbTypeOK'
    BY <1>2 DEF BeginTurn, DbTypeOK
  <2>2. SocketTypeOK' /\ SocketControl'
    BY <1>2, NoneAssumption DEF BeginTurn, SocketTypeOK, SocketState, SocketControl
  <2>3. UNCHANGED <<queue, processVars, catchUpVars, countVars, read, promised>>
    BY <1>2 DEF BeginTurn
  <2> QED
    BY <2>1, <2>2, <2>3 DEF processVars, catchUpVars, countVars,
       ProcessTypeOK, CatchUpTypeOK, HistoryTypeOK, DrainControl
<1>3. CASE EndTurn(w)
  <2>1. said + 1 \in Turn /\ said + 1 \in 0 .. MaxTurn
    BY <1>3, BoundsAssumption DEF EndTurn, Turn, HistoryTypeOK
  <2>2. Append(history[w], said + 1) \in Transcript
        /\ Len(Append(history[w], said + 1)) = Len(history[w]) + 1
    BY <1>0, <2>1, AppendIsTranscript
  <2>3. SocketTypeOK'
    BY <1>3, <2>1, <2>2 DEF EndTurn, SocketTypeOK, SocketState
  <2>4. SocketControl'
    BY <1>0, <1>3, <2>2 DEF EndTurn, SocketTypeOK, SocketControl
  <2>5. HistoryTypeOK'
    BY <1>3, <2>1 DEF EndTurn, HistoryTypeOK, dbVars
  <2>6. UNCHANGED <<dbVars, processVars, catchUpVars>>
    BY <1>3 DEF EndTurn
  <2> QED
    BY <2>3, <2>4, <2>5, <2>6 DEF dbVars, processVars, catchUpVars, DbTypeOK,
       ProcessTypeOK, CatchUpTypeOK, DrainControl
<1>4. CASE CommitTurn(w)
  <2>1. conversation[w] \in Conversation /\ Last(history[w]) \in Turn
    <3>1. unseen[w] /\ Len(history[w]) > 0
      BY <1>0, <1>4 DEF CommitTurn, SocketControl
    <3>2. Last(history[w]) \in Turn
      <4>1. Len(history[w]) \in 1 .. Len(history[w])
        BY <1>0, <3>1
      <4> QED
        BY <1>0, <4>1, ElementOfSeq DEF Transcript, Last
    <3> QED
      BY <3>1, <3>2 DEF SocketControl, SocketTypeOK
  <2>2. DbTypeOK'
    <3>1. messages[conversation[w]] \in Transcript
      BY <2>1 DEF DbTypeOK
    <3>2. Append(messages[conversation[w]], Last(history[w])) \in Transcript
      BY <2>1, <3>1, AppendIsTranscript
    <3> QED
      BY <1>4, <2>1, <3>2 DEF CommitTurn, DbTypeOK
  <2>3. SocketTypeOK' /\ SocketControl'
    BY <1>4 DEF CommitTurn, SocketTypeOK, SocketState, SocketControl
  <2>4. UNCHANGED <<queue, processVars, catchUpVars, countVars, read, promised>>
    BY <1>4 DEF CommitTurn
  <2> QED
    BY <2>2, <2>3, <2>4 DEF processVars, catchUpVars, countVars,
       ProcessTypeOK, CatchUpTypeOK, HistoryTypeOK, DrainControl
<1>5. CASE IdleTimeout(w)
  <2>1. SocketTypeOK' /\ SocketControl'
    BY <1>5 DEF IdleTimeout, SocketTypeOK, SocketState, SocketControl
  <2>2. UNCHANGED <<dbVars, processVars, catchUpVars, countVars, read, promised>>
    BY <1>5 DEF IdleTimeout
  <2> QED
    BY <2>1, <2>2 DEF dbVars, processVars, catchUpVars, countVars, DbTypeOK,
       ProcessTypeOK, CatchUpTypeOK, HistoryTypeOK, DrainControl
<1>6. CASE Disconnect(w)
  <2>1. SocketTypeOK' /\ SocketControl' /\ toEnqueue' \subseteq Connection
    <3>1. CASE unseen[w] /\ process = "serving"
      BY <1>6, <3>1 DEF Disconnect, SocketTypeOK, SocketState, SocketControl, ProcessTypeOK
    <3>2. CASE ~(unseen[w] /\ process = "serving")
      BY <1>6, <3>2, ClosedSocket DEF Disconnect, ProcessTypeOK
    <3> QED
      BY <3>1, <3>2
  <2>2. UNCHANGED <<dbVars, process, unlocked, errand, catchUpVars, countVars, read,
                    promised>>
    BY <1>6 DEF Disconnect
  <2> QED
    BY <2>1, <2>2 DEF dbVars, catchUpVars, countVars, DbTypeOK,
       ProcessTypeOK, CatchUpTypeOK, HistoryTypeOK, DrainControl
<1>7. CASE PassReturns(w)
  <2>1. ToSet(Evidence(w)) \subseteq Turn
    BY <1>0, ElementOfSeq, LenProperties DEF ToSet, Transcript
  <2>2. SocketTypeOK' /\ SocketControl'
    BY <1>7 DEF PassReturns, SocketTypeOK, SocketState, SocketControl
  <2>3. UNCHANGED <<dbVars, processVars, catchUpVars, countVars, promised>>
        /\ read' = read \cup ToSet(Evidence(w))
    BY <1>7 DEF PassReturns
  <2> QED
    BY <2>1, <2>2, <2>3 DEF dbVars, processVars, catchUpVars, countVars, DbTypeOK,
       ProcessTypeOK, CatchUpTypeOK, HistoryTypeOK, DrainControl
<1>8. ASSUME AfterPass(w) PROVE SocketTypeOK' /\ SocketControl' /\ toEnqueue' \subseteq Connection
  <2>1. CASE pc[w] \in {"idlePass", "idleMark"}
    <3>0. /\ pc' = [pc EXCEPT ![w] = "waiting"]
          /\ history' = [history EXCEPT ![w] = <<>>]
          /\ prefix' = [prefix EXCEPT ![w] = 0]
          /\ unseen' = [unseen EXCEPT ![w] = FALSE]
          /\ own' = [own EXCEPT ![w] = {}]
          /\ conversation' = conversation
      BY <1>8, <2>1 DEF AfterPass
    <3>1. SocketTypeOK'
      BY <3>0, EmptyTranscript DEF SocketTypeOK, SocketState
    <3>2. SocketControl'
      BY <3>0, EmptyTranscript DEF SocketTypeOK, SocketControl
    <3>3. toEnqueue' = toEnqueue
      BY <1>8, <2>1 DEF AfterPass
    <3>4. toEnqueue' \subseteq Connection
      BY <3>3 DEF ProcessTypeOK
    <3> QED
      BY <3>1, <3>2, <3>4
  <2>2. CASE pc[w] \notin {"idlePass", "idleMark"}
    BY <1>8, <2>2, ClosedSocket DEF AfterPass, ProcessTypeOK
  <2> QED
    BY <2>1, <2>2
<1>9. CASE MarkObserved(w)
  <2>1. DbTypeOK'
    BY <1>9 DEF MarkObserved, DbTypeOK
  <2>2. UNCHANGED <<queue, process, unlocked, errand, catchUpVars, countVars, read,
                    promised>>
    BY <1>9 DEF MarkObserved
  <2> QED
    BY <1>8, <1>9, <2>1, <2>2 DEF MarkObserved, catchUpVars, countVars,
       ProcessTypeOK, CatchUpTypeOK, HistoryTypeOK, DrainControl
<1>10. CASE PassRaises(w)
  <2>1. UNCHANGED <<dbVars, process, unlocked, errand, catchUpVars, countVars, read,
                    promised>>
    BY <1>10 DEF PassRaises
  <2> QED
    BY <1>8, <1>10, <2>1 DEF PassRaises, dbVars, catchUpVars, countVars, DbTypeOK,
       ProcessTypeOK, CatchUpTypeOK, HistoryTypeOK, DrainControl
<1>11. CASE EnqueueSession(w)
  <2>1. UNCHANGED <<row, messages, observed, process, unlocked, errand, socketVars,
                    catchUpVars, countVars, read, promised>>
        /\ toEnqueue' \subseteq Connection
    BY <1>11 DEF EnqueueSession, ProcessTypeOK
  <2>2. CASE unseen[w] /\ Evidence(w) # <<>>
    <3>1. queue' = Append(queue, [transcript |-> Evidence(w), status |-> "pending"])
      BY <1>11, <2>2 DEF EnqueueSession
    <3>2. /\ queue' \in Seq(QueueRow) /\ toDrain' \subseteq DOMAIN queue'
          /\ promised' \in 0 .. Len(queue')
          /\ \A n \in toDrain : queue'[n] = queue[n]
      BY <1>0, <2>1, <3>1, QueueGrows DEF catchUpVars
    <3> QED
      BY <2>1, <3>2 DEF socketVars, catchUpVars, countVars, DbTypeOK, ProcessTypeOK,
         SocketTypeOK, SocketControl, CatchUpTypeOK, HistoryTypeOK, DrainControl
  <2>3. CASE queue' = queue
    BY <2>1, <2>3 DEF socketVars, catchUpVars, countVars, DbTypeOK, ProcessTypeOK,
       SocketTypeOK, SocketControl, CatchUpTypeOK, HistoryTypeOK, DrainControl
  <2> QED
    BY <1>11, <2>2, <2>3 DEF EnqueueSession
<1> QED
  BY <1>1, <1>2, <1>3, <1>4, <1>5, <1>6, <1>7, <1>9, <1>10, <1>11 DEF Socket

\* What a process leaves behind when it ends.
LEMMA EndedProcess ==
  ASSUME IndInv, ProcessEnds
  PROVE  IndInv'
<1> USE DEF IndInv, TypeOK
<1>1. UNCHANGED <<dbVars, said, starts, locks, read>>
      /\ promised' = 0 /\ toDrain' = {} /\ catchUp' = "idle"
  BY DEF ProcessEnds, countVars
<1>2. DbTypeOK'
  BY <1>1 DEF DbTypeOK, dbVars
<1>3. ProcessTypeOK'
  BY DEF ProcessEnds, ProcessTypeOK
<1>4. SocketTypeOK' /\ SocketControl'
  BY EmptyTranscript DEF ProcessEnds, SocketTypeOK, SocketState, SocketControl
<1>5. CatchUpTypeOK'
  BY DEF ProcessEnds, CatchUpTypeOK
<1>6. HistoryTypeOK'
  BY <1>1 DEF HistoryTypeOK, dbVars
<1>7. DrainControl'
  BY <1>1 DEF DrainControl
<1> QED
  BY <1>2, <1>3, <1>4, <1>5, <1>6, <1>7

LEMMA StartedCatchUp ==
  ASSUME DbTypeOK, CatchUpTypeOK, DrainControl, StartCatchUp, UNCHANGED queue
  PROVE  CatchUpTypeOK' /\ DrainControl' /\ promised' \in 0 .. Len(queue')
<1>1. Len(queue) \in Nat
  BY LenProperties DEF DbTypeOK
<1>2. /\ UNCHANGED <<unrecovered, recovering, toDrain, draining, queue>>
      /\ promised' = Len(queue)
      /\ catchUp' \in {catchUp, "begun"}
  BY DEF StartCatchUp
<1> QED
  BY <1>1, <1>2 DEF CatchUpTypeOK, DrainControl

\* The steps of the process.
LEMMA InvProcess ==
  ASSUME IndInv, Process
  PROVE  IndInv'
<1> USE DEF IndInv, TypeOK
<1>1. ASSUME UNCHANGED <<starts, said, dbVars, socketVars, catchUpVars, read, promised>>,
             ProcessTypeOK', locks' \in 0 .. MaxLock
      PROVE  IndInv'
  BY <1>1 DEF dbVars, socketVars, catchUpVars, DbTypeOK, SocketTypeOK, SocketControl,
     CatchUpTypeOK, HistoryTypeOK, DrainControl
<1>2. locks \in 0 .. MaxLock
  BY DEF HistoryTypeOK
<1>3. CASE LockBegins
  <2>1. ProcessTypeOK'
    BY <1>3 DEF LockBegins, ProcessTypeOK, Registered
  <2>2. locks' \in 0 .. MaxLock
    BY <1>3, <1>2, BoundsAssumption DEF LockBegins
  <2> QED
    BY <1>1, <1>3, <2>1, <2>2 DEF LockBegins
<1>4. CASE LockEnds
  BY <1>1, <1>2, <1>4 DEF LockEnds, ProcessTypeOK, countVars
<1>5. CASE StopBegins
  BY <1>1, <1>2, <1>5 DEF StopBegins, ProcessTypeOK, countVars
<1>6. CASE StopSnapshots
  <2>1. ProcessTypeOK'
    BY <1>6 DEF StopSnapshots, ProcessTypeOK, Registered
  <2> QED
    BY <1>1, <1>2, <1>6, <2>1 DEF StopSnapshots, countVars
<1>7. CASE StopEnds
  BY <1>1, <1>2, <1>7 DEF StopEnds, ProcessTypeOK, countVars
<1>8. CASE Exit
  BY <1>8, EndedProcess DEF Exit
<1>9. CASE Kill
  BY <1>9, EndedProcess DEF Kill
<1>10. CASE Start
  <2>1. /\ ProcessTypeOK'
        /\ starts' \in 0 .. MaxStart
        /\ UNCHANGED <<dbVars, socketVars, read, said, locks>>
    BY <1>10, BoundsAssumption, EventAssumption
    DEF Start, ProcessTypeOK, HistoryTypeOK
  <2>2. CatchUpTypeOK' /\ DrainControl' /\ promised' \in 0 .. Len(queue')
    <3>1. UNCHANGED queue
      BY <2>1 DEF dbVars
    <3>2. CASE HasPassword
      BY <1>10, <3>1, <3>2 DEF Start, catchUpVars, CatchUpTypeOK, DrainControl, HistoryTypeOK
    <3>3. CASE ~HasPassword
      BY <1>10, <3>1, <3>3, StartedCatchUp DEF Start
    <3> QED
      BY <3>2, <3>3
  <2> QED
    BY <2>1, <2>2 DEF dbVars, socketVars, DbTypeOK, SocketTypeOK, SocketControl, HistoryTypeOK
<1>11. CASE Unlock
  <2>1. /\ ProcessTypeOK'
        /\ UNCHANGED <<dbVars, socketVars, read, countVars>>
    BY <1>11 DEF Unlock, ProcessTypeOK
  <2>2. CatchUpTypeOK' /\ DrainControl' /\ promised' \in 0 .. Len(queue')
    BY <1>11, <2>1, StartedCatchUp DEF Unlock, dbVars
  <2> QED
    BY <2>1, <2>2 DEF dbVars, socketVars, countVars, DbTypeOK, SocketTypeOK, SocketControl,
       HistoryTypeOK
<1> QED
  BY <1>3, <1>4, <1>5, <1>6, <1>7, <1>8, <1>9, <1>10, <1>11 DEF Process

\* The catch-up has queued one conversation, or has passed it over.
LEMMA InvRecoverConversation ==
  ASSUME IndInv, NEW c \in Conversation, RecoverConversation(c)
  PROVE  IndInv'
<1> USE DEF IndInv, TypeOK
<1>1. /\ UNCHANGED <<row, messages, observed, toDrain, draining, processVars,
                     socketVars, read, countVars, promised>>
      /\ unrecovered' \subseteq Conversation
      /\ catchUp = "recover"
  BY DEF RecoverConversation, CatchUpTypeOK
<1>2. CASE messages[c] # <<>>
  <2>1. /\ queue' = Append(queue, [transcript |-> messages[c], status |-> "pending"])
        /\ recovering' = c /\ catchUp' = "mark"
    BY <1>2 DEF RecoverConversation
  <2>2. messages[c] \in Transcript
    BY DEF DbTypeOK
  <2>3. /\ queue' \in Seq(QueueRow) /\ toDrain' \subseteq DOMAIN queue'
        /\ promised' \in 0 .. Len(queue')
        /\ \A n \in toDrain : queue'[n] = queue[n]
    BY <1>1, <2>1, <2>2, QueueGrows
  <2>4. CatchUpTypeOK'
    BY <1>1, <2>1, <2>3 DEF CatchUpTypeOK
  <2>5. DrainControl'
    BY <1>1, <2>1, <2>3, NoneAssumption DEF DrainControl
  <2> QED
    BY <1>1, <2>3, <2>4, <2>5 DEF processVars, socketVars, countVars, DbTypeOK,
       ProcessTypeOK, SocketTypeOK, SocketControl, HistoryTypeOK
<1>3. CASE ~(messages[c] # <<>>)
  <2>1. UNCHANGED <<queue, recovering, catchUp>>
    BY <1>3 DEF RecoverConversation
  <2> QED
    BY <1>1, <2>1 DEF processVars, socketVars, countVars, DbTypeOK, ProcessTypeOK,
       SocketTypeOK, SocketControl, CatchUpTypeOK, HistoryTypeOK, DrainControl
<1> QED
  BY <1>2, <1>3

\* The drain has written a status in the row it is at, and is done with it.
LEMMA InvFinishRow ==
  ASSUME IndInv, catchUp \in {"run", "finish"},
         NEW status \in {"pending", "processing", "completed", "failed"},
         FinishRow(status)
  PROVE  IndInv'
<1> USE DEF IndInv, TypeOK
<1>1. draining \in DOMAIN queue /\ queue \in Seq(QueueRow)
  BY DEF DrainControl, CatchUpTypeOK, DbTypeOK
<1>2. /\ queue' = [queue EXCEPT ![draining].status = status]
      /\ catchUp' = "drain" /\ toDrain' = toDrain \ {draining} /\ draining' = 0
      /\ UNCHANGED <<row, messages, observed, unrecovered, recovering, processVars,
                     socketVars, read, countVars, promised>>
  BY DEF FinishRow
<1>3. /\ queue' \in Seq(QueueRow) /\ Len(queue') = Len(queue)
      /\ DOMAIN queue' = DOMAIN queue
      /\ \A m \in DOMAIN queue : m # draining => queue'[m] = queue[m]
  BY <1>1, <1>2, UpdatedRow
<1>4. CatchUpTypeOK' /\ DrainControl'
  BY <1>2, <1>3 DEF CatchUpTypeOK, DrainControl
<1> QED
  BY <1>2, <1>3, <1>4 DEF processVars, socketVars, countVars, DbTypeOK, ProcessTypeOK,
     SocketTypeOK, SocketControl, HistoryTypeOK

LEMMA InvTakeRow ==
  ASSUME IndInv, TakeRow
  PROVE  IndInv'
<1> USE DEF IndInv, TypeOK
<1>1. PICK n \in toDrain : /\ draining' = n
                           /\ queue' = [queue EXCEPT ![n].status = "processing"]
  BY DEF TakeRow
<1>2. /\ catchUp' = "run"
      /\ UNCHANGED <<row, messages, observed, unrecovered, recovering, toDrain,
                     processVars, socketVars, read, countVars, promised>>
  BY DEF TakeRow
<1>3. n \in DOMAIN queue /\ queue \in Seq(QueueRow) /\ n \in Nat
  BY LenProperties DEF CatchUpTypeOK, DbTypeOK
<1>4. /\ queue' \in Seq(QueueRow) /\ Len(queue') = Len(queue)
      /\ DOMAIN queue' = DOMAIN queue
      /\ queue'[n].status = "processing"
      /\ \A m \in DOMAIN queue : m # n => queue'[m] = queue[m]
  BY <1>1, <1>3, UpdatedRow
<1>5. CatchUpTypeOK'
  BY <1>1, <1>2, <1>3, <1>4 DEF CatchUpTypeOK
<1>6. DrainControl'
  BY <1>1, <1>2, <1>4 DEF DrainControl, CatchUpTypeOK
<1> QED
  BY <1>2, <1>4, <1>5, <1>6 DEF processVars, socketVars, countVars, DbTypeOK,
     ProcessTypeOK, SocketTypeOK, SocketControl, HistoryTypeOK

\* The steps of the catch-up thread.
LEMMA InvCatchUp ==
  ASSUME IndInv, CatchUp
  PROVE  IndInv'
<1> USE DEF IndInv, TypeOK
<1>1. ASSUME UNCHANGED <<dbVars, processVars, socketVars, countVars, promised>>,
             CatchUpTypeOK', DrainControl', read' \subseteq Turn
      PROVE  IndInv'
  BY <1>1 DEF dbVars, processVars, socketVars, countVars, DbTypeOK, ProcessTypeOK,
     SocketTypeOK, SocketControl, HistoryTypeOK
<1>2. read \subseteq Turn
  BY DEF HistoryTypeOK
<1>3. CASE ListUnobserved
  <2>1. CatchUpTypeOK' /\ DrainControl'
    BY <1>3 DEF ListUnobserved, dbVars, CatchUpTypeOK, DrainControl, Unrecovered
  <2>2. read' \subseteq Turn /\ UNCHANGED <<dbVars, processVars, socketVars, countVars, promised>>
    BY <1>2, <1>3 DEF ListUnobserved
  <2> QED
    BY <1>1, <2>1, <2>2
<1>4. CASE \E c \in Conversation : RecoverConversation(c)
  BY <1>4, InvRecoverConversation
<1>5. CASE MarkRecovered
  <2>1. DbTypeOK'
    BY <1>5 DEF MarkRecovered, DbTypeOK
  <2>2. CatchUpTypeOK' /\ DrainControl'
    BY <1>5 DEF MarkRecovered, CatchUpTypeOK, DrainControl
  <2> QED
    BY <1>5, <2>1, <2>2 DEF MarkRecovered, processVars, socketVars, countVars,
       ProcessTypeOK, SocketTypeOK, SocketControl, HistoryTypeOK
<1>6. CASE ListForDrain
  <2>1. CatchUpTypeOK' /\ DrainControl'
    BY <1>6 DEF ListForDrain, dbVars, CatchUpTypeOK, DrainControl
  <2> QED
    BY <1>1, <1>2, <1>6, <2>1 DEF ListForDrain
<1>7. CASE TakeRow
  BY <1>7, InvTakeRow
<1>8. CASE RowReturns
  <2>1. draining \in DOMAIN queue
    BY <1>8 DEF RowReturns, DrainControl, CatchUpTypeOK
  <2>2. queue[draining] \in QueueRow
    BY <2>1, LenProperties, ElementOfSeq DEF DbTypeOK
  <2>3. queue[draining].transcript \in Seq(Turn)
    BY <2>2 DEF QueueRow, Transcript
  <2>4. ToSet(queue[draining].transcript) \subseteq Turn
    BY <2>3, ElementOfSeq, LenProperties DEF ToSet
  <2>5. CatchUpTypeOK' /\ DrainControl' /\ read' \subseteq Turn
    BY <1>2, <1>8, <2>4 DEF RowReturns, dbVars, CatchUpTypeOK, DrainControl
  <2> QED
    BY <1>1, <1>8, <2>5 DEF RowReturns
<1>9. CASE CompleteRow
  BY <1>9, InvFinishRow DEF CompleteRow
<1>10. CASE DeferRow
  BY <1>10, InvFinishRow DEF DeferRow, DrainControl
<1>11. CASE FailRow
  BY <1>11, InvFinishRow DEF FailRow
<1>12. CASE CatchUpEnds
  <2>1. CatchUpTypeOK' /\ DrainControl'
    BY <1>12 DEF CatchUpEnds, dbVars, CatchUpTypeOK, DrainControl
  <2> QED
    BY <1>1, <1>2, <1>12, <2>1 DEF CatchUpEnds
<1>13. CASE CatchUpFaults
  <2>1. CatchUpTypeOK' /\ DrainControl'
    BY <1>13 DEF CatchUpFaults, dbVars, CatchUpTypeOK, DrainControl
  <2> QED
    BY <1>1, <1>2, <1>13, <2>1 DEF CatchUpFaults
<1> QED
  BY <1>3, <1>4, <1>5, <1>6, <1>7, <1>8, <1>9, <1>10, <1>11, <1>12, <1>13 DEF CatchUp

LEMMA InvDelete ==
  ASSUME IndInv, NEW c \in Conversation, DeleteConversation(c)
  PROVE  IndInv'
<1> USE DEF IndInv, TypeOK
<1>1. DbTypeOK'
  BY EmptyTranscript DEF DeleteConversation, DbTypeOK
<1>2. UNCHANGED <<queue, processVars, socketVars, catchUpVars, read, countVars, promised>>
  BY DEF DeleteConversation
<1> QED
  BY <1>1, <1>2 DEF processVars, socketVars, catchUpVars, countVars, ProcessTypeOK,
     SocketTypeOK, SocketControl, CatchUpTypeOK, HistoryTypeOK, DrainControl

LEMMA InvStep == IndInv /\ [Next]_vars => IndInv'
<1> SUFFICES ASSUME IndInv, [Next]_vars PROVE IndInv'
  OBVIOUS
<1>1. ASSUME NEW w \in Connection, Socket(w) PROVE IndInv'
  BY <1>1, InvSocket
<1>2. CASE Process
  BY <1>2, InvProcess
<1>3. CASE CatchUp
  BY <1>3, InvCatchUp
<1>4. ASSUME NEW c \in Conversation, DeleteConversation(c) PROVE IndInv'
  BY <1>4, InvDelete
<1>5. CASE UNCHANGED vars
  BY <1>5, StutterUnfolds DEF IndInv, TypeOK, DbTypeOK, ProcessTypeOK, SocketTypeOK,
     SocketControl, CatchUpTypeOK, HistoryTypeOK, DrainControl
<1> QED
  BY <1>1, <1>2, <1>3, <1>4, <1>5 DEF Next

\* Every reachable state has the invariant: the types, a handler that commits,
\* observes or is enqueued has a turn of its own to do it with (ws_chat), and
\* the row a drain is at is one it has marked 'processing' (drain_pending).
THEOREM Invariant == Spec => []IndInv
<1>1. Init => IndInv
  BY InvInit
<1>2. IndInv /\ [Next]_vars => IndInv'
  BY InvStep
<1> QED
  BY <1>1, <1>2, PTL DEF Spec

\* The variables always have their types, and the drain's work list always
\* consists of rows of the table (drain_pending never runs ahead of it).
THEOREM TypeCorrect == Spec => []TypeOK
<1>1. IndInv => TypeOK
  BY DEF IndInv
<1> QED
  BY <1>1, Invariant, PTL

-----------------------------------------------------------------------------
(* Evidence. *)

\* What a turn adds to the slice behind a prefix that reaches no further than
\* the history.
LEMMA SliceOfAppend ==
  ASSUME NEW s \in Transcript, NEW m \in Nat, m <= Len(s), NEW t \in Turn
  PROVE  ToSet(SubSeq(Append(s, t), m + 1, Len(Append(s, t))))
           = ToSet(SubSeq(s, m + 1, Len(s))) \cup {t}
<1> DEFINE a == Append(s, t)
           old == SubSeq(s, m + 1, Len(s))
           new == SubSeq(a, m + 1, Len(a))
           k == Len(s) - m
<1>1. /\ s \in Seq(Turn) /\ a \in Seq(Turn) /\ Len(s) \in Nat /\ k \in Nat
      /\ Len(a) = Len(s) + 1 /\ a[Len(s) + 1] = t
      /\ \A i \in 1 .. Len(s) : a[i] = s[i]
  BY AppendProperties, LenProperties DEF Transcript
<1>2. /\ DOMAIN old = 1 .. k
      /\ \A i \in 1 .. k : old[i] = s[m + i]
  BY <1>1, SubSeqProperties, LenProperties
<1>3. /\ DOMAIN new = 1 .. k + 1
      /\ \A i \in 1 .. k + 1 : new[i] = a[m + i]
  BY <1>1, SubSeqProperties, LenProperties
<1>4. \A i \in 1 .. k : new[i] = old[i]
  BY <1>1, <1>2, <1>3
<1>5. new[k + 1] = t
  BY <1>1, <1>3
<1>6. 1 .. k + 1 = (1 .. k) \cup {k + 1}
  BY <1>1
<1> HIDE DEF a, old, new, k
<1>7. ToSet(new) = ToSet(old) \cup {t}
  BY <1>2, <1>3, <1>4, <1>5, <1>6 DEF ToSet
<1> QED
  BY <1>7 DEF a, old, new

\* Nothing lies behind a prefix that covers the history.
LEMMA EmptySlice ==
  ASSUME NEW s \in Transcript
  PROVE  ToSet(SubSeq(s, Len(s) + 1, Len(s))) = {}
<1>1. Len(s) \in Nat /\ s \in Seq(Turn)
  BY LenProperties DEF Transcript
<1>2. SubSeq(s, Len(s) + 1, Len(s)) = <<>>
  BY <1>1, SubSeqProperties
<1> QED
  BY <1>2 DEF ToSet

LEMMA EmptyEvidence == ToSet(SubSeq(<<>>, 0 + 1, Len(<<>>))) = {}
BY EmptyTranscript, EmptySlice

\* A step that leaves a socket's transcript alone leaves its evidence alone.
LEMMA EvidenceUnmoved ==
  ASSUME EvidenceIsOwn, UNCHANGED <<history, prefix, unseen, own>>
  PROVE  EvidenceIsOwn'
BY DEF EvidenceIsOwn, Evidence

\* A handler that has forgotten its history has nothing to give.
LEMMA EvidenceForgotten ==
  ASSUME SocketTypeOK, EvidenceIsOwn, NEW w \in Connection,
         history' = [history EXCEPT ![w] = <<>>],
         prefix' = [prefix EXCEPT ![w] = 0],
         unseen' = [unseen EXCEPT ![w] = FALSE],
         own' = [own EXCEPT ![w] = {}]
  PROVE  EvidenceIsOwn'
BY EmptyEvidence DEF SocketTypeOK, EvidenceIsOwn, Evidence

LEMMA EvidenceSocket ==
  ASSUME IndInv, EvidenceIsOwn, NEW w \in Connection, Socket(w)
  PROVE  EvidenceIsOwn'
<1> USE DEF IndInv, TypeOK
<1>1. ASSUME NEW c \in Conversation \cup {None}, OpenSocket(w, c)
      PROVE  EvidenceIsOwn'
  <2> DEFINE h == IF c = None THEN <<>> ELSE messages[c]
             p == IF c = None THEN 0 ELSE Len(messages[c])
  <2>1. ToSet(SubSeq(h, p + 1, Len(h))) = {}
    BY EmptyEvidence, EmptySlice DEF DbTypeOK
  <2>2. own[w] = {} /\ ~unseen[w]
    BY <1>1 DEF OpenSocket, SocketControl, SocketTypeOK, EvidenceIsOwn
  <2>3. /\ history' = [history EXCEPT ![w] = h] /\ prefix' = [prefix EXCEPT ![w] = p]
        /\ UNCHANGED <<unseen, own>>
    BY <1>1 DEF OpenSocket
  <2> HIDE DEF h, p
  <2> QED
    BY <2>1, <2>2, <2>3 DEF SocketTypeOK, EvidenceIsOwn, Evidence
<1>2. CASE EndTurn(w)
  <2>1. said + 1 \in Turn
    BY <1>2, BoundsAssumption DEF EndTurn, Turn, HistoryTypeOK
  <2> DEFINE h == Append(history[w], said + 1)
  <2>2. /\ history' = [history EXCEPT ![w] = h]
        /\ unseen' = [unseen EXCEPT ![w] = TRUE]
        /\ own' = [own EXCEPT ![w] = own[w] \cup {said + 1}]
        /\ prefix' = prefix
    BY <1>2 DEF EndTurn
  <2>3. ToSet(SubSeq(h, prefix[w] + 1, Len(h))) = ToSet(Evidence(w)) \cup {said + 1}
    BY <2>1, SliceOfAppend DEF Evidence, SocketTypeOK, SocketControl
  <2> HIDE DEF h
  <2> QED
    BY <2>2, <2>3 DEF SocketTypeOK, EvidenceIsOwn, Evidence
<1>3. ASSUME CloseSocket(w) PROVE EvidenceIsOwn'
  BY <1>3, EvidenceForgotten DEF CloseSocket
<1>4. ASSUME AfterPass(w) PROVE EvidenceIsOwn'
  BY <1>3, <1>4, EvidenceForgotten DEF AfterPass
<1>5. CASE Disconnect(w)
  BY <1>3, <1>5, EvidenceUnmoved DEF Disconnect
<1>6. CASE MarkObserved(w) \/ PassRaises(w)
  BY <1>4, <1>6 DEF MarkObserved, PassRaises
<1>7. CASE BeginTurn(w) \/ CommitTurn(w) \/ IdleTimeout(w) \/ PassReturns(w)
  BY <1>7, EvidenceUnmoved DEF BeginTurn, CommitTurn, IdleTimeout, PassReturns
<1>8. CASE EnqueueSession(w)
  BY <1>8, EvidenceUnmoved DEF EnqueueSession, socketVars
<1> QED
  BY <1>1, <1>2, <1>5, <1>6, <1>7, <1>8 DEF Socket

LEMMA EvidenceStep == IndInv /\ EvidenceIsOwn /\ [Next]_vars => EvidenceIsOwn'
<1> SUFFICES ASSUME IndInv, EvidenceIsOwn, [Next]_vars PROVE EvidenceIsOwn'
  OBVIOUS
<1>1. ASSUME NEW w \in Connection, Socket(w) PROVE EvidenceIsOwn'
  BY <1>1, EvidenceSocket
<1>2. CASE ProcessEnds
  <2>1. \A w \in Connection :
          /\ history'[w] = <<>> /\ prefix'[w] = 0 /\ unseen'[w] = FALSE /\ own'[w] = {}
    BY <1>2 DEF ProcessEnds
  <2> QED
    BY <2>1, EmptyEvidence DEF EvidenceIsOwn, Evidence
<1>3. CASE UNCHANGED socketVars
  BY <1>3, EvidenceUnmoved DEF socketVars
<1>4. Process => ProcessEnds \/ UNCHANGED socketVars
  BY DEF Process, LockBegins, LockEnds, StopBegins, StopSnapshots, StopEnds, Exit, Kill,
     Start, Unlock
<1>5. CatchUp => UNCHANGED socketVars
  BY DEF CatchUp, ListUnobserved, RecoverConversation, MarkRecovered, ListForDrain, TakeRow,
     RowReturns, CompleteRow, DeferRow, FailRow, FinishRow, CatchUpEnds, CatchUpFaults
<1>6. ASSUME NEW c \in Conversation, DeleteConversation(c) PROVE UNCHANGED socketVars
  BY <1>6 DEF DeleteConversation
<1>7. UNCHANGED vars => UNCHANGED socketVars
  BY DEF vars
<1> QED
  BY <1>1, <1>2, <1>3, <1>4, <1>5, <1>6, <1>7 DEF Next

\* However sockets resume, time out, fail a pass, are signed out or killed, the
\* slice behind observed_prefix is exactly what was said on the socket since
\* its last pass (ws_chat, run_observer_now, enqueue_for_shutdown).
THEOREM EvidenceCorrect == Spec => []EvidenceIsOwn
<1>1. Init => EvidenceIsOwn
  BY EmptyEvidence DEF Init, EvidenceIsOwn, Evidence
<1>2. IndInv /\ EvidenceIsOwn /\ [Next]_vars => EvidenceIsOwn'
  BY EvidenceStep
<1> QED
  BY <1>1, <1>2, Invariant, PTL DEF Spec

-----------------------------------------------------------------------------
(* The table. *)

\* Nothing but the drain and the two ways in writes the table.
LEMMA TableSocket ==
  ASSUME IndInv, NEW w \in Connection, Socket(w)
  PROVE  Table!Next \/ UNCHANGED <<queue, catchUp, draining>>
<1>1. CASE EnqueueSession(w)
  <2>1. UNCHANGED <<catchUp, draining>>
    BY <1>1 DEF EnqueueSession, catchUpVars
  <2>2. CASE unseen[w] /\ Evidence(w) # <<>>
    <3>1. queue' = Append(queue, [transcript |-> Evidence(w), status |-> "pending"])
      BY <1>1, <2>2 DEF EnqueueSession
    <3>2. Evidence(w) \in Transcript /\ queue \in Seq(QueueRow)
      BY SliceIsTranscript DEF IndInv, TypeOK, SocketTypeOK, DbTypeOK, Evidence
    <3>3. /\ Len(queue') = Len(queue) + 1
          /\ queue'[Len(queue) + 1] = [transcript |-> Evidence(w), status |-> "pending"]
      BY <3>1, <3>2, AppendedRow
    <3>4. Table!Enqueue
      BY <2>1, <3>1, <3>2, <3>3 DEF Table!Enqueue
    <3> QED
      BY <3>4 DEF Table!Next
  <2> QED
    BY <1>1, <2>1, <2>2 DEF EnqueueSession
<1>2. CASE ~EnqueueSession(w)
  BY <1>2 DEF Socket, OpenSocket, BeginTurn, EndTurn, CommitTurn, IdleTimeout, Disconnect,
     PassReturns, MarkObserved, PassRaises, dbVars, catchUpVars
<1> QED
  BY <1>1, <1>2

\* Recovery puts rows in; the drain takes one up, runs it and finishes it.
LEMMA TableCatchUp ==
  ASSUME IndInv, CatchUp
  PROVE  Table!Next \/ UNCHANGED Table!queueVars
<1> USE DEF Table!queueVars
<1>1. CASE \E c \in Conversation : RecoverConversation(c)
  <2>1. PICK c \in Conversation : RecoverConversation(c)
    BY <1>1
  <2>2. CASE messages[c] # <<>>
    <3>1. /\ queue' = Append(queue, [transcript |-> messages[c], status |-> "pending"])
          /\ catchUp = "recover" /\ catchUp' = "mark"
      BY <2>1, <2>2 DEF RecoverConversation
    <3>2. messages[c] \in Transcript /\ queue \in Seq(QueueRow)
      BY DEF IndInv, TypeOK, DbTypeOK
    <3>3. /\ Len(queue') = Len(queue) + 1
          /\ queue'[Len(queue) + 1] = [transcript |-> messages[c], status |-> "pending"]
      BY <3>1, <3>2, AppendedRow
    <3>4. Table!Enqueue
      BY <3>1, <3>2, <3>3 DEF Table!Enqueue
    <3> QED
      BY <3>4 DEF Table!Next
  <2>3. CASE ~(messages[c] # <<>>)
    BY <2>1, <2>3 DEF RecoverConversation
  <2> QED
    BY <2>2, <2>3
<1>2. CASE TakeRow
  <2>1. PICK n \in toDrain : queue' = [queue EXCEPT ![n].status = "processing"]
    BY <1>2 DEF TakeRow
  <2>2. catchUp = "drain" /\ catchUp' = "run"
    BY <1>2 DEF TakeRow
  <2>3. n \in DOMAIN queue /\ queue[n].status \in {"pending", "processing"}
    BY DEF IndInv, TypeOK, CatchUpTypeOK, DrainControl
  <2>4. Table!Take(n)
    BY <2>1, <2>2, <2>3 DEF Table!Take, Table!Open
  <2> QED
    BY <2>3, <2>4 DEF Table!Next
<1>3. ASSUME catchUp \in {"run", "finish"}
      PROVE  draining \in DOMAIN queue /\ queue[draining].status = "processing"
  BY <1>3 DEF IndInv, TypeOK, CatchUpTypeOK, DrainControl
<1>4. CASE RowReturns
  <2>1. catchUp = "run" /\ catchUp' = "finish" /\ UNCHANGED <<queue, draining>>
    BY <1>4 DEF RowReturns, dbVars
  <2>2. Table!Run(draining)
    BY <1>3, <2>1 DEF Table!Run
  <2> QED
    BY <1>3, <2>1, <2>2 DEF Table!Next
<1>5. CASE CompleteRow
  <2>1. /\ catchUp = "finish" /\ catchUp' = "drain"
        /\ queue' = [queue EXCEPT ![draining].status = "completed"]
    BY <1>5 DEF CompleteRow, FinishRow
  <2>2. Table!Complete(draining)
    BY <1>3, <2>1 DEF Table!Complete
  <2> QED
    BY <1>3, <2>1, <2>2 DEF Table!Next
<1>6. CASE DeferRow
  <2>1. /\ catchUp = "run" /\ catchUp' = "drain"
        /\ queue' = [queue EXCEPT ![draining].status = queue[draining].status]
    BY <1>6 DEF DeferRow, FinishRow
  <2>2. queue \in Seq(QueueRow)
    BY DEF IndInv, TypeOK, DbTypeOK
  <2>3. queue[draining] \in QueueRow
    BY <1>3, <2>1, <2>2, LenProperties, ElementOfSeq
  <2>4. [queue[draining] EXCEPT !.status = queue[draining].status] = queue[draining]
    BY <2>3 DEF QueueRow
  <2>5. queue' = queue
    BY <1>3, <2>1, <2>2, <2>4
  <2> QED
    BY <2>1, <2>5
<1>7. CASE FailRow
  <2>1. /\ catchUp = "run" /\ catchUp' = "drain"
        /\ queue' = [queue EXCEPT ![draining].status = "failed"]
    BY <1>7 DEF FailRow, FinishRow
  <2>2. Table!Fail(draining)
    BY <1>3, <2>1 DEF Table!Fail
  <2> QED
    BY <1>3, <2>1, <2>2 DEF Table!Next
<1>8. CASE CatchUpFaults
  <2>1. queue' = queue /\ catchUp' = "idle"
    BY <1>8 DEF CatchUpFaults, dbVars
  <2>2. Table!Forget
    BY <2>1 DEF Table!Forget
  <2> QED
    BY <2>2 DEF Table!Next
<1>9. CASE ListUnobserved \/ MarkRecovered \/ ListForDrain \/ CatchUpEnds
  BY <1>9 DEF ListUnobserved, MarkRecovered, ListForDrain, CatchUpEnds, dbVars
<1> QED
  BY <1>1, <1>2, <1>4, <1>5, <1>6, <1>7, <1>8, <1>9 DEF CatchUp

LEMMA TableProcess ==
  ASSUME Process
  PROVE  Table!Next \/ UNCHANGED Table!queueVars
<1>1. CASE ProcessEnds
  <2>1. Table!Forget
    BY <1>1 DEF ProcessEnds, Table!Forget, dbVars
  <2> QED
    BY <2>1 DEF Table!Next
<1>2. CASE Start \/ Unlock
  <2>1. UNCHANGED <<queue, draining>>
    BY <1>2 DEF Start, Unlock, StartCatchUp, dbVars, catchUpVars
  <2>2. catchUp' # catchUp => catchUp = "idle" /\ catchUp' = "begun"
    BY <1>2 DEF Start, Unlock, StartCatchUp, catchUpVars
  <2> QED
    BY <2>1, <2>2 DEF Table!queueVars
<1>3. CASE LockBegins \/ LockEnds \/ StopBegins \/ StopSnapshots \/ StopEnds
  BY <1>3 DEF LockBegins, LockEnds, StopBegins, StopSnapshots, StopEnds, dbVars, catchUpVars,
     Table!queueVars
<1> QED
  BY <1>1, <1>2, <1>3 DEF Process, Exit, Kill

LEMMA TableStep == IndInv /\ [Next]_vars => [Table!Next]_(Table!queueVars)
<1> SUFFICES ASSUME IndInv, [Next]_vars PROVE Table!Next \/ UNCHANGED Table!queueVars
  OBVIOUS
<1> USE DEF Table!queueVars
<1>1. ASSUME NEW w \in Connection, Socket(w)
      PROVE  Table!Next \/ UNCHANGED Table!queueVars
  BY <1>1, TableSocket
<1>2. CASE Process
  BY <1>2, TableProcess
<1>3. CASE CatchUp
  BY <1>3, TableCatchUp
<1>4. ASSUME NEW c \in Conversation, DeleteConversation(c)
      PROVE  UNCHANGED Table!queueVars
  BY <1>4 DEF DeleteConversation, catchUpVars
<1>5. CASE UNCHANGED vars
  BY <1>5 DEF vars, dbVars, catchUpVars
<1> QED
  BY <1>1, <1>2, <1>3, <1>4, <1>5 DEF Next

\* Every behaviour of the sessions, the shutdown, the lock, recovery and the
\* drain - crashes included - uses the pending_observer table as PendingQueue
\* promises (memory/pending_observer.py).
THEOREM Refinement == Spec => QueueKeepsItsPromise
<1>1. Init => Table!Init
  BY DEF Init, Table!Init
<1>2. IndInv /\ [Next]_vars => [Table!Next]_(Table!queueVars)
  BY TableStep
<1> QED
  BY <1>1, <1>2, Invariant, PTL DEF Spec, QueueKeepsItsPromise, Table!Spec

-----------------------------------------------------------------------------
(***************************************************************************)
(* That recovery is complete: as long as every socket serves a             *)
(* conversation of its own, opened after recovery is over, and no idle     *)
(* pass runs, no committed turn is ever lost - for any number of sockets,  *)
(* conversations, starts, kills, clean stops, sign-outs, failing passes,   *)
(* failing rows, faults of the catch-up and deletions.                     *)
(***************************************************************************)

Calm == Allowed \cap {"resume", "idle", "early"} = {}

\* A conversation that is not there has nothing.
Rows ==
  \A c \in Conversation :
    row[c] # "present" => ~observed[c] /\ messages[c] = <<>>

\* A socket has its conversation to itself, and what is committed in it was
\* said on that socket and is unobserved as long as the socket is served.
Sessions ==
  \A w \in Connection :
    /\ process = "down" => pc[w] = "closed"
    /\ pc[w] \notin {"idlePass", "idleMark"}
    /\ pc[w] = "lastMark" => own[w] \subseteq read
    /\ pc[w] = "closed" => conversation[w] = None
    /\ conversation[w] # None =>
         /\ row[conversation[w]] # "unused"
         /\ ToSet(messages[conversation[w]]) \subseteq own[w]
         /\ w \in Registered => ~observed[conversation[w]]
         /\ \A v \in Connection : conversation[v] = conversation[w] => v = w

\* Nobody is served while recovery runs; what it is about to mark is queued.
Recovery ==
  /\ catchUp \in {"begun", "recover", "mark"} => Registered = {}
  /\ catchUp = "mark" => \A t \in ToSet(messages[recovering]) : Queued(t)

Accounted ==
  \A c \in Conversation : observed[c] =>
    \A t \in ToSet(messages[c]) : t \in read \/ Queued(t)

RecoveryInv == Rows /\ Sessions /\ Recovery /\ Accounted

-----------------------------------------------------------------------------

LEMMA NoTurns == ToSet(<<>>) = {}
BY DEF ToSet

\* What a calm user does not do.
LEMMA CalmSteps ==
  ASSUME Calm
  PROVE  /\ \A w \in Connection : ~IdleTimeout(w)
         /\ \A w \in Connection, c \in Conversation \cup {None} :
              OpenSocket(w, c) => c = None /\ catchUp \notin {"begun", "recover", "mark"}
         /\ Unlock => Registered = {}
BY DEF Calm, IdleTimeout, OpenSocket, Unlock

\* A row that holds a turn keeps it.
LEMMA QueuedStays ==
  ASSUME queue \in Seq(QueueRow), NEW t, Queued(t),
         \/ queue' = queue
         \/ \E s \in Transcript :
              queue' = Append(queue, [transcript |-> s, status |-> "pending"])
         \/ \E n \in DOMAIN queue,
              status \in {"pending", "processing", "completed", "failed"} :
              queue' = [queue EXCEPT ![n].status = status]
  PROVE  Queued(t)'
<1>1. PICK k \in DOMAIN queue : t \in ToSet(queue[k].transcript)
  BY DEF Queued
<1>2. k \in DOMAIN queue' /\ queue'[k].transcript = queue[k].transcript
  <2>1. CASE queue' = queue
    BY <1>1, <2>1
  <2>2. CASE \E s \in Transcript :
               queue' = Append(queue, [transcript |-> s, status |-> "pending"])
    BY <1>1, <2>2, AppendedRow
  <2>3. ASSUME NEW n \in DOMAIN queue,
               NEW status \in {"pending", "processing", "completed", "failed"},
               queue' = [queue EXCEPT ![n].status = status]
        PROVE  k \in DOMAIN queue' /\ queue'[k].transcript = queue[k].transcript
    <3>1. /\ DOMAIN queue' = DOMAIN queue
          /\ \A m \in DOMAIN queue : m # n => queue'[m] = queue[m]
          /\ queue'[n].transcript = queue[n].transcript
      BY <2>3, UpdatedRow
    <3> QED
      BY <1>1, <3>1
  <2> QED
    BY <2>1, <2>2, <2>3
<1> QED
  BY <1>1, <1>2 DEF Queued

\* How a step writes the queue.
LEMMA QueueWriters ==
  ASSUME IndInv, [Next]_vars
  PROVE  \/ queue' = queue
         \/ \E s \in Transcript :
              queue' = Append(queue, [transcript |-> s, status |-> "pending"])
         \/ \E n \in DOMAIN queue,
              status \in {"pending", "processing", "completed", "failed"} :
              queue' = [queue EXCEPT ![n].status = status]
<1>1. ASSUME NEW w \in Connection, EnqueueSession(w), queue' # queue
      PROVE  /\ Evidence(w) \in Transcript
             /\ queue' = Append(queue, [transcript |-> Evidence(w), status |-> "pending"])
  BY <1>1, SliceIsTranscript DEF EnqueueSession, IndInv, TypeOK, SocketTypeOK, Evidence
<1>2. ASSUME NEW w \in Connection, Socket(w), ~EnqueueSession(w)
      PROVE  queue' = queue
  BY <1>2 DEF Socket, OpenSocket, BeginTurn, EndTurn, CommitTurn, IdleTimeout, Disconnect,
     PassReturns, MarkObserved, PassRaises, dbVars
<1>3. CASE Process
  BY <1>3 DEF Process, LockBegins, LockEnds, StopBegins, StopSnapshots, StopEnds, Exit, Kill,
     ProcessEnds, Start, Unlock, dbVars
<1>4. CASE CatchUp
  <2>1. ASSUME NEW c \in Conversation, RecoverConversation(c), queue' # queue
        PROVE  /\ messages[c] \in Transcript
               /\ queue' = Append(queue, [transcript |-> messages[c], status |-> "pending"])
    BY <2>1 DEF RecoverConversation, IndInv, TypeOK, DbTypeOK
  <2>2. CASE TakeRow
    <3>1. PICK n \in toDrain : queue' = [queue EXCEPT ![n].status = "processing"]
      BY <2>2 DEF TakeRow
    <3>2. n \in DOMAIN queue
      BY DEF IndInv, TypeOK, CatchUpTypeOK
    <3> QED
      BY <3>1, <3>2
  <2>3. CASE CompleteRow \/ DeferRow \/ FailRow
    <3>1. draining \in DOMAIN queue /\ queue[draining].status = "processing"
      BY <2>3 DEF CompleteRow, DeferRow, FailRow, IndInv, TypeOK, CatchUpTypeOK, DrainControl
    <3>2. \E status \in {"pending", "processing", "completed", "failed"} :
            queue' = [queue EXCEPT ![draining].status = status]
      BY <2>3, <3>1 DEF CompleteRow, DeferRow, FailRow, FinishRow
    <3> QED
      BY <3>1, <3>2
  <2>4. ListUnobserved \/ MarkRecovered \/ ListForDrain \/ RowReturns \/ CatchUpEnds
          \/ CatchUpFaults => queue' = queue
    BY DEF ListUnobserved, MarkRecovered, ListForDrain, RowReturns, CatchUpEnds,
       CatchUpFaults, dbVars
  <2> QED
    BY <1>4, <2>1, <2>2, <2>3, <2>4 DEF CatchUp
<1>5. ASSUME NEW c \in Conversation, DeleteConversation(c) PROVE queue' = queue
  BY <1>5 DEF DeleteConversation
<1>6. UNCHANGED vars => queue' = queue
  BY DEF vars, dbVars
<1> QED
  BY <1>1, <1>2, <1>3, <1>4, <1>5, <1>6 DEF Next

\* What was read or queued stays so.
LEMMA Remembered ==
  ASSUME IndInv, [Next]_vars
  PROVE  read \subseteq read' /\ \A t : Queued(t) => Queued(t)'
<1>1. \A t : Queued(t) => Queued(t)'
  BY QueueWriters, QueuedStays DEF IndInv, TypeOK, DbTypeOK
<1>2. read \subseteq read'
  BY DEF Next, Socket, OpenSocket, BeginTurn, EndTurn, CommitTurn, IdleTimeout, Disconnect,
     PassReturns, MarkObserved, PassRaises, EnqueueSession, Process, LockBegins, LockEnds,
     StopBegins, StopSnapshots, StopEnds, Exit, Kill, ProcessEnds, Start, Unlock, CatchUp,
     ListUnobserved, RecoverConversation, MarkRecovered, ListForDrain, TakeRow, RowReturns,
     CompleteRow, DeferRow, FailRow, FinishRow, CatchUpEnds, CatchUpFaults,
     DeleteConversation, vars
<1> QED
  BY <1>1, <1>2

\* The steps that write conversations and messages.
LEMMA Writers ==
  ASSUME [Next]_vars
  PROVE  \/ UNCHANGED <<row, messages, observed>>
         \/ \E w \in Connection : BeginTurn(w) \/ CommitTurn(w) \/ MarkObserved(w)
         \/ MarkRecovered
         \/ \E c \in Conversation : DeleteConversation(c)
BY DEF Next, Socket, OpenSocket, EndTurn, IdleTimeout, Disconnect,
     PassReturns, PassRaises, EnqueueSession, Process, LockBegins, LockEnds,
     StopBegins, StopSnapshots, StopEnds, Exit, Kill, ProcessEnds, Start, Unlock, CatchUp,
     ListUnobserved, RecoverConversation, ListForDrain, TakeRow, RowReturns,
     CompleteRow, DeferRow, FailRow, FinishRow, CatchUpEnds, CatchUpFaults, vars, dbVars

-----------------------------------------------------------------------------

\* A handler that commits or marks has a conversation.
LEMMA HasConversation ==
  ASSUME IndInv, NEW w \in Connection,
         pc[w] \in {"committing", "idlePass", "idleMark", "lastPass", "lastMark"}
  PROVE  conversation[w] \in Conversation
BY DEF IndInv, TypeOK, SocketTypeOK, SocketControl

LEMMA RowsStep ==
  ASSUME IndInv, RecoveryInv, [Next]_vars
  PROVE  Rows'
<1> USE DEF IndInv, TypeOK, DbTypeOK, RecoveryInv
<1>1. CASE UNCHANGED <<row, messages, observed>>
  BY <1>1 DEF Rows
<1>2. ASSUME NEW w \in Connection, BeginTurn(w) PROVE Rows'
  BY <1>2 DEF BeginTurn, Rows
<1>3. ASSUME NEW w \in Connection, CommitTurn(w) PROVE Rows'
  <2>1. conversation[w] \in Conversation
    BY <1>3, HasConversation DEF CommitTurn
  <2> QED
    BY <1>3, <2>1 DEF CommitTurn, Rows
<1>4. ASSUME NEW w \in Connection, MarkObserved(w) PROVE Rows'
  <2>1. conversation[w] \in Conversation
    BY <1>4, HasConversation DEF MarkObserved
  <2> QED
    BY <1>4, <2>1 DEF MarkObserved, Rows
<1>5. CASE MarkRecovered
  BY <1>5 DEF MarkRecovered, Rows
<1>6. ASSUME NEW c \in Conversation, DeleteConversation(c) PROVE Rows'
  BY <1>6 DEF DeleteConversation, Rows
<1> QED
  BY <1>1, <1>2, <1>3, <1>4, <1>5, <1>6, Writers

\* Accounts are settled before a conversation is marked, and a marked one gets
\* no more turns.
LEMMA AccountedStep ==
  ASSUME Calm, IndInv, RecoveryInv, [Next]_vars
  PROVE  Accounted'
<1> USE DEF IndInv, TypeOK, DbTypeOK, RecoveryInv
<1>1. read \subseteq read' /\ \A t : Queued(t) => Queued(t)'
  BY Remembered
<1>2. SUFFICES ASSUME NEW c \in Conversation, observed'[c], NEW t \in ToSet(messages'[c])
               PROVE  t \in read \/ Queued(t)
  BY <1>1 DEF Accounted
<1>3. CASE UNCHANGED <<row, messages, observed>>
  BY <1>2, <1>3 DEF Accounted
<1>4. ASSUME NEW w \in Connection, BeginTurn(w) PROVE t \in read \/ Queued(t)
  BY <1>2, <1>4 DEF BeginTurn, Accounted
<1>5. ASSUME NEW w \in Connection, CommitTurn(w) PROVE t \in read \/ Queued(t)
  <2>1. conversation[w] \in Conversation /\ conversation[w] # None /\ w \in Registered
    BY <1>5, HasConversation, NoneAssumption DEF CommitTurn, Registered
  <2>2. ~observed[conversation[w]]
    BY <2>1 DEF Sessions
  <2>3. c # conversation[w]
    BY <1>2, <1>5, <2>2 DEF CommitTurn
  <2>4. observed[c] /\ messages'[c] = messages[c]
    BY <1>2, <1>5, <2>1, <2>3 DEF CommitTurn
  <2> QED
    BY <1>2, <2>4 DEF Accounted
<1>6. ASSUME NEW w \in Connection, MarkObserved(w) PROVE t \in read \/ Queued(t)
  <2>1. conversation[w] \in Conversation /\ conversation[w] # None
    BY <1>6, HasConversation, NoneAssumption DEF MarkObserved
  <2>2. pc[w] = "lastMark"
    BY <1>6 DEF MarkObserved, Sessions
  <2>3. ToSet(messages[conversation[w]]) \subseteq read
    BY <2>1, <2>2 DEF Sessions
  <2>4. messages' = messages /\ \A d \in Conversation : d # conversation[w] => observed'[d] = observed[d]
    BY <1>6 DEF MarkObserved
  <2> QED
    BY <1>2, <2>3, <2>4 DEF Accounted
<1>7. CASE MarkRecovered
  <2>1. messages' = messages /\ \A d \in Conversation : d # recovering => observed'[d] = observed[d]
    BY <1>7 DEF MarkRecovered
  <2>2. \A u \in ToSet(messages[recovering]) : Queued(u)
    BY <1>7 DEF MarkRecovered, Recovery
  <2> QED
    BY <1>2, <2>1, <2>2 DEF Accounted
<1>8. ASSUME NEW d \in Conversation, DeleteConversation(d) PROVE t \in read \/ Queued(t)
  <2>1. c # d
    BY <1>2, <1>8 DEF DeleteConversation
  <2> QED
    BY <1>2, <1>8, <2>1 DEF DeleteConversation, Accounted
<1> QED
  BY <1>3, <1>4, <1>5, <1>6, <1>7, <1>8, Writers

\* The steps that move the catch-up.
LEMMA Movers ==
  ASSUME [Next]_vars
  PROVE  UNCHANGED <<catchUp, recovering>> \/ Start \/ Unlock \/ ProcessEnds \/ CatchUp
BY DEF Next, Socket, OpenSocket, BeginTurn, EndTurn, CommitTurn, IdleTimeout, Disconnect,
     PassReturns, MarkObserved, PassRaises, EnqueueSession, Process, LockBegins,
     LockEnds, StopBegins, StopSnapshots, StopEnds, Exit, Kill, DeleteConversation, vars,
     catchUpVars

\* Nobody is let in while recovery runs.
LEMMA NobodyServed ==
  ASSUME Calm, IndInv, RecoveryInv, [Next]_vars,
         catchUp' \in {"begun", "recover", "mark"}
  PROVE  Registered' = {}
<1> USE DEF RecoveryInv
<1>1. CASE Registered = {} /\ ~\E w \in Connection : OpenSocket(w, None)
  <2>1. \A w \in Connection : pc[w] \in {"closed", "lastPass", "lastMark"}
    BY <1>1 DEF Registered
  <2>2. ASSUME NEW w \in Connection, pc'[w] # pc[w]
        PROVE  pc'[w] \in {"closed", "lastPass", "lastMark"}
    BY <1>1, <2>1, <2>2, CalmSteps
    DEF Next, Socket, BeginTurn, EndTurn, CommitTurn, IdleTimeout, Disconnect, PassReturns,
        MarkObserved, PassRaises, AfterPass, CloseSocket, EnqueueSession, Process, LockBegins,
        LockEnds, StopBegins, StopSnapshots, StopEnds, Exit, Kill, ProcessEnds, Start, Unlock,
        CatchUp, ListUnobserved, RecoverConversation, MarkRecovered, ListForDrain, TakeRow,
        RowReturns, CompleteRow, DeferRow, FailRow, FinishRow, CatchUpEnds, CatchUpFaults,
        DeleteConversation, vars, socketVars, IndInv, TypeOK, SocketTypeOK
  <2> QED
    BY <2>1, <2>2 DEF Registered
<1>2. CASE catchUp \in {"begun", "recover", "mark"}
  <2>1. Registered = {}
    BY <1>2 DEF Recovery
  <2>2. ~\E w \in Connection : OpenSocket(w, None)
    BY <1>2, CalmSteps
  <2> QED
    BY <1>1, <2>1, <2>2
<1>3. CASE catchUp \notin {"begun", "recover", "mark"}
  <2>1. Start \/ Unlock
    <3>1. Start \/ Unlock \/ ProcessEnds \/ CatchUp
      BY <1>3, Movers
    <3>2. ~ProcessEnds /\ ~CatchUp
      BY <1>3 DEF ProcessEnds, CatchUp, ListUnobserved, RecoverConversation, MarkRecovered,
         ListForDrain, TakeRow, RowReturns, CompleteRow, DeferRow, FailRow, FinishRow,
         CatchUpEnds, CatchUpFaults
    <3> QED
      BY <3>1, <3>2
  <2>2. Registered = {}
    BY <2>1, CalmSteps DEF Start, Registered, Sessions
  <2>3. pc' = pc
    BY <2>1 DEF Start, Unlock, socketVars
  <2> QED
    BY <2>2, <2>3 DEF Registered
<1> QED
  BY <1>2, <1>3

\* What recovery is about to mark stays as it was queued.
LEMMA MarkingQueued ==
  ASSUME Calm, IndInv, RecoveryInv, [Next]_vars, catchUp' = "mark",
         NEW t \in ToSet(messages'[recovering'])
  PROVE  Queued(t)'
<1> USE DEF RecoveryInv
<1>1. Start \/ Unlock \/ ProcessEnds => UNCHANGED <<messages, recovering>> /\ catchUp = "mark"
  BY DEF Start, Unlock, StartCatchUp, ProcessEnds, dbVars, catchUpVars
<1>2. CASE \E c \in Conversation : RecoverConversation(c)
  <2>1. PICK c \in Conversation : RecoverConversation(c)
    BY <1>2
  <2>2. /\ queue' = Append(queue, [transcript |-> messages[c], status |-> "pending"])
        /\ recovering' = c /\ messages' = messages
    BY <2>1 DEF RecoverConversation
  <2>3. messages[c] \in Transcript /\ queue \in Seq(QueueRow)
    BY DEF IndInv, TypeOK, DbTypeOK
  <2>4. Len(queue) + 1 \in DOMAIN queue' /\ queue'[Len(queue) + 1].transcript = messages[c]
    BY <2>2, <2>3, AppendedRow
  <2> QED
    BY <2>2, <2>4 DEF Queued
<1>3. CASE ~\E c \in Conversation : RecoverConversation(c)
  <2>1. catchUp = "mark" /\ recovering' = recovering
    BY <1>1, <1>3, Movers DEF CatchUp, ListUnobserved, MarkRecovered, ListForDrain, TakeRow,
       RowReturns, CompleteRow, DeferRow, FailRow, FinishRow, CatchUpEnds, CatchUpFaults
  <2>2. Registered = {} /\ recovering \in Conversation
    BY <2>1 DEF Recovery, IndInv, TypeOK, CatchUpTypeOK, DrainControl
  <2>3. \A w \in Connection : ~CommitTurn(w)
    BY <2>2 DEF Registered, CommitTurn
  <2>4. messages'[recovering] = messages[recovering] \/ messages'[recovering] = <<>>
    BY <2>2, <2>3, Writers
    DEF BeginTurn, MarkObserved, MarkRecovered, DeleteConversation, IndInv, TypeOK, DbTypeOK
  <2>5. Queued(t)
    BY <2>1, <2>4, NoTurns DEF Recovery
  <2> QED
    BY <2>5, Remembered
<1> QED
  BY <1>2, <1>3

LEMMA RecoveryStep ==
  ASSUME Calm, IndInv, RecoveryInv, [Next]_vars
  PROVE  Recovery'
BY NobodyServed, MarkingQueued DEF Recovery

\* Closing a socket frees its conversation.
LEMMA SessionsClose ==
  ASSUME IndInv, Sessions, NEW w \in Connection, CloseSocket(w),
         process # "down", process' = process,
         UNCHANGED <<row, messages, read>>,
         \A c \in Conversation : observed'[c] => observed[c] \/ c = conversation[w]
  PROVE  Sessions'
<1>1. /\ pc' = [pc EXCEPT ![w] = "closed"] /\ own' = [own EXCEPT ![w] = {}]
      /\ conversation' = [conversation EXCEPT ![w] = None]
  BY DEF CloseSocket
<1>2. pc'[w] = "closed" /\ conversation'[w] = None
  BY <1>1 DEF IndInv, TypeOK, SocketTypeOK
<1>3. \A v \in Connection : v # w =>
        /\ pc'[v] = pc[v] /\ own'[v] = own[v] /\ conversation'[v] = conversation[v]
        /\ conversation[v] # None => conversation[v] \in Conversation
  BY <1>1 DEF IndInv, TypeOK, SocketTypeOK
<1>4. \A v \in Connection : v # w /\ conversation[v] # None =>
        conversation[v] # conversation[w]
  BY DEF Sessions
<1> QED
  BY <1>2, <1>3, <1>4 DEF Sessions, Registered

\* The steps of a socket.
LEMMA SessionsSocket ==
  ASSUME Calm, IndInv, EvidenceIsOwn, RecoveryInv, NEW w \in Connection, Socket(w)
  PROVE  Sessions'
<1> USE DEF IndInv, TypeOK, SocketTypeOK, DbTypeOK, RecoveryInv
<1>1. ASSUME NEW c \in Conversation \cup {None}, OpenSocket(w, c)
      PROVE  Sessions'
  <2>1. c = None
    BY <1>1, CalmSteps
  <2>2. /\ process' = "serving" /\ pc' = [pc EXCEPT ![w] = "waiting"]
        /\ conversation' = [conversation EXCEPT ![w] = None]
        /\ UNCHANGED <<row, messages, observed, own, read>>
    BY <1>1, <2>1 DEF OpenSocket, dbVars, processVars
  <2> QED
    BY <2>2 DEF Sessions, Registered
<1>2. CASE BeginTurn(w)
  <2>1. /\ process' = process /\ process # "down" /\ UNCHANGED <<messages, observed, own, read>>
        /\ pc' = [pc EXCEPT ![w] = "streaming"] /\ pc[w] = "waiting"
    BY <1>2 DEF BeginTurn, processVars
  <2>2. CASE conversation[w] = None
    <3>1. PICK c \in Conversation : /\ row[c] = "unused"
                                    /\ row' = [row EXCEPT ![c] = "present"]
                                    /\ conversation' = [conversation EXCEPT ![w] = c]
      BY <1>2, <2>2 DEF BeginTurn
    <3>2. ~observed[c] /\ ToSet(messages[c]) = {}
      BY <3>1, NoTurns DEF Rows
    <3>3. \A v \in Connection : conversation[v] # c
      BY <3>1, NoneAssumption DEF Sessions
    <3> QED
      BY <2>1, <3>1, <3>2, <3>3 DEF Sessions, Registered
  <2>3. CASE conversation[w] # None
    BY <1>2, <2>1, <2>3 DEF BeginTurn, Sessions, Registered
  <2> QED
    BY <2>2, <2>3
<1>3. CASE EndTurn(w)
  <2>1. /\ UNCHANGED <<process, row, messages, observed, read, conversation>>
        /\ process # "down" /\ pc[w] = "streaming"
        /\ pc' = [pc EXCEPT ![w] = "committing"]
        /\ own' = [own EXCEPT ![w] = own[w] \cup {said + 1}]
    BY <1>3 DEF EndTurn, dbVars, processVars
  <2> QED
    BY <2>1 DEF Sessions, Registered
<1>4. CASE CommitTurn(w)
  <2>1. conversation[w] \in Conversation /\ conversation[w] # None
    BY <1>4, HasConversation, NoneAssumption DEF CommitTurn
  <2>2. /\ UNCHANGED <<process, row, observed, read, conversation, own>>
        /\ process # "down" /\ pc[w] = "committing"
        /\ \/ pc' = [pc EXCEPT ![w] = "waiting"]
           \/ pc' = [pc EXCEPT ![w] = "leaving"]
    BY <1>4 DEF CommitTurn, processVars
  <2>3. Last(history[w]) \in own[w] /\ Last(history[w]) \in Turn
    <3>1. unseen[w] /\ prefix[w] < Len(history[w]) /\ Len(history[w]) \in Nat
          /\ history[w] \in Seq(Turn)
      BY <2>2, LenProperties DEF SocketControl, Transcript
    <3>2. Len(history[w]) \in 1 .. Len(history[w])
      BY <3>1
    <3>3. Last(history[w]) \in Turn
      BY <3>1, <3>2, ElementOfSeq DEF Last
    <3> DEFINE k == Len(history[w]) - prefix[w]
    <3>4. \A i \in prefix[w] + 1 .. Len(history[w]) : history[w][i] \in Turn
      BY <3>1, ElementOfSeq
    <3>5. /\ Evidence(w) \in Seq(Turn)
          /\ Len(Evidence(w)) = k
          /\ \A i \in 1 .. k : Evidence(w)[i] = history[w][prefix[w] + i]
      BY <3>1, <3>4, SubSeqProperties DEF Evidence
    <3>6. k \in 1 .. Len(Evidence(w)) /\ Evidence(w)[k] = Last(history[w])
      BY <3>1, <3>5 DEF Last
    <3>7. Last(history[w]) \in ToSet(Evidence(w))
      BY <3>5, <3>6, LenProperties DEF ToSet
    <3> QED
      BY <3>3, <3>7 DEF EvidenceIsOwn
  <2>4. \A c \in Conversation :
          ToSet(messages'[c]) \subseteq
            ToSet(messages[c]) \cup (IF c = conversation[w] THEN own[w] ELSE {})
    <3>1. ToSet(Append(messages[conversation[w]], Last(history[w])))
            = ToSet(messages[conversation[w]]) \cup {Last(history[w])}
      BY <2>1, <2>3, AppendIsTranscript
    <3> QED
      BY <1>4, <2>1, <2>3, <3>1 DEF CommitTurn
  <2>5. \A v \in Connection : conversation[v] # None =>
          /\ conversation[v] \in Conversation
          /\ conversation[v] = conversation[w] => v = w
    BY <2>1 DEF Sessions
  <2>6. \A v \in Connection : conversation[v] # None =>
          ToSet(messages'[conversation[v]]) \subseteq own[v]
    BY <2>4, <2>5 DEF Sessions
  <2> QED
    BY <2>2, <2>6 DEF Sessions, Registered
<1>5. CASE Disconnect(w)
  <2>1. CASE unseen[w] /\ process = "serving"
    BY <1>5, <2>1 DEF Disconnect, dbVars, Sessions, Registered
  <2>2. CASE ~(unseen[w] /\ process = "serving")
    BY <1>5, <2>2, SessionsClose DEF Disconnect, dbVars
  <2> QED
    BY <2>1, <2>2
<1>6. CASE PassReturns(w)
  <2>1. pc[w] = "lastPass"
    BY <1>6 DEF PassReturns, Sessions
  <2>2. /\ UNCHANGED <<process, row, messages, observed, conversation, own>>
        /\ process # "down" /\ pc' = [pc EXCEPT ![w] = "lastMark"]
        /\ read' = read \cup own[w]
    BY <1>6, <2>1 DEF PassReturns, EvidenceIsOwn, dbVars, processVars
  <2> QED
    BY <2>1, <2>2 DEF Sessions, Registered
<1>7. CASE MarkObserved(w)
  <2>1. conversation[w] \in Conversation /\ CloseSocket(w)
    BY <1>7, HasConversation DEF MarkObserved, AfterPass, Sessions
  <2>2. \A c \in Conversation : observed'[c] => observed[c] \/ c = conversation[w]
    BY <1>7, <2>1 DEF MarkObserved
  <2> QED
    BY <1>7, <2>1, <2>2, SessionsClose DEF MarkObserved
<1>8. CASE PassRaises(w)
  <2>1. CloseSocket(w)
    BY <1>8 DEF PassRaises, AfterPass, Sessions
  <2> QED
    BY <1>8, <2>1, SessionsClose DEF PassRaises, dbVars
<1>9. CASE EnqueueSession(w)
  BY <1>9 DEF EnqueueSession, socketVars, Sessions, Registered
<1>10. ~IdleTimeout(w)
  BY CalmSteps
<1> QED
  BY <1>1, <1>2, <1>3, <1>4, <1>5, <1>6, <1>7, <1>8, <1>9, <1>10 DEF Socket

\* The steps of everything else.
LEMMA SessionsStep ==
  ASSUME Calm, IndInv, EvidenceIsOwn, RecoveryInv, [Next]_vars
  PROVE  Sessions'
<1> USE DEF IndInv, TypeOK, SocketTypeOK, DbTypeOK, RecoveryInv
<1>1. ASSUME NEW w \in Connection, Socket(w) PROVE Sessions'
  BY <1>1, SessionsSocket
<1>2. CASE ProcessEnds
  BY <1>2 DEF ProcessEnds, Sessions
<1>3. ASSUME UNCHANGED <<socketVars, row, messages, observed>>, read \subseteq read',
             process' = "down" => process = "down"
      PROVE  Sessions'
  BY <1>3 DEF socketVars, Sessions, Registered
<1>4. Process => \/ ProcessEnds
                 \/ /\ UNCHANGED <<socketVars, row, messages, observed, read>>
                    /\ process' = "down" => process = "down"
  BY DEF Process, LockBegins, LockEnds, StopBegins, StopSnapshots, StopEnds, Exit, Kill,
     Start, Unlock, dbVars
<1>5. CASE MarkRecovered
  <2>1. \A w \in Connection : w \notin Registered /\ w \notin Registered'
    BY <1>5 DEF MarkRecovered, Recovery, Registered, socketVars
  <2> QED
    BY <1>5, <2>1 DEF MarkRecovered, processVars, socketVars, Sessions
<1>6. CatchUp /\ ~MarkRecovered =>
        UNCHANGED <<socketVars, row, messages, observed, process>>
  BY DEF CatchUp, ListUnobserved, RecoverConversation, ListForDrain, TakeRow, RowReturns,
     CompleteRow, DeferRow, FailRow, FinishRow, CatchUpEnds, CatchUpFaults, dbVars, processVars
<1>7. ASSUME NEW c \in Conversation, DeleteConversation(c) PROVE Sessions'
  <2>1. /\ UNCHANGED <<process, socketVars, read>>
        /\ row' = [row EXCEPT ![c] = "deleted"]
        /\ messages' = [messages EXCEPT ![c] = <<>>]
        /\ observed' = [observed EXCEPT ![c] = FALSE]
    BY <1>7 DEF DeleteConversation, processVars
  <2> QED
    BY <2>1, NoTurns DEF socketVars, Sessions, Registered
<1>8. UNCHANGED vars => UNCHANGED <<socketVars, row, messages, observed, process>>
  BY DEF vars, dbVars, processVars
<1>9. read \subseteq read'
  BY Remembered
<1> QED
  BY <1>1, <1>2, <1>3, <1>4, <1>5, <1>6, <1>7, <1>8, <1>9 DEF Next

\* recover_unobserved_conversations, the shutdown, the lock, the drain and the
\* disconnect's pass together lose no committed turn, as long as the session is
\* calm: one socket per conversation, none before recovery is over, and no
\* idle pass (whose failure, or whose mark, is where the code does lose turns).
THEOREM RecoveryIsComplete ==
  ASSUME Calm
  PROVE  Spec => []NothingLost
<1>1. Init => RecoveryInv
  BY DEF Init, RecoveryInv, Rows, Sessions, Recovery, Accounted
<1>2. IndInv /\ EvidenceIsOwn /\ RecoveryInv /\ [Next]_vars => RecoveryInv'
  BY RowsStep, SessionsStep, RecoveryStep, AccountedStep DEF RecoveryInv
<1>3. RecoveryInv => NothingLost
  BY DEF RecoveryInv, Accounted, NothingLost
<1> QED
  BY <1>1, <1>2, <1>3, Invariant, EvidenceCorrect, PTL DEF Spec

=============================================================================
