-------------------------- MODULE DecisionLogProofs --------------------------
(* Proofs about DecisionLog, for every value of its constants.               *)
EXTENDS DecisionLog, SequenceTheorems, TLAPS

(***************************************************************************)
(* The inductive invariant.  Alone and Fresh say why the gap between the   *)
(* duplicate check and the INSERT is harmless when requests do not         *)
(* overlap; OwnCandidate and Logged say why a promotion may be cut short   *)
(* anywhere.                                                               *)
(***************************************************************************)
Alone ==
  \A c, d \in Connection : ~At(c, "idle") /\ ~At(d, "idle") => c = d

Fresh ==
  \A c \in Connection : At(c, "insert") => ~ActiveDuplicate(request[c])

OwnCandidate ==
  \A c \in Connection :
    request[c].candidate # 0 =>
      /\ request[c].text = pending[request[c].candidate].text
      /\ request[c].project = None

Logged ==
  \A c \in Connection :
    /\ request[c].candidate # 0
    /\ At(c, "index") \/ At(c, "mark")
    => InLog(request[c].text)

\* A request that answers a candidate answers one that has no answer yet.
Unanswered ==
  \A c \in Connection : request[c].candidate # 0 => IsPending(request[c].candidate)

Inv ==
  /\ TypeOK
  /\ ~raced => Alone /\ Fresh /\ ActiveOnce /\ Unanswered
  /\ OwnCandidate /\ Logged /\ PromotedIsLogged

-----------------------------------------------------------------------------

\* A sequence with a new last element.
LEMMA Appended ==
  ASSUME NEW S, NEW q \in Seq(S), NEW e \in S, NEW new, new = Append(q, e)
  PROVE  /\ new \in Seq(S)
         /\ Len(q) \in Nat /\ Len(new) = Len(q) + 1
         /\ DOMAIN q = 1 .. Len(q) /\ DOMAIN new = 1 .. Len(q) + 1
         /\ \A n \in 1 .. Len(q) : new[n] = q[n]
         /\ new[Len(q) + 1] = e
BY AppendProperties, LenProperties

\* A sequence with one element replaced.
LEMMA Replaced ==
  ASSUME NEW S, NEW q \in Seq(S), NEW n \in DOMAIN q, NEW e \in S,
         NEW new, new = [q EXCEPT ![n] = e]
  PROVE  /\ new \in Seq(S) /\ Len(new) = Len(q) /\ DOMAIN new = DOMAIN q
         /\ DOMAIN q = 1 .. Len(q)
         /\ \A m \in DOMAIN q : m # n => new[m] = q[m]
         /\ new[n] = e
BY ExceptSeq, LenProperties

-----------------------------------------------------------------------------
(* Requests: what a step does to the one it belongs to, and to no other. *)

Requests == [Connection -> Request \cup {NoRequest}]
ActiveStep == {"check", "queue", "recheck", "insert", "index", "mark", "dismiss"}

LEMMA Stepped ==
  ASSUME request \in Requests, NEW c \in Connection, ~At(c, "idle"),
         NEW s \in ActiveStep, Go(c, s)
  PROVE  /\ request' \in Requests
         /\ request[c] \in Request
         /\ \A d \in Connection : d # c => request'[d] = request[d]
         /\ request'[c] = [request[c] EXCEPT !.step = s]
<1>1. request[c] \in Request
  BY DEF At, Requests, NoRequest
<1>2. [request[c] EXCEPT !.step = s] \in Request
  BY <1>1 DEF Request, ActiveStep
<1> QED
  BY <1>1, <1>2 DEF Requests, Go

LEMMA Ended ==
  ASSUME request \in Requests, NEW c \in Connection, Ends(c)
  PROVE  /\ request' \in Requests
         /\ \A d \in Connection : d # c => request'[d] = request[d]
         /\ request'[c] = NoRequest
BY DEF Requests, Ends

LEMMA Begun ==
  ASSUME request \in Requests, NEW c \in Connection, NEW s \in ActiveStep, NEW t \in Text,
         NEW p \in Scope, NEW i \in Nat, NEW f \in BOOLEAN, Begins(c, s, t, p, i, f)
  PROVE  /\ request' \in Requests
         /\ \A d \in Connection : d # c => request'[d] = request[d]
         /\ request'[c] = [step |-> s, text |-> t, project |-> p,
                           candidate |-> i, strong |-> f, row |-> 0]
<1>1. [step |-> s, text |-> t, project |-> p, candidate |-> i, strong |-> f, row |-> 0]
        \in Request
  BY DEF Request, ActiveStep
<1> QED
  BY <1>1 DEF Requests, Begins

-----------------------------------------------------------------------------
(* Types. *)

LEMMA Typing ==
  ASSUME TypeOK
  PROVE  /\ log \in Seq(Decision) /\ pending \in Seq(Candidate) /\ request \in Requests
         /\ Len(log) \in Nat /\ Len(pending) \in Nat
         /\ DOMAIN log = 1 .. Len(log) /\ DOMAIN pending = 1 .. Len(pending)
         /\ \A i \in DOMAIN log : log[i] \in Decision
         /\ \A k \in DOMAIN pending : pending[k] \in Candidate
         /\ \A c \in Connection : ~At(c, "idle") => request[c] \in Request
BY LenProperties, ElementOfSeq DEF TypeOK, Requests, At, NoRequest

Typed(c) ==
  /\ request[c].candidate \in 0 .. Len(pending)
  /\ At(c, "mark") \/ At(c, "dismiss") => request[c].candidate # 0
  /\ At(c, "index") => request[c].row \in DOMAIN log

\* A request keeps its type as the tables grow.
LEMMA TypedStays ==
  ASSUME TypeOK, NEW c \in Connection, request'[c] = request[c],
         Len(pending') \in Nat, Len(pending) =< Len(pending'),
         DOMAIN log \subseteq DOMAIN log'
  PROVE  Typed(c)'
BY Typing DEF TypeOK, Typed, At

LEMMA TypeStep ==
  ASSUME TypeOK, [Next]_vars
  PROVE  TypeOK'
<1> USE Typing
<1>0. /\ index \subseteq 1 .. Len(log) /\ raced \in BOOLEAN
      /\ \A c \in Connection : Typed(c)
  BY DEF TypeOK, Typed
<1> SUFFICES /\ log' \in Seq(Decision) /\ index' \subseteq 1 .. Len(log')
             /\ pending' \in Seq(Candidate)
             /\ request' \in Requests /\ raced' \in BOOLEAN
             /\ \A c \in Connection : Typed(c)'
  BY DEF TypeOK, Typed, Requests
<1>1. CASE UNCHANGED vars
  BY <1>0, <1>1 DEF vars, tables, Typed, At
<1>2. ASSUME NEW c \in Connection, NEW s \in {"check", "recheck", "dismiss"},
             NEW t \in Text, NEW p \in Scope, NEW i \in 0 .. Len(pending),
             NEW f \in BOOLEAN, s = "dismiss" => i # 0, Begins(c, s, t, p, i, f)
      PROVE  /\ log' \in Seq(Decision) /\ index' \subseteq 1 .. Len(log')
             /\ pending' \in Seq(Candidate)
             /\ request' \in Requests /\ raced' \in BOOLEAN
             /\ \A d \in Connection : Typed(d)'
  <2>1. UNCHANGED tables /\ raced' \in BOOLEAN
    BY <1>0, <1>2 DEF Begins
  <2>2. /\ request' \in Requests
        /\ \A d \in Connection : d # c => request'[d] = request[d]
        /\ request'[c] = [step |-> s, text |-> t, project |-> p,
                          candidate |-> i, strong |-> f, row |-> 0]
    BY <1>2, Begun DEF ActiveStep
  <2>3. Typed(c)'
    BY <1>2, <2>1, <2>2 DEF Typed, At, tables
  <2>4. \A d \in Connection : d # c => Typed(d)'
    BY <2>1, <2>2, TypedStays DEF tables
  <2> QED
    BY <1>0, <2>1, <2>2, <2>3, <2>4 DEF tables
<1>3. ASSUME NEW c \in Connection, NEW t \in Text, NEW p \in Scope, NEW f \in BOOLEAN,
             CreateDecision(c, t, p, f)
      PROVE  TypeOK'
  BY <1>2, <1>3 DEF CreateDecision, TypeOK, Typed, Requests
<1>4. ASSUME NEW c \in Connection, NEW i \in DOMAIN pending,
             PromotePending(c, i) \/ DismissPending(c, i)
      PROVE  TypeOK'
  <2>1. pending[i].text \in Text /\ i \in 0 .. Len(pending) /\ i # 0 /\ None \in Scope
    BY DEF Candidate, Scope
  <2> QED
    BY <1>2, <1>4, <2>1 DEF PromotePending, DismissPending, TypeOK, Typed, Requests
\* A request that ends, or goes on to a step that asks nothing of its fields.
<1>5. ASSUME NEW c \in Connection, ~At(c, "idle"),
             \/ Ends(c)
             \/ \E s \in {"recheck", "queue", "insert"} : Go(c, s)
             \/ request[c].candidate # 0 /\ Go(c, "mark"),
             Len(pending') \in Nat, Len(pending) =< Len(pending'),
             DOMAIN log \subseteq DOMAIN log'
      PROVE  request' \in Requests /\ \A d \in Connection : Typed(d)'
  <2>1. /\ request' \in Requests
        /\ \A d \in Connection : d # c => request'[d] = request[d]
        /\ request'[c].candidate \in {0, request[c].candidate}
        /\ request'[c].step \in {"idle", "recheck", "queue", "insert", "mark"}
        /\ request'[c].step = "mark" =>
             request[c].candidate # 0 /\ request'[c].candidate = request[c].candidate
    <3>1. CASE Ends(c)
      BY <3>1, Ended DEF NoRequest
    <3>2. ASSUME NEW s \in {"recheck", "queue", "insert"}, Go(c, s)
          PROVE  <2>1!1
      BY <1>5, <3>2, Stepped DEF ActiveStep, Request
    <3> QED
      BY <1>5, <3>1, <3>2, Stepped DEF ActiveStep, Request
  <2>2. Typed(c)'
    BY <1>0, <1>5, <2>1 DEF Typed, At
  <2>3. \A d \in Connection : d # c => Typed(d)'
    BY <1>5, <2>1, TypedStays
  <2> QED
    BY <2>1, <2>2, <2>3
<1>6. ASSUME NEW c \in Connection, Check(c) PROVE TypeOK'
  <2>1. UNCHANGED <<log, index, pending, raced>>
    BY <1>6 DEF Check, tables
  <2>2. request' \in Requests /\ \A d \in Connection : Typed(d)'
    BY <1>5, <1>6, <2>1 DEF Check, At
  <2> QED
    BY <1>0, <2>1, <2>2 DEF TypeOK, Typed, Requests
<1>7. ASSUME NEW c \in Connection, QueueCandidate(c) PROVE TypeOK'
  <2>1. [text |-> request[c].text, state |-> "pending"] \in Candidate
    BY <1>7 DEF QueueCandidate, At, Request, Candidate
  <2>2. pending' \in Seq(Candidate) /\ Len(pending') = Len(pending) + 1
    BY <1>7, <2>1, Appended DEF QueueCandidate
  <2>3. UNCHANGED <<log, index, raced>>
    BY <1>7 DEF QueueCandidate
  <2>4. request' \in Requests /\ \A d \in Connection : Typed(d)'
    BY <1>5, <1>7, <2>2, <2>3 DEF QueueCandidate, At
  <2> QED
    BY <1>0, <2>2, <2>3, <2>4 DEF TypeOK, Typed, Requests
<1>8. ASSUME NEW c \in Connection, Recheck(c) PROVE TypeOK'
  <2>1. UNCHANGED <<log, index, pending, raced>>
    BY <1>8 DEF Recheck, tables
  <2>2. request' \in Requests /\ \A d \in Connection : Typed(d)'
    BY <1>5, <1>8, <2>1 DEF Recheck, At, GoOnOnceLogged
  <2> QED
    BY <1>0, <2>1, <2>2 DEF TypeOK, Typed, Requests
<1>9. ASSUME NEW c \in Connection, InsertRow(c) PROVE TypeOK'
  <2> DEFINE new == [text |-> request[c].text, project |-> request[c].project,
                     state |-> "active"]
  <2>1. request[c] \in Request /\ new \in Decision
    BY <1>9 DEF InsertRow, At, Request, Decision
  <2>2. /\ log' \in Seq(Decision) /\ Len(log') = Len(log) + 1
        /\ DOMAIN log' = 1 .. Len(log) + 1
    BY <1>9, <2>1, Appended DEF InsertRow
  <2>3. UNCHANGED <<index, pending, raced>>
    BY <1>9 DEF InsertRow
  <2> DEFINE moved == [request[c] EXCEPT !.step = "index", !.row = Len(log) + 1]
  <2>4. moved \in Request
    <3>1. [request[c] EXCEPT !.step = "index"] \in Request
      BY <2>1 DEF Request
    <3>2. Len(log) + 1 \in Nat
      OBVIOUS
    <3> QED
      BY ONLY <3>1, <3>2 DEF Request
  <2>5. request' = [request EXCEPT ![c] = moved]
    BY <1>9 DEF InsertRow
  <2>6. /\ request' \in Requests
        /\ \A d \in Connection : d # c => request'[d] = request[d]
        /\ request'[c] = moved
    BY <2>4, <2>5 DEF Requests
  <2>7. /\ request'[c].step = "index" /\ request'[c].row = Len(log) + 1
        /\ request'[c].candidate = request[c].candidate
    BY <2>1, <2>6 DEF Request
  <2>8. Typed(c)'
    BY <1>0, <2>2, <2>3, <2>7 DEF Typed, At
  <2>9. \A d \in Connection : d # c => Typed(d)'
    BY <2>2, <2>3, <2>6, TypedStays
  <2>10. index' \subseteq 1 .. Len(log')
    BY <1>0, <2>2, <2>3
  <2> HIDE DEF moved
  <2> QED
    BY <1>0, <2>2, <2>3, <2>6, <2>8, <2>9, <2>10 DEF TypeOK, Typed, Requests
<1>10. ASSUME NEW c \in Connection, IndexRow(c) PROVE TypeOK'
  <2>1. UNCHANGED <<log, pending, raced>> /\ index' = index \cup {request[c].row}
    BY <1>10 DEF IndexRow
  <2>2. index' \subseteq 1 .. Len(log)
    BY <1>0, <1>10, <2>1 DEF IndexRow, Typed
  <2>3. request' \in Requests /\ \A d \in Connection : Typed(d)'
    BY <1>5, <1>10, <2>1 DEF IndexRow, At, GoOnOnceLogged
  <2> QED
    BY <1>0, <2>1, <2>2, <2>3 DEF TypeOK, Typed, Requests
<1>11. ASSUME NEW c \in Connection, MarkPromoted(c) \/ MarkDismissed(c) PROVE TypeOK'
  <2>1. PICK s \in {"promoted", "dismissed"} : Answer(c, s)
    BY <1>11 DEF MarkPromoted, MarkDismissed
  <2> DEFINE k == request[c].candidate
  <2>2. k \in DOMAIN pending
    BY <1>0, <1>11 DEF Typed, MarkPromoted, MarkDismissed
  <2>3. [pending[k] EXCEPT !.state = s] \in Candidate
        /\ pending' = [pending EXCEPT ![k] = [pending[k] EXCEPT !.state = s]]
    BY <2>1, <2>2 DEF Answer, Candidate
  <2>4. pending' \in Seq(Candidate) /\ Len(pending') = Len(pending)
    BY <2>2, <2>3, Replaced
  <2>5. UNCHANGED <<log, index, raced>>
    BY <2>1 DEF Answer
  <2>6. request' \in Requests /\ \A d \in Connection : Typed(d)'
    BY <1>5, <1>11, <2>1, <2>4, <2>5 DEF Answer, MarkPromoted, MarkDismissed, At
  <2> QED
    BY <1>0, <2>4, <2>5, <2>6 DEF TypeOK, Typed, Requests
<1>12. ASSUME NEW c \in Connection, RequestFails(c) PROVE TypeOK'
  <2>1. UNCHANGED <<log, index, pending, raced>>
    BY <1>12 DEF RequestFails, tables
  <2>2. request' \in Requests /\ \A d \in Connection : Typed(d)'
    BY <1>5, <1>12, <2>1 DEF RequestFails
  <2> QED
    BY <1>0, <2>1, <2>2 DEF TypeOK, Typed, Requests
<1>13. ASSUME NEW i \in DOMAIN log, NEW s \in {"active", "retracted"},
              UpdateDecisionState(i, s)
       PROVE  TypeOK'
  <2>1. [log[i] EXCEPT !.state = s] \in Decision
        /\ log' = [log EXCEPT ![i] = [log[i] EXCEPT !.state = s]]
    BY <1>13 DEF UpdateDecisionState, Decision
  <2>2. log' \in Seq(Decision) /\ Len(log') = Len(log) /\ DOMAIN log' = DOMAIN log
    BY <2>1, Replaced
  <2>3. UNCHANGED <<index, pending, request>> /\ raced' \in BOOLEAN
    BY <1>0, <1>13 DEF UpdateDecisionState
  <2> QED
    BY <1>0, <2>2, <2>3 DEF TypeOK, Typed, Requests, At
<1>14. ASSUME NEW from \in Project, NEW into \in Project, MergeProjects(from, into)
       PROVE  TypeOK'
  <2>1. log' \in [1 .. Len(log) -> Decision]
    BY <1>14 DEF MergeProjects, Decision, Scope
  <2>2. log' \in Seq(Decision) /\ Len(log') = Len(log) /\ DOMAIN log' = DOMAIN log
    BY <2>1, SeqDef, LenProperties
  <2>3. UNCHANGED <<index, pending, request>> /\ raced' \in BOOLEAN
    BY <1>14 DEF MergeProjects
  <2> QED
    BY <1>0, <2>2, <2>3 DEF TypeOK, Typed, Requests, At
<1>15. TypeOK'
  BY <1>1, <1>3, <1>4, <1>6, <1>7, <1>8, <1>9, <1>10, <1>11, <1>12, <1>13, <1>14
     DEF Next, TypeOK, Typed, Requests
<1> QED
  BY <1>15 DEF TypeOK, Typed, Requests

-----------------------------------------------------------------------------
(* What no step undoes. *)

\* The four ways a step treats the log.
LEMMA LogStep ==
  ASSUME TypeOK, [Next]_vars
  PROVE  \/ log' = log
         \/ \E c \in Connection : InsertRow(c)
         \/ \E i \in DOMAIN log, s \in {"active", "retracted"} : UpdateDecisionState(i, s)
         \/ \E from, into \in Project : MergeProjects(from, into)
BY DEF Next, vars, tables, CreateDecision, Begins, Check, QueueCandidate, Recheck, IndexRow,
       PromotePending, DismissPending, MarkPromoted, MarkDismissed, Answer, RequestFails

\* Rows are never deleted, and one filed under no project stays there.
LEMMA InLogStays ==
  ASSUME TypeOK, [Next]_vars, NEW t, InLog(t)
  PROVE  InLog(t)'
<1> USE Typing
<1>1. PICK i \in DOMAIN log : log[i].text = t /\ log[i].project = None
  BY DEF InLog
<1>2. CASE log' = log
  BY <1>1, <1>2 DEF InLog
<1>3. ASSUME NEW c \in Connection, InsertRow(c) PROVE InLog(t)'
  <2> DEFINE new == [text |-> request[c].text, project |-> request[c].project,
                     state |-> "active"]
  <2>1. new \in Decision
    BY <1>3 DEF InsertRow, At, Request, Decision
  <2>2. i \in DOMAIN log' /\ log'[i] = log[i]
    BY <1>1, <1>3, <2>1, Appended DEF InsertRow
  <2> QED
    BY <1>1, <2>2 DEF InLog
<1>4. ASSUME NEW j \in DOMAIN log, NEW s \in {"active", "retracted"},
             UpdateDecisionState(j, s)
      PROVE  InLog(t)'
  <2>1. i \in DOMAIN log' /\ log'[i].text = t /\ log'[i].project = None
    BY <1>1, <1>4 DEF UpdateDecisionState, Decision
  <2> QED
    BY <2>1 DEF InLog
<1>5. ASSUME NEW from \in Project, NEW into \in Project, MergeProjects(from, into)
      PROVE  InLog(t)'
  BY <1>1, <1>5, NoProjectAssumption DEF MergeProjects, InLog
<1> QED
  BY <1>2, <1>3, <1>4, <1>5, LogStep

\* Candidates are never deleted, and their text never changes.
LEMMA CandidateStays ==
  ASSUME TypeOK, [Next]_vars, NEW k \in DOMAIN pending
  PROVE  k \in DOMAIN pending' /\ pending'[k].text = pending[k].text
<1> USE Typing
<1>1. CASE pending' = pending
  BY <1>1
<1>2. ASSUME NEW c \in Connection, QueueCandidate(c)
      PROVE  k \in DOMAIN pending' /\ pending'[k] = pending[k]
  <2>1. [text |-> request[c].text, state |-> "pending"] \in Candidate
    BY <1>2 DEF QueueCandidate, At, Request, Candidate
  <2> QED
    BY <1>2, <2>1, Appended DEF QueueCandidate
<1>3. ASSUME NEW c \in Connection, MarkPromoted(c) \/ MarkDismissed(c)
      PROVE  k \in DOMAIN pending' /\ pending'[k].text = pending[k].text
  BY <1>3 DEF MarkPromoted, MarkDismissed, Answer, Candidate
<1>4. \/ pending' = pending
      \/ \E c \in Connection : QueueCandidate(c) \/ MarkPromoted(c) \/ MarkDismissed(c)
  BY DEF Next, vars, tables, CreateDecision, Begins, Check, Recheck, InsertRow, IndexRow,
         PromotePending, DismissPending, RequestFails, UpdateDecisionState, MergeProjects
<1> QED
  BY <1>1, <1>2, <1>3, <1>4

\* What a request relies on, seen from the request.
Knows(c) ==
  request[c].candidate # 0 =>
    /\ request[c].text = pending[request[c].candidate].text
    /\ request[c].project = None
    /\ At(c, "index") \/ At(c, "mark") => InLog(request[c].text)

LEMMA KnowledgeParts ==
  (OwnCandidate /\ Logged) <=> (\A c \in Connection : Knows(c))
BY DEF OwnCandidate, Logged, Knows

\* A request keeps what it knows if no step but its own moves it, or if its
\* own step does not bring it to the index or the mark.
LEMMA KnowledgeStays ==
  ASSUME TypeOK, [Next]_vars, NEW d \in Connection, Knows(d),
         request'[d].candidate = request[d].candidate,
         request'[d].text = request[d].text,
         request'[d].project = request[d].project,
         \/ request'[d].step = request[d].step
         \/ request'[d].step \notin {"index", "mark"}
  PROVE  Knows(d)'
<1>1. request[d].candidate # 0 => request[d].candidate \in DOMAIN pending
  BY Typing DEF TypeOK
<1>2. request[d].candidate # 0 =>
        pending'[request[d].candidate].text = pending[request[d].candidate].text
  BY <1>1, CandidateStays
<1>3. (At(d, "index") \/ At(d, "mark"))' => At(d, "index") \/ At(d, "mark")
  BY DEF At
<1>4. ASSUME request[d].candidate # 0, (At(d, "index") \/ At(d, "mark"))'
      PROVE  InLog(request[d].text)'
  <2>1. \A t : InLog(t) => (\E i \in DOMAIN log' : log'[i].text = t /\ log'[i].project = None)
    BY InLogStays DEF InLog
  <2>2. InLog(request[d].text)
    BY <1>3, <1>4 DEF Knows
  <2> QED
    BY <2>1, <2>2 DEF InLog
<1> QED
  BY <1>2, <1>4 DEF Knows

-----------------------------------------------------------------------------
(* Promotions. *)

LEMMA KnowledgeStep ==
  ASSUME TypeOK, [Next]_vars, \A c \in Connection : Knows(c)
  PROVE  \A c \in Connection : Knows(c)'
<1> USE Typing
<1> TAKE d \in Connection
<1>1. CASE request'[d] = request[d]
  BY <1>1, KnowledgeStays
<1>2. CASE Ends(d)
  BY <1>2, Ended DEF Knows, NoRequest
<1>3. ASSUME NEW t \in Text, NEW p \in Scope, NEW f \in BOOLEAN, CreateDecision(d, t, p, f)
      PROVE  Knows(d)'
  <2>1. Begins(d, "check", t, p, 0, f)
    BY <1>3 DEF CreateDecision
  <2>2. request'[d].candidate = 0
    BY <2>1 DEF Begins, Requests
  <2> QED
    BY <2>2 DEF Knows
<1>4. ASSUME NEW k \in DOMAIN pending, PromotePending(d, k) \/ DismissPending(d, k)
      PROVE  Knows(d)'
  <2>1. pending[k].text \in Text /\ None \in Scope /\ k \in Nat
    BY DEF Candidate, Scope
  <2>2. /\ request'[d].text = pending[k].text /\ request'[d].project = None
        /\ request'[d].candidate = k /\ request'[d].step \in {"recheck", "dismiss"}
    <3>1. PICK s \in {"recheck", "dismiss"} : Begins(d, s, pending[k].text, None, k, TRUE)
      BY <1>4 DEF PromotePending, DismissPending
    <3> QED
      BY <3>1 DEF Begins, Requests
  <2>3. pending'[k].text = pending[k].text
    BY CandidateStays
  <2> QED
    BY <2>2, <2>3 DEF Knows, At
<1>5. ASSUME ~At(d, "idle"), NEW s \in {"recheck", "queue", "insert"}, Go(d, s)
      PROVE  Knows(d)'
  <2>1. /\ request'[d].candidate = request[d].candidate
        /\ request'[d].text = request[d].text
        /\ request'[d].project = request[d].project
        /\ request'[d].step \notin {"index", "mark"}
    <3>1. s \in ActiveStep
      BY DEF ActiveStep
    <3>2. request'[d] = [request[d] EXCEPT !.step = s] /\ request[d] \in Request
      BY <1>5, <3>1, Stepped
    <3> QED
      BY <3>2 DEF Request
  <2> QED
    BY <2>1, KnowledgeStays
\* The decision is in the log: it was found there, or indexed just now.
<1>6. ASSUME ~At(d, "idle"), Go(d, "mark"), request[d].candidate # 0 => InLog(request[d].text)
      PROVE  Knows(d)'
  <2>1. /\ request'[d].candidate = request[d].candidate
        /\ request'[d].text = request[d].text
        /\ request'[d].project = request[d].project
    BY <1>6, Stepped DEF ActiveStep, Request
  <2>2. request[d].candidate # 0 => request[d].candidate \in DOMAIN pending
    BY DEF TypeOK
  <2>3. request[d].candidate # 0 =>
          pending'[request[d].candidate].text = pending[request[d].candidate].text
    BY <2>2, CandidateStays
  <2>4. \A t : InLog(t) => (\E i \in DOMAIN log' : log'[i].text = t /\ log'[i].project = None)
    BY InLogStays DEF InLog
  <2> QED
    BY <1>6, <2>1, <2>3, <2>4 DEF Knows, InLog
<1>7. ASSUME Recheck(d) PROVE Knows(d)'
  <2>1. CASE ActiveDuplicate(request[d]) /\ Go(d, "mark")
    BY <1>6, <1>7, <2>1 DEF Recheck, At, Knows, ActiveDuplicate, IsActive, InLog
  <2> QED
    BY <1>2, <1>5, <1>7, <2>1 DEF Recheck, At, GoOnOnceLogged
<1>8. ASSUME InsertRow(d) PROVE Knows(d)'
  <2> DEFINE new == [text |-> request[d].text, project |-> request[d].project,
                     state |-> "active"]
             moved == [request[d] EXCEPT !.step = "index", !.row = Len(log) + 1]
  <2>1. request[d] \in Request /\ new \in Decision
    BY <1>8 DEF InsertRow, At, Request, Decision
  <2>2. Len(log) + 1 \in DOMAIN log' /\ log'[Len(log) + 1] = new
    BY <1>8, <2>1, Appended DEF InsertRow
  <2>3. request'[d] = moved
    BY <1>8 DEF InsertRow, Requests
  <2>4. /\ request'[d].candidate = request[d].candidate
        /\ request'[d].text = request[d].text
        /\ request'[d].project = request[d].project
    BY <2>1, <2>3 DEF Request
  <2>5. UNCHANGED pending
    BY <1>8 DEF InsertRow
  <2>6. request[d].candidate # 0 => InLog(request[d].text)'
    BY <2>2, <2>4 DEF InLog, Knows
  <2> QED
    BY <2>4, <2>5, <2>6 DEF Knows
<1>9. ASSUME IndexRow(d) PROVE Knows(d)'
  BY <1>2, <1>6, <1>9 DEF IndexRow, At, GoOnOnceLogged, Knows
<1>10. ASSUME Check(d) PROVE Knows(d)'
  BY <1>2, <1>5, <1>10 DEF Check, At
<1>11. ASSUME QueueCandidate(d) \/ MarkPromoted(d) \/ MarkDismissed(d) \/ RequestFails(d)
       PROVE  Ends(d)
  BY <1>11 DEF QueueCandidate, MarkPromoted, MarkDismissed, Answer, RequestFails
<1>12. ASSUME NEW c \in Connection, c # d,
              \/ \E t \in Text, p \in Scope, f \in BOOLEAN : CreateDecision(c, t, p, f)
              \/ Check(c) \/ QueueCandidate(c)
              \/ Recheck(c) \/ InsertRow(c) \/ IndexRow(c)
              \/ \E i \in DOMAIN pending : PromotePending(c, i) \/ DismissPending(c, i)
              \/ MarkPromoted(c) \/ MarkDismissed(c)
              \/ RequestFails(c)
       PROVE  request'[d] = request[d]
  BY <1>12 DEF CreateDecision, Begins, Check, QueueCandidate, Recheck, InsertRow, IndexRow,
       PromotePending, DismissPending, MarkPromoted, MarkDismissed, Answer, RequestFails,
       Go, Ends, GoOnOnceLogged, Requests
<1>13. CASE UNCHANGED request
  BY <1>1, <1>13
<1> QED
  BY <1>1, <1>2, <1>3, <1>4, <1>7, <1>8, <1>9, <1>10, <1>11, <1>12, <1>13
     DEF Next, vars, UpdateDecisionState, MergeProjects

LEMMA PromotedStep ==
  ASSUME TypeOK, [Next]_vars, \A c \in Connection : Knows(c), PromotedIsLogged
  PROVE  PromotedIsLogged'
<1> USE Typing
<1>1. \A t : InLog(t) => (\E i \in DOMAIN log' : log'[i].text = t /\ log'[i].project = None)
  BY InLogStays DEF InLog
<1> SUFFICES ASSUME NEW k \in DOMAIN pending', pending'[k].state = "promoted"
             PROVE  InLog(pending[k].text)'
  BY DEF PromotedIsLogged
<1>2. CASE k \in DOMAIN pending /\ pending[k].state = "promoted"
  <2>1. InLog(pending[k].text) /\ pending'[k].text = pending[k].text
    BY <1>2, CandidateStays DEF PromotedIsLogged
  <2> QED
    BY <1>1, <2>1 DEF InLog
<1>3. ASSUME NEW c \in Connection, MarkPromoted(c), k = request[c].candidate
      PROVE  InLog(pending[k].text)'
  <2>1. k \in DOMAIN pending /\ InLog(pending[k].text)
    BY <1>3 DEF MarkPromoted, Knows, TypeOK
  <2>2. pending'[k].text = pending[k].text
    BY <2>1, CandidateStays
  <2> QED
    BY <1>1, <2>1, <2>2 DEF InLog
<1>4. ASSUME NEW c \in Connection, MarkPromoted(c), k # request[c].candidate
      PROVE  k \in DOMAIN pending /\ pending'[k] = pending[k]
  BY <1>4 DEF MarkPromoted, Answer
<1>5. ASSUME NEW c \in Connection, MarkDismissed(c)
      PROVE  k \in DOMAIN pending /\ pending'[k] = pending[k]
  BY <1>5 DEF MarkDismissed, Answer, Candidate
<1>6. ASSUME NEW c \in Connection, QueueCandidate(c)
      PROVE  k \in DOMAIN pending /\ pending'[k] = pending[k]
  <2>1. [text |-> request[c].text, state |-> "pending"] \in Candidate
    BY <1>6 DEF QueueCandidate, At, Request, Candidate
  <2> QED
    BY <1>6, <2>1, Appended DEF QueueCandidate
<1>7. \/ pending' = pending
      \/ \E c \in Connection : QueueCandidate(c) \/ MarkPromoted(c) \/ MarkDismissed(c)
  BY DEF Next, vars, tables, CreateDecision, Begins, Check, Recheck, InsertRow, IndexRow,
         PromotePending, DismissPending, RequestFails, UpdateDecisionState, MergeProjects
<1> QED
  BY <1>2, <1>3, <1>4, <1>5, <1>6, <1>7

-----------------------------------------------------------------------------
(* Requests one at a time. *)

Serial == ~raced => Alone /\ Fresh /\ ActiveOnce

\* A race is never forgotten.
LEMMA RacedStays ==
  ASSUME [Next]_vars
  PROVE  raced => raced'
<1>1. CASE UNCHANGED raced
  BY <1>1
<1>2. ASSUME NEW c \in Connection, NEW s, NEW t, NEW p, NEW i, NEW f,
             Begins(c, s, t, p, i, f)
      PROVE  raced => raced'
  BY <1>2 DEF Begins
<1>3. ASSUME NEW i, NEW s, UpdateDecisionState(i, s) PROVE raced => raced'
  BY <1>3 DEF UpdateDecisionState
<1>4. ASSUME NEW from, NEW into, MergeProjects(from, into) PROVE raced => raced'
  BY <1>4 DEF MergeProjects
<1>5. ASSUME NEW c \in Connection,
             \/ Check(c) \/ QueueCandidate(c) \/ Recheck(c) \/ InsertRow(c) \/ IndexRow(c)
             \/ MarkPromoted(c) \/ MarkDismissed(c) \/ RequestFails(c)
      PROVE  UNCHANGED raced
  BY <1>5 DEF Check, QueueCandidate, Recheck, InsertRow, IndexRow, MarkPromoted,
              MarkDismissed, Answer, RequestFails
<1> QED
  BY <1>1, <1>2, <1>3, <1>4, <1>5
     DEF Next, vars, CreateDecision, PromotePending, DismissPending

LEMMA SerialStep ==
  ASSUME TypeOK, [Next]_vars, Serial
  PROVE  Serial'
<1> USE Typing
<1> SUFFICES ASSUME ~raced' PROVE Alone' /\ Fresh' /\ ActiveOnce'
  BY DEF Serial
<1>0. ~raced /\ Alone /\ Fresh /\ ActiveOnce
  BY RacedStays DEF Serial
\* Steps that leave the log alone and bring no request to the INSERT
\* without the check it makes.
<1>1. ASSUME NEW c \in Connection, UNCHANGED log,
             \A d \in Connection : d # c => request'[d] = request[d],
             ~At(c, "idle") \/ \A d \in Connection : At(d, "idle"),
             At(c, "insert")' => ~ActiveDuplicate(request'[c])
      PROVE  Alone' /\ Fresh' /\ ActiveOnce'
  <2>1. Alone'
    BY <1>0, <1>1 DEF Alone, At
  <2>2. Fresh'
    BY <1>0, <1>1 DEF Fresh, At, ActiveDuplicate, IsActive
  <2>3. ActiveOnce'
    BY <1>0, <1>1 DEF ActiveOnce, IsActive
  <2> QED
    BY <2>1, <2>2, <2>3
<1>2. CASE UNCHANGED vars
  BY <1>0, <1>2 DEF vars, tables, Alone, Fresh, ActiveOnce, At, ActiveDuplicate, IsActive
<1>3. ASSUME NEW c \in Connection, NEW t \in Text, NEW p \in Scope, NEW f \in BOOLEAN,
             CreateDecision(c, t, p, f)
      PROVE  Alone' /\ Fresh' /\ ActiveOnce'
  <2>1. /\ UNCHANGED log /\ request'[c].step = "check"
        /\ \A d \in Connection : d # c => request'[d] = request[d]
        /\ \A d \in Connection : At(d, "idle")
    BY <1>3 DEF CreateDecision, Begins, Requests, tables
  <2> QED
    BY <1>1, <2>1 DEF At
<1>4. ASSUME NEW c \in Connection, NEW i \in DOMAIN pending,
             PromotePending(c, i) \/ DismissPending(c, i)
      PROVE  Alone' /\ Fresh' /\ ActiveOnce'
  <2>1. /\ UNCHANGED log /\ request'[c].step \in {"recheck", "dismiss"}
        /\ \A d \in Connection : d # c => request'[d] = request[d]
        /\ \A d \in Connection : At(d, "idle")
    <3>1. PICK s \in {"recheck", "dismiss"} : Begins(c, s, pending[i].text, None, i, TRUE)
      BY <1>4 DEF PromotePending, DismissPending
    <3> QED
      BY <3>1 DEF Begins, Requests, tables
  <2> QED
    BY <1>1, <2>1 DEF At
<1>5. ASSUME NEW c \in Connection, ~At(c, "idle"), UNCHANGED log,
             Ends(c) \/ \E s \in {"recheck", "queue", "mark"} : Go(c, s)
      PROVE  Alone' /\ Fresh' /\ ActiveOnce'
  <2>1. \A d \in Connection : d # c => request'[d] = request[d]
    BY <1>5 DEF Ends, Go, Requests
  <2>2. request'[c].step # "insert"
    BY <1>5 DEF Ends, Go, Requests, NoRequest, Request
  <2> QED
    BY <1>1, <1>5, <2>1, <2>2 DEF At
<1>6. ASSUME NEW c \in Connection, Recheck(c) PROVE Alone' /\ Fresh' /\ ActiveOnce'
  <2>1. CASE ~ActiveDuplicate(request[c]) /\ Go(c, "insert")
    <3>1. \A d \in Connection : d # c => request'[d] = request[d]
      BY <2>1 DEF Go, Requests
    <3>2. request'[c].text = request[c].text /\ request'[c].project = request[c].project
      BY <1>6, <2>1 DEF Recheck, At, Go, Requests, Request
    <3>3. UNCHANGED log
      BY <1>6 DEF Recheck, tables
    <3>4. ~(\E i \in DOMAIN log : /\ log[i].text = request[c].text
                                  /\ log[i].project = request[c].project
                                  /\ log[i].state = "active")
      BY <2>1 DEF ActiveDuplicate, IsActive
    <3>5. At(c, "insert")' => ~ActiveDuplicate(request'[c])
      BY <3>2, <3>4 DEF ActiveDuplicate, IsActive
    <3> QED
      BY <1>1, <1>6, <3>1, <3>3, <3>5 DEF Recheck, At
  <2> QED
    BY <1>5, <1>6, <2>1 DEF Recheck, At, GoOnOnceLogged, tables
<1>7. ASSUME NEW c \in Connection, InsertRow(c) PROVE Alone' /\ Fresh' /\ ActiveOnce'
  <2> DEFINE new == [text |-> request[c].text, project |-> request[c].project,
                     state |-> "active"]
  <2>1. new \in Decision
    BY <1>7 DEF InsertRow, At, Request, Decision
  <2>2. /\ DOMAIN log' = 1 .. Len(log) + 1 /\ log'[Len(log) + 1] = new
        /\ \A i \in DOMAIN log : log'[i] = log[i]
    BY <1>7, <2>1, Appended DEF InsertRow
  <2>3. \A i \in DOMAIN log : ~IsActive(i, request[c].text, request[c].project)
    BY <1>0, <1>7 DEF Fresh, InsertRow, ActiveDuplicate
  <2>4. ActiveOnce'
    BY <1>0, <2>2, <2>3 DEF ActiveOnce, IsActive
  <2>5. \A d \in Connection : d # c => request'[d] = request[d]
    BY <1>7 DEF InsertRow, Requests
  <2>6. Alone'
    BY <1>0, <1>7, <2>5 DEF Alone, InsertRow, At
  <2>7. request'[c].step = "index"
    BY <1>7 DEF InsertRow, Requests, At, Request
  <2>8. \A d \in Connection : ~At(d, "insert")'
    BY <1>0, <1>7, <2>5, <2>7 DEF Alone, InsertRow, At
  <2> QED
    BY <2>4, <2>6, <2>8 DEF Fresh
<1>8. ASSUME NEW c \in Connection,
             \/ Check(c) \/ QueueCandidate(c) \/ IndexRow(c)
             \/ MarkPromoted(c) \/ MarkDismissed(c) \/ RequestFails(c)
      PROVE  Alone' /\ Fresh' /\ ActiveOnce'
  BY <1>5, <1>8 DEF Check, QueueCandidate, IndexRow, MarkPromoted, MarkDismissed, Answer,
                    RequestFails, At, GoOnOnceLogged, tables
\* A row that is retracted only leaves fewer active ones.
<1>9. ASSUME NEW i \in DOMAIN log, NEW s \in {"active", "retracted"},
             UpdateDecisionState(i, s)
      PROVE  Alone' /\ Fresh' /\ ActiveOnce'
  <2>1. /\ DOMAIN log' = DOMAIN log /\ UNCHANGED request
        /\ \A j \in DOMAIN log : /\ log'[j].text = log[j].text
                                 /\ log'[j].project = log[j].project
                                 /\ log'[j].state = "active" => log[j].state = "active"
    BY <1>9 DEF UpdateDecisionState, Decision
  <2>2. Alone'
    BY <1>0, <2>1 DEF Alone, At
  <2>3. Fresh'
    BY <1>0, <2>1 DEF Fresh, At, ActiveDuplicate, IsActive
  <2>4. ActiveOnce'
    BY <1>0, <2>1 DEF ActiveOnce, IsActive
  <2> QED
    BY <2>2, <2>3, <2>4
<1>10. ASSUME NEW from \in Project, NEW into \in Project, MergeProjects(from, into)
       PROVE  FALSE
  BY <1>10 DEF MergeProjects
<1> QED
  BY <1>2, <1>3, <1>4, <1>6, <1>7, <1>8, <1>9, <1>10 DEF Next

-----------------------------------------------------------------------------
(* Answers one at a time. *)

\* A candidate changes only by the answer of a request that was given it.
LEMMA AnsweredBy ==
  ASSUME TypeOK, [Next]_vars, NEW k \in DOMAIN pending
  PROVE  \/ pending'[k] = pending[k]
         \/ \E c \in Connection : /\ MarkPromoted(c) \/ MarkDismissed(c)
                                  /\ k = request[c].candidate
<1> USE Typing
<1>1. ASSUME NEW c \in Connection, QueueCandidate(c) PROVE pending'[k] = pending[k]
  <2>1. [text |-> request[c].text, state |-> "pending"] \in Candidate
    BY <1>1 DEF QueueCandidate, At, Request, Candidate
  <2> QED
    BY <1>1, <2>1, Appended DEF QueueCandidate
<1>2. ASSUME NEW c \in Connection, MarkPromoted(c) \/ MarkDismissed(c), k # request[c].candidate
      PROVE  pending'[k] = pending[k]
  BY <1>2 DEF MarkPromoted, MarkDismissed, Answer
<1>3. \/ pending' = pending
      \/ \E c \in Connection : QueueCandidate(c) \/ MarkPromoted(c) \/ MarkDismissed(c)
  BY DEF Next, vars, tables, CreateDecision, Begins, Check, Recheck, InsertRow, IndexRow,
         PromotePending, DismissPending, RequestFails, UpdateDecisionState, MergeProjects
<1> QED
  BY <1>1, <1>2, <1>3

\* A request is given its candidate when it begins, one that is pending then.
LEMMA GivenPending ==
  ASSUME TypeOK, [Next]_vars, NEW d \in Connection
  PROVE  \/ request'[d].candidate \in {0, request[d].candidate}
         \/ UNCHANGED pending /\ request'[d].candidate \in DOMAIN pending
            /\ IsPending(request'[d].candidate)
<1> USE Typing
<1>1. CASE request'[d] = request[d]
  BY <1>1
<1>2. CASE Ends(d)
  BY <1>2, Ended DEF NoRequest
<1>3. ASSUME NEW t \in Text, NEW p \in Scope, NEW f \in BOOLEAN, CreateDecision(d, t, p, f)
      PROVE  request'[d].candidate = 0
  BY <1>3 DEF CreateDecision, Begins, Requests
<1>4. ASSUME NEW k \in DOMAIN pending, PromotePending(d, k) \/ DismissPending(d, k)
      PROVE  UNCHANGED pending /\ request'[d].candidate = k /\ IsPending(k)
  <2>1. PICK s \in {"recheck", "dismiss"} : Begins(d, s, pending[k].text, None, k, TRUE)
    BY <1>4 DEF PromotePending, DismissPending
  <2> QED
    BY <1>4, <2>1 DEF PromotePending, DismissPending, Begins, Requests, tables
<1>5. ASSUME ~At(d, "idle"), NEW s \in {"recheck", "queue", "insert", "mark"}, Go(d, s)
      PROVE  request'[d].candidate = request[d].candidate
  <2>1. s \in ActiveStep
    BY DEF ActiveStep
  <2>2. request'[d] = [request[d] EXCEPT !.step = s] /\ request[d] \in Request
    BY <1>5, <2>1, Stepped
  <2> QED
    BY <2>2 DEF Request
<1>6. ASSUME InsertRow(d) PROVE request'[d].candidate = request[d].candidate
  <2>1. request[d] \in Request
    BY <1>6 DEF InsertRow, At
  <2> QED
    BY <1>6, <2>1 DEF InsertRow, Requests, Request
<1>7. ASSUME Check(d) \/ Recheck(d) \/ IndexRow(d)
      PROVE  \/ Ends(d)
             \/ ~At(d, "idle") /\ \E s \in {"recheck", "queue", "insert", "mark"} : Go(d, s)
  BY <1>7 DEF Check, Recheck, IndexRow, GoOnOnceLogged, At
<1>8. ASSUME QueueCandidate(d) \/ MarkPromoted(d) \/ MarkDismissed(d) \/ RequestFails(d)
      PROVE  Ends(d)
  BY <1>8 DEF QueueCandidate, MarkPromoted, MarkDismissed, Answer, RequestFails
<1>9. ASSUME NEW c \in Connection, c # d,
              \/ \E t \in Text, p \in Scope, f \in BOOLEAN : CreateDecision(c, t, p, f)
              \/ Check(c) \/ QueueCandidate(c)
              \/ Recheck(c) \/ InsertRow(c) \/ IndexRow(c)
              \/ \E i \in DOMAIN pending : PromotePending(c, i) \/ DismissPending(c, i)
              \/ MarkPromoted(c) \/ MarkDismissed(c)
              \/ RequestFails(c)
       PROVE  request'[d] = request[d]
  BY <1>9 DEF CreateDecision, Begins, Check, QueueCandidate, Recheck, InsertRow, IndexRow,
       PromotePending, DismissPending, MarkPromoted, MarkDismissed, Answer, RequestFails,
       Go, Ends, GoOnOnceLogged, Requests
<1>10. CASE UNCHANGED request
  BY <1>1, <1>10
<1> QED
  BY <1>1, <1>2, <1>3, <1>4, <1>5, <1>6, <1>7, <1>8, <1>9, <1>10
     DEF Next, vars, UpdateDecisionState, MergeProjects

LEMMA UnansweredStep ==
  ASSUME TypeOK, [Next]_vars, ~raced => Alone /\ Unanswered, ~raced'
  PROVE  Unanswered'
<1> SUFFICES ASSUME NEW d \in Connection, request'[d].candidate # 0
             PROVE  pending'[request'[d].candidate].state = "pending"
  BY DEF Unanswered, IsPending
<1>1. Alone /\ Unanswered
  BY RacedStays
<1>2. CASE request'[d].candidate = request[d].candidate
  <2> DEFINE k == request[d].candidate
  <2>1. k \in DOMAIN pending /\ IsPending(k) /\ ~At(d, "idle")
    BY <1>1, <1>2, Typing DEF Unanswered, TypeOK, At, NoRequest, Request
  <2>2. ASSUME NEW c \in Connection, MarkPromoted(c) \/ MarkDismissed(c) PROVE FALSE
    <3>1. ~At(c, "idle") /\ Ends(c)
      BY <2>2 DEF MarkPromoted, MarkDismissed, Answer, At
    <3>2. c = d
      BY <1>1, <2>1, <3>1 DEF Alone
    <3> QED
      BY <1>2, <3>1, <3>2, Ended, Typing DEF NoRequest
  <2>3. pending'[k] = pending[k]
    BY <2>1, <2>2, AnsweredBy
  <2> QED
    BY <1>2, <2>1, <2>3 DEF IsPending
<1>3. CASE UNCHANGED pending /\ IsPending(request'[d].candidate)
  BY <1>3 DEF IsPending
<1> QED
  BY <1>2, <1>3, GivenPending

-----------------------------------------------------------------------------

LEMMA Invariant == Spec => []Inv
<1>1. Init => Inv
  <2> SUFFICES ASSUME Init PROVE Inv
    OBVIOUS
  <2>1. /\ log = <<>> /\ Len(log) = 0 /\ DOMAIN log = {} /\ log \in Seq(Decision)
        /\ pending = <<>> /\ Len(pending) = 0 /\ DOMAIN pending = {}
        /\ pending \in Seq(Candidate)
    BY EmptySeq DEF Init
  <2>2. \A c \in Connection : At(c, "idle") /\ request[c].candidate = 0
    BY DEF Init, At, NoRequest
  <2>3. request \in [Connection -> Request \cup {NoRequest}]
    BY DEF Init
  <2>4. TypeOK
    <3>1. index \subseteq 1 .. Len(log) /\ raced \in BOOLEAN
      BY DEF Init
    <3>2. ASSUME NEW c \in Connection
          PROVE  /\ request[c].candidate \in 0 .. Len(pending)
                 /\ At(c, "mark") \/ At(c, "dismiss") => request[c].candidate # 0
                 /\ At(c, "index") => request[c].row \in DOMAIN log
      BY <2>1, <2>2 DEF At
    <3> QED
      BY <2>1, <2>3, <3>1, <3>2 DEF TypeOK
  <2> QED
    <3>1. Alone /\ Fresh /\ ActiveOnce /\ Unanswered
      BY <2>1, <2>2 DEF Alone, Fresh, ActiveOnce, Unanswered, At
    <3>2. OwnCandidate /\ Logged /\ PromotedIsLogged
      BY <2>1, <2>2 DEF OwnCandidate, Logged, PromotedIsLogged, At
    <3> QED
      BY <2>4, <3>1, <3>2 DEF Inv
<1>2. Inv /\ [Next]_vars => Inv'
  <2> SUFFICES ASSUME Inv, [Next]_vars PROVE Inv'
    OBVIOUS
  <2>1. TypeOK /\ Serial /\ PromotedIsLogged /\ \A c \in Connection : Knows(c)
    BY KnowledgeParts DEF Inv, Serial
  <2>2. TypeOK' /\ Serial' /\ PromotedIsLogged'
    BY <2>1, TypeStep, SerialStep, PromotedStep
  <2>3. \A c \in Connection : Knows(c)'
    BY <2>1, KnowledgeStep
  <2>4. OwnCandidate' /\ Logged'
    BY <2>3 DEF OwnCandidate, Logged, Knows
  <2>5. ~raced' => Unanswered'
    BY <2>1, UnansweredStep DEF Inv
  <2> QED
    BY <2>2, <2>4, <2>5 DEF Inv, Serial
<1> QED
  BY <1>1, <1>2, PTL DEF Spec

\* Every variable keeps its type, and a request that has got as far as marking,
\* dismissing or indexing has a candidate or a row to do it to.
THEOREM TypeCorrect == Spec => []TypeOK
BY Invariant, PTL DEF Inv

\* As long as requests do not overlap and nothing is made active again by hand
\* or by a merge, no decision is active twice in a project, wherever requests
\* die between their commits (insert_decision's duplicate check).
THEOREM SerialUnique == Spec => []SerialLogIsUnique
BY Invariant, PTL DEF Inv, SerialLogIsUnique

\* A candidate marked promoted has its decision in the log, for any number of
\* concurrent requests and any failures (promote_pending's order of commits).
THEOREM PromotionLogged == Spec => []PromotedIsLogged
BY Invariant, PTL DEF Inv

\* An answered candidate keeps its answer as long as answers come one at a time:
\* who promotes or dismisses has found it pending, and nobody else is under way
\* (promote_pending, dismiss_pending).
THEOREM AnswersStand == Spec => AnswerStands
<1>1. ASSUME Inv, [Next]_vars, NEW k \in DOMAIN pending, ~raced', ~IsPending(k)
      PROVE  pending'[k] = pending[k]
  <2>1. TypeOK /\ Unanswered
    BY <1>1, RacedStays DEF Inv
  <2>2. ASSUME NEW c \in Connection, MarkPromoted(c) \/ MarkDismissed(c)
        PROVE  request[c].candidate # 0
    BY <2>1, <2>2 DEF MarkPromoted, MarkDismissed, TypeOK
  <2> QED
    BY <1>1, <2>1, <2>2, AnsweredBy DEF Unanswered
<1>2. Inv /\ [Next]_vars =>
        [\A k \in DOMAIN pending : ~raced' /\ ~IsPending(k) => pending'[k] = pending[k]]_vars
  BY <1>1
<1> QED
  BY <1>2, Invariant, PTL DEF Spec, AnswerStands
================================================================================
