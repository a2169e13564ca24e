------------------------ MODULE MemoryGovernanceProofs ------------------------
(* Proofs about MemoryGovernance, for every value of its constants.          *)
EXTENDS MemoryGovernance, SequenceTheorems, FiniteSetTheorems, TLAPS

CandidateStep == {"reinforce", "validate", "write", "look", "queue", "discard", "log"}
AnswerStep == {"apply", "retire", "resolved", "dismissed"}
RoundStep == {"number", "sample", "verify"}
Step == CandidateStep \cup AnswerStep \cup RoundStep

\* What a request carries at each of its steps.
Carries(c) ==
  /\ request[c].step \in CandidateStep =>
       /\ request[c].field \in Field /\ request[c].value \in Value
       /\ request[c].label \in {"explicit", "inferred"}
       /\ request[c].evidence \in 1 .. 5
  /\ request[c].step \in AnswerStep => request[c].question \in DOMAIN questions

TypeInv == TypeOK /\ \A c \in Connection : Carries(c)

-----------------------------------------------------------------------------
(* Sequences of questions. *)

\* A question is added, and the others stay.
LEMMA Asked ==
  ASSUME questions \in Seq(Question), NEW f \in Field, NEW v \in Value,
         NEW o \in {"observer", "verification"}, Ask(f, v, o)
  PROVE  /\ questions' \in Seq(Question)
         /\ Len(questions) \in Nat
         /\ DOMAIN questions = 1 .. Len(questions)
         /\ DOMAIN questions' = 1 .. Len(questions) + 1
         /\ DOMAIN questions \subseteq DOMAIN questions'
         /\ \A n \in DOMAIN questions : questions'[n] = questions[n]
         /\ questions'[Len(questions) + 1] =
              [field |-> f, value |-> v, origin |-> o, state |-> "pending"]
<1> DEFINE e == [field |-> f, value |-> v, origin |-> o, state |-> "pending"]
<1>1. e \in Question
  BY DEF Question
<1>2. questions' = Append(questions, e)
  BY DEF Ask
<1> HIDE DEF e
<1>3. /\ questions' \in Seq(Question)
      /\ Len(questions) \in Nat /\ Len(questions') = Len(questions) + 1
      /\ DOMAIN questions = 1 .. Len(questions) /\ DOMAIN questions' = 1 .. Len(questions')
      /\ \A n \in 1 .. Len(questions) : questions'[n] = questions[n]
      /\ questions'[Len(questions) + 1] = e
  BY <1>1, <1>2, AppendProperties, LenProperties
<1>4. 1 .. Len(questions) \subseteq 1 .. Len(questions) + 1
  BY <1>3
<1> QED
  BY <1>3, <1>4 DEF e

\* A question is answered, and the others stay.
LEMMA Answered ==
  ASSUME questions \in Seq(Question), NEW n \in DOMAIN questions,
         NEW s \in {"resolved", "dismissed"},
         questions' = [questions EXCEPT ![n].state = s]
  PROVE  /\ questions' \in Seq(Question)
         /\ DOMAIN questions' = DOMAIN questions
         /\ DOMAIN questions = 1 .. Len(questions)
         /\ \A m \in DOMAIN questions : m # n => questions'[m] = questions[m]
         /\ questions'[n] = [questions[n] EXCEPT !.state = s]
<1> DEFINE e == [questions[n] EXCEPT !.state = s]
<1>1. questions[n] \in Question
  BY ElementOfSeq, LenProperties
<1>2. e \in Question
  BY <1>1 DEF Question
<1>3. questions' = [questions EXCEPT ![n] = e]
  OBVIOUS
<1> HIDE DEF e
<1>4. questions' \in Seq(Question) /\ DOMAIN questions' = DOMAIN questions
  BY <1>2, <1>3, ExceptSeq, LenProperties
<1>5. questions'[n] = e /\ \A m \in DOMAIN questions : m # n => questions'[m] = questions[m]
  BY <1>3
<1> QED
  BY <1>4, <1>5, LenProperties DEF e

-----------------------------------------------------------------------------
(* Requests: a step changes the one it belongs to, and no other. *)

Requests == [Connection -> Request]
Others(c) == \A d \in Connection : d # c => request'[d] = request[d]

LEMMA NoRequestType ==
  /\ NoRequest \in Request
  /\ NoRequest.step = "idle" /\ NoRequest.field = None /\ NoRequest.question = 0
BY DEF NoRequest, Request

LEMMA Going ==
  ASSUME request \in Requests, NEW c \in Connection, NEW s \in Step, Go(c, s)
  PROVE  /\ request' \in Requests /\ Others(c)
         /\ request[c] \in Request
         /\ request'[c] = [request[c] EXCEPT !.step = s]
<1>1. request[c] \in Request
  BY DEF Requests
<1>2. [request[c] EXCEPT !.step = s] \in Request
  BY <1>1 DEF Request, Step, CandidateStep, AnswerStep, RoundStep
<1> QED
  BY <1>1, <1>2 DEF Requests, Go, Others

LEMMA Ending ==
  ASSUME request \in Requests, NEW c \in Connection, Ends(c)
  PROVE  /\ request' \in Requests /\ Others(c)
         /\ request'[c] = NoRequest
BY NoRequestType DEF Requests, Ends, Others

LEMMA Beginning ==
  ASSUME request \in Requests, NEW c \in Connection, NEW r \in Request, Begins(c, r)
  PROVE  /\ request' \in Requests /\ Others(c)
         /\ request'[c] = r /\ At(c, "idle")
BY DEF Requests, Begins, Others

\* Requests that a step leaves alone carry what they carried.
LEMMA CarriesStays ==
  ASSUME NEW c \in Connection, Carries(c), request'[c] = request[c],
         DOMAIN questions \subseteq DOMAIN questions'
  PROVE  Carries(c)'
BY DEF Carries

-----------------------------------------------------------------------------
(* Types. *)

LEMMA Typing ==
  ASSUME TypeInv
  PROVE  /\ request \in Requests /\ questions \in Seq(Question)
         /\ DOMAIN questions = 1 .. Len(questions) /\ Len(questions) \in Nat
         /\ \A i \in DOMAIN questions : questions[i] \in Question
         /\ \A c \in Connection : request[c] \in Request
BY LenProperties, ElementOfSeq DEF TypeInv, TypeOK, Requests

\* The request's part of TypeInv', from the step of one request.
LEMMA RequestsStay ==
  ASSUME TypeInv, NEW c \in Connection, Others(c), Carries(c)',
         DOMAIN questions \subseteq DOMAIN questions'
  PROVE  \A d \in Connection : Carries(d)'
BY DEF TypeInv, Others, Carries

\* What is counted is a number.
LEMMA Counting ==
  ASSUME NEW f \in Field, NEW v \in Value
  PROVE  SessionsOf(f, v) \in Nat
<1>1. IsFiniteSet(Session)
  BY FS_Interval, GovernanceBoundsAssumption DEF Session
<1>2. IsFiniteSet({s \in Session : observations[f][v][s] > 0})
  BY <1>1, FS_Subset
<1> QED
  BY <1>2, FS_CardinalityType DEF SessionsOf

LEMMA Larger1 ==
  ASSUME NEW m \in Nat, NEW n \in Nat
  PROVE  /\ Larger(m, n) \in Nat /\ Larger(m, n) >= m /\ Larger(m, n) >= n
         /\ Larger(m, n) \in {m, n}
BY DEF Larger

LEMMA AtMost ==
  ASSUME NEW n \in Nat
  PROVE  /\ n >= 1 => AtMostFive(n) \in 1 .. 5
         /\ n >= 5 => AtMostFive(n) = 5
         /\ AtMostFive(n) =< n
BY DEF AtMostFive

\* What reinforce_evidence makes of a candidate, in the three cases it tells apart.
LEMMA ReinforcedCases ==
  ASSUME TypeInv, NEW c \in Connection, At(c, "reinforce"),
         NEW f, f = request[c].field, NEW v, v = request[c].value,
         NEW e, e = Reinforced(request[c])
  PROVE  /\ e \in Nat /\ e >= 1
         /\ stored[f] = NoRow =>
              e = Larger(request[c].evidence, SessionsOf(f, v))
         /\ stored[f] # NoRow /\ stored[f].value = v => e >= stored[f].evidence
         /\ stored[f] # NoRow /\ stored[f].value # v => e = request[c].evidence
<1>1. f \in Field /\ v \in Value /\ request[c].evidence \in 1 .. 5
  BY DEF TypeInv, Carries, At, CandidateStep
<1>2. SessionsOf(f, v) \in Nat
  BY <1>1, Counting
<1>3. CASE stored[f] = NoRow
  <2>1. e = Larger(request[c].evidence, SessionsOf(f, v))
    BY <1>3 DEF Reinforced
  <2>2. request[c].evidence \in Nat /\ request[c].evidence >= 1
    BY <1>1
  <2>3. e \in Nat /\ e >= request[c].evidence
    BY <1>2, <2>1, <2>2, Larger1
  <2>4. e >= 1
    BY <2>2, <2>3
  <2> QED
    BY <1>3, <2>1, <2>3, <2>4
<1>4. CASE stored[f] # NoRow /\ stored[f].value = v
  <2> DEFINE once == IF observations[f][v][session] > 1 THEN 0 ELSE 1
  <2>1. e = Larger(stored[f].evidence + once, SessionsOf(f, v))
    BY <1>4 DEF Reinforced
  <2>5. once \in {0, 1}
    OBVIOUS
  <2> HIDE DEF once
  <2>2. stored[f].evidence \in Nat /\ stored[f].evidence >= 1
    <3>1. stored[f] \in Row
      BY <1>1, <1>4 DEF TypeInv, TypeOK
    <3> QED
      BY <3>1 DEF Row
  <2>3. stored[f].evidence + once \in Nat /\ stored[f].evidence + once >= stored[f].evidence
    BY <2>2, <2>5
  <2>4. e \in Nat /\ e >= stored[f].evidence + once
    BY <1>2, <2>1, <2>3, Larger1
  <2> QED
    BY <1>4, <2>2, <2>3, <2>4
<1>5. CASE stored[f] # NoRow /\ stored[f].value # v
  BY <1>1, <1>5 DEF Reinforced
<1> QED
  BY <1>3, <1>4, <1>5

LEMMA ReinforcedType ==
  ASSUME TypeInv, NEW c \in Connection, At(c, "reinforce")
  PROVE  AtMostFive(Reinforced(request[c])) \in 1 .. 5
BY ReinforcedCases, AtMost

\* A request that moves on, with nothing but its step changed, keeps its types.
LEMMA GoingCarries ==
  ASSUME TypeInv, NEW c \in Connection, NEW s \in Step, Go(c, s),
         DOMAIN questions \subseteq DOMAIN questions',
         \/ request[c].step \in CandidateStep /\ s \in CandidateStep
         \/ request[c].step \in AnswerStep /\ s \in AnswerStep
         \/ s \in RoundStep
  PROVE  request' \in Requests /\ \A d \in Connection : Carries(d)'
<1>1. /\ request' \in Requests /\ Others(c) /\ request[c] \in Request
      /\ request'[c] = [request[c] EXCEPT !.step = s]
  BY Typing, Going
<1>2. /\ request'[c].step = s
      /\ request'[c].field = request[c].field /\ request'[c].value = request[c].value
      /\ request'[c].label = request[c].label /\ request'[c].evidence = request[c].evidence
      /\ request'[c].question = request[c].question
  BY <1>1 DEF Request
<1>3. Carries(c)
  BY DEF TypeInv
<1>4. Carries(c)'
  BY <1>2, <1>3 DEF Carries, CandidateStep, AnswerStep, RoundStep
<1> QED
  BY <1>1, <1>4, RequestsStay

LEMMA EndingCarries ==
  ASSUME TypeInv, NEW c \in Connection, Ends(c), DOMAIN questions \subseteq DOMAIN questions'
  PROVE  request' \in Requests /\ \A d \in Connection : Carries(d)'
<1>1. request' \in Requests /\ Others(c) /\ request'[c] = NoRequest
  BY Typing, Ending
<1>2. Carries(c)'
  BY <1>1, NoRequestType DEF Carries, CandidateStep, AnswerStep
<1> QED
  BY <1>1, <1>2, RequestsStay

\* What the user gives as a value has a row of its type.
LEMMA UserWritesType ==
  ASSUME TypeInv, NEW f \in Field, NEW v \in Value, UserWrites(f, v)
  PROVE  /\ stored' \in [Field -> Row \cup {NoRow}]
         /\ contradictions' \in [Field -> SUBSET [session : Session, week : Week]]
         /\ spoken' \in [Field -> Value \cup {None}]
         /\ stated' \subseteq Field \X Value
<1>1. [value |-> v, label |-> "attested", evidence |-> 5, active |-> TRUE] \in Row
  BY DEF Row, Label
<1> QED
  BY <1>1 DEF UserWrites, TypeInv, TypeOK

\* An answer goes by a question that is there.
LEMMA AnswersType ==
  ASSUME TypeInv, NEW c \in Connection, NEW i \in DOMAIN questions, NEW s \in AnswerStep,
         Answers(c, i, s)
  PROVE  /\ request' \in Requests /\ Others(c) /\ Carries(c)' /\ At(c, "idle")
         /\ request'[c] = [NoRequest EXCEPT !.step = s, !.question = i]
<1>0. i \in Nat
  BY Typing
<1>1. [NoRequest EXCEPT !.step = s, !.question = i] \in Request
  BY <1>0, NoRequestType DEF Request, AnswerStep
<1>2. request' \in Requests /\ Others(c) /\ At(c, "idle")
      /\ request'[c] = [NoRequest EXCEPT !.step = s, !.question = i]
  BY <1>1, Typing, Beginning DEF Answers
<1>3. request'[c].step = s /\ request'[c].question = i
  BY <1>2, NoRequestType DEF Request
<1>4. Carries(c)'
  BY <1>3 DEF Carries, Answers, AnswerStep, CandidateStep
<1> QED
  BY <1>2, <1>4

\* What a candidate is when it has been observed.
LEMMA ObservedRequest ==
  ASSUME TypeInv, NEW c \in Connection, NEW f \in Field, NEW v \in Value,
         NEW label \in {"explicit", "inferred"}, Observe(c, f, v, label)
  PROVE  /\ request' \in Requests /\ Others(c) /\ At(c, "idle")
         /\ request'[c].step = "reinforce" /\ request'[c].field = f
         /\ request'[c].value = v /\ request'[c].label = label
         /\ request'[c].evidence = 1
<1> DEFINE r == [step |-> "reinforce", field |-> f, value |-> v, label |-> label,
                 evidence |-> 1, question |-> 0, asks |-> {}]
<1>1. /\ r \in Request
      /\ r.step = "reinforce" /\ r.field = f /\ r.value = v
      /\ r.label = label /\ r.evidence = 1
  <2>1. label \in Label \cup {"none"} /\ 1 \in 0 .. 5 /\ 0 \in Nat
    BY DEF Label
  <2> QED
    BY <2>1 DEF Request
<1>2. Begins(c, r)
  BY DEF Observe
<1> HIDE DEF r
<1> QED
  BY <1>1, <1>2, Typing, Beginning

\* What a candidate is when its evidence has been counted.
LEMMA ReinforcedRequest ==
  ASSUME TypeInv, NEW c \in Connection, Reinforce(c)
  PROVE  /\ request' \in Requests /\ Others(c)
         /\ request'[c].step = "validate" /\ request'[c].field = request[c].field
         /\ request'[c].value = request[c].value /\ request'[c].label = request[c].label
         /\ request'[c].evidence = AtMostFive(Reinforced(request[c]))
         /\ request'[c].evidence \in 1 .. 5
<1> DEFINE e == AtMostFive(Reinforced(request[c]))
           r == [request[c] EXCEPT !.step = "validate", !.evidence = e]
<1>1. e \in 1 .. 5
  BY ReinforcedType DEF Reinforce
<1>2. request' = [request EXCEPT ![c] = r]
  BY DEF Reinforce
<1>3. request[c] \in Request /\ request \in Requests
  BY Typing
<1>4. e = AtMostFive(Reinforced(request[c]))
  OBVIOUS
<1> HIDE DEF e
<1>5. /\ r \in Request /\ r.step = "validate" /\ r.evidence = e
      /\ r.field = request[c].field /\ r.value = request[c].value
      /\ r.label = request[c].label
  <2>1. e \in 0 .. 5
    BY <1>1
  <2> QED
    BY <2>1, <1>3 DEF Request
<1> HIDE DEF r
<1>6. request' \in Requests /\ Others(c) /\ request'[c] = r
  BY <1>2, <1>3, <1>5 DEF Requests, Others
<1> QED
  BY <1>1, <1>4, <1>5, <1>6

\* The pass over one candidate.
LEMMA ObserverType ==
  ASSUME TypeInv, NEW c \in Connection, Observer(c)
  PROVE  TypeInv'
<1> USE Typing
<1>1. ASSUME NEW f \in Field, NEW v \in Value, NEW label \in {"explicit", "inferred"},
             Observe(c, f, v, label)
      PROVE  TypeInv'
  <2>1. request' \in Requests /\ Others(c) /\ Carries(c)'
    BY <1>1, ObservedRequest DEF Carries, CandidateStep, AnswerStep
  <2>2. \A d \in Connection : Carries(d)'
    BY <1>1, <2>1, RequestsStay DEF Observe
  <2>3. observations' \in [Field -> [Value -> [Session -> 0 .. 2]]]
    <3>1. CASE UNCHANGED observations
      BY <3>1 DEF TypeInv, TypeOK
    <3>2. CASE observations' = [observations EXCEPT ![f][v][session] = IF @ = 0 THEN 1 ELSE 2]
      BY <3>2 DEF TypeInv, TypeOK
    <3> QED
      BY <1>1, <3>1, <3>2 DEF Observe
  <2> QED
    BY <1>1, <2>1, <2>2, <2>3 DEF Observe, Begins, TypeInv, TypeOK, Requests
<1>2. CASE Reinforce(c)
  <2>1. At(c, "reinforce") /\ Carries(c)
    BY <1>2 DEF Reinforce, TypeInv
  <2>2. Carries(c)'
    BY <1>2, <2>1, ReinforcedRequest DEF Carries, CandidateStep, AnswerStep, At
  <2>3. \A d \in Connection : Carries(d)'
    BY <1>2, <2>2, ReinforcedRequest, RequestsStay DEF Reinforce
  <2> QED
    BY <1>2, <2>3, ReinforcedRequest DEF Reinforce, TypeInv, TypeOK, profile, Requests
<1>3. ASSUME NEW s \in CandidateStep, request[c].step \in CandidateStep, Go(c, s),
             UNCHANGED <<profile, questions, session, week, spoken, stated, raced>>
      PROVE  TypeInv'
  <2>1. request' \in Requests /\ \A d \in Connection : Carries(d)'
    BY <1>3, GoingCarries DEF Step
  <2> QED
    BY <1>3, <2>1 DEF TypeInv, TypeOK, profile, Requests
<1>4. ASSUME Ends(c), UNCHANGED <<profile, questions, session, week, spoken, stated, raced>>
      PROVE  TypeInv'
  <2>1. request' \in Requests /\ \A d \in Connection : Carries(d)'
    BY <1>4, EndingCarries
  <2> QED
    BY <1>4, <2>1 DEF TypeInv, TypeOK, profile, Requests
<1>5. CASE Validate(c)
  BY <1>3, <1>5 DEF Validate, At, CandidateStep
<1>6. CASE WriteApproved(c)
  <2> DEFINE r == request[c]
  <2>1. /\ r.field \in Field /\ r.value \in Value /\ r.label \in Label
        /\ r.evidence \in 1 .. 5
    BY <1>6 DEF WriteApproved, TypeInv, Carries, At, CandidateStep, Label
  <2>2. stored' \in [Field -> Row \cup {NoRow}]
    <3>1. [value |-> r.value, label |-> r.label, evidence |-> r.evidence, active |-> TRUE] \in Row
      BY <2>1 DEF Row
    <3> QED
      BY <1>6, <3>1 DEF WriteApproved, TypeInv, TypeOK
  <2>3. stated' \subseteq Field \X Value
    BY <1>6, <2>1 DEF WriteApproved, TypeInv, TypeOK
  <2>4. request' \in Requests /\ \A d \in Connection : Carries(d)'
    BY <1>6, EndingCarries DEF WriteApproved
  <2> QED
    BY <1>6, <2>2, <2>3, <2>4 DEF WriteApproved, TypeInv, TypeOK, Requests
<1>7. CASE LookForDuplicate(c)
  BY <1>3, <1>4, <1>7 DEF LookForDuplicate, At, CandidateStep
<1>8. CASE QueueCandidate(c)
  <2>1. request[c].field \in Field /\ request[c].value \in Value
    BY <1>8 DEF QueueCandidate, TypeInv, Carries, At, CandidateStep
  <2>2. questions' \in Seq(Question) /\ DOMAIN questions \subseteq DOMAIN questions'
    <3>1. Ask(request[c].field, request[c].value, "observer")
      BY <1>8 DEF QueueCandidate
    <3> QED
      BY <2>1, <3>1, Asked
  <2>3. request' \in Requests /\ \A d \in Connection : Carries(d)'
    BY <1>8, <2>2, EndingCarries DEF QueueCandidate
  <2> QED
    BY <1>8, <2>2, <2>3 DEF QueueCandidate, TypeInv, TypeOK, profile, Requests
<1>9. CASE Discard(c)
  BY <1>3, <1>4, <1>9 DEF Discard, At, CandidateStep
<1>10. CASE LogContradiction(c)
  <2>1. contradictions' \in [Field -> SUBSET [session : Session, week : Week]]
    <3>1. [session |-> session, week |-> week] \in [session : Session, week : Week]
      BY DEF TypeInv, TypeOK
    <3> QED
      BY <1>10, <3>1 DEF LogContradiction, TypeInv, TypeOK
  <2>2. request' \in Requests /\ \A d \in Connection : Carries(d)'
    BY <1>10, EndingCarries DEF LogContradiction
  <2> QED
    BY <1>10, <2>1, <2>2 DEF LogContradiction, TypeInv, TypeOK, Requests
<1> QED
  BY <1>1, <1>2, <1>5, <1>6, <1>7, <1>8, <1>9, <1>10 DEF Observer

\* What a verification round has to ask is a stored value.
LEMMA SampledRequest ==
  ASSUME TypeInv, NEW c \in Connection, At(c, "sample"), NEW sample \in SUBSET Doubtful,
         request' = [request EXCEPT ![c] = [@ EXCEPT !.step = "verify",
                       !.asks = {<<f, stored[f].value>> : f \in sample}]]
  PROVE  /\ request' \in Requests /\ Others(c)
         /\ request'[c].step = "verify"
         /\ request'[c].asks = {<<f, stored[f].value>> : f \in sample}
<1> DEFINE asks == {<<f, stored[f].value>> : f \in sample}
           r == [request[c] EXCEPT !.step = "verify", !.asks = asks]
<1>1. asks \in SUBSET (Field \X Value)
  <2>1. ASSUME NEW f \in sample
        PROVE  f \in Field /\ stored[f].value \in Value
    <3>1. f \in Field /\ stored[f].active
      BY DEF Doubtful
    <3>2. stored[f] \in Row
      BY <3>1 DEF TypeInv, TypeOK, NoRow
    <3> QED
      BY <3>1, <3>2 DEF Row
  <2> QED
    BY <2>1
<1>2. request' = [request EXCEPT ![c] = r]
  OBVIOUS
<1>3. request[c] \in Request /\ request \in Requests
  BY Typing
<1>4. asks = {<<f, stored[f].value>> : f \in sample}
  OBVIOUS
<1> HIDE DEF asks
<1>5. r \in Request /\ r.step = "verify" /\ r.asks = asks
  BY <1>1, <1>3 DEF Request
<1> HIDE DEF r
<1>6. request' \in Requests /\ Others(c) /\ request'[c] = r
  BY <1>2, <1>3, <1>5 DEF Requests, Others
<1> QED
  BY <1>4, <1>5, <1>6

\* One question of a round is done with.
LEMMA VerifiedRequest ==
  ASSUME TypeInv, NEW c \in Connection, At(c, "verify"), NEW a \in request[c].asks,
         request[c].asks # {a}, request' = [request EXCEPT ![c].asks = @ \ {a}]
  PROVE  /\ request' \in Requests /\ Others(c)
         /\ request'[c].step = "verify" /\ request'[c].asks = request[c].asks \ {a}
<1> DEFINE asks == request[c].asks \ {a}
           r == [request[c] EXCEPT !.asks = asks]
<1>1. request[c] \in Request /\ request \in Requests
  BY Typing
<1>2. asks \in SUBSET (Field \X Value) /\ asks = request[c].asks \ {a}
  BY <1>1 DEF Request
<1>3. request' = [request EXCEPT ![c] = r]
  OBVIOUS
<1> HIDE DEF asks
<1>4. r \in Request /\ r.step = "verify" /\ r.asks = asks
  BY <1>1, <1>2 DEF Request, At
<1> HIDE DEF r
<1>5. request' \in Requests /\ Others(c) /\ request'[c] = r
  BY <1>1, <1>3, <1>4 DEF Requests, Others
<1> QED
  BY <1>2, <1>4, <1>5

\* The start of a session.
LEMMA SessionStartType ==
  ASSUME TypeInv, NEW c \in Connection, SessionStart(c)
  PROVE  TypeInv'
<1> USE Typing
<1>1. CASE BeginSession(c)
  <2> DEFINE r == [NoRequest EXCEPT !.step = "number"]
  <2>1. r \in Request /\ r.step = "number"
    BY NoRequestType DEF Request
  <2>2. Begins(c, r)
    BY <1>1 DEF BeginSession
  <2> HIDE DEF r
  <2>3. request' \in Requests /\ Others(c) /\ request'[c].step = "number"
    BY <2>1, <2>2, Beginning
  <2>4. Carries(c)'
    BY <2>3 DEF Carries, CandidateStep, AnswerStep
  <2>5. \A d \in Connection : Carries(d)'
    BY <1>1, <2>3, <2>4, RequestsStay DEF BeginSession
  <2>6. session' \in Session
    BY <1>1, GovernanceBoundsAssumption DEF BeginSession, TypeInv, TypeOK, Session
  <2> QED
    BY <1>1, <2>3, <2>5, <2>6
    DEF BeginSession, Begins, TypeInv, TypeOK, profile, Requests
<1>2. ASSUME NEW s \in RoundStep, Go(c, s),
             UNCHANGED <<profile, questions, session, week, spoken, stated, raced>>
      PROVE  TypeInv'
  <2>1. request' \in Requests /\ \A d \in Connection : Carries(d)'
    BY <1>2, GoingCarries DEF Step
  <2> QED
    BY <1>2, <2>1 DEF TypeInv, TypeOK, profile, Requests
<1>3. ASSUME Ends(c), UNCHANGED <<profile, questions, session, week, spoken, stated, raced>>
      PROVE  TypeInv'
  <2>1. request' \in Requests /\ \A d \in Connection : Carries(d)'
    BY <1>3, EndingCarries
  <2> QED
    BY <1>3, <2>1 DEF TypeInv, TypeOK, profile, Requests
<1>4. CASE ReadNumber(c)
  BY <1>2, <1>3, <1>4 DEF ReadNumber, RoundStep
<1>5. CASE SelectFields(c)
  <2>1. PICK sample \in SUBSET Doubtful :
          IF sample = {} THEN Ends(c)
          ELSE request' = [request EXCEPT ![c] = [@ EXCEPT !.step = "verify",
                             !.asks = {<<f, stored[f].value>> : f \in sample}]]
    BY <1>5 DEF SelectFields
  <2>2. CASE sample # {}
    <3>1. request' \in Requests /\ Others(c) /\ request'[c].step = "verify"
      BY <1>5, <2>1, <2>2, SampledRequest DEF SelectFields
    <3>2. Carries(c)'
      BY <3>1 DEF Carries, CandidateStep, AnswerStep
    <3>3. \A d \in Connection : Carries(d)'
      BY <1>5, <3>1, <3>2, RequestsStay DEF SelectFields
    <3> QED
      BY <1>5, <3>1, <3>3 DEF SelectFields, TypeInv, TypeOK, profile, Requests
  <2>3. CASE sample = {}
    BY <1>3, <1>5, <2>1, <2>3 DEF SelectFields
  <2> QED
    BY <2>2, <2>3
<1>6. CASE QueueVerification(c)
  <2>1. PICK a \in request[c].asks :
          /\ Ask(a[1], a[2], "verification") \/ UNCHANGED questions
          /\ IF request[c].asks = {a} THEN Ends(c)
             ELSE request' = [request EXCEPT ![c].asks = @ \ {a}]
    BY <1>6 DEF QueueVerification
  <2>2. a[1] \in Field /\ a[2] \in Value
    <3>1. request[c] \in Request
      OBVIOUS
    <3>2. a \in Field \X Value
      BY <3>1 DEF Request
    <3> QED
      BY <3>2
  <2>3. questions' \in Seq(Question) /\ DOMAIN questions \subseteq DOMAIN questions'
    BY <2>1, <2>2, Asked
  <2>4. request' \in Requests /\ \A d \in Connection : Carries(d)'
    <3>1. CASE request[c].asks = {a}
      BY <2>1, <2>3, <3>1, EndingCarries
    <3>2. CASE request[c].asks # {a}
      <4>1. request' \in Requests /\ Others(c) /\ request'[c].step = "verify"
        BY <1>6, <2>1, <3>2, VerifiedRequest DEF QueueVerification
      <4>2. Carries(c)'
        BY <4>1 DEF Carries, CandidateStep, AnswerStep
      <4> QED
        BY <2>3, <4>1, <4>2, RequestsStay
    <3> QED
      BY <3>1, <3>2
  <2> QED
    BY <1>6, <2>3, <2>4 DEF QueueVerification, TypeInv, TypeOK, profile, Requests
<1> QED
  BY <1>1, <1>4, <1>5, <1>6 DEF SessionStart

\* The user's answers.
LEMMA ReviewType ==
  ASSUME TypeInv, NEW c \in Connection, Review(c)
  PROVE  TypeInv'
<1> USE Typing
<1>1. ASSUME NEW i \in DOMAIN questions, NEW s \in AnswerStep, Answers(c, i, s)
      PROVE  TypeInv'
  <2>1. request' \in Requests /\ Others(c) /\ Carries(c)'
    BY <1>1, AnswersType
  <2>2. \A d \in Connection : Carries(d)'
    BY <1>1, <2>1, RequestsStay DEF Answers
  <2> QED
    BY <1>1, <2>1, <2>2 DEF Answers, Begins, TypeInv, TypeOK, profile, Requests
<1>2. ASSUME NEW i \in DOMAIN questions, ResolvePending(c, i) \/ DismissPending(c, i)
      PROVE  TypeInv'
  BY <1>1, <1>2 DEF ResolvePending, DismissPending, AnswerStep
<1>3. ASSUME request[c].step \in AnswerStep
      PROVE  /\ request[c].question \in DOMAIN questions
             /\ questions[request[c].question].field \in Field
             /\ questions[request[c].question].value \in Value
  <2>1. request[c].question \in DOMAIN questions
    BY <1>3 DEF TypeInv, Carries
  <2>2. questions[request[c].question] \in Question
    BY <2>1
  <2> QED
    BY <2>1, <2>2 DEF Question
<1>4. CASE Apply(c)
  <2>1. /\ stored' \in [Field -> Row \cup {NoRow}]
        /\ contradictions' \in [Field -> SUBSET [session : Session, week : Week]]
        /\ spoken' \in [Field -> Value \cup {None}]
        /\ stated' \subseteq Field \X Value
    BY <1>3, <1>4, UserWritesType DEF Apply, At, AnswerStep
  <2>2. request' \in Requests /\ \A d \in Connection : Carries(d)'
    BY <1>4, GoingCarries DEF Apply, At, AnswerStep, Step
  <2> QED
    BY <1>4, <2>1, <2>2 DEF Apply, TypeInv, TypeOK, Requests
<1>5. CASE Retire(c)
  <2>1. questions[request[c].question].field \in Field
    BY <1>3, <1>5 DEF Retire, At, AnswerStep
  <2>2. PICK f \in Field :
          IF stored[f].active
            THEN /\ stored' = [stored EXCEPT ![f].active = FALSE]
                 /\ contradictions' = [contradictions EXCEPT ![f] = {}]
                 /\ spoken' = [spoken EXCEPT ![f] = None]
            ELSE UNCHANGED <<stored, contradictions, spoken>>
    BY <1>5, <2>1 DEF Retire
  <2>3. stored[f].active => [stored[f] EXCEPT !.active = FALSE] \in Row
    <3>1. stored[f].active => stored[f] \in Row
      BY DEF TypeInv, TypeOK, NoRow
    <3> QED
      BY <3>1 DEF Row
  <2>4. stored' \in [Field -> Row \cup {NoRow}]
    BY <2>2, <2>3 DEF TypeInv, TypeOK
  <2>5. /\ contradictions' \in [Field -> SUBSET [session : Session, week : Week]]
        /\ spoken' \in [Field -> Value \cup {None}]
    BY <2>2 DEF TypeInv, TypeOK
  <2>6. request' \in Requests /\ \A d \in Connection : Carries(d)'
    BY <1>5, GoingCarries DEF Retire, At, AnswerStep, Step
  <2> QED
    BY <1>5, <2>4, <2>5, <2>6 DEF Retire, TypeInv, TypeOK, Requests
<1>6. ASSUME NEW s \in {"resolved", "dismissed"}, MarkAnswered(c, s)
      PROVE  TypeInv'
  <2>1. questions' \in Seq(Question) /\ DOMAIN questions' = DOMAIN questions
    BY <1>3, <1>6, Answered DEF MarkAnswered, At, AnswerStep
  <2>2. request' \in Requests /\ \A d \in Connection : Carries(d)'
    BY <1>6, <2>1, EndingCarries DEF MarkAnswered
  <2> QED
    BY <1>6, <2>1, <2>2 DEF MarkAnswered, TypeInv, TypeOK, profile, Requests
<1> QED
  BY <1>2, <1>4, <1>5, <1>6 DEF Review

LEMMA TypeStep ==
  ASSUME TypeInv, [Next]_vars
  PROVE  TypeInv'
<1> USE Typing
<1>1. CASE UNCHANGED vars
  BY <1>1 DEF vars, profile, TypeInv, TypeOK, Carries
<1>2. ASSUME NEW c \in Connection, Observer(c) \/ SessionStart(c) \/ Review(c)
      PROVE  TypeInv'
  BY <1>2, ObserverType, SessionStartType, ReviewType
<1>3. ASSUME NEW c \in Connection, RequestFails(c)
      PROVE  TypeInv'
  <2>1. request' \in Requests /\ \A d \in Connection : Carries(d)'
    BY <1>3, EndingCarries DEF RequestFails
  <2> QED
    BY <1>3, <2>1 DEF RequestFails, TypeInv, TypeOK, profile, Requests
<1>4. ASSUME NEW f \in Field, Delete(f)
      PROVE  TypeInv'
  <2>1. stored[f] \in Row
    BY <1>4 DEF Delete, TypeInv, TypeOK
  <2>2. [stored[f] EXCEPT !.active = FALSE] \in Row
    BY <2>1 DEF Row
  <2>3. stored' \in [Field -> Row \cup {NoRow}] /\ spoken' \in [Field -> Value \cup {None}]
    BY <1>4, <2>2 DEF Delete, TypeInv, TypeOK
  <2> QED
    BY <1>4, <2>3 DEF Delete, Races, TypeInv, TypeOK, Carries
<1>5. ASSUME NEW f \in Field, NEW v \in Value, Correct(f, v)
      PROVE  TypeInv'
  BY <1>5, UserWritesType DEF Correct, Races, TypeInv, TypeOK, Carries
<1>6. CASE WeekPasses
  BY <1>6 DEF WeekPasses, TypeInv, TypeOK, profile, Carries
<1> QED
  BY <1>1, <1>2, <1>3, <1>4, <1>5, <1>6 DEF Next

LEMMA TypeInit == Init => TypeInv
<1> SUFFICES ASSUME Init PROVE TypeInv
  OBVIOUS
<1>1. stored \in [Field -> Row \cup {NoRow}]
  <2>1. \A v \in Value :
          [value |-> v, label |-> "explicit", evidence |-> 1, active |-> TRUE] \in Row
    BY DEF Row, Label
  <2> QED
    BY <2>1 DEF Init
<1>2. spoken \in [Field -> Value \cup {None}]
  BY <1>1 DEF Init, Row, NoRow
<1>3. request \in [Connection -> Request] /\ \A c \in Connection : Carries(c)
  BY NoRequestType DEF Init, Carries, CandidateStep, AnswerStep
<1>4. contradictions \in [Field -> SUBSET [session : Session, week : Week]]
  BY DEF Init
<1>5. observations \in [Field -> [Value -> [Session -> 0 .. 2]]]
  BY DEF Init
<1>6. questions \in Seq(Question) /\ session \in Session /\ stated \subseteq Field \X Value
  BY GovernanceBoundsAssumption DEF Init, Session
<1> QED
  BY <1>1, <1>2, <1>3, <1>4, <1>5, <1>6 DEF Init, TypeInv, TypeOK

\* The state has its types, in every instance and with any number of requests.
THEOREM TypeCorrect == Spec => []TypeOK
<1>1. TypeInv => TypeOK
  BY DEF TypeInv
<1> QED
  BY <1>1, TypeInit, TypeStep, PTL DEF Spec

LEMMA TypesHold == Spec => []TypeInv
BY TypeInit, TypeStep, PTL DEF Spec

-----------------------------------------------------------------------------
(***************************************************************************)
(* Repetition.  A candidate that carries evidence of two or more has it    *)
(* from the log or from the stored row, and either way the value was seen  *)
(* in two sessions or was stated; nothing below two is written as an       *)
(* inference.  Overlapping requests do not matter: both histories only     *)
(* grow.                                                                   *)
(***************************************************************************)
Supported(f, v) == Repeated(f, v) \/ <<f, v>> \in stated

Earned(c) ==
  /\ At(c, "reinforce") => request[c].evidence = 1
  /\ request[c].label = "inferred" =>
       /\ At(c, "validate") /\ request[c].evidence >= 2 =>
            Supported(request[c].field, request[c].value)
       /\ At(c, "write") => Supported(request[c].field, request[c].value)

RepetitionInv ==
  /\ TypeInv
  /\ \A f \in Field : stored[f] # NoRow => Supported(f, stored[f].value)
  /\ \A c \in Connection : Earned(c)

\* Counting two sessions finds two.
LEMMA TwoSessions ==
  ASSUME NEW f \in Field, NEW v \in Value, SessionsOf(f, v) >= 2
  PROVE  Repeated(f, v)
<1> DEFINE seen == {s \in Session : observations[f][v][s] > 0}
<1> SUFFICES ASSUME ~Repeated(f, v)
             PROVE  FALSE
  OBVIOUS
<1>1. Cardinality(seen) >= 2
  BY DEF SessionsOf
<1>2. \A s, t \in seen : s = t
  BY DEF Repeated
<1>3. CASE seen = {}
  BY <1>1, <1>3, FS_EmptySet
<1>4. CASE seen # {}
  <2>1. PICK s \in seen : TRUE
    BY <1>4
  <2>2. seen = {s}
    BY <1>2, <2>1
  <2>3. Cardinality({s}) = 1
    BY FS_Singleton
  <2> QED
    BY <1>1, <2>2, <2>3
<1> QED
  BY <1>3, <1>4

\* Support is never lost.
LEMMA SupportStays ==
  ASSUME TypeInv, [Next]_vars, NEW f \in Field, NEW v \in Value, Supported(f, v)
  PROVE  Supported(f, v)'
<1>1. stated \subseteq stated'
  BY DEF Next, vars, profile, Observer, Observe, Reinforce, Validate, WriteApproved,
     LookForDuplicate, QueueCandidate, Discard, LogContradiction, SessionStart, BeginSession,
     ReadNumber, SelectFields, QueueVerification, Review, ResolvePending, DismissPending,
     Answers, Apply, Retire, MarkAnswered, UserWrites, RequestFails, Delete, Correct, WeekPasses
<1>2. \/ observations' = observations
      \/ \E c \in Connection, g \in Field, w \in Value, label \in {"explicit", "inferred"} :
           Observe(c, g, w, label)
  BY DEF Next, vars, profile, Observer, Reinforce, Validate, WriteApproved,
     LookForDuplicate, QueueCandidate, Discard, LogContradiction, SessionStart, BeginSession,
     ReadNumber, SelectFields, QueueVerification, Review, ResolvePending, DismissPending,
     Answers, Apply, Retire, MarkAnswered, UserWrites, RequestFails, Delete, Correct, WeekPasses
<1>3. Repeated(f, v) => Repeated(f, v)'
  <2>1. ASSUME NEW c \in Connection, NEW g \in Field, NEW w \in Value,
               NEW label \in {"explicit", "inferred"}, Observe(c, g, w, label), NEW s \in Session,
               observations[f][v][s] > 0
        PROVE  observations'[f][v][s] > 0
    <3>1. CASE UNCHANGED observations
      BY <2>1, <3>1
    <3>2. CASE observations' = [observations EXCEPT ![g][w][session] = IF @ = 0 THEN 1 ELSE 2]
      BY <2>1, <3>2 DEF TypeInv, TypeOK
    <3> QED
      BY <2>1, <3>1, <3>2 DEF Observe
  <2> QED
    BY <1>2, <2>1 DEF Repeated
<1> QED
  BY <1>1, <1>3 DEF Supported

\* A request that is left alone has earned what it had.
LEMMA EarnedStays ==
  ASSUME TypeInv, [Next]_vars, NEW c \in Connection, Earned(c), request'[c] = request[c]
  PROVE  Earned(c)'
<1>1. At(c, "validate") \/ At(c, "write") =>
        request[c].field \in Field /\ request[c].value \in Value
  BY DEF TypeInv, Carries, At, CandidateStep
<1> QED
  BY <1>1, SupportStays DEF Earned, At

\* A request that goes to a step outside reinforcement and validation owes nothing.
LEMMA NothingOwed ==
  ASSUME NEW c \in Connection, request'[c].step \notin {"reinforce", "validate", "write"}
  PROVE  Earned(c)'
BY DEF Earned, At

LEMMA SupportedStep ==
  ASSUME RepetitionInv, [Next]_vars
  PROVE  (\A f \in Field : stored[f] # NoRow => Supported(f, stored[f].value))'
<1> SUFFICES ASSUME NEW f \in Field, stored'[f] # NoRow, NEW w, w = stored'[f].value
             PROVE  Supported(f, w)'
  BY DEF Supported, Repeated
<1>0. TypeInv
  BY DEF RepetitionInv
<1> DEFINE Keeps == stored[f] # NoRow /\ w = stored[f].value
           Says == <<f, w>> \in stated'
<1>1. ASSUME Keeps
      PROVE  Supported(f, w)'
  <2>1. Supported(f, w)
    BY <1>1 DEF RepetitionInv
  <2>2. w \in Value
    <3>1. stored[f] \in Row
      BY <1>0, <1>1 DEF TypeInv, TypeOK
    <3> QED
      BY <1>1, <3>1 DEF Row
  <2> QED
    BY <1>0, <2>1, <2>2, SupportStays
<1>2. Says => Supported(f, w)'
  BY DEF Supported
<1>3. ASSUME NEW g \in Field, NEW v \in Value, UserWrites(g, v)
      PROVE  Keeps \/ Says
  <2>1. CASE g = f
    BY <1>0, <1>3, <2>1 DEF UserWrites, TypeInv, TypeOK
  <2>2. CASE g # f
    BY <1>0, <1>3, <2>2 DEF UserWrites, TypeInv, TypeOK
  <2> QED
    BY <2>1, <2>2
<1>4. ASSUME NEW c \in Connection, WriteApproved(c)
      PROVE  Supported(f, w)'
  <2> DEFINE r == request[c]
  <2>1. /\ r.field \in Field /\ r.value \in Value /\ r.label \in {"explicit", "inferred"}
        /\ At(c, "write") /\ Earned(c)
    BY <1>0, <1>4 DEF WriteApproved, TypeInv, Carries, At, CandidateStep, RepetitionInv
  <2>2. CASE r.field # f
    <3>1. stored'[f] = stored[f]
      BY <1>0, <1>4, <2>2 DEF WriteApproved, TypeInv, TypeOK
    <3> QED
      BY <1>1, <3>1
  <2>3. CASE r.field = f
    <3>1. w = r.value
      BY <1>0, <1>4, <2>3 DEF WriteApproved, TypeInv, TypeOK
    <3>2. CASE r.label = "inferred"
      <4>1. Supported(f, w)
        BY <2>1, <2>3, <3>1, <3>2 DEF Earned
      <4> QED
        BY <1>0, <2>1, <3>1, <4>1, SupportStays
    <3>3. CASE r.label = "explicit"
      BY <1>2, <1>4, <2>3, <3>1, <3>3 DEF WriteApproved, Stated
    <3> QED
      BY <2>1, <3>2, <3>3
  <2> QED
    BY <2>2, <2>3
<1>5. ASSUME NEW g \in Field, stored' = [stored EXCEPT ![g].active = FALSE],
             stored[g] # NoRow
      PROVE  Keeps
  <2>1. stored[g] \in Row
    BY <1>0, <1>5 DEF TypeInv, TypeOK
  <2>2. [stored[g] EXCEPT !.active = FALSE].value = stored[g].value
    BY <2>1 DEF Row
  <2> QED
    BY <1>0, <1>5, <2>2 DEF TypeInv, TypeOK
<1>6. ASSUME stored' = stored
      PROVE  Keeps
  BY <1>6
<1>7. ASSUME NEW c \in Connection, Apply(c)
      PROVE  Keeps \/ Says
  <2>1. request[c].question \in DOMAIN questions
    BY <1>0, <1>7 DEF Apply, At, TypeInv, Carries, AnswerStep
  <2>2. questions[request[c].question] \in Question
    BY <1>0, <2>1, Typing
  <2> QED
    BY <1>3, <1>7, <2>2 DEF Apply, Question
<1>8. ASSUME NEW c \in Connection, Retire(c)
      PROVE  Keeps
  <2>1. request[c].question \in DOMAIN questions
    BY <1>0, <1>8 DEF Retire, At, TypeInv, Carries, AnswerStep
  <2>2. questions[request[c].question] \in Question
    BY <1>0, <2>1, Typing
  <2>3. questions[request[c].question].field \in Field
    BY <2>2 DEF Question
  <2>4. PICK g \in Field :
          IF stored[g].active THEN stored' = [stored EXCEPT ![g].active = FALSE]
                              ELSE stored' = stored
    BY <1>8, <2>3 DEF Retire
  <2>5. stored[g].active => stored[g] # NoRow
    BY DEF NoRow
  <2> QED
    BY <1>5, <1>6, <2>4, <2>5
<1> QED
  BY <1>1, <1>2, <1>3, <1>4, <1>5, <1>6, <1>7, <1>8
  DEF Next, vars, profile, Observer, Observe, Reinforce, Validate, LookForDuplicate,
      QueueCandidate, Discard, LogContradiction, SessionStart, BeginSession, ReadNumber,
      SelectFields, QueueVerification, Review, ResolvePending, DismissPending, Answers,
      MarkAnswered, RequestFails, Delete, Correct, WeekPasses

LEMMA EarnedStep ==
  ASSUME RepetitionInv, [Next]_vars
  PROVE  \A c \in Connection : Earned(c)'
<1>0. TypeInv /\ \A c \in Connection : Earned(c)
  BY DEF RepetitionInv
<1>1. ASSUME NEW c \in Connection, Others(c), Earned(c)'
      PROVE  \A d \in Connection : Earned(d)'
  BY <1>0, <1>1, EarnedStays DEF Others
<1>2. CASE request' = request
  BY <1>0, <1>2, EarnedStays
<1>3. ASSUME NEW c \in Connection, NEW s \in Step \ {"reinforce", "validate", "write"}, Go(c, s)
      PROVE  \A d \in Connection : Earned(d)'
  <2>1. /\ Others(c) /\ request[c] \in Request
        /\ request'[c] = [request[c] EXCEPT !.step = s]
    BY <1>0, <1>3, Typing, Going
  <2>2. request'[c].step = s
    BY <2>1 DEF Request
  <2> QED
    BY <1>1, <2>1, <2>2, NothingOwed
<1>4. ASSUME NEW c \in Connection, Ends(c)
      PROVE  \A d \in Connection : Earned(d)'
  BY <1>0, <1>1, <1>4, Typing, Ending, NoRequestType, NothingOwed
<1>5. ASSUME NEW c \in Connection, Observer(c)
      PROVE  \A d \in Connection : Earned(d)'
  <2>1. ASSUME NEW f \in Field, NEW v \in Value, NEW label \in {"explicit", "inferred"},
               Observe(c, f, v, label)
        PROVE  \A d \in Connection : Earned(d)'
    BY <1>0, <1>1, <2>1, ObservedRequest DEF Earned, At
  <2>2. CASE Reinforce(c)
    <3>0. PICK f, v, e : f = request[c].field /\ v = request[c].value
                         /\ e = Reinforced(request[c])
      OBVIOUS
    <3>1. /\ At(c, "reinforce") /\ f \in Field /\ v \in Value
          /\ request[c].evidence = 1
      BY <1>0, <2>2, <3>0 DEF Reinforce, TypeInv, Carries, At, CandidateStep, Earned
    <3>2. e \in Nat /\ (AtMostFive(e) >= 2 => e >= 2)
      BY <1>0, <3>0, <3>1, ReinforcedCases, AtMost
    <3>3. ASSUME e >= 2
          PROVE  Supported(f, v)
      <4>1. CASE stored[f] = NoRow
        <5>1. e = Larger(1, SessionsOf(f, v))
          BY <1>0, <3>0, <3>1, <4>1, ReinforcedCases
        <5>2. PICK n \in Nat : n = SessionsOf(f, v)
          BY <3>1, Counting
        <5>a. Larger(1, n) \in {1, n}
          BY Larger1
        <5>3. SessionsOf(f, v) >= 2
          BY <3>3, <5>1, <5>2, <5>a
        <5> QED
          BY <3>1, <5>3, TwoSessions DEF Supported
      <4>2. CASE stored[f] # NoRow /\ stored[f].value = v
        BY <3>1, <4>2 DEF RepetitionInv
      <4>3. CASE stored[f] # NoRow /\ stored[f].value # v
        <5>1. e = 1
          BY <1>0, <3>0, <3>1, <4>3, ReinforcedCases
        <5> QED
          BY <3>3, <5>1
      <4> QED
        BY <4>1, <4>2, <4>3
    <3>4. Supported(f, v) => Supported(f, v)'
      BY <1>0, <3>1, SupportStays
    <3>5. /\ Others(c) /\ request'[c].step = "validate"
          /\ request'[c].field = f /\ request'[c].value = v
          /\ request'[c].evidence = AtMostFive(e)
      BY <1>0, <2>2, <3>0, ReinforcedRequest
    <3>6. Earned(c)'
      BY <3>2, <3>3, <3>4, <3>5 DEF Earned, At, Supported, Repeated
    <3> QED
      BY <1>1, <3>5, <3>6
  <2>3. CASE Validate(c)
    <3>1. CASE Go(c, "write") /\ Enough(request[c])
      <4>1. /\ Others(c) /\ request[c] \in Request
            /\ request'[c] = [request[c] EXCEPT !.step = "write"]
        BY <1>0, <3>1, Typing, Going DEF Step, CandidateStep
      <4>2. /\ request'[c].step = "write" /\ request'[c].label = request[c].label
            /\ request'[c].field = request[c].field /\ request'[c].value = request[c].value
        BY <4>1 DEF Request
      <4>3. /\ At(c, "validate") /\ Earned(c) /\ request[c].evidence \in 1 .. 5
            /\ request[c].field \in Field /\ request[c].value \in Value
        BY <1>0, <2>3 DEF Validate, TypeInv, Carries, At, CandidateStep
      <4>4. request[c].label = "inferred" => request[c].evidence >= 2
        BY <3>1, <4>3 DEF Enough, Stated
      <4>5. PICK f \in Field, v \in Value : f = request[c].field /\ v = request[c].value
        BY <4>3
      <4>6. request[c].label = "inferred" => Supported(f, v)'
        BY <1>0, <4>3, <4>4, <4>5, SupportStays DEF Earned
      <4>7. Earned(c)'
        BY <4>2, <4>5, <4>6 DEF Earned, At, Supported, Repeated
      <4> QED
        BY <1>1, <4>1, <4>7
    <3>2. CASE Go(c, "look") \/ Go(c, "discard")
      BY <1>3, <3>2 DEF Step, CandidateStep
    <3> QED
      BY <2>3, <3>1, <3>2 DEF Validate
  <2> QED
    BY <1>3, <1>4, <1>5, <2>1, <2>2, <2>3
    DEF Observer, WriteApproved, LookForDuplicate, QueueCandidate, Discard, LogContradiction,
        Step, CandidateStep
<1>6. ASSUME NEW c \in Connection, SessionStart(c)
      PROVE  \A d \in Connection : Earned(d)'
  <2>1. CASE BeginSession(c)
    <3>1. [NoRequest EXCEPT !.step = "number"] \in Request
      BY NoRequestType DEF Request
    <3>2. Others(c) /\ request'[c] = [NoRequest EXCEPT !.step = "number"]
      BY <1>0, <2>1, <3>1, Typing, Beginning DEF BeginSession
    <3>3. request'[c].step = "number"
      BY <3>2, NoRequestType DEF Request
    <3> QED
      BY <1>1, <3>2, <3>3, NothingOwed
  <2>2. CASE ReadNumber(c)
    BY <1>3, <1>4, <2>2 DEF ReadNumber, Step, RoundStep
  <2>3. CASE SelectFields(c)
    <3>1. Ends(c) \/ (Others(c) /\ request'[c].step = "verify")
      BY <1>0, <2>3, SampledRequest DEF SelectFields
    <3> QED
      BY <1>1, <1>4, <3>1, NothingOwed
  <2>4. CASE QueueVerification(c)
    <3>1. Ends(c) \/ (Others(c) /\ request'[c].step = "verify")
      BY <1>0, <2>4, VerifiedRequest DEF QueueVerification
    <3> QED
      BY <1>1, <1>4, <3>1, NothingOwed
  <2> QED
    BY <1>6, <2>1, <2>2, <2>3, <2>4 DEF SessionStart
<1>7. ASSUME NEW c \in Connection, Review(c)
      PROVE  \A d \in Connection : Earned(d)'
  <2>1. ASSUME NEW i \in DOMAIN questions, NEW s \in AnswerStep, Answers(c, i, s)
        PROVE  \A d \in Connection : Earned(d)'
    <3>1. Others(c) /\ request'[c] = [NoRequest EXCEPT !.step = s, !.question = i]
      BY <1>0, <2>1, AnswersType
    <3>2. request'[c].step = s
      BY <3>1, NoRequestType DEF Request
    <3> QED
      BY <1>1, <3>1, <3>2, NothingOwed DEF AnswerStep
  <2> QED
    BY <1>3, <1>4, <1>7, <2>1
    DEF Review, ResolvePending, DismissPending, Apply, Retire, MarkAnswered, Step, AnswerStep
<1> QED
  BY <1>2, <1>4, <1>5, <1>6, <1>7
  DEF Next, vars, RequestFails, Delete, Correct, WeekPasses

LEMMA RepetitionInit == Init => RepetitionInv
<1> SUFFICES ASSUME Init PROVE RepetitionInv
  OBVIOUS
<1>1. ASSUME NEW f \in Field, stored[f] # NoRow
      PROVE  Supported(f, stored[f].value)
  <2>1. stored[f].value \in Value
    <3>1. stored[f] \in Row
      BY <1>1, TypeInit DEF TypeInv, TypeOK
    <3> QED
      BY <3>1 DEF Row
  <2> QED
    BY <2>1 DEF Init, Supported
<1>2. \A c \in Connection : Earned(c)
  BY NoRequestType DEF Init, Earned, At
<1> QED
  BY <1>1, <1>2, TypeInit DEF RepetitionInv

LEMMA RepetitionStep == RepetitionInv /\ [Next]_vars => RepetitionInv'
<1> SUFFICES ASSUME RepetitionInv, [Next]_vars PROVE RepetitionInv'
  OBVIOUS
<1> QED
  BY TypeStep, SupportedStep, EarnedStep DEF RepetitionInv

\* No pass, repeated pass or overlap of passes writes an inference that only
\* one session supports: what stands as an inference was seen in two sessions
\* or was once stated.
THEOREM InferencesRepeated == Spec => []InferenceIsRepeated
<1>1. RepetitionInv => InferenceIsRepeated
  BY DEF RepetitionInv, InferenceIsRepeated, Supported, NoRow
<1> QED
  BY <1>1, RepetitionInit, RepetitionStep, PTL DEF Spec

-----------------------------------------------------------------------------
(***************************************************************************)
(* Requests that do not overlap.  While none has, at most one is under     *)
(* way, and what it read is still so when it writes.                       *)
(***************************************************************************)
Alone == \A c, d \in Connection : ~At(c, "idle") /\ ~At(d, "idle") => c = d

\* Only c takes a step.
Quiet(c) == \A d \in Connection : d # c => request'[d] = request[d] /\ At(d, "idle")

StepOf(c) == Observer(c) \/ SessionStart(c) \/ Review(c) \/ RequestFails(c)

LEMMA OthersStay ==
  ASSUME TypeInv, NEW c \in Connection, StepOf(c)
  PROVE  Others(c)
<1> USE Typing
<1>1. ASSUME NEW s \in Step, Go(c, s)
      PROVE  Others(c)
  BY <1>1, Going
<1>2. ASSUME Ends(c)
      PROVE  Others(c)
  BY <1>2, Ending
<1>3. CASE Observer(c)
  <2>1. ASSUME NEW f \in Field, NEW v \in Value, NEW label \in {"explicit", "inferred"},
               Observe(c, f, v, label)
        PROVE  Others(c)
    BY <2>1, ObservedRequest
  <2>2. CASE Reinforce(c)
    BY <2>2, ReinforcedRequest
  <2> QED
    BY <1>1, <1>2, <1>3, <2>1, <2>2
    DEF Observer, Validate, WriteApproved, LookForDuplicate, QueueCandidate, Discard,
        LogContradiction, Step, CandidateStep
<1>4. CASE SessionStart(c)
  <2>1. CASE BeginSession(c)
    BY <2>1, NoRequestType DEF BeginSession, Begins, Requests, Others
  <2>2. CASE SelectFields(c)
    BY <1>2, <2>2, SampledRequest DEF SelectFields
  <2>3. CASE QueueVerification(c)
    BY <1>2, <2>3, VerifiedRequest DEF QueueVerification
  <2> QED
    BY <1>1, <1>2, <1>4, <2>1, <2>2, <2>3 DEF SessionStart, ReadNumber, Step, RoundStep
<1>5. CASE Review(c)
  <2>1. ASSUME NEW i \in DOMAIN questions, NEW s \in AnswerStep, Answers(c, i, s)
        PROVE  Others(c)
    BY <2>1, AnswersType
  <2> QED
    BY <1>1, <1>2, <1>5, <2>1
    DEF Review, ResolvePending, DismissPending, Apply, Retire, MarkAnswered, Step, AnswerStep
<1> QED
  BY <1>2, <1>3, <1>4, <1>5 DEF StepOf, RequestFails

LEMMA Quieted ==
  ASSUME TypeInv, ~raced => Alone, ~raced', NEW c \in Connection, StepOf(c)
  PROVE  ~raced /\ Quiet(c) /\ Alone'
<1>1. Others(c)
  BY OthersStay
<1>2. \/ ~At(c, "idle") /\ raced' = raced
      \/ raced' = (raced \/ \E d \in Connection : ~At(d, "idle"))
  BY DEF StepOf, Observer, Observe, Reinforce, Validate, WriteApproved, LookForDuplicate,
     QueueCandidate, Discard, LogContradiction, SessionStart, BeginSession, ReadNumber,
     SelectFields, QueueVerification, Review, ResolvePending, DismissPending, Answers, Begins,
     Apply, Retire, MarkAnswered, RequestFails, At
<1>3. ~raced /\ \A d \in Connection : d # c => At(d, "idle")
  <2>1. CASE ~At(c, "idle") /\ raced' = raced
    BY <2>1 DEF Alone
  <2>2. CASE raced' = (raced \/ \E d \in Connection : ~At(d, "idle"))
    BY <2>2
  <2> QED
    BY <1>2, <2>1, <2>2
<1>4. Alone'
  BY <1>1, <1>3 DEF Alone, At, Others
<1> QED
  BY <1>1, <1>3, <1>4 DEF Quiet, Others

\* The other steps change no request; the user's are alone, or make a race.
LEMMA Undisturbed ==
  ASSUME ~raced => Alone, ~raced', [Next]_vars, ~ \E c \in Connection : StepOf(c)
  PROVE  /\ ~raced /\ Alone' /\ request' = request /\ questions' = questions
         /\ \/ UNCHANGED vars
            \/ WeekPasses
            \/ /\ \A c \in Connection : At(c, "idle")
               /\ \E f \in Field : Delete(f) \/ \E v \in Value : Correct(f, v)
<1>1. \/ UNCHANGED vars \/ WeekPasses
      \/ \E f \in Field : Delete(f) \/ \E v \in Value : Correct(f, v)
  BY DEF Next, StepOf
<1>2. request' = request /\ questions' = questions
  BY <1>1 DEF vars, WeekPasses, Delete, Correct
<1>3. \/ raced' = raced
      \/ raced' = (raced \/ \E c \in Connection : ~At(c, "idle"))
  BY <1>1 DEF vars, WeekPasses, Delete, Correct, Races
<1>4. ~raced /\ Alone'
  <2>1. ~raced
    BY <1>3
  <2> QED
    BY <1>2, <2>1 DEF Alone, At
<1>5. (\E f \in Field : Delete(f) \/ \E v \in Value : Correct(f, v)) =>
        \A c \in Connection : At(c, "idle")
  BY DEF Delete, Correct, Races
<1> QED
  BY <1>1, <1>2, <1>4, <1>5

-----------------------------------------------------------------------------
(***************************************************************************)
(* The user's word.  A value the user gave has all the evidence there is,  *)
(* so a differing candidate, which never has more than its own one         *)
(* observation, would need the first two weeks and a weak row to be        *)
(* written; a row that a candidate of the same value made weaker again was *)
(* made so after those weeks.                                              *)
(***************************************************************************)
Kept(f) ==
  spoken[f] # None =>
    /\ stored[f].active /\ stored[f].value = spoken[f]
    /\ f \in Gated \/ (stored[f].evidence = 5 /\ (stored[f].label # "inferred" \/ week > 2))

\* What a candidate has to be while a value the user gave stands.
Careful(c) ==
  LET r == request[c] IN
    /\ At(c, "validate") /\ spoken[r.field] # None /\ r.field \notin Gated =>
         r.evidence = IF r.value = spoken[r.field] THEN 5 ELSE 1
    /\ At(c, "write") =>
         /\ r.field \notin Gated
         /\ spoken[r.field] # None =>
              r.value = spoken[r.field] /\ r.evidence = 5 /\ (r.label # "inferred" \/ week > 2)

WordInv ==
  /\ RepetitionInv
  /\ ~raced => /\ Alone
               /\ \A f \in Field : Kept(f)
               /\ \A c \in Connection : Careful(c)

LEMMA CarefulIdle ==
  ASSUME NEW c \in Connection, request'[c].step \notin {"validate", "write"}
  PROVE  Careful(c)'
BY DEF Careful, At

\* All requests keep careful if the one that takes the step does.
LEMMA CarefulOthers ==
  ASSUME NEW c \in Connection, Quiet(c), Careful(c)'
  PROVE  \A d \in Connection : Careful(d)'
BY CarefulIdle DEF Quiet, At

LEMMA KeptStays ==
  ASSUME stored' = stored, spoken' = spoken, week' = week, \A f \in Field : Kept(f)
  PROVE  \A f \in Field : Kept(f)'
BY DEF Kept

LEMMA KeptGiven ==
  ASSUME TypeInv, NEW f \in Field, NEW v \in Value, UserWrites(f, v), week' = week,
         \A g \in Field : Kept(g)
  PROVE  \A g \in Field : Kept(g)'
<1>1. stored'[f] = [value |-> v, label |-> "attested", evidence |-> 5, active |-> TRUE]
  BY DEF UserWrites, TypeInv, TypeOK
<1>2. spoken'[f] = v
  BY DEF UserWrites, TypeInv, TypeOK
<1>3. \A g \in Field : g # f => stored'[g] = stored[g] /\ spoken'[g] = spoken[g]
  BY DEF UserWrites, TypeInv, TypeOK
<1> QED
  BY <1>1, <1>2, <1>3 DEF Kept

LEMMA KeptTaken ==
  ASSUME TypeInv, NEW f \in Field, stored' = [stored EXCEPT ![f].active = FALSE],
         spoken' = [spoken EXCEPT ![f] = None], week' = week, \A g \in Field : Kept(g)
  PROVE  \A g \in Field : Kept(g)'
<1>1. spoken'[f] = None
  BY DEF TypeInv, TypeOK
<1>2. \A g \in Field : g # f => stored'[g] = stored[g] /\ spoken'[g] = spoken[g]
  BY DEF TypeInv, TypeOK
<1> QED
  BY <1>1, <1>2 DEF Kept

\* Reinforcement gives a candidate the evidence of the value that stands, or none.
LEMMA ReinforceCareful ==
  ASSUME WordInv, ~raced, NEW c \in Connection, Reinforce(c)
  PROVE  Careful(c)'
<1>0. TypeInv /\ Earned(c) /\ \A f \in Field : Kept(f)
  BY DEF WordInv, RepetitionInv
<1>1. PICK f, v, e : f = request[c].field /\ v = request[c].value /\ e = Reinforced(request[c])
  OBVIOUS
<1>2. /\ At(c, "reinforce") /\ f \in Field /\ v \in Value /\ request[c].evidence = 1
  BY <1>0, <1>1 DEF Reinforce, TypeInv, Carries, At, CandidateStep, Earned
<1>3. /\ request'[c].step = "validate" /\ request'[c].field = f /\ request'[c].value = v
      /\ request'[c].evidence = AtMostFive(e)
  BY <1>0, <1>1, ReinforcedRequest
<1>4. ASSUME spoken[f] # None, f \notin Gated
      PROVE  AtMostFive(e) = IF v = spoken[f] THEN 5 ELSE 1
  <2>1. /\ stored[f].active /\ stored[f].value = spoken[f] /\ stored[f].evidence = 5
    BY <1>0, <1>2, <1>4 DEF Kept
  <2>2. stored[f] # NoRow
    BY <2>1 DEF NoRow
  <2>3. /\ e \in Nat
        /\ v = spoken[f] => e >= 5
        /\ v # spoken[f] => e = 1
    BY <1>0, <1>1, <1>2, <2>1, <2>2, ReinforcedCases
  <2>4. AtMostFive(1) = 1
    BY DEF AtMostFive
  <2> QED
    BY <2>3, <2>4, AtMost
<1>5. spoken' = spoken
  BY DEF Reinforce
<1> QED
  BY <1>3, <1>4, <1>5 DEF Careful, At

\* Validation lets no other value past the user's.
LEMMA ValidateCareful ==
  ASSUME WordInv, ~raced, NEW c \in Connection, Validate(c)
  PROVE  Careful(c)'
<1>0. TypeInv /\ Careful(c) /\ \A f \in Field : Kept(f)
  BY DEF WordInv, RepetitionInv
<1> DEFINE r == request[c]
<1>1. /\ At(c, "validate") /\ r.field \in Field /\ r.value \in Value
      /\ r.label \in {"explicit", "inferred"}
  BY <1>0 DEF Validate, TypeInv, Carries, At, CandidateStep
<1>2. CASE Go(c, "look") \/ Go(c, "discard")
  <2>1. PICK s \in {"look", "discard"} : Go(c, s)
    BY <1>2
  <2>2. r \in Request /\ request'[c] = [r EXCEPT !.step = s]
    BY <1>0, <2>1, Typing, Going DEF Step, CandidateStep
  <2>3. request'[c].step = s
    BY <2>2 DEF Request
  <2> QED
    BY <2>3, CarefulIdle
<1>3. CASE Go(c, "write") /\ Enough(r) /\ ~(r.field \in Gated \/ Conflicts(r))
  <2>1. r \in Request /\ request'[c] = [r EXCEPT !.step = "write"]
    BY <1>0, <1>3, Typing, Going DEF Step, CandidateStep
  <2>2. /\ request'[c].step = "write" /\ request'[c].field = r.field
        /\ request'[c].value = r.value /\ request'[c].label = r.label
        /\ request'[c].evidence = r.evidence
    BY <2>1 DEF Request
  <2>3. ASSUME spoken[r.field] # None
        PROVE  r.value = spoken[r.field] /\ r.evidence = 5 /\ (r.label # "inferred" \/ week > 2)
    <3>1. /\ stored[r.field].active /\ stored[r.field].value = spoken[r.field]
          /\ stored[r.field].evidence = 5
          /\ stored[r.field].label # "inferred" \/ week > 2
      BY <1>0, <1>1, <1>3, <2>3 DEF Kept
    <3>2. r.evidence = IF r.value = spoken[r.field] THEN 5 ELSE 1
      BY <1>0, <1>1, <1>3, <2>3 DEF Careful
    <3>3. week \in Nat
      BY <1>0, GovernanceBoundsAssumption DEF TypeInv, TypeOK
    <3>4. CASE r.value = spoken[r.field]
      <4>1. r.label # "inferred" \/ week > 2
        BY <1>3, <3>3 DEF Enough, Stated
      <4> QED
        BY <3>2, <3>4, <4>1
    <3>5. CASE r.value # spoken[r.field]
      <4>1. r.evidence = 1
        BY <3>2, <3>5
      <4>2. ~(week > 2)
        BY <1>3, <3>3, <4>1 DEF Enough
      <4>3. Confidence(stored[r.field].label, 5) > 70
        BY <3>1, <4>2 DEF Confidence
      <4>4. Conflicts(r)
        BY <3>1, <3>5, <4>3 DEF Conflicts, NoRow
      <4> QED
        BY <1>3, <4>4
    <3> QED
      BY <3>4, <3>5
  <2>4. spoken' = spoken /\ week' = week
    BY DEF Validate
  <2> QED
    BY <1>3, <2>2, <2>3, <2>4 DEF Careful, At
<1> QED
  BY <1>2, <1>3 DEF Validate

LEMMA WordStep ==
  ASSUME WordInv, [Next]_vars, ~raced'
  PROVE  Alone' /\ (\A f \in Field : Kept(f)') /\ \A c \in Connection : Careful(c)'
<1>0. TypeInv /\ (~raced => Alone)
  BY DEF WordInv, RepetitionInv
<1>1. ASSUME NEW c \in Connection, StepOf(c)
      PROVE  Alone' /\ (\A f \in Field : Kept(f)') /\ \A d \in Connection : Careful(d)'
  <2>0. ~raced /\ Quiet(c) /\ Alone'
    BY <1>0, <1>1, Quieted
  <2>1. (\A f \in Field : Kept(f)) /\ Careful(c)
    BY <2>0 DEF WordInv
  <2>2. ASSUME Careful(c)', UNCHANGED <<stored, spoken, week>>
        PROVE  (\A f \in Field : Kept(f)') /\ \A d \in Connection : Careful(d)'
    BY <2>0, <2>1, <2>2, KeptStays, CarefulOthers
  <2>3. ASSUME NEW s \in Step \ {"validate", "write"}, Go(c, s)
        PROVE  Careful(c)'
    <3>1. request[c] \in Request /\ request'[c] = [request[c] EXCEPT !.step = s]
      BY <1>0, <2>3, Typing, Going
    <3>2. request'[c].step = s
      BY <3>1 DEF Request
    <3> QED
      BY <3>2, CarefulIdle
  <2>4. ASSUME Ends(c)
        PROVE  Careful(c)'
    BY <1>0, <2>4, Typing, Ending, NoRequestType, CarefulIdle
  <2>5. CASE Observer(c)
    <3>1. ASSUME NEW f \in Field, NEW v \in Value, NEW label \in {"explicit", "inferred"},
                 Observe(c, f, v, label)
          PROVE  Careful(c)'
      BY <1>0, <3>1, ObservedRequest, CarefulIdle
    <3>2. CASE WriteApproved(c)
      <4> DEFINE r == request[c]
      <4>0. PICK g \in Field : g = r.field
        BY <1>0, <3>2 DEF WriteApproved, At, TypeInv, Carries, CandidateStep
      <4>1. /\ g \notin Gated
            /\ spoken[g] # None =>
                 r.value = spoken[g] /\ r.evidence = 5 /\ (r.label # "inferred" \/ week > 2)
        BY <2>1, <3>2, <4>0 DEF WriteApproved, Careful, At
      <4>2. /\ stored'[g] = [value |-> r.value, label |-> r.label,
                             evidence |-> r.evidence, active |-> TRUE]
            /\ \A f \in Field : f # g => stored'[f] = stored[f]
            /\ spoken' = spoken /\ week' = week
        BY <1>0, <3>2, <4>0 DEF WriteApproved, TypeInv, TypeOK
      <4>3. \A f \in Field : Kept(f)'
        BY <2>1, <4>1, <4>2 DEF Kept
      <4>4. Careful(c)'
        BY <2>4, <3>2 DEF WriteApproved
      <4>5. \A d \in Connection : Careful(d)'
        BY <2>0, <4>4, CarefulOthers
      <4> QED
        BY <2>0, <4>3, <4>5
    <3>3. CASE Reinforce(c)
      <4>1. Careful(c)'
        BY <1>0, <2>0, <3>3, ReinforceCareful
      <4>2. UNCHANGED <<stored, spoken, week>>
        BY <3>3 DEF Reinforce, profile
      <4> QED
        BY <2>0, <2>2, <4>1, <4>2
    <3>4. CASE Validate(c)
      <4>1. Careful(c)'
        BY <1>0, <2>0, <3>4, ValidateCareful
      <4>2. UNCHANGED <<stored, spoken, week>>
        BY <3>4 DEF Validate, profile
      <4> QED
        BY <2>0, <2>2, <4>1, <4>2
    <3>5. ASSUME LookForDuplicate(c) \/ QueueCandidate(c) \/ Discard(c) \/ LogContradiction(c)
          PROVE  Careful(c)' /\ UNCHANGED <<stored, spoken, week>>
      BY <2>3, <2>4, <3>5
      DEF LookForDuplicate, QueueCandidate, Discard, LogContradiction, Step, CandidateStep, profile
    <3>6. ASSUME NEW f \in Field, NEW v \in Value, NEW label \in {"explicit", "inferred"},
                 Observe(c, f, v, label)
          PROVE  UNCHANGED <<stored, spoken, week>>
      BY <3>6 DEF Observe
    <3> QED
      BY <2>0, <2>2, <2>5, <3>1, <3>2, <3>3, <3>4, <3>5, <3>6 DEF Observer
  <2>6. CASE SessionStart(c)
    <3>1. UNCHANGED <<stored, spoken, week>>
      BY <2>6 DEF SessionStart, BeginSession, ReadNumber, SelectFields, QueueVerification, profile
    <3>2. ASSUME BeginSession(c) PROVE Careful(c)'
      <4>1. [NoRequest EXCEPT !.step = "number"] \in Request
        BY NoRequestType DEF Request
      <4>2. request'[c] = [NoRequest EXCEPT !.step = "number"]
        BY <1>0, <3>2, <4>1, Typing, Beginning DEF BeginSession
      <4>3. request'[c].step = "number"
        BY <4>2, NoRequestType DEF Request
      <4> QED
        BY <4>3, CarefulIdle
    <3>3. ASSUME ReadNumber(c) PROVE Careful(c)'
      BY <2>3, <2>4, <3>3 DEF ReadNumber, Step, RoundStep
    <3>4. ASSUME SelectFields(c) PROVE Careful(c)'
      BY <1>0, <2>4, <3>4, SampledRequest, CarefulIdle DEF SelectFields
    <3>5. ASSUME QueueVerification(c) PROVE Careful(c)'
      BY <1>0, <2>4, <3>5, VerifiedRequest, CarefulIdle DEF QueueVerification
    <3>6. Careful(c)'
      BY <2>6, <3>2, <3>3, <3>4, <3>5 DEF SessionStart
    <3> QED
      BY <2>0, <2>2, <3>1, <3>6
  <2>7. CASE Review(c)
    <3>1. ASSUME NEW i \in DOMAIN questions, NEW s \in AnswerStep, Answers(c, i, s)
          PROVE  (\A f \in Field : Kept(f)') /\ \A d \in Connection : Careful(d)'
      <4>1. request'[c] = [NoRequest EXCEPT !.step = s, !.question = i]
        BY <1>0, <3>1, AnswersType
      <4>2. request'[c].step = s
        BY <4>1, NoRequestType DEF Request
      <4>3. Careful(c)'
        BY <4>2, CarefulIdle DEF AnswerStep
      <4> QED
        BY <2>2, <3>1, <4>3 DEF Answers, profile
    <3>2. ASSUME NEW i \in DOMAIN questions, ResolvePending(c, i) \/ DismissPending(c, i)
          PROVE  (\A f \in Field : Kept(f)') /\ \A d \in Connection : Careful(d)'
      BY <3>1, <3>2 DEF ResolvePending, DismissPending, AnswerStep
    <3>3. ASSUME request[c].step \in {"apply", "retire"}
          PROVE  /\ questions[request[c].question].field \in Field
                 /\ questions[request[c].question].value \in Value
      <4>1. request[c].question \in DOMAIN questions
        BY <1>0, <3>3 DEF TypeInv, Carries, AnswerStep
      <4>2. questions[request[c].question] \in Question
        BY <1>0, <4>1, Typing
      <4> QED
        BY <4>2 DEF Question
    <3>4. CASE Apply(c)
      <4>1. Careful(c)'
        BY <2>3, <3>4 DEF Apply, Step, AnswerStep
      <4>2. \A f \in Field : Kept(f)'
        BY <1>0, <2>1, <3>3, <3>4, KeptGiven DEF Apply, At
      <4> QED
        BY <2>0, <4>1, <4>2, CarefulOthers
    <3>5. CASE Retire(c)
      <4>1. Careful(c)'
        BY <2>3, <3>5 DEF Retire, Step, AnswerStep
      <4>2. \A f \in Field : Kept(f)'
        BY <1>0, <2>1, <3>3, <3>5, KeptTaken, KeptStays DEF Retire, At
      <4> QED
        BY <2>0, <4>1, <4>2, CarefulOthers
    <3>6. ASSUME NEW s \in {"resolved", "dismissed"}, MarkAnswered(c, s)
          PROVE  (\A f \in Field : Kept(f)') /\ \A d \in Connection : Careful(d)'
      BY <2>2, <2>4, <3>6 DEF MarkAnswered, profile
    <3> QED
      BY <2>0, <2>7, <3>2, <3>4, <3>5, <3>6 DEF Review
  <2>8. CASE RequestFails(c)
    BY <2>0, <2>2, <2>4, <2>8 DEF RequestFails, profile
  <2> QED
    BY <1>1, <2>5, <2>6, <2>7, <2>8 DEF StepOf
<1>2. ASSUME ~ \E c \in Connection : StepOf(c)
      PROVE  Alone' /\ (\A f \in Field : Kept(f)') /\ \A d \in Connection : Careful(d)'
  <2>0. /\ ~raced /\ Alone' /\ request' = request
        /\ \/ UNCHANGED vars
           \/ WeekPasses
           \/ /\ \A c \in Connection : At(c, "idle")
              /\ \E f \in Field : Delete(f) \/ \E v \in Value : Correct(f, v)
    BY <1>0, <1>2, Undisturbed
  <2>1. (\A f \in Field : Kept(f)) /\ \A c \in Connection : Careful(c)
    BY <2>0 DEF WordInv
  <2>2. CASE UNCHANGED vars
    BY <2>0, <2>1, <2>2, KeptStays DEF vars, profile, Careful, At
  <2>3. CASE WeekPasses
    <3>1. week \in Nat /\ week' \in Nat /\ week' > week
      BY <1>0, <2>3, GovernanceBoundsAssumption DEF WeekPasses, TypeInv, TypeOK
    <3>2. week > 2 => week' > 2
      BY <3>1
    <3>3. stored' = stored /\ spoken' = spoken
      BY <2>3 DEF WeekPasses, profile
    <3> QED
      BY <2>0, <2>1, <3>2, <3>3 DEF Kept, Careful, At
  <2>4. ASSUME \A c \in Connection : At(c, "idle")
        PROVE  \A c \in Connection : Careful(c)'
    BY <2>0, <2>4, CarefulIdle DEF At
  <2>5. ASSUME NEW f \in Field, Delete(f)
        PROVE  \A g \in Field : Kept(g)'
    BY <1>0, <2>1, <2>5, KeptTaken DEF Delete
  <2>6. ASSUME NEW f \in Field, NEW v \in Value, Correct(f, v)
        PROVE  \A g \in Field : Kept(g)'
    BY <1>0, <2>1, <2>6, KeptGiven DEF Correct
  <2> QED
    BY <2>0, <2>2, <2>3, <2>4, <2>5, <2>6
<1> QED
  BY <1>1, <1>2

\* Once given, a value stands until the user takes it back or gives another,
\* as long as requests do not overlap: for every age of the profile and
\* whatever the Observer proposes.
THEOREM WordsStand == Spec => []SerialWordStands
<1>1. Init => (Alone /\ (\A f \in Field : Kept(f)) /\ \A c \in Connection : Careful(c))
  <2> SUFFICES ASSUME Init
               PROVE  Alone /\ (\A f \in Field : Kept(f)) /\ \A c \in Connection : Careful(c)
    OBVIOUS
  <2>1. Alone /\ \A c \in Connection : Careful(c)
    BY NoRequestType DEF Init, Alone, At, Careful
  <2>2. ASSUME NEW f \in Field, spoken[f] # None
        PROVE  stored[f].active /\ stored[f].value = spoken[f] /\ f \in Gated
    <3>1. stored[f] # NoRow /\ spoken[f] = stored[f].value
      BY <2>2 DEF Init, NoRow
    <3>2. \E v \in Value : stored[f] = [value |-> v, label |-> "explicit",
                                       evidence |-> 1, active |-> TRUE]
      BY <3>1 DEF Init
    <3> QED
      BY <3>1, <3>2 DEF Init
  <2> QED
    BY <2>1, <2>2 DEF Kept
<1>2. Init => WordInv
  BY <1>1, RepetitionInit DEF WordInv
<1>3. WordInv /\ [Next]_vars => WordInv'
  <2> SUFFICES ASSUME WordInv, [Next]_vars PROVE WordInv'
    OBVIOUS
  <2>1. RepetitionInv'
    BY RepetitionStep DEF WordInv
  <2> QED
    BY <2>1, WordStep DEF WordInv
<1>4. WordInv => SerialWordStands
  BY DEF WordInv, SerialWordStands, WordStands, Kept
<1> QED
  BY <1>2, <1>3, <1>4, PTL DEF Spec

-----------------------------------------------------------------------------
(***************************************************************************)
(* The queue of questions, again while requests do not overlap: what a     *)
(* request is about to ask is not asked, and what it is about to answer    *)
(* has no answer yet.                                                      *)
(***************************************************************************)
Distinct ==
  \A i, j \in DOMAIN questions :
    IsPending(i) /\ Asks(j, questions[i].field, questions[i].value) => i = j

Unasked(c) ==
  /\ At(c, "queue") =>
       \A j \in DOMAIN questions : ~Asks(j, request[c].field, request[c].value)
  /\ At(c, "verify") =>
       \A a \in request[c].asks, j \in DOMAIN questions : ~Asks(j, a[1], a[2])

Open(c) == request[c].step \in AnswerStep => IsPending(request[c].question)

QueueInv ==
  /\ TypeInv
  /\ ~raced => /\ Alone /\ Distinct
               /\ \A c \in Connection : Unasked(c) /\ Open(c)

LEMMA QueueIdle ==
  ASSUME NEW c \in Connection, request'[c].step \notin {"queue", "verify"} \cup AnswerStep
  PROVE  Unasked(c)' /\ Open(c)'
BY DEF Unasked, Open, At

LEMMA QueueOthers ==
  ASSUME NEW c \in Connection, Quiet(c), Unasked(c)' /\ Open(c)'
  PROVE  \A d \in Connection : Unasked(d)' /\ Open(d)'
BY QueueIdle DEF Quiet, At, AnswerStep

\* A question that nobody asks can be added.
LEMMA DistinctAsked ==
  ASSUME TypeInv, Distinct, NEW f \in Field, NEW v \in Value,
         NEW o \in {"observer", "verification"}, Ask(f, v, o),
         \A j \in DOMAIN questions : ~Asks(j, f, v)
  PROVE  /\ Distinct'
         /\ \A i \in DOMAIN questions : questions'[i] = questions[i]
         /\ \A g, w :
              (g # f \/ w # v) /\ (\A j \in DOMAIN questions : ~Asks(j, g, w)) =>
              \A j \in DOMAIN questions' : ~(questions'[j].field = g /\ questions'[j].value = w
                                             /\ questions'[j].state = "pending")
<1> DEFINE n == Len(questions) + 1
<1>1. /\ DOMAIN questions = 1 .. Len(questions) /\ Len(questions) \in Nat
      /\ DOMAIN questions' = 1 .. n
      /\ \A i \in DOMAIN questions : questions'[i] = questions[i]
      /\ questions'[n] = [field |-> f, value |-> v, origin |-> o, state |-> "pending"]
  BY Asked DEF TypeInv, TypeOK
<1>2. \A i \in DOMAIN questions' : i \in DOMAIN questions \/ i = n
  BY <1>1
<1>3. questions'[n].field = f /\ questions'[n].value = v /\ questions'[n].state = "pending"
  BY <1>1
<1> HIDE DEF n
<1>4. Distinct'
  <2> SUFFICES ASSUME NEW i \in DOMAIN questions', NEW j \in DOMAIN questions',
                      questions'[i].state = "pending", questions'[j].state = "pending",
                      questions'[i].field = questions'[j].field,
                      questions'[i].value = questions'[j].value
               PROVE  i = j
    BY DEF Distinct, IsPending, Asks
  <2>1. CASE i \in DOMAIN questions /\ j \in DOMAIN questions
    BY <1>1, <2>1 DEF Distinct, IsPending, Asks
  <2>2. CASE i = n /\ j \in DOMAIN questions
    BY <1>1, <1>3, <2>2 DEF IsPending, Asks
  <2>3. CASE j = n /\ i \in DOMAIN questions
    BY <1>1, <1>3, <2>3 DEF IsPending, Asks
  <2> QED
    BY <1>2, <2>1, <2>2, <2>3
<1> QED
  BY <1>1, <1>2, <1>3, <1>4 DEF Asks, IsPending

\* No step of a pending question's own answers another.
LEMMA QueueStep ==
  ASSUME QueueInv, [Next]_vars, ~raced'
  PROVE  /\ Alone' /\ Distinct' /\ \A c \in Connection : Unasked(c)' /\ Open(c)'
         /\ \A i \in DOMAIN questions : ~IsPending(i) => questions'[i] = questions[i]
<1>0. TypeInv /\ (~raced => Alone)
  BY DEF QueueInv
<1> DEFINE Goal == /\ Distinct' /\ \A c \in Connection : Unasked(c)' /\ Open(c)'
                   /\ \A i \in DOMAIN questions : ~IsPending(i) => questions'[i] = questions[i]
<1>1. ASSUME NEW c \in Connection, StepOf(c)
      PROVE  Alone' /\ Goal
  <2>0. ~raced /\ Quiet(c) /\ Alone'
    BY <1>0, <1>1, Quieted
  <2>1. Distinct /\ Unasked(c) /\ Open(c)
    BY <2>0 DEF QueueInv
  <2>2. ASSUME Unasked(c)' /\ Open(c)', UNCHANGED questions
        PROVE  Goal
    <3>1. Distinct'
      BY <2>1, <2>2 DEF Distinct, IsPending, Asks
    <3> QED
      BY <2>0, <2>2, <3>1, QueueOthers
  <2>3. ASSUME NEW s \in Step \ ({"queue", "verify"} \cup AnswerStep), Go(c, s)
        PROVE  Unasked(c)' /\ Open(c)'
    <3>1. request[c] \in Request /\ request'[c] = [request[c] EXCEPT !.step = s]
      BY <1>0, <2>3, Typing, Going
    <3>2. request'[c].step = s
      BY <3>1 DEF Request
    <3> QED
      BY <3>2, QueueIdle
  <2>4. ASSUME Ends(c)
        PROVE  Unasked(c)' /\ Open(c)'
    BY <1>0, <2>4, Typing, Ending, NoRequestType, QueueIdle DEF AnswerStep
  <2>5. ASSUME Observer(c)
        PROVE  Goal
    <3>1. ASSUME NEW f \in Field, NEW v \in Value, NEW label \in {"explicit", "inferred"},
                 Observe(c, f, v, label)
          PROVE  Goal
      <4>1. Unasked(c)' /\ Open(c)'
        BY <1>0, <3>1, ObservedRequest, QueueIdle DEF AnswerStep
      <4> QED
        BY <2>2, <3>1, <4>1 DEF Observe
    <3>2. ASSUME Reinforce(c) PROVE Goal
      <4>1. Unasked(c)' /\ Open(c)'
        BY <1>0, <3>2, ReinforcedRequest, QueueIdle DEF AnswerStep
      <4> QED
        BY <2>2, <3>2, <4>1 DEF Reinforce
    <3>3. ASSUME Validate(c) \/ WriteApproved(c) \/ Discard(c) \/ LogContradiction(c)
          PROVE  Goal
      <4>1. Unasked(c)' /\ Open(c)'
        BY <2>3, <2>4, <3>3
        DEF Validate, WriteApproved, Discard, LogContradiction, Step, CandidateStep, AnswerStep
      <4>2. UNCHANGED questions
        BY <3>3 DEF Validate, WriteApproved, Discard, LogContradiction
      <4> QED
        BY <2>2, <4>1, <4>2
    <3>4. ASSUME LookForDuplicate(c) PROVE Goal
      <4>1. ASSUME Go(c, "queue"),
                   ~ \E i \in DOMAIN questions : Asks(i, request[c].field, request[c].value)
            PROVE  Unasked(c)' /\ Open(c)'
        <5>1. request[c] \in Request /\ request'[c] = [request[c] EXCEPT !.step = "queue"]
          BY <1>0, <4>1, Typing, Going DEF Step, CandidateStep
        <5>2. /\ request'[c].step = "queue" /\ request'[c].field = request[c].field
              /\ request'[c].value = request[c].value
          BY <5>1 DEF Request
        <5>3. questions' = questions
          BY <3>4 DEF LookForDuplicate
        <5> QED
          BY <4>1, <5>2, <5>3 DEF Unasked, Open, At, Asks, IsPending, AnswerStep
      <4>2. Unasked(c)' /\ Open(c)'
        BY <2>4, <3>4, <4>1 DEF LookForDuplicate
      <4> QED
        BY <2>2, <3>4, <4>2 DEF LookForDuplicate
    <3>5. ASSUME QueueCandidate(c) PROVE Goal
      <4>1. PICK f \in Field, v \in Value : f = request[c].field /\ v = request[c].value
        BY <1>0, <3>5 DEF QueueCandidate, TypeInv, Carries, At, CandidateStep
      <4>2. Ask(f, v, "observer") /\ Ends(c)
        BY <3>5, <4>1 DEF QueueCandidate
      <4>3. \A j \in DOMAIN questions : ~Asks(j, f, v)
        BY <2>1, <3>5, <4>1 DEF QueueCandidate, Unasked
      <4>4. Distinct' /\ \A i \in DOMAIN questions : questions'[i] = questions[i]
        BY <1>0, <2>1, <4>2, <4>3, DistinctAsked
      <4>5. Unasked(c)' /\ Open(c)'
        BY <2>4, <4>2
      <4> QED
        BY <2>0, <4>4, <4>5, QueueOthers
    <3> QED
      BY <2>5, <3>1, <3>2, <3>3, <3>4, <3>5 DEF Observer
  <2>6. ASSUME SessionStart(c)
        PROVE  Goal
    <3>1. ASSUME BeginSession(c) PROVE Goal
      <4>1. [NoRequest EXCEPT !.step = "number"] \in Request
        BY NoRequestType DEF Request
      <4>2. request'[c] = [NoRequest EXCEPT !.step = "number"]
        BY <1>0, <3>1, <4>1, Typing, Beginning DEF BeginSession
      <4>3. request'[c].step = "number"
        BY <4>2, NoRequestType DEF Request
      <4>4. Unasked(c)' /\ Open(c)'
        BY <4>3, QueueIdle DEF AnswerStep
      <4> QED
        BY <2>2, <3>1, <4>4 DEF BeginSession
    <3>2. ASSUME ReadNumber(c) PROVE Goal
      <4>1. Unasked(c)' /\ Open(c)'
        BY <2>3, <2>4, <3>2 DEF ReadNumber, Step, RoundStep, AnswerStep
      <4> QED
        BY <2>2, <3>2, <4>1 DEF ReadNumber
    <3>3. ASSUME SelectFields(c) PROVE Goal
      <4>1. PICK sample \in SUBSET Doubtful :
              IF sample = {} THEN Ends(c)
              ELSE request' = [request EXCEPT ![c] = [@ EXCEPT !.step = "verify",
                                 !.asks = {<<f, stored[f].value>> : f \in sample}]]
        BY <3>3 DEF SelectFields
      <4>2. questions' = questions
        BY <3>3 DEF SelectFields
      <4>3. ASSUME sample # {}
            PROVE  Unasked(c)' /\ Open(c)'
        <5>1. /\ request'[c].step = "verify"
              /\ request'[c].asks = {<<f, stored[f].value>> : f \in sample}
          BY <1>0, <3>3, <4>1, <4>3, SampledRequest DEF SelectFields
        <5>2. ASSUME NEW a \in request'[c].asks, NEW j \in DOMAIN questions
              PROVE  ~Asks(j, a[1], a[2])
          BY <5>1, <5>2 DEF Doubtful, Asks
        <5> QED
          BY <4>2, <5>1, <5>2 DEF Unasked, Open, At, Asks, IsPending, AnswerStep
      <4>4. Unasked(c)' /\ Open(c)'
        BY <2>4, <4>1, <4>3
      <4> QED
        BY <2>2, <4>2, <4>4
    <3>4. ASSUME QueueVerification(c) PROVE Goal
      <4>1. PICK a \in request[c].asks :
              /\ Ask(a[1], a[2], "verification") \/ UNCHANGED questions
              /\ IF request[c].asks = {a} THEN Ends(c)
                 ELSE request' = [request EXCEPT ![c].asks = @ \ {a}]
        BY <3>4 DEF QueueVerification
      <4>2. /\ a \in Field \X Value /\ request[c].asks \subseteq Field \X Value
            /\ At(c, "verify")
        <5>1. request[c] \in Request
          BY <1>0, Typing
        <5> QED
          BY <3>4, <5>1 DEF Request, QueueVerification
      <4>3. \A b \in request[c].asks, j \in DOMAIN questions : ~Asks(j, b[1], b[2])
        BY <2>1, <4>2 DEF Unasked
      <4>4. /\ Distinct' /\ \A i \in DOMAIN questions : questions'[i] = questions[i]
            /\ \A b \in request[c].asks \ {a} : \A j \in DOMAIN questions' :
                 ~(questions'[j].field = b[1] /\ questions'[j].value = b[2]
                   /\ questions'[j].state = "pending")
        <5>1. CASE questions' = questions
          BY <2>1, <4>3, <5>1 DEF Distinct, IsPending, Asks
        <5>2. CASE Ask(a[1], a[2], "verification")
          <6>1. a[1] \in Field /\ a[2] \in Value
            BY <4>2
          <6>2. \A j \in DOMAIN questions : ~Asks(j, a[1], a[2])
            BY <4>3
          <6>3. /\ Distinct' /\ \A i \in DOMAIN questions : questions'[i] = questions[i]
                /\ \A g, w :
                     (g # a[1] \/ w # a[2])
                       /\ (\A j \in DOMAIN questions : ~Asks(j, g, w)) =>
                     \A j \in DOMAIN questions' : ~(questions'[j].field = g /\ questions'[j].value = w
                                                    /\ questions'[j].state = "pending")
            BY <1>0, <2>1, <5>2, <6>1, <6>2, DistinctAsked
          <6>4. ASSUME NEW b \in request[c].asks \ {a}
                PROVE  b[1] # a[1] \/ b[2] # a[2]
            BY <4>2
          <6> QED
            BY <4>3, <6>3, <6>4
        <5> QED
          BY <4>1, <5>1, <5>2
      <4>5. ASSUME request[c].asks # {a}
            PROVE  Unasked(c)' /\ Open(c)'
        <5>1. request'[c].step = "verify" /\ request'[c].asks = request[c].asks \ {a}
          BY <1>0, <4>1, <4>2, <4>5, VerifiedRequest
        <5> QED
          BY <4>4, <5>1 DEF Unasked, Open, At, Asks, IsPending, AnswerStep
      <4>6. Unasked(c)' /\ Open(c)'
        BY <2>4, <4>1, <4>5
      <4> QED
        BY <2>0, <4>4, <4>6, QueueOthers
    <3> QED
      BY <2>6, <3>1, <3>2, <3>3, <3>4 DEF SessionStart
  <2>7. ASSUME Review(c)
        PROVE  Goal
    <3>1. ASSUME NEW i \in DOMAIN questions, NEW s \in AnswerStep, IsPending(i), Answers(c, i, s)
          PROVE  Goal
      <4>1. request'[c] = [NoRequest EXCEPT !.step = s, !.question = i]
        BY <1>0, <3>1, AnswersType
      <4>2. request'[c].step = s /\ request'[c].question = i
        <5>1. i \in Nat
          BY <1>0, Typing
        <5> QED
          BY <4>1, <5>1, NoRequestType DEF Request
      <4>3. questions' = questions
        BY <3>1 DEF Answers
      <4>4. Unasked(c)' /\ Open(c)'
        BY <3>1, <4>2, <4>3 DEF Unasked, Open, At, IsPending, AnswerStep
      <4> QED
        BY <2>2, <4>3, <4>4
    <3>2. ASSUME NEW i \in DOMAIN questions, ResolvePending(c, i) \/ DismissPending(c, i)
          PROVE  Goal
      BY <3>1, <3>2 DEF ResolvePending, DismissPending, AnswerStep
    <3>3. ASSUME NEW s \in {"resolved", "dismissed"}, Go(c, s), questions' = questions,
                 request[c].step \in AnswerStep
          PROVE  Goal
      <4>1. request[c] \in Request /\ request'[c] = [request[c] EXCEPT !.step = s]
        BY <1>0, <3>3, Typing, Going DEF Step, AnswerStep
      <4>2. request'[c].step = s /\ request'[c].question = request[c].question
        BY <4>1 DEF Request
      <4>3. Unasked(c)' /\ Open(c)'
        BY <2>1, <3>3, <4>2 DEF Unasked, Open, At, IsPending, AnswerStep
      <4> QED
        BY <2>2, <3>3, <4>3
    <3>4. ASSUME NEW s \in {"resolved", "dismissed"}, MarkAnswered(c, s)
          PROVE  Goal
      <4>1. PICK n \in DOMAIN questions : n = request[c].question
        BY <1>0, <3>4 DEF MarkAnswered, At, TypeInv, Carries, AnswerStep
      <4>2. IsPending(n)
        BY <2>1, <3>4, <4>1 DEF MarkAnswered, At, Open, AnswerStep
      <4>3. /\ questions' \in Seq(Question) /\ DOMAIN questions' = DOMAIN questions
            /\ \A m \in DOMAIN questions : m # n => questions'[m] = questions[m]
            /\ questions'[n] = [questions[n] EXCEPT !.state = s]
        BY <1>0, <3>4, <4>1, Answered DEF MarkAnswered, TypeInv, TypeOK
      <4>4. questions'[n].state = s
        <5>1. questions[n] \in Question
          BY <1>0, <4>1, Typing
        <5> QED
          BY <4>3, <5>1 DEF Question
      <4>5. Distinct'
        BY <2>1, <4>3, <4>4 DEF Distinct, IsPending, Asks
      <4>6. Unasked(c)' /\ Open(c)'
        BY <2>4, <3>4 DEF MarkAnswered
      <4>7. \A i \in DOMAIN questions : ~IsPending(i) => questions'[i] = questions[i]
        BY <4>2, <4>3
      <4> QED
        BY <2>0, <4>5, <4>6, <4>7, QueueOthers
    <3> QED
      BY <2>7, <3>2, <3>3, <3>4 DEF Review, Apply, Retire, At, AnswerStep
  <2>8. ASSUME RequestFails(c)
        PROVE  Goal
    BY <2>2, <2>4, <2>8 DEF RequestFails
  <2> HIDE DEF Goal
  <2> QED
    BY <1>1, <2>0, <2>5, <2>6, <2>7, <2>8 DEF StepOf
<1>2. ASSUME ~ \E c \in Connection : StepOf(c)
      PROVE  Alone' /\ Goal
  <2>1. ~raced /\ Alone' /\ request' = request /\ questions' = questions
    BY <1>0, <1>2, Undisturbed
  <2>2. Distinct /\ \A c \in Connection : Unasked(c) /\ Open(c)
    BY <2>1 DEF QueueInv
  <2> QED
    BY <2>1, <2>2 DEF Distinct, Unasked, Open, IsPending, Asks, At
<1> QED
  BY <1>1, <1>2

LEMMA QueueInit == Init => QueueInv
BY TypeInit, NoRequestType DEF Init, QueueInv, Alone, Distinct, Unasked, Open, At, AnswerStep

LEMMA QueueKept == QueueInv /\ [Next]_vars => QueueInv'
<1> SUFFICES ASSUME QueueInv, [Next]_vars PROVE QueueInv'
  OBVIOUS
<1>1. TypeInv'
  BY TypeStep DEF QueueInv
<1> QED
  BY <1>1, QueueStep DEF QueueInv

\* As long as requests do not overlap, nothing is asked twice at a time: the
\* Observer's questions, the verification round's, and what is left of a round
\* that failed half-way.
THEOREM QuestionsDistinct == Spec => []AskedOnce
<1>1. QueueInv => AskedOnce
  BY DEF QueueInv, AskedOnce, Distinct
<1> QED
  BY <1>1, QueueInit, QueueKept, PTL DEF Spec

\* As long as answers come one at a time, an answer is final.
THEOREM AnswersFinal == Spec => AnswerStands
<1>1. QueueInv /\ [Next]_vars =>
        [\A i \in DOMAIN questions : ~raced' /\ ~IsPending(i) => questions'[i] = questions[i]]_vars
  <2> SUFFICES ASSUME QueueInv, [Next]_vars, ~raced'
               PROVE  \A i \in DOMAIN questions : ~IsPending(i) => questions'[i] = questions[i]
    OBVIOUS
  <2> QED
    BY QueueStep
<1> QED
  BY <1>1, QueueInit, QueueKept, PTL DEF Spec, AnswerStands

=============================================================================
