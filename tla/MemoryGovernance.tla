---------------------------- MODULE MemoryGovernance ----------------------------
(***************************************************************************)
(* How a value enters the profile: an Observer candidate is reinforced and *)
(* validated (Stage 12 and the constitution), then written, queued for the *)
(* user or discarded (Stage 13); the user answers the queue, corrects and  *)
(* deletes fields; every Frequency-th session a verification round asks    *)
(* about stored values.                                                    *)
(*                                                                         *)
(* Fields are rows of preference_memory and, the Gated ones, of            *)
(* skill_memory.  A step is one commit or the SELECTs between two commits. *)
(*                                                                         *)
(* "attested" stands for the labels user_verified and user_correction,     *)
(* which nothing tells apart.  Evidence is counted up to five: no rule     *)
(* asks for more, and confidence stops growing there.  PIP is used on one  *)
(* day of a week, so fourteen days are two weeks.                          *)
(***************************************************************************)
EXTENDS Integers, Sequences, FiniteSets

CONSTANTS
  Connection,        \* connections a request or an Observer pass runs on
  Field,             \* names of preferences and skills
  Gated,             \* those of gated_fields in constitutional.json: the skills
  Value,
  None,              \* no value
  Week,              \* ages of the profile, in weeks, at which PIP is used
  Frequency,         \* settings: memory.verification_loop_frequency_sessions
  SampleSize,        \* settings: memory.verification_loop_sample_size
  TriggerSessions,   \* constitution: behavioral_override.trigger_sessions
  MaxSession,        \* bound: sessions
  MaxQuestion        \* bound: rows of memory_candidates_pending

ASSUME GovernanceBoundsAssumption ==
  /\ Week \subseteq Nat /\ Week # {}
  /\ Frequency \in Nat \ {0} /\ SampleSize \in Nat /\ TriggerSessions \in Nat
  /\ MaxSession \in Nat \ {0} /\ MaxQuestion \in Nat
ASSUME NoValueAssumption == None \notin Value /\ None \notin Field
ASSUME GatedAssumption == Gated \subseteq Field

VARIABLES
  stored,          \* stored[f]: its row of preference_memory or skill_memory
  contradictions,  \* contradictions[f]: its rows of the contradiction log
  observations,    \* observations[f][v][s]: rows of memory_observation_log, up to 2
  questions,       \* memory_candidates_pending in order of id
  session, week,   \* profile_meta.session_count, the profile's age
  request,         \* request[c]: what runs on connection c
  \* History.
  spoken,          \* spoken[f]: what the user last gave as f's value
  stated,          \* values that were explicit or attested at some time
  raced            \* two requests overlapped

profile == <<stored, contradictions, observations>>
vars == <<profile, questions, session, week, request, spoken, stated, raced>>

Session == 1 .. MaxSession
Label == {"explicit", "inferred", "attested"}
Stated == {"explicit", "attested"}

Row == [value : Value, label : Label, evidence : 1 .. 5, active : BOOLEAN]
NoRow == [value |-> None, label |-> "none", evidence |-> 0, active |-> FALSE]

Question == [field : Field, value : Value, origin : {"observer", "verification"},
             state : {"pending", "resolved", "dismissed"}]

\* asks: what a verification round has still to queue.
Request == [step : {"idle", "reinforce", "validate", "write", "look", "queue",
                    "discard", "log", "number", "sample", "verify",
                    "apply", "retire", "resolved", "dismissed"},
            field : Field \cup {None}, value : Value \cup {None},
            label : Label \cup {"none"}, evidence : 0 .. 5, question : Nat,
            asks : SUBSET (Field \X Value)]
NoRequest == [step |-> "idle", field |-> None, value |-> None, label |-> "none",
              evidence |-> 0, question |-> 0, asks |-> {}]

-----------------------------------------------------------------------------

At(c, s) == request[c].step = s
Go(c, s) == request' = [request EXCEPT ![c].step = s]
Ends(c) == request' = [request EXCEPT ![c] = NoRequest]

\* A request takes connection c; another that is under way makes a race.
Begins(c, r) ==
  /\ At(c, "idle")
  /\ request' = [request EXCEPT ![c] = r]
  /\ raced' = (raced \/ \E d \in Connection : ~At(d, "idle"))

Confidence(label, evidence) ==
  IF label = "inferred" THEN 8 * evidence ELSE 18 * evidence   \* in hundredths

AtMostFive(n) == IF n > 5 THEN 5 ELSE n
Larger(m, n) == IF m > n THEN m ELSE n

\* Mutant: a row of the log for a session, however often it was seen there.
RowsOf(f, v) ==
  Cardinality({s \in Session : observations[f][v][s] > 0})
    + Cardinality({s \in Session : observations[f][v][s] > 1})

\* _observed_sessions.
SessionsOf(f, v) == Cardinality({s \in Session : observations[f][v][s] > 0})

Init ==
  /\ stored \in [Field -> {NoRow} \cup
        {[value |-> v, label |-> "explicit", evidence |-> 1, active |-> TRUE] : v \in Value}]
  /\ \A f \in Field : stored[f] # NoRow => f \in Gated
  /\ contradictions = [f \in Field |-> {}]
  /\ observations = [f \in Field |-> [v \in Value |-> [s \in Session |-> 0]]]
  /\ questions = <<>>
  /\ session = 1 /\ week \in Week /\ \A w \in Week : week <= w
  /\ request = [c \in Connection |-> NoRequest]
  /\ spoken = [f \in Field |-> stored[f].value]
  /\ stated = {p \in Field \X Value : stored[p[1]].value = p[2]}
  /\ raced = FALSE

-----------------------------------------------------------------------------
(* One candidate of an Observer pass, from run_session_end's loop.          *)

\* _record_observation, the first that is done with a candidate.  A row that
\* cannot be written is done without.
Observe(c, f, v, label) ==
  /\ Begins(c, [step |-> "reinforce", field |-> f, value |-> v, label |-> label,
                evidence |-> 1, question |-> 0, asks |-> {}])
  /\ \/ observations' = [observations EXCEPT ![f][v][session] = IF @ = 0 THEN 1 ELSE 2]
     \/ UNCHANGED observations
  /\ UNCHANGED <<stored, contradictions, questions, session, week, spoken, stated>>

\* What the evidence for candidate r has grown to.
Reinforced(r) ==
  LET old == stored[r.field]
      sessions == SessionsOf(r.field, r.value)
      once == IF observations[r.field][r.value][session] > 1 THEN 0 ELSE 1
  IN  IF old = NoRow THEN Larger(r.evidence, sessions)
      ELSE IF old.value = r.value THEN Larger(old.evidence + once, sessions)
      ELSE r.evidence

\* reinforce_evidence, after the commit of its observation.
Reinforce(c) ==
  /\ At(c, "reinforce")
  /\ request' = [request EXCEPT ![c] = [@ EXCEPT !.step = "validate",
                   !.evidence = AtMostFive(Reinforced(request[c]))]]
  /\ UNCHANGED <<profile, questions, session, week, spoken, stated, raced>>

\* is_contradicting_inferred_observation.
Contradicts(r) ==
  /\ stored[r.field] # NoRow
  /\ stored[r.field].value # r.value
  /\ r.label = "inferred"
  /\ stored[r.field].label \in Stated

\* _triggers_behavioral_override.
OverrideDue(r) ==
  /\ Contradicts(r)
  /\ Cardinality({n.session : n \in contradictions[r.field]}) >= TriggerSessions
  /\ \E n \in contradictions[r.field] : week >= n.week + 2

\* The thresholds by the profile's age.
Enough(r) ==
  \/ week <= 2 /\ r.evidence >= 1 /\ r.label \in Stated
  \/ week > 2 /\ week <= 4 /\ r.evidence >= 2
  \/ week > 4 /\ r.evidence >= 3 /\ Confidence(r.label, r.evidence) >= 70

\* Mutant: the conflict rule looks at the candidate's confidence.
ConflictsOwnConfidence(r) ==
  /\ stored[r.field] # NoRow
  /\ stored[r.field].value # r.value
  /\ Confidence(r.label, r.evidence) > 70

\* A stored value of high confidence is not replaced unasked.
Conflicts(r) ==
  /\ stored[r.field] # NoRow
  /\ stored[r.field].value # r.value
  /\ Confidence(stored[r.field].label, stored[r.field].evidence) > 70

\* ConstitutionEnforcer.validate, and where Stage 13 sends its answer.
Validate(c) ==
  /\ At(c, "validate")
  /\ LET r == request[c]
         user == OverrideDue(r) \/ (Enough(r) /\ (r.field \in Gated \/ Conflicts(r)))
     IN  \/ user /\ Go(c, "look")
         \/ ~user /\ Enough(r) /\ Go(c, "write")
         \/ ~user /\ ~Enough(r) /\ Go(c, "discard")
  /\ UNCHANGED <<profile, questions, session, week, spoken, stated, raced>>

\* write_approved_candidate: an upsert that makes a deleted row active again.
WriteApproved(c) ==
  /\ At(c, "write")
  /\ LET r == request[c] IN
       /\ stored' = [stored EXCEPT ![r.field] = [value |-> r.value, label |-> r.label,
                       evidence |-> r.evidence, active |-> TRUE]]
       /\ stated' = IF r.label \in Stated THEN stated \cup {<<r.field, r.value>>} ELSE stated
  /\ Ends(c)
  /\ UNCHANGED <<contradictions, observations, questions, session, week, spoken, raced>>

IsPending(i) == questions[i].state = "pending"
Asks(i, f, v) == questions[i].field = f /\ questions[i].value = v /\ IsPending(i)

\* Mutant: the queue is not searched for the same question.
LookNowhere(c) ==
  /\ At(c, "look") /\ Go(c, "queue")
  /\ UNCHANGED <<profile, questions, session, week, spoken, stated, raced>>

\* find_pending_memory_candidate.
LookForDuplicate(c) ==
  /\ At(c, "look")
  /\ IF \E i \in DOMAIN questions : Asks(i, request[c].field, request[c].value)
       THEN Ends(c) ELSE Go(c, "queue")
  /\ UNCHANGED <<profile, questions, session, week, spoken, stated, raced>>

\* create_memory_candidate.
Ask(f, v, origin) ==
  /\ Len(questions) < MaxQuestion
  /\ questions' = Append(questions, [field |-> f, value |-> v, origin |-> origin,
                                     state |-> "pending"])

QueueCandidate(c) ==
  /\ At(c, "queue")
  /\ Ask(request[c].field, request[c].value, "observer")
  /\ Ends(c)
  /\ UNCHANGED <<profile, session, week, spoken, stated, raced>>

\* _maybe_log_behavioral_contradiction reads the row, and logs against its id.
Discard(c) ==
  /\ At(c, "discard")
  /\ IF Contradicts(request[c]) THEN Go(c, "log") ELSE Ends(c)
  /\ UNCHANGED <<profile, questions, session, week, spoken, stated, raced>>

LogContradiction(c) ==
  /\ At(c, "log")
  /\ contradictions' = [contradictions EXCEPT ![request[c].field] =
                          @ \cup {[session |-> session, week |-> week]}]
  /\ Ends(c)
  /\ UNCHANGED <<stored, observations, questions, session, week, spoken, stated, raced>>

-----------------------------------------------------------------------------
(* The start of a session: begin_session and verification.run_if_due.        *)

BeginSession(c) ==
  /\ session < MaxSession
  /\ session' = session + 1
  /\ Begins(c, [NoRequest EXCEPT !.step = "number"])
  /\ UNCHANGED <<profile, questions, week, spoken, stated>>

\* The count is read back after it is committed.
ReadNumber(c) ==
  /\ At(c, "number")
  /\ IF session % Frequency = 0 THEN Go(c, "sample") ELSE Ends(c)
  /\ UNCHANGED <<profile, questions, session, week, spoken, stated, raced>>

\* select_fields: active, not attested, not in the queue.
Doubtful ==
  {f \in Field : /\ stored[f].active /\ stored[f].label # "attested"
                 /\ ~ \E i \in DOMAIN questions : questions[i].field = f /\ IsPending(i)}
Doubt(f) == Confidence(stored[f].label, stored[f].evidence)

SelectFields(c) ==
  /\ At(c, "sample")
  /\ \E sample \in SUBSET Doubtful :
       /\ sample = Doubtful \/ Cardinality(sample) = SampleSize
       /\ Cardinality(sample) <= SampleSize
       /\ \A f \in sample, g \in Doubtful \ sample : Doubt(f) <= Doubt(g)
       /\ IF sample = {} THEN Ends(c)
          ELSE request' = [request EXCEPT ![c] = [@ EXCEPT !.step = "verify",
                             !.asks = {<<f, stored[f].value>> : f \in sample}]]
  /\ UNCHANGED <<profile, questions, session, week, spoken, stated, raced>>

\* A question that cannot be queued is left out of the round.
QueueVerification(c) ==
  /\ At(c, "verify")
  /\ \E a \in request[c].asks :
       /\ Ask(a[1], a[2], "verification") \/ UNCHANGED questions
       /\ IF request[c].asks = {a} THEN Ends(c)
          ELSE request' = [request EXCEPT ![c].asks = @ \ {a}]
  /\ UNCHANGED <<profile, session, week, spoken, stated, raced>>

-----------------------------------------------------------------------------
(* The user.                                                                *)

\* _write_profile_value: maximum evidence, and a clean slate.
UserWrites(f, v) ==
  /\ stored' = [stored EXCEPT ![f] = [value |-> v, label |-> "attested",
                                      evidence |-> 5, active |-> TRUE]]
  /\ contradictions' = [contradictions EXCEPT ![f] = {}]
  /\ spoken' = [spoken EXCEPT ![f] = v]
  /\ stated' = stated \cup {<<f, v>>}

\* A single commit beside whatever else is under way.
Races == raced' = (raced \/ \E c \in Connection : ~At(c, "idle"))

\* correct_profile_field.  A skill that is not on the profile is not found
\* there, and its correction becomes a preference.
Correct(f, v) ==
  /\ f \in Gated => stored[f].active
  /\ UserWrites(f, v)
  /\ Races
  /\ UNCHANGED <<observations, questions, session, week, request>>

\* soft_delete_profile_field.
Delete(f) ==
  /\ stored[f] # NoRow
  /\ stored' = [stored EXCEPT ![f].active = FALSE]
  /\ spoken' = [spoken EXCEPT ![f] = None]
  /\ Races
  /\ UNCHANGED <<contradictions, observations, questions, session, week, request, stated>>

\* resolve_pending and dismiss_pending: the question has to be pending.
Answers(c, i, s) ==
  /\ Begins(c, [NoRequest EXCEPT !.step = s, !.question = i])
  /\ UNCHANGED <<profile, questions, session, week, spoken, stated>>

\* Mutant: a question that has an answer already can be confirmed.
ResolveUnseen(c, i) == Answers(c, i, "apply")

ResolvePending(c, i) == IsPending(i) /\ Answers(c, i, "apply")

DismissPending(c, i) ==
  /\ IsPending(i)
  /\ Answers(c, i, IF questions[i].origin = "verification" THEN "retire" ELSE "dismissed")

\* apply_verified_correction.
Apply(c) ==
  /\ At(c, "apply")
  /\ LET q == questions[request[c].question] IN UserWrites(q.field, q.value)
  /\ Go(c, "resolved")
  /\ UNCHANGED <<observations, questions, session, week, raced>>

\* retire_profile_field goes by the field's name.
Retire(c) ==
  /\ At(c, "retire")
  /\ LET f == questions[request[c].question].field IN
       IF stored[f].active
         THEN /\ stored' = [stored EXCEPT ![f].active = FALSE]
              /\ contradictions' = [contradictions EXCEPT ![f] = {}]
              /\ spoken' = [spoken EXCEPT ![f] = None]
         ELSE UNCHANGED <<stored, contradictions, spoken>>
  /\ Go(c, "dismissed")
  /\ UNCHANGED <<observations, questions, session, week, stated, raced>>

\* Mutant: the row is left in a state of its own.
MarkRetired(c, s) ==
  /\ At(c, s)
  /\ questions' = [questions EXCEPT ![request[c].question].state =
                     IF s = "dismissed" /\ questions[request[c].question].origin = "verification"
                       THEN "retired" ELSE s]
  /\ Ends(c)
  /\ UNCHANGED <<profile, session, week, spoken, stated, raced>>

\* mark_memory_candidate_resolved and dismiss_memory_candidate name only the id.
MarkAnswered(c, s) ==
  /\ At(c, s)
  /\ questions' = [questions EXCEPT ![request[c].question].state = s]
  /\ Ends(c)
  /\ UNCHANGED <<profile, session, week, spoken, stated, raced>>

-----------------------------------------------------------------------------

WeekPasses ==
  /\ \E w \in Week : w > week /\ week' = w
  /\ UNCHANGED <<profile, questions, session, request, spoken, stated, raced>>

\* An exception or the end of the process: what is committed stays.
RequestFails(c) ==
  /\ ~At(c, "idle")
  /\ Ends(c)
  /\ UNCHANGED <<profile, questions, session, week, spoken, stated, raced>>

Observer(c) ==
  \/ \E f \in Field, v \in Value, label \in {"explicit", "inferred"} : Observe(c, f, v, label)
  \/ Reinforce(c) \/ Validate(c)
  \/ WriteApproved(c)
  \/ LookForDuplicate(c) \/ QueueCandidate(c)
  \/ Discard(c) \/ LogContradiction(c)

SessionStart(c) ==
  BeginSession(c) \/ ReadNumber(c) \/ SelectFields(c) \/ QueueVerification(c)

Review(c) ==
  \/ \E i \in DOMAIN questions : ResolvePending(c, i) \/ DismissPending(c, i)
  \/ Apply(c) \/ Retire(c)
  \/ MarkAnswered(c, "resolved") \/ MarkAnswered(c, "dismissed")

Next ==
  \/ \E c \in Connection : Observer(c) \/ SessionStart(c) \/ Review(c) \/ RequestFails(c)
  \/ \E f \in Field : Delete(f) \/ \E v \in Value : Correct(f, v)
  \/ WeekPasses

Spec == Init /\ [][Next]_vars

-----------------------------------------------------------------------------
(* Properties.                                                              *)

TypeOK ==
  /\ stored \in [Field -> Row \cup {NoRow}]
  /\ contradictions \in [Field -> SUBSET [session : Session, week : Week]]
  /\ observations \in [Field -> [Value -> [Session -> 0 .. 2]]]
  /\ questions \in Seq(Question)
  /\ session \in Session /\ week \in Week
  /\ request \in [Connection -> Request]
  /\ spoken \in [Field -> Value \cup {None}]
  /\ stated \subseteq Field \X Value
  /\ raced \in BOOLEAN

\* What the user gave as a field's value stays that field's value until the
\* user says something else, whatever the Observer infers or hears later and
\* however old the profile is (the trust hierarchy of
\* data/documents/PIP_CURRENT_STATE.md:291), as long as no request overlaps
\* another.
WordStands ==
  \A f \in Field : spoken[f] # None => stored[f].active /\ stored[f].value = spoken[f]
SerialWordStands == ~raced => WordStands

\* A value that stands in the profile as an inference was observed in two
\* sessions, or was once stated: a pass that is repeated, or two passes of one
\* session, are not corroboration (_already_counted_this_session).
Repeated(f, v) ==
  \E s, t \in Session : s # t /\ observations[f][v][s] > 0 /\ observations[f][v][t] > 0

InferenceIsRepeated ==
  \A f \in Field :
    LET v == stored[f].value IN
      stored[f].label = "inferred" => Repeated(f, v) \/ <<f, v>> \in stated

\* The user is not asked the same question twice at a time (Stage 13's comment
\* on duplicates, select_fields' docstring), as long as no request overlaps
\* another.
AskedOnce ==
  ~raced => \A i, j \in DOMAIN questions :
    IsPending(i) /\ Asks(j, questions[i].field, questions[i].value) => i = j

\* A question keeps its answer as long as answers come one at a time.
AnswerStands ==
  [][\A i \in DOMAIN questions :
       ~raced' /\ ~IsPending(i) => questions'[i] = questions[i]]_vars

\* A "no" to a verification question retires the value it asked about, "what
\* you have recorded is wrong about me" (dismiss_pending's docstring), and
\* not a value the user gave since.  TLC refutes it: README.
RetiresWhatItAsked ==
  [][\A c \in Connection :
       At(c, "retire") /\ ~raced =>
         LET q == questions[request[c].question] IN
           stored'[q.field].active # stored[q.field].active =>
             stored[q.field].value = q.value]_vars
=============================================================================
