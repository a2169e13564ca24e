------------------------------ MODULE DecisionLog ------------------------------
(***************************************************************************)
(* The decision log and its queue of candidates (backend/memory/           *)
(* decision_log.py, candidate_store.py), written by requests that run on   *)
(* connections of their own: POST /decisions and the review screens on     *)
(* HTTP worker threads, an Observer pass on a socket's thread, another on  *)
(* the catch-up thread.                                                    *)
(*                                                                         *)
(* SQLite lets one connection commit at a time and a SELECT outside a      *)
(* transaction sees the last commit, so a step below is one SELECT or one  *)
(* commit, and anything may happen between two of them.  A logged decision *)
(* takes two commits: _ensure_decision_fts, called between the row's       *)
(* INSERT and the index row's, commits the first of them.                  *)
(*                                                                         *)
(* A text is a normalized decision_text.  "superseded" and "abandoned"     *)
(* are one state, "retracted": nothing the code does tells them apart.     *)
(***************************************************************************)
EXTENDS Integers, Sequences, FiniteSets

CONSTANTS
  Connection,     \* connections a request may run on
  Text,           \* normalized decision texts
  Project,        \* project ids
  None,           \* project_id IS NULL; the text of no request
  MaxRow,         \* bound: rows of decision_log
  MaxCandidate    \* bound: rows of decision_candidates_pending

ASSUME DecisionBoundsAssumption == MaxRow \in Nat /\ MaxCandidate \in Nat
ASSUME NoProjectAssumption == None \notin Project

VARIABLES
  log,        \* decision_log in order of id
  index,      \* the ids that have a row in decision_fts
  pending,    \* decision_candidates_pending in order of id
  request,    \* request[c]: the request that runs on connection c
  raced       \* history: two requests overlapped, or a row became active
              \* by another way than an insert

tables == <<log, index, pending>>
vars == <<tables, request, raced>>

Scope == Project \cup {None}
Decision == [text : Text, project : Scope, state : {"active", "retracted"}]
Candidate == [text : Text, state : {"pending", "promoted", "dismissed"}]

\* step: what it does next; candidate: the one it answers, 0 when it creates;
\* strong: its confidence reaches the threshold; row: the id it has inserted.
Request == [step : {"check", "queue", "recheck", "insert", "index", "mark", "dismiss"},
            text : Text, project : Scope, candidate : Nat, strong : BOOLEAN, row : Nat]
NoRequest == [step |-> "idle", text |-> None, project |-> None,
              candidate |-> 0, strong |-> FALSE, row |-> 0]

-----------------------------------------------------------------------------

\* What find_active_duplicate looks for.
IsActive(i, t, p) == log[i].text = t /\ log[i].project = p /\ log[i].state = "active"
ActiveDuplicate(r) == \E i \in DOMAIN log : IsActive(i, r.text, r.project)

At(c, s) == request[c].step = s
Go(c, s) == request' = [request EXCEPT ![c].step = s]
Ends(c) == request' = [request EXCEPT ![c] = NoRequest]

\* Once the decision is in the log, promote_pending still has a mark to make.
GoOnOnceLogged(c) == IF request[c].candidate = 0 THEN Ends(c) ELSE Go(c, "mark")

Init ==
  /\ log = <<>> /\ index = {} /\ pending = <<>>
  /\ request = [c \in Connection |-> NoRequest]
  /\ raced = FALSE

\* A request takes connection c; another that is under way makes a race.
Begins(c, s, t, p, i, confident) ==
  /\ At(c, "idle")
  /\ request' = [request EXCEPT ![c] =
       [step |-> s, text |-> t, project |-> p, candidate |-> i, strong |-> confident, row |-> 0]]
  /\ raced' = (raced \/ \E d \in Connection : ~At(d, "idle"))
  /\ UNCHANGED tables

-----------------------------------------------------------------------------
(* create_decision and route_observer_decision: they differ in where the     *)
(* signals and the threshold come from, which is what strong abstracts.      *)

CreateDecision(c, t, p, confident) == Begins(c, "check", t, p, 0, confident)

\* The first duplicate check, made before the threshold is looked at.
Check(c) ==
  /\ At(c, "check")
  /\ \/ ActiveDuplicate(request[c]) /\ Ends(c)
     \/ ~ActiveDuplicate(request[c]) /\ request[c].strong /\ Go(c, "recheck")
     \/ ~ActiveDuplicate(request[c]) /\ ~request[c].strong /\ Go(c, "queue")
  /\ UNCHANGED <<tables, raced>>

\* create_decision_candidate: the table has no project column, and no one
\* looks whether the same text is pending already.
QueueCandidate(c) ==
  /\ At(c, "queue")
  /\ Len(pending) < MaxCandidate
  /\ pending' = Append(pending, [text |-> request[c].text, state |-> "pending"])
  /\ Ends(c)
  /\ UNCHANGED <<log, index, raced>>

-----------------------------------------------------------------------------
(* insert_decision, reached by both paths above and by promote_pending.      *)

\* Mutant: only create_decision and route_observer_decision look for duplicates.
NoRecheck(c) == At(c, "recheck") /\ Go(c, "insert") /\ UNCHANGED <<tables, raced>>

Recheck(c) ==
  /\ At(c, "recheck")
  /\ \/ ActiveDuplicate(request[c]) /\ GoOnOnceLogged(c)
     \/ ~ActiveDuplicate(request[c]) /\ Go(c, "insert")
  /\ UNCHANGED <<tables, raced>>

\* Mutant: the id is taken before the INSERT.
InsertRowStaleId(c) ==
  /\ At(c, "insert")
  /\ Len(log) < MaxRow
  /\ log' = Append(log, [text |-> request[c].text, project |-> request[c].project,
                          state |-> "active"])
  /\ request' = [request EXCEPT ![c] = [@ EXCEPT !.step = "index", !.row = Len(log)]]
  /\ UNCHANGED <<index, pending, raced>>

\* INSERT INTO decision_log, committed by _ensure_decision_fts.
InsertRow(c) ==
  /\ At(c, "insert")
  /\ Len(log) < MaxRow
  /\ log' = Append(log, [text |-> request[c].text, project |-> request[c].project,
                          state |-> "active"])
  /\ request' = [request EXCEPT ![c] = [@ EXCEPT !.step = "index", !.row = Len(log) + 1]]
  /\ UNCHANGED <<index, pending, raced>>

\* INSERT INTO decision_fts, committed at the end of insert_decision.
IndexRow(c) ==
  /\ At(c, "index")
  /\ index' = index \cup {request[c].row}
  /\ GoOnOnceLogged(c)
  /\ UNCHANGED <<log, pending, raced>>

-----------------------------------------------------------------------------
(* The review screen: promote_pending and dismiss_pending read the candidate *)
(* first and refuse one that is not pending; the UPDATEs that end them name  *)
(* only its id.                                                              *)

IsPending(i) == pending[i].state = "pending"

\* Mutant: a candidate that has an answer already can be promoted.
PromoteUnseen(c, i) == Begins(c, "recheck", pending[i].text, None, i, TRUE)

PromotePending(c, i) ==
  /\ IsPending(i)
  /\ Begins(c, "recheck", pending[i].text, None, i, TRUE)

DismissPending(c, i) ==
  /\ IsPending(i)
  /\ Begins(c, "dismiss", pending[i].text, None, i, TRUE)

Answer(c, s) ==
  /\ pending' = [pending EXCEPT ![request[c].candidate].state = s]
  /\ Ends(c)
  /\ UNCHANGED <<log, index, raced>>

\* Mutant: promote_pending marks the candidate before it inserts the decision.
MarkPromotedFirst(c) ==
  \/ /\ At(c, "recheck") /\ request[c].candidate # 0
     /\ pending' = [pending EXCEPT ![request[c].candidate].state = "promoted"]
     /\ UNCHANGED <<log, index, request, raced>>
  \/ At(c, "mark") /\ Ends(c) /\ UNCHANGED <<tables, raced>>

MarkPromoted(c) == At(c, "mark") /\ Answer(c, "promoted")
MarkDismissed(c) == At(c, "dismiss") /\ Answer(c, "dismissed")

-----------------------------------------------------------------------------

\* update_decision_state: one UPDATE, whatever the row's state was.
UpdateDecisionState(i, s) ==
  /\ log' = [log EXCEPT ![i].state = s]
  /\ raced' = (raced \/ (s = "active" /\ log[i].state = "retracted"))
  /\ UNCHANGED <<index, pending, request>>

\* merge_projects, which refuses to run beside the backend and announces the
\* duplicates it makes.
MergeProjects(from, into) ==
  /\ from # into
  /\ \A c \in Connection : At(c, "idle")
  /\ log' = [i \in DOMAIN log |->
               IF log[i].project = from THEN [log[i] EXCEPT !.project = into] ELSE log[i]]
  /\ raced' = TRUE
  /\ UNCHANGED <<index, pending, request>>

\* A statement raises (a lock held past busy_timeout, a full disk) or the
\* process dies: what is committed stays, the rest of the request is gone.
RequestFails(c) ==
  /\ ~At(c, "idle")
  /\ Ends(c)
  /\ UNCHANGED <<tables, raced>>

Next ==
  \/ \E c \in Connection :
       \/ \E t \in Text, p \in Scope, confident \in BOOLEAN :
            CreateDecision(c, t, p, confident)
       \/ Check(c) \/ QueueCandidate(c)
       \/ Recheck(c) \/ InsertRow(c) \/ IndexRow(c)
       \/ \E i \in DOMAIN pending : PromotePending(c, i) \/ DismissPending(c, i)
       \/ MarkPromoted(c) \/ MarkDismissed(c)
       \/ RequestFails(c)
  \/ \E i \in DOMAIN log, s \in {"active", "retracted"} : UpdateDecisionState(i, s)
  \/ \E from, into \in Project : MergeProjects(from, into)

Spec == Init /\ [][Next]_vars

-----------------------------------------------------------------------------
(* Properties.                                                               *)

TypeOK ==
  /\ log \in Seq(Decision)
  /\ index \subseteq 1 .. Len(log)
  /\ pending \in Seq(Candidate)
  /\ request \in [Connection -> Request \cup {NoRequest}]
  /\ raced \in BOOLEAN
  /\ \A c \in Connection :
       /\ request[c].candidate \in 0 .. Len(pending)
       /\ At(c, "mark") \/ At(c, "dismiss") => request[c].candidate # 0
       /\ At(c, "index") => request[c].row \in DOMAIN log

\* "Duplicates are suppressed on write": no decision is active twice in a
\* project (find_active_duplicate, data/documents/PIP_CURRENT_STATE.md:367).
ActiveOnce ==
  \A i, j \in DOMAIN log :
    log[i].state = "active" /\ IsActive(j, log[i].text, log[i].project) => i = j

\* What the checks do give: as long as requests come one at a time and a
\* retracted row is not made active again, nothing is active twice, however
\* often a request dies between two commits and is tried again
\* (insert_decision's comment: "the one place a duplicate can be stopped").
SerialLogIsUnique == ~raced => ActiveOnce

\* A candidate called promoted has its decision in the log, wherever a
\* promotion was cut short and whoever else was answering it: promote_pending
\* marks only after insert_decision has committed.
InLog(t) == \E i \in DOMAIN log : log[i].text = t /\ log[i].project = None
PromotedIsLogged ==
  \A k \in DOMAIN pending : pending[k].state = "promoted" => InLog(pending[k].text)

\* An answered candidate keeps its answer as long as answers come one at a
\* time: promote_pending and dismiss_pending refuse one that is not pending.
AnswerStands ==
  [][\A k \in DOMAIN pending :
       ~raced' /\ ~IsPending(k) => pending'[k] = pending[k]]_vars

\* "Returns the most relevant active decision_log entries matching" (Stage 3,
\* backend/stages/stage_03_decision_log_lookup.py:38): search reads the index,
\* so an active decision that no request is still writing has to be in it.
Searchable ==
  \A i \in DOMAIN log :
    /\ log[i].state = "active"
    /\ \A c \in Connection : At(c, "index") => request[c].row # i
    => i \in index
================================================================================
