# PIP in TLA+

TLA+ specifications, model checks and machine-checked proofs for PIP (Personal
Intelligence Platform): a local FastAPI backend over SQLite/SQLCipher, ChromaDB
and a local or remote language model, with a Flutter and a web client. Paths
below are relative to the repository's `src/`.

Run a check with `tlc -config <run>.cfg <module>`, a proof module with
`tlapm <module>.tla`. `PROJECT.json` lists the runs, which source lines each
definition stands for, the mutant that shows each property can fail, the hazards
and the theorems.

## 1. Inventory

What the system consists of, the state each part keeps, and what makes it
correct. "Hard" names the behaviour that a unit test hardly reaches.

| Part | State | Operations | Interacts with | Hard | Correct means |
|---|---|---|---|---|---|
| Session lifecycle (`backend/core/session_lifecycle.py`) | registry of open sessions; flag and prefix per session | register, unregister, snapshot, run_observer_now, enqueue_for_shutdown, recover_unobserved_conversations, drain_pending_on_startup | ws_chat, lifespan, auth_lock, catch-up thread; conversation store; queue | interleavings, kills between commits | no turn lost, none observed twice, recovery complete |
| Conversation store (`backend/memory/conversation_store.py`) | conversations, messages, observed_at | create, append, mark_observed, list_unobserved, delete | every socket, recovery | stale mark, deletion under a reader | what is committed and unobserved is found |
| Pending queue (`backend/memory/pending_observer.py`) | pending_observer rows | enqueue, drain, mark_* | shutdown, lock, recovery, drain | crash inside a pass | at-least-once, never dropped, never falsely completed |
| API server (`backend/api/server.py`) | catch-up task, registry, incoming queue per socket | ws_chat, lifespan, auth_*, about 50 REST routes | everything | shutdown and lock racing sockets, a disconnect during a reply | one uniform end for every socket |
| Observer (`backend/stages/stage_11_observer.py`) | none of its own | run, run_session_end | model provider, candidate routing, snapshot | unreachable model, partial results | only grounded candidates of this session |
| Validation and write (`stage_12`, `stage_13`, `backend/core/constitution_enforcer.py`) | memory tables, pending candidates, evidence | validate, enforce, route, resolve | candidate store, profile store | two commits, duplicates, stale candidates | nothing enters memory that the constitution forbids |
| Candidate store, profile store, verification (`backend/memory/`) | memory tables with label, confidence, contradictions; pending queues | upserts, corrections, retractions, decay, verification rounds | stages, REST | label precedence, contradiction counters | a user's word is never overwritten by an inference |
| Decision log (`backend/memory/decision_log.py`) | decision_log, FTS index, candidates | create, route, insert, update state, promote, dismiss | Observer, REST, Stage 3 | check-then-insert between connections, index out of step | one active row per decision, every row searchable |
| Pipeline and stages 0-10 (`backend/core/pipeline.py`) | trace | run a turn | memory, RAG, provider | early exits, fallbacks, stop | what is stored is what was shown |
| Context assembly, gap, snapshot (`stage_07`, `stage_00`, `backend/memory/session_snapshot.py`) | one standing snapshot | assemble, load, write, clear | pipeline, Observer | seven budgets, a floor, a trim | the prompt fits and loses no more than it must |
| Response cache (`backend/core/response_cache.py`) | recent answers | get, set | pipeline | stale entry after a decision | a logged decision overrides a cached answer |
| Provider gate (`stage_08`, provider_consent) | consent per provider | grant, revoke, check | pipeline, Observer | revocation during a stream | no data leaves without consent |
| Sign-in (`backend/core/session_key.py`, `db_key.py`, auth routes) | key in memory, salt file | unlock, lock, setup, verify | every connection | profile switch during a key derivation; two setups | the key in memory fits the paths in force |
| Profiles (`backend/core/profiles.py`) | registry file, environment paths | create, activate, record | sign-in, `scripts/new_profile.py` | as above | the same, and the last used profile was signed in to |
| Instance lock (`backend/core/instance_lock.py`) | pid file | acquire, release | lifespan | read, check, write | one backend per data directory |
| Pinned executor (`backend/core/pinned_executor.py`) | queue, worker thread | submit, shutdown | every socket | submit racing shutdown | every future settles |
| Vector store (`backend/memory/vector_store.py`) | documents registry, Chroma chunks | ingest, delete, check, rebuild | REST, catch-up | crash between the two stores | the registry rebuilds the index |
| Model pull (`backend/api/server.py`) | pull state | start, poll | Ollama | two starts | one pull at a time |
| Key and backup scripts (`scripts/`) | database files, salt, key file, backups | set password, encrypt, export, restore | files, the backend | crash between two files, a history of other scripts | the database stays openable, nothing written is lost |
| Repair and seed scripts (`scripts/`) | rows | merge projects, seed, clean up | a stopped backend | | merge in DecisionLog, clear_poisoned_snapshot in Recall, the rest not modelled |
| Clients, installer, launchers (`frontend/`, `installer/`, `*.ps1`) | UI state | | REST, WS | | not modelled |

## 2. Plan

Modules, in order; each is parameterised by its sets of actors and names, keeps
one action per operation, and has its MC module and .cfg files.

1. `SessionLifecycle` with the abstract table `PendingQueue` (done): the turn's
   way from a socket to an Observer pass. Proofs: types, evidence, refinement,
   completeness of recovery.
2. `DecisionLog` (done): the write paths between connections, the FTS index,
   promotion in two commits. Proofs: types, no duplicates, promotions are logged,
   answers stand.
3. `MemoryGovernance` (done for preferences and skills): constitution,
   validation, profile update, pending confirmations, verification. Proofs:
   types, the user's word, corroboration, the queue of questions.
4. `DocumentIndex` (done): one document in four places across crashes, and the
   start-up check and rebuild beside requests. Proofs: types, the index against
   the registry, the bytes, what a start and a rebuild repair.
5. `ChatTurn` (done): one turn from the socket through cache, gate, models and
   stop to the table. It details step 1's `EndTurn` and `Disconnect`. Proofs:
   types, the history, consent, the cache, the stop, the reply that is stored.
6. `SignIn` (done): key, salt, profiles, instance lock and the threads between
   them. Proofs: types, one backend, keys and databases, the profile remembered.
7. `KeyScripts` (done): the files that password change, migration, export and
   restore move. Proofs: types, secrets apart, no data lost, database and salt fit.
8. `ContextAssembly`, `ObserverPass` and `Recall` (done): what a model is shown
   and what is kept of what it answers, composed over chats and starts. Proofs:
   types, no evidence from reading, the best prompt.

Every safety and action property of a passing run is a theorem; what is left to
prove is liveness, which is out of the prover's reach. Left to model: goals,
projects and their merge as tables of their own.

## 3. The modules

### SessionLifecycle and PendingQueue

A turn is the user's message and its reply. `ws_chat` keeps it in memory
(`history`), commits it (`messages`), and after ten idle minutes or at the end of
the socket gives the part it added itself (`history[observed_prefix:]`,
`Evidence`) to an Observer pass; then `conversations.observed_at` is set
(`observed`). A shutdown and `POST /auth/lock` take a snapshot of the registry
and put each open session's evidence in `pending_observer` (`queue`). After a
start or an unlock a catch-up thread first queues the conversations whose
`observed_at` is NULL and then drains the table.

| Code | Model |
|---|---|
| one `ws_chat` handler, its locals and the registry entry | a `Connection` `w` with `pc`, `conversation`, `history`, `prefix`, `unseen` |
| accept, message, pipeline, `append_message` | `OpenSocket`, `BeginTurn`, `EndTurn`, `CommitTurn` |
| idle timeout, end of the socket, `run_observer_now` | `IdleTimeout`, `Disconnect`, then `PassReturns` and `MarkObserved`, or `PassRaises` |
| `auth_lock`, lifespan shutdown, `enqueue_for_shutdown` | `LockBegins`/`StopBegins`/`StopSnapshots`, `EnqueueSession` per session, `LockEnds`/`StopEnds`, `Exit` |
| process death, start, unlock | `Kill`, `Start`, `Unlock` with `StartCatchUp` |
| `recover_unobserved_conversations` | `ListUnobserved`, `RecoverConversation`, `MarkRecovered` |
| `drain_pending_on_startup` | `ListForDrain`, `TakeRow`, then `RowReturns` and `CompleteRow`, or `DeferRow`, `FailRow`, `CatchUpFaults` |
| `delete_conversation` | `DeleteConversation` |

A step ends where the code commits or gives up its thread, so a kill, a deletion
or another actor can come between any two commits. `read`, `own` and `promised`
are history: what the passes have taken as evidence, what was said on a socket
since its last pass, how many rows were in the table at the last unlock.
`Allowed` names which events of the environment an instance permits; the
theorems on types, evidence and the table hold for every `Allowed`.

`PendingQueue` is the abstract table: rows are appended, taken up, completed only
after the Observer returned, failed, or left for the next drain. It says nothing
of sockets, locks or threads. `SessionLifecycle` implements it with
`returned <- IF catchUp = "finish" THEN {draining} ELSE {}`.

### DecisionLog

Each request (`POST /decisions`, the review screens, an Observer pass) runs on a
connection of its own; a step is one SELECT or one commit. `create_decision` is
`CreateDecision`, `Check` (`route_observer_decision`: confident enough, duplicate,
or queue), `QueueCandidate` or `Recheck` (`insert_decision`'s own duplicate
check), `InsertRow`, `IndexRow`. Two commits make a logged decision because
`_ensure_decision_fts` commits the first INSERT. `promote_pending` is
`PromotePending`, the same insertion, then `MarkPromoted`; `UpdateDecisionState`
and `MergeProjects` are single commits; `RequestFails` ends any request between
two commits. `raced` records that requests overlapped, or that a row became
active without a duplicate check. `Searchable` states that every active row is in
the search index; it does not hold after a failure between the two commits, no
document promises it, and no run checks it.

### MemoryGovernance

A candidate of an Observer pass is recorded (`Observe`), its evidence counted
over sessions (`Reinforce`), and judged (`Validate`: behavioral override, the
thresholds by the profile's age, gated fields, conflict with a confident value).
It is then written (`WriteApproved`), queued for the user unless the same
question is there (`LookForDuplicate`, `QueueCandidate`), or discarded, which logs
a contradiction if an inference disagrees with a stated value (`Discard`,
`LogContradiction`). A session's start counts it and, each `Frequency`-th time,
queues the least certain values for verification (`BeginSession`, `ReadNumber`,
`SelectFields`, `QueueVerification`). The user corrects and deletes (`Correct`,
`Delete`) and answers the queue: `ResolvePending`, `Apply`, `MarkAnswered`, or
`DismissPending`, for a verification question `Retire`, and `MarkAnswered`. The
commits of one answer are separate steps, and `RequestFails` can end it after any
of them.

`spoken` is what the user last gave as a field's value, `stated` every value that
was once explicit or attested, `raced` whether requests overlapped.

### DocumentIndex

A document is its `file`, its row in `registry`, the row's `bytes`, and its
chunks in ChromaDB (`index`). A step is one file operation, one ChromaDB call or
one commit. `ingest_document` is `Read`, `Clear`, `Embed`, `Record` or `Refused`,
`Store`; a deletion is `Find`, `Unindex`, `Remove`; every connection backfills
missing bytes on opening (`Backfilled`). The catch-up thread is `Check`
(`check_consistency`), `PutBack` and `CommitPutBack` (`materialise_documents`, one
transaction whose lock makes other writers wait), and then an ingest of each
document of a list read once (`NextDocument`). `Raise`, `Kill`, `LoseIndex` and
`Edit` are what may go wrong. `astray` and `torn` are history: paths at which the
code leaves chunks or bytes behind that nothing repairs, which the properties
name and leave out; `calm` says that nothing but the catch-up has acted.

### ChatTurn

The handler empties its queue, asks the pipeline's generator for one event on a
thread, and sends it: `Drain`, then one of the steps of `Handles`. The generator
is a program counter in `turn`: `Route`, `Lookup`, `Recall` (a cached reply) or
`Retrieve`, `Search`, `Gate`, `Hint`, `Token` and `Done` or `ProviderFails`,
`Deliver`; then the handler stores (`KeepUser`, `KeepReply`). `Stop`, `Leave`,
and the changes of decisions, consent, endpoints and cache (`Others`) fall
between any two of them. A text is the sequence of the models that spoke its
tokens. `asked`, `agreed`, `whole` and `late` are history.

### SignIn

A key is the pair of the password and the salt it was derived from, or a random
one of the time before there were passwords (`OldKey`): an installation begins
empty, in plain text, or sealed with such a key and without a salt. The routes
run partly on the event loop and partly in threads, so a request (`req`) is a
sequence of steps between which others run, and each step reads the paths
(`active`) as they are then: `AskToOpen`, `Derive`, `Verify`, `Keep`, `Export`,
`Remember` for `/auth/unlock`; `Choose` and `CreateSalt` before `Keep` for
`/auth/setup`; `AskProfile`, `Switch`; `AskLock`, `Forget`, `Pop`. Every other
route and the catch-up open the database with the environment's key
(`RouteOpens`, `CatchUpOpens`). `Launch`, `Claim`, `Exit` and `Kill` are a
process and its lock file; a launch may find any key there has been in its
environment, and `Claim` adopts it untried (`adopt_environment_key`), which
`found` records. `Register`, `ScriptSalts`, `ScriptCreates` are
`new_profile.py`. A database is `Reachable` where the salt of its key lies beside
it; the properties say of such databases what the code can keep, and of the others
no more than it does keep: the key of a sign-in goes with the salt. `Unruly` names what the environment does not keep to; the pass
run has it empty, and each member breaks a property, which section 6 tells.

### KeyScripts

The files of one installation, each with the key that opens it (`seal`) and the
number of the last write in it (`data`). A script is a program counter with what
it carries in memory; between its steps, each one move or one write, it may be
stopped (`Stop`), a move may be refused (`PutBack`), and the backend may be
signed in to and written to where the script does not look. `Migrate` and
`CurrentKey` take a key of the shell (`PIP_DB_KEY`) first, as their scripts do: a
password change any that opens the database, a migration in the passing run only
that of the key file ("shell" in `Unruly` lifts this). `heads` is history:
the last write of every line of versions, a restore starting a new one. `Unruly`
is as in `SignIn`.

### ContextAssembly, ObserverPass and Recall

`ContextAssembly` is `stage_07.run` over numbers of words: each section cut to
its budget (`Offered`), then the loop that drops from the lowest rank up
(`Fitted`). `IsBest` is its reference: of all the prompts the ranks allow, the
largest that fits. `ObserverPass` is `stage_11.run` and the gates of
`run_session_end` over a transcript of turns that say at most one thing: cap,
grounding, echo, what was said in this stretch, whether the snapshot may be
replaced.

`Recall` puts them together: one chat at a time is opened, resumed, spoken in
and left; a pass runs at once (`Observe`), from the queue (`DrainRuns`) or not at
all; every question (`Ask`) is put with a prompt of the history, the snapshot and
whatever was found. The commits are those of the code: a pass and its mark
(`Observe`, then `Idle` or `Leave` with `Marks`, which may fail), the recovery's
list, its row and its mark (`List`, `Recover`, `RecoverMarks`), a drained row and
its completion (`DrainRuns`, `DrainCompletes`), with a kill possible between any
two of them. A sign-out (`Lock`) queues what the open socket has not had observed
and leaves the socket as it is, so that its own pass takes the same turns again.
`SessionLifecycle` says which turns a pass is given, with any number of sockets;
`Recall` what becomes of them. `counted`, `said`, `spent` and `again` are history:
`spent` says that the unobserved turns of a chat or a row have been put up, to a
pass or to a queue, and `again` how often that happened to turns it had happened to
before. The code does so in the ways above, and each time a thing may be counted
once more; `EvidenceWasSaid` says that nothing else makes it.

## 4. The runs

| Run | Question | Instance |
|---|---|---|
| `lifecycle_evidence` | Does the Observer get exactly a socket's own turns, and is the table used as promised? | two sockets, one conversation, two turns, two starts, one lock; resume, idle, failing passes, lock, kill, fault, early |
| `lifecycle_recovery` | Is nothing lost, and is everything recovered? | one socket, two conversations, two turns, three starts; failing passes, failed and deferred rows, kill, stop, delete; password |
| `decisions_requests` | Do the duplicate checks hold between connections and failures? | two connections, one text, two projects, two rows, two candidates |
| `governance_profile` | Is the user's word kept, and an inference corroborated? | one preference, two values, ages 2, 4 and 6 weeks, two sessions, empty queue |
| `governance_questions` | Is a question asked once and answered once? | one gated skill, two values, ages 2 and 4 weeks, two sessions, two questions |
| `documents_index` | Does search answer from the registry, and does a start or a restore repair it? | two request threads, two names and a directory, two contents of one and two chunks, two requests, edits, starts and failures |
| `chat_turns` | Is what is stored what was shown, with nothing used that was not agreed to, and does every turn end? | one socket, the local model and one endpoint, two tokens, two messages, one stop or departure, two changes, one failure |
| `signin_profiles` | Does one backend serve, and does a sign-in's key fit the files it points at? | new, plaintext and random-key installations, any key at a launch; two processes, three starts, two profiles, two passwords, two requests in flight, five in all, three salts |
| `keys_scripts` | Does the data outlive the scripts? | every era of installation, four runs of the scripts, two passwords, two writes, five salts and keys; without the situations of section 6, item 12, and the stop of item 2 |
| `recall_chats` | Is reading never hearing, and is the prompt the best that fits? | one thing to be said, two questions, two starts, one repetition (`again`), transcripts a turn too long, twelve kinds of input |
| `lifecycle_idle_loss`, `keys_rekey_lost` | The first two findings of section 6. | one socket, or one script, as small as shows it |

Why the bounds are enough. Two sockets meet in one conversation (a second tab),
and one lock and one kill fall between any two of their steps; two turns tell a
prefix from a suffix and an earlier pass's turn from a later one. Three starts
allow a kill during the recovery from a kill. Two rows of the log, or of the
queue of questions, are the duplicate and its original. Ages 2, 4 and 6 weeks
are one for each threshold, and from 2 to 4 the fourteen days of the override
pass; two sessions are the smallest corroboration. `governance_profile` has no
room in the queue (a queued candidate ends with `RequestFails`), so what answers
do to the profile is left to `governance_questions` and the theorems. In both,
one connection runs at a time but the user's corrections and deletions fall
between its steps; overlapping passes are covered by the theorems, which hold for
any number of connections.

`documents_index`: two names of one directory and one of them in another give
the collision of `materialise_documents`; a content of two chunks can lose one;
the second start repairs what the first left, with two failures before it.
`chat_turns`: two messages are a turn and its repetition from the cache; two
tokens leave one to be stopped between; the second model is the fallback.
`signin_profiles`: two requests and a catch-up in flight are the smallest crossing
of three threads; three starts are a start, its successor and a rival; the third
salt is the one that would replace another. `keys_scripts`: with four runs every
script can follow every other around a backup and its restore. `recall_chats`:
one sign-out, lost mark, stale list or repeated drain is within `MaxAgain`, the
theorem has any number of them;
two questions make a chat resumed after a pass, and a transcript that is cut
(`MaxTranscript` is less than two exchanges); its budgets are chosen so that
inputs fit, fit in part, and leave no room at all.

Every bound on what the environment does (the `Max...` constants) is a CONSTANT
in a guard. The deadlock check is off in the runs whose bounds end: the last
start is not followed by another, and a user may have nothing more to say.
Symmetry is used on connections, conversations, texts, values, passwords, random
keys, processes and request threads where only safety is checked.

Fairness. In `lifecycle_recovery` the user starts PIP again and signs in
(`Start`, `Unlock`); a lock and a shutdown, which are loops without waiting, run
to their end (`EnqueueSession`, `LockEnds \/ StopSnapshots \/ StopEnds \/
Exit`); the catch-up thread goes on, whatever becomes of a row (`CatchUpSteps`).
A row's pass ends because the provider clients have timeouts, but it may end in
any of its three ways. Nobody is obliged to speak, to disconnect, or to make a
model answer. The bound on starts is where the model differs from the world: the
last run of the backend is not killed, so every behaviour has a last catch-up
that can finish. In `chat_turns` the handler of a socket goes on (`Handles`: a
provider's client has timeouts, so a model speaks or fails) and its idle timer
runs out (`IdleTimeout`, `asyncio.wait_for`); a client need not stop, leave or ask.

## 5. The proofs

All theorems hold for every value of the constants that satisfies the named
assumptions (bounds are naturals, `None` is not a member, gated fields are fields).

`SessionLifecycleProofs`. `IndInv` is `TypeOK` with `SocketControl` (which locals
a handler has at which `pc`) and `DrainControl` (the row being drained is in the
list, is "processing", and every row of the list is open). The type invariant alone is not inductive:
`CompleteRow` writes to `queue[draining]`, which needs `draining` to be a row, and
a marked conversation must be one.
`EvidenceCorrect` adds `EvidenceIsOwn` itself, by the lemma on the slice of an
appended sequence. `Refinement` shows that each step is a step of `PendingQueue` or
leaves the table alone; `TakeRow` is where it matters that every row of the work
list is open.

In the same module, `RecoveryIsComplete` is `NothingLost` for instances without
"resume", "idle" and "early" (`Calm` in the theorem): each
conversation then belongs to one socket. The invariant `RecoveryInv` says that a
socket has its conversation to itself and every turn committed there was said on
it (`Rows`, `Sessions`), nobody is served while recovery queues and marks
(`Recovery`), and each turn of an observed conversation is read or queued
(`Accounted`). Without `Calm` the property is false, which `lifecycle_idle_loss`
shows.

`DecisionLogProofs`. All rest on `Inv`, which `TypeCorrect` reads the types from. `PromotionLogged` holds with races: a request that is about
to mark has its candidate's text in the log. `SerialUnique` needs the
strengthening that, without races, at most one request is under way (`Alone`) and
one that is about to insert has no active duplicate (`Fresh`). `AnswersStand` is the
action property `AnswerStands`: what a user answered of a candidate is not answered
again. It needs, without races, that a request at work on a candidate has one that
is still unanswered (`Unanswered`); the step that answers is then the last of its
request, and nobody else is under way.

`MemoryGovernanceProofs`. All rest on `TypeInv`, the type invariant with what a
request carries at each step. `InferencesRepeated` holds with races: evidence of two
or more that a validated candidate carries comes from the log or from a stored
row, and either way the value was seen in two sessions or stated (`Earned`);
both histories only grow. `WordsStand` (`WordInv`): a value the user gave is stored
with evidence 5 (`Kept`), and while no requests overlap a candidate that differs
from it has evidence 1 (`Careful`). In the first two weeks such a candidate passes
the threshold, but the row's confidence of 0.9 sends it to the user; later
evidence 1 is not enough. The row may meanwhile be relabelled as an inference
by a candidate of the same value, and its confidence fall to 0.4, but only after
those two weeks, and weeks do not go back. Gated fields are never written
unasked. `QuestionsDistinct` and `AnswersFinal` (`QueueInv`): while no requests
overlap, what a request is about to ask is not in the queue (`Unasked`) and what
it is about to answer is still open (`Open`).

`SignInProofs`. `TypeCorrect` needs what a request carries at each step
(`Formed`: a request that keeps a key has one), and holds for any `Unruly`.
`OneServes` assumes only that starts do not overlap: then one process lives, and
the lock of the one that serves is its own (`OneLive`), since a start is let
through only by a lock that is free, its own or left by a process that is gone.
`KeyFits`, `DataReachable` and `RememberedWasSignedIn` assume `Unruly = {}` and rest
on one invariant, `Consistent`: a request that moves the process is alone
(`Turns`), so the process still points at the profile a sign-in was made for
(`OnActive`) and `new_profile.py` is at another (`Apart`); every key of a sign-in,
held, exported or in a request's hand, is derived from the salt of the active
profile and opens its database if any password does (`Fitting`), and all of them
are one key (`OneKey`). A key the launch found is outside of this, and while the
environment has it nobody can sign in before signing out takes it away
(`AsLaunched`). No salt was used before it was written (`Written`), so that a new
one makes no database reachable by accident. What makes this inductive is
`Sealed`: sign-ins to one profile overlap, and while one has yet to open the
database, a key that another has kept already opened it, so a second password
cannot be let in beside the first. `Steps` orders the two assignments of signing
in and out, between which alone the environment differs from the key. The
theorems say nothing of a database no password reaches but that the key of a
sign-in goes with the salt beside it; that it opens nothing there is item 13 of
section 6.
Which property each member of `Unruly` breaks is told in section 6.

`DocumentIndexProofs`. `TypeInv` adds to the types what a thread has looked up
by each step. `IndexHolds` rests on two more: at most one active row has a path,
also once the open transaction is committed (`KeyInv`), and two threads at one
path, or a row that was given another path under its thread, are in `astray` and
`torn` (`TouchInv`). Then `IndexInv` says, step by step, what a thread has left at
its path: nothing after the clearing, all chunks of what it read after the
embedding; and a path nobody is at agrees with its row. `BytesHold` is the same
for `bytes`. Both hold for any threads, crashes and edits. `StartHolds` and
`ComeBackHolds` (`StartInv`) assume `OwnDirIsInside`: that the directory a document
is put back into lies inside `DOCUMENTS_ROOT`. The rebuild refuses a path outside
of it (`Inside`), so without the assumption the documents put back are never
indexed; the code has it false for every profile but the default one
(`vector_store.py:283`, a hazard in `PROJECT.json`). Under it, while nothing but
the catch-up acts, every row before the one being put back has its file
(`PuttingBack`), and each active row is still to be ingested, has no file, is being
worked on, or has all its chunks (`Found`).

`ChatTurnProofs`. `Typed` adds that a turn at work has its question, and a chain
where it asks models. `HistoryHolds` (`StoredInv`): from the first step of a turn to
the last the memory is an end of the table. `ConsentHolds` (`AgreedInv`): a consent
row tells what the user said (`ConsentTells`), what is agreed to now counts for
every turn at work, and the rest of a chain was agreed to when the gate made it.
This invariant was not inductive at first: with more changes than the run's two, an
endpoint saved, saved again under the other locality and so left with the first
one's consent row is used without a word of the user. `AgreedNow` therefore names
such endpoints (`relabelled`) and leaves them out. `StopHolds` (`StopInv`): a stop that
reached the queue is in it or has been read until no token is left to send.
`CacheHolds` (`CacheInv`): a reply on its way into the cache ended well.
`ReplyHolds` is the action property `ReplyIsWhatWasShown`. Its invariant (`ShownInv`)
relates, at each step of a turn, what the events add up to with the reply so far
(`Fits`): the same text while models speak, all of it and of the one model in front
of the chain; nothing and then everything for a cached reply; and at the end a last
event that a reply may be stored after. That the texts of one more event add up to
one more text (`JoinedWithMore`) is an induction over the library's recursive
`FlattenSeq`, done by the least position at which two ways of joining would differ
(`LeastOfNumbers`, `JoinsAgree`).

`KeyScriptsProofs`. `TypeInv` says what a script carries (`Shape`), that salts are
numbered as they are made, so that a new one is none of those in place or aside
(`SaltsApart`), and that a password change and a restore use a password of their
own (`Apart`); its premise is that the backend does not write between the renames
of a migration ("beside" not in `Unruly`). `SecretsKept` follows. `NothingIsLost` and
`PairFits` assume `Unruly = {}`, so that a migration's key is also on disk
(`OnDisk`), and rest on `DataInv`: the pair in place fits, and
during a restore the pair that would be put back does (`FitsInv`); every last write
is in a file that something opens (`HeldInv`); what is aside opens without the salt
in place, and without the key file wherever a change of password could let go of
it (`AsideInv`), which is what the two findings "stale key" and "torn" of section 6
break.

`RecallProofs`. `EvidenceHolds` is an argument by accounts. `Owed(f)` is the number of
places where a thing waits to be counted: rows no pass has run over, earlier chats
the next start will queue, and the present chat, in whole while it is not marked
and afterwards in what its socket said last. The invariant `Ledger` says that
`counted[f] + Owed(f) <= said[f] + again`: a start moves chats to rows, a pass
turns a debt into a count, and a resumed chat owes nothing (`Shape`: a socket with
nothing unobserved has a prefix as long as its history). What has been put up is
`spent` and owes no more where it came from, though it may still be there: after
a sign-out that leaves the socket its turns, a pass or a recovery whose mark was
lost, a list read before the mark, a drained row that was not completed. When it
is put up once more `again` counts that, which pays for the debt it makes; so does
a clean stop, which leaves the chat unmarked. The
lemmas count places in sequences (`HitsOfBoth`) and trace a candidate back through
the cap, the grounding and the slice behind the prefix (`HandedWasSaid`).

`PromptHolds`, in the same module, is `PromptIsBest`. Its core is a theorem about the
algorithm alone, `FittedIsBest`: for any sections and any room, a negative one
included, the loop leaves the best of `Keepings`. The cases are where the loop stops:
all fits; the web results go; the history is cut to its longest end that fits, which
has at least the words of every shorter one (`ShorterEnd`); or that end is empty and
sections go from the lowest rank until one fits, or nothing is left. Below it are the
folds of the community modules, recursive functions on the subsets of a finite set,
which the prover knows nothing of: that such a function exists is shown by the least
size at which it would not (`FoldExists`), that two of them agree by the least size
at which they would differ (`FoldsAgree`). With these, a `FoldLeft` is its steps in
turn (`TakenInTurn`, `LoweredInTurn`, `FittedInTurn`), and `Total`, which takes the
words in an order nobody knows, is the same in any (`AnyOrder`), so that the end of a
sequence has no larger a total than the whole (`TotalOfEnd`). The recap that is shown
wherever there is one and no live history is the floor of `SnapshotBudget`
(`SnapshotIsShown`). As an invariant `PromptIsBest` is inductive with the types: only
`Ask` makes a prompt, and the history does not change while it stands.

Left to TLC: the liveness properties (`UnobservedIsRecovered`, `WaitingIsTakenUp`,
`TurnsEnd`, `TurnsAreObserved`), since the prover does not reason about ENABLED
and fairness.

## 6. Findings

Each of the first two has its run and its entry, with the quoted line, in
`PROJECT.json`. The others are statements TLC refutes too, with the same modules
and a configuration as small; they are definitions of the modules where they are
named below, and no run checks them.

1. `lifecycle_idle_loss`: an idle pass that raises after an earlier one succeeded
   loses its turns. The comment in `api/server.py:1377` counts on recovery, but
   recovery looks for `observed_at IS NULL` and the flag is already set.
2. `keys_rekey_lost`: `set_db_password.py` replaces `salt.bin` before the rekey. A
   stop in between, or a rekey that fails, leaves a database whose salt is gone,
   against "if the rekey fails partway, the old key still works".
3. `QueuedOnce` (SessionLifecycle): a clean shutdown queues a session and does
   not mark its conversation, so the next start queues it again.
4. `UnlockTakesUp` (SessionLifecycle): a lock during a running catch-up leaves
   rows that the next unlock does not drain, since it starts no second catch-up.
5. `ActiveOnce` (DecisionLog): re-activating a retracted decision is a write path
   without the duplicate check.
6. `RetiresWhatItAsked` (MemoryGovernance): "no" to a verification question
   retires the field's present value, also when the user has corrected it since
   the question was asked.
7. `OrphansComeWithDrift` (DocumentIndex): an ingest cut off before its row leaves
   chunks of no document, and the start's check, which looks at registered
   documents only, sees no drift.
8. `DecisionsOverride` (ChatTurn): the cache is looked into before the decision
   log, so an answer given before a decision is served after it, against
   `core/response_cache.py:7`.
9. `LeavingIsNoticed` (ChatTurn): what is in the queue when it is emptied is
   dropped, the mark of a departed client included; after the turn's last event
   the handler waits for good.
10. `KeyIsForActive` with `Unruly = {"signed in"}` (SignIn): an unlock or setup
    request that names another profile re-points the process while a key is held;
    only `/auth/profile` looks.
11. The other members of `Unruly` in SignIn: "starts" lets two overlapping starts
    through the lock's read and write (`OneBackend`); "requests" lets a setup or a
    sign-out overtake an unlock under way (`KeyIsForActive`); "script" lets
    `new_profile.py` replace a salt set up in the application meanwhile
    (`DataStaysReachable`).
12. The other members of `Unruly` in KeyScripts: "plain" has `set_db_password.py`
    run on a plaintext database, which leaves a salt and cannot encrypt
    (`LiveOpens`); "stale key" has a password change unlink a key file that was
    the only key of a superseded database, "torn" has it replace the only salt
    after a restore was killed half-way (`DataSurvives`); "beside" has the
    backend write between the two renames of a migration; "shell" has a migration
    encrypt under a key that is in the shell's environment and nowhere on disk
    (`LiveOpens`).
13. `KeyOpens` (SignIn), with `Unruly = {}`: over a database of the random-key era,
    which has no salt, `session_key.state` answers "setup" ("no salt and no data",
    `core/session_key.py:138`), and `set_initial_password` writes a salt and keeps a
    key it has not tried, which opens nothing; `_remember_profile` then records the
    profile, against "This runs after a key has been proven to open the database"
    (`api/server.py:1638`).
14. `EvidenceWasSaid` without `again` (Recall): what was said once is counted twice
    when a sign-out queues the turns of a socket that then leaves, when a kill or an
    error falls between a pass and its mark, between a recovered row and its mark
    or between a drained row and its completion, when recovery reads its list
    before a pass marks the chat, or when a clean stop's row and the next start's
    recovery both have the chat.

Also met: `newest_backup` takes the last name, and a second backup of a day sorts
before the first; `install` of a restore moves `pip.db` but not its `-wal` file;
an older session's row, drained later, replaces a newer snapshot.

## 7. Abstractions, and what is not modelled

- A turn is committed as one message; a reply dropped when the client leaves
  mid-stream is dropped whole. The streaming protocol belongs to `ChatTurn`.
- A failing INSERT during a shutdown's or a lock's enqueueing is not modelled, nor
  a shutdown that starts while a lock is enqueueing.
- "superseded" and "abandoned" decisions are one state; FTS5 is present.
- A text is a normalized text and a value a model value: normalization and
  string comparison are not modelled. In `ObserverPass` a turn says one thing or
  none, and a quote is grounded where somebody said it, the model included, as
  in the code.
- `user_verified` and `user_correction` are one label; evidence stops at 5, where
  every rule and the stored confidence stop looking.
- A read that fails by itself (`_fetch_existing_state` answers None) is a hazard no
  property covers; `RequestFails` ends the request instead. A failing write of an
  observation is modelled as the code has it: done without.
- Goals, topics, tools, interaction style, projects and identity have write rules
  of their own and are not in `MemoryGovernance`.
- `SignIn` has passwords that never collide, and a salt is read or written at
  once. `KeyScripts` has no write-ahead log (a write is in the database at once)
  and no vector index; `derive_db_key.py` only reads.
- `DocumentIndex` leaves out how a query ranks; a document's text is its content.
- `ChatTurn` leaves out stage events, the words of a reply, and endpoints saved
  again under the other locality (`relabelled`), which no route does yet.
- `Recall` has one chat open at a time, so a recovery that runs beside open sockets
  meets one of them; `SessionLifecycle` has the overlaps of several. An exchange is
  kept whole; `ChatTurn` has replies that fail.
- `export_backup.py` reads `PIP_DB_KEY` too, and `KeyScripts` leaves that branch out.
- Not modelled at all: providers (HTTP clients, an environment choice where they
  are used), classification and ranking, the model pull, trace and settings, the
  API token, the pinned executor's own code; clients, installer, launchers and
  one-off scripts (no concurrent state). `PROJECT.json` gives the reason for each.
