--------------------------- MODULE SessionLifecycle ---------------------------
(***************************************************************************)
(* The life of a chat session in the backend process, from its first turn  *)
(* to the Observer pass (Stage 11) that learns from it, across idle        *)
(* timeouts, disconnects, sign-outs, clean shutdowns, kills and restarts.  *)
(*                                                                         *)
(* Actors:                                                                 *)
(*   - one ws_chat handler per open WebSocket (backend/api/server.py),     *)
(*     holding the conversation in memory and committing it turn by turn;  *)
(*   - the shutdown half of the lifespan and POST /auth/lock, which put    *)
(*     the open sessions' transcripts in the pending_observer table;       *)
(*   - the catch-up thread, which after a start or an unlock first queues  *)
(*     the conversations that no pass has seen and then drains the table;  *)
(*   - the user and the machine: kills, restarts, deletions.               *)
(*                                                                         *)
(* A turn stands for the user's message and its reply, which are committed *)
(* one after the other and which the Observer reads together.  A           *)
(* transcript is the sequence of its turns.                                *)
(***************************************************************************)
EXTENDS Integers, FiniteSets, SequencesExt

CONSTANTS
  Connection,      \* WebSocket slots: a slot is one socket at a time
  Conversation,    \* rows of the conversations table, used once each
  None,            \* a connection whose conversation row does not exist yet
  MaxTurn,         \* bound: turns said over the whole behaviour
  MaxStart,        \* bound: starts of the backend; the last one is not ended
  MaxLock,         \* bound: sign-outs
  MaxRow,          \* bound: rows the liveness property looks at
  HasPassword,     \* whether an unlock has to come before the data opens
  Allowed          \* what the user, the model and the machine do (Event)

(***************************************************************************)
(* What may happen around the code.  "raise" is an Observer pass of an     *)
(* open session raising (an unreachable model, a bad provider); "defer"    *)
(* and "fail" are the two ways a queued row does not get through; "fault"  *)
(* is any other exception in the catch-up.  "early" lets a socket open     *)
(* while the catch-up is still queueing unobserved conversations.          *)
(***************************************************************************)
Event == {"resume", "idle", "raise", "defer", "fail", "fault", "early",
          "kill", "stop", "lock", "delete"}

ASSUME BoundsAssumption ==
  /\ MaxTurn \in Nat /\ MaxStart \in Nat /\ MaxLock \in Nat /\ MaxRow \in Nat
ASSUME NoneAssumption == None \notin Conversation
ASSUME EventAssumption == HasPassword \in BOOLEAN /\ Allowed \subseteq Event

VARIABLES
  \* The database: what a kill leaves behind.
  row,         \* row[c]: "unused", "present" or "deleted"
  messages,    \* messages[c]: the committed turns of conversation c
  observed,    \* observed[c]: conversations.observed_at is not NULL
  queue,       \* pending_observer, in order of created_at
  \* The process.
  process,     \* "down", "serving", "stopping" or "exiting"
  unlocked,    \* session_key holds the key
  errand,      \* "none", or whose enqueueing is under way: "lock", "stop"
  toEnqueue,   \* the sessions of the registry snapshot not yet enqueued
  \* The ws_chat handlers.
  pc, conversation, history, prefix, unseen,
  \* The catch-up thread.
  catchUp, unrecovered, recovering, toDrain, draining,
  \* History and bound counters.
  said,        \* turns said so far: the next turn is said + 1
  starts, locks,
  read,        \* turns an Observer pass has taken as evidence
  own,         \* own[w]: turns said on socket w since its last pass
  promised     \* rows already in the table at the last unlock or start

dbVars      == <<row, messages, observed, queue>>
processVars == <<process, unlocked, errand, toEnqueue>>
socketVars  == <<pc, conversation, history, prefix, unseen, own>>
catchUpVars == <<catchUp, unrecovered, recovering, toDrain, draining>>
countVars   == <<said, starts, locks>>
vars == <<dbVars, processVars, socketVars, catchUpVars, countVars, read, promised>>

-----------------------------------------------------------------------------

Turn == 1 .. MaxTurn
Transcript == Seq(Turn)

QueueRow == [transcript : Transcript,
             status : {"pending", "processing", "completed", "failed"}]

SocketState ==
  {"closed",      \* no connection in the slot
   "waiting",     \* blocked on the incoming queue, under the idle timeout
   "streaming",   \* the pipeline is answering
   "committing",  \* in history, not yet in the messages table
   "idlePass", "idleMark",    \* the idle timeout's Observer pass
   "leaving",     \* on the way out of the loop, still registered
   "lastPass", "lastMark"}    \* the disconnect's Observer pass

\* The handlers SessionRegistry.snapshot() returns.
Registered == {w \in Connection : pc[w] \notin {"closed", "lastPass", "lastMark"}}

\* history[observed_prefix:], the turns the connection added itself.
Evidence(w) == SubSeq(history[w], prefix[w] + 1, Len(history[w]))

\* Mutant: the JOIN's COUNT compared with 1 instead of 0.
UnrecoveredButShort == {c \in Conversation :
  row[c] = "present" /\ ~observed[c] /\ Len(messages[c]) > 1}

Unrecovered == {c \in Conversation :
  row[c] = "present" /\ ~observed[c] /\ messages[c] # <<>>}

\* What ws_chat leaves in a slot when it returns, or when the process dies.
CloseSocket(w) ==
  /\ pc' = [pc EXCEPT ![w] = "closed"]
  /\ conversation' = [conversation EXCEPT ![w] = None]
  /\ history' = [history EXCEPT ![w] = <<>>]
  /\ prefix' = [prefix EXCEPT ![w] = 0]
  /\ unseen' = [unseen EXCEPT ![w] = FALSE]
  /\ own' = [own EXCEPT ![w] = {}]
  /\ toEnqueue' = toEnqueue \ {w}

Init ==
  /\ row = [c \in Conversation |-> "unused"]
  /\ messages = [c \in Conversation |-> <<>>]
  /\ observed = [c \in Conversation |-> FALSE]
  /\ queue = <<>>
  /\ process = "down" /\ unlocked = FALSE
  /\ errand = "none" /\ toEnqueue = {}
  /\ pc = [w \in Connection |-> "closed"]
  /\ conversation = [w \in Connection |-> None]
  /\ history = [w \in Connection |-> <<>>]
  /\ prefix = [w \in Connection |-> 0]
  /\ unseen = [w \in Connection |-> FALSE]
  /\ own = [w \in Connection |-> {}]
  /\ catchUp = "idle" /\ unrecovered = {} /\ recovering = None
  /\ toDrain = {} /\ draining = 0
  /\ said = 0 /\ starts = 0 /\ locks = 0
  /\ read = {}
  /\ promised = 0

-----------------------------------------------------------------------------
(* The WebSocket handler: ws_chat.                                         *)

\* Accept, _resolve_connection_state and register.  c = None is a new chat;
\* a known id is resumed with every message it has.
OpenSocket(w, c) ==
  /\ process = "serving" /\ unlocked
  /\ pc[w] = "closed"
  /\ "early" \in Allowed \/ catchUp \notin {"begun", "recover", "mark"}
  /\ c # None => "resume" \in Allowed /\ row[c] = "present"
  /\ pc' = [pc EXCEPT ![w] = "waiting"]
  /\ conversation' = [conversation EXCEPT ![w] = c]
  /\ history' = [history EXCEPT ![w] = IF c = None THEN <<>> ELSE messages[c]]
  /\ prefix' = [prefix EXCEPT ![w] = IF c = None THEN 0 ELSE Len(messages[c])]
  /\ UNCHANGED <<unseen, own, dbVars, processVars, catchUpVars, read,
                 countVars, promised>>

\* A message arrives: the conversation row is created now if there is none,
\* and the pipeline starts to answer.
BeginTurn(w) ==
  /\ process # "down"
  /\ pc[w] = "waiting"
  /\ pc' = [pc EXCEPT ![w] = "streaming"]
  /\ IF conversation[w] = None
       THEN \E c \in Conversation :
              /\ row[c] = "unused"
              /\ row' = [row EXCEPT ![c] = "present"]
              /\ conversation' = [conversation EXCEPT ![w] = c]
       ELSE UNCHANGED <<row, conversation>>
  /\ UNCHANGED <<messages, observed, queue, history, prefix, unseen, own,
                 processVars, catchUpVars, read, countVars, promised>>

\* The pipeline is done: the turn is in the handler's memory only.
EndTurn(w) ==
  /\ process # "down"
  /\ pc[w] = "streaming"
  /\ said < MaxTurn
  /\ said' = said + 1
  /\ pc' = [pc EXCEPT ![w] = "committing"]
  /\ history' = [history EXCEPT ![w] = Append(@, said + 1)]
  /\ unseen' = [unseen EXCEPT ![w] = TRUE]
  /\ own' = [own EXCEPT ![w] = @ \cup {said + 1}]
  /\ UNCHANGED <<conversation, prefix, starts, locks, dbVars, processVars,
                 catchUpVars, read, promised>>

\* append_message.  Into a conversation deleted meanwhile the INSERT fails its
\* foreign key, and the exception ends the handler's loop.
CommitTurn(w) ==
  /\ process # "down"
  /\ pc[w] = "committing"
  /\ LET c == conversation[w] IN
       IF row[c] = "present"
         THEN /\ messages' = [messages EXCEPT ![c] = Append(@, Last(history[w]))]
              /\ pc' = [pc EXCEPT ![w] = "waiting"]
         ELSE /\ pc' = [pc EXCEPT ![w] = "leaving"]
              /\ UNCHANGED messages
  /\ UNCHANGED <<row, observed, queue, conversation, history, prefix, unseen,
                 own, processVars, catchUpVars, read, countVars, promised>>

\* Ten idle minutes, with turns no pass has seen.
IdleTimeout(w) ==
  /\ "idle" \in Allowed
  /\ process # "down"
  /\ pc[w] = "waiting" /\ unseen[w]
  /\ pc' = [pc EXCEPT ![w] = "idlePass"]
  /\ UNCHANGED <<conversation, history, prefix, unseen, own, dbVars,
                 processVars, catchUpVars, read, countVars, promised>>

\* The client is gone (a turn being answered is dropped whole).  The handler
\* unregisters and, unless the server is shutting down, runs the Observer.
Disconnect(w) ==
  /\ process # "down"
  /\ pc[w] \in {"waiting", "streaming", "leaving"}
  /\ IF unseen[w] /\ process = "serving"
       THEN /\ pc' = [pc EXCEPT ![w] = "lastPass"]
            /\ UNCHANGED <<conversation, history, prefix, unseen, own, toEnqueue>>
       ELSE CloseSocket(w)
  /\ UNCHANGED <<dbVars, process, unlocked, errand, catchUpVars, read,
                 countVars, promised>>

\* run_observer_now: run_session_end returned.  What it learned is committed
\* before the conversation is marked.
PassReturns(w) ==
  /\ process # "down"
  /\ pc[w] \in {"idlePass", "lastPass"}
  /\ pc' = [pc EXCEPT ![w] = IF @ = "idlePass" THEN "idleMark" ELSE "lastMark"]
  /\ read' = read \cup ToSet(Evidence(w))
  /\ UNCHANGED <<conversation, history, prefix, unseen, own, dbVars,
                 processVars, catchUpVars, countVars, promised>>

\* Mutant: an idle pass resets the flag and the prefix but keeps the history.
AfterPassKeepsHistory(w) ==
  IF pc[w] \in {"idlePass", "idleMark"}
    THEN /\ pc' = [pc EXCEPT ![w] = "waiting"]
         /\ prefix' = [prefix EXCEPT ![w] = 0]
         /\ unseen' = [unseen EXCEPT ![w] = FALSE]
         /\ own' = [own EXCEPT ![w] = {}]
         /\ UNCHANGED <<conversation, history, toEnqueue>>
    ELSE CloseSocket(w)

\* What follows a pass, returned or raised: the idle path forgets what it
\* held and waits again, the disconnect path closes.
AfterPass(w) ==
  IF pc[w] \in {"idlePass", "idleMark"}
    THEN /\ pc' = [pc EXCEPT ![w] = "waiting"]
         /\ history' = [history EXCEPT ![w] = <<>>]
         /\ prefix' = [prefix EXCEPT ![w] = 0]
         /\ unseen' = [unseen EXCEPT ![w] = FALSE]
         /\ own' = [own EXCEPT ![w] = {}]
         /\ UNCHANGED <<conversation, toEnqueue>>
    ELSE CloseSocket(w)

\* mark_observed on a conversation deleted meanwhile updates no row.
MarkObserved(w) ==
  /\ process # "down"
  /\ pc[w] \in {"idleMark", "lastMark"}
  /\ observed' = [observed EXCEPT
                    ![conversation[w]] = @ \/ row[conversation[w]] = "present"]
  /\ AfterPass(w)
  /\ UNCHANGED <<row, messages, queue, process, unlocked, errand, catchUpVars,
                 read, countVars, promised>>

\* Mutant: the mark is made in a finally clause.
PassRaisesMarked(w) ==
  /\ "raise" \in Allowed
  /\ process # "down"
  /\ pc[w] \in {"idlePass", "lastPass"}
  /\ observed' = [observed EXCEPT
                    ![conversation[w]] = @ \/ row[conversation[w]] = "present"]
  /\ AfterPass(w)
  /\ UNCHANGED <<row, messages, queue, process, unlocked, errand, catchUpVars,
                 read, countVars, promised>>

\* The pass raised: nothing is marked, and both paths log it and go on.
PassRaises(w) ==
  /\ "raise" \in Allowed
  /\ process # "down"
  /\ pc[w] \in {"idlePass", "lastPass"}
  /\ AfterPass(w)
  /\ UNCHANGED <<dbVars, process, unlocked, errand, catchUpVars, read,
                 countVars, promised>>

-----------------------------------------------------------------------------
(* Sign-out and shutdown.                                                  *)

\* POST /auth/lock takes the registry snapshot.
LockBegins ==
  /\ "lock" \in Allowed
  /\ process = "serving" /\ unlocked /\ errand = "none"
  /\ locks < MaxLock
  /\ locks' = locks + 1
  /\ errand' = "lock" /\ toEnqueue' = Registered
  /\ UNCHANGED <<process, unlocked, said, starts, dbVars, socketVars,
                 catchUpVars, read, promised>>

\* enqueue_for_shutdown for one session of the snapshot.  The session's flag
\* and history are left as they are.
EnqueueSession(w) ==
  /\ process # "down"
  /\ w \in toEnqueue
  /\ toEnqueue' = toEnqueue \ {w}
  /\ IF unseen[w] /\ Evidence(w) # <<>>
       THEN queue' = Append(queue, [transcript |-> Evidence(w), status |-> "pending"])
       ELSE UNCHANGED queue
  /\ UNCHANGED <<row, messages, observed, process, unlocked, errand, socketVars,
                 catchUpVars, read, countVars, promised>>

\* session_key.lock().  The sockets that are open stay open.
LockEnds ==
  /\ errand = "lock" /\ toEnqueue = {}
  /\ errand' = "none" /\ unlocked' = FALSE
  /\ UNCHANGED <<process, toEnqueue, dbVars, socketVars, catchUpVars, read,
                 countVars, promised>>

\* The lifespan sets shutting_down and detaches from the catch-up task, whose
\* thread keeps running.
StopBegins ==
  /\ "stop" \in Allowed /\ starts < MaxStart
  /\ process = "serving" /\ errand = "none"
  /\ process' = "stopping"
  /\ UNCHANGED <<unlocked, errand, toEnqueue, dbVars, socketVars, catchUpVars,
                 read, countVars, promised>>

StopSnapshots ==
  /\ process = "stopping" /\ errand = "none"
  /\ errand' = "stop" /\ toEnqueue' = Registered
  /\ UNCHANGED <<process, unlocked, dbVars, socketVars, catchUpVars, read,
                 countVars, promised>>

StopEnds ==
  /\ errand = "stop" /\ toEnqueue = {}
  /\ errand' = "none" /\ process' = "exiting"
  /\ UNCHANGED <<unlocked, toEnqueue, dbVars, socketVars, catchUpVars, read,
                 countVars, promised>>

\* Everything that lives in the process's memory is gone.
ProcessEnds ==
  /\ process' = "down" /\ unlocked' = FALSE
  /\ errand' = "none" /\ toEnqueue' = {}
  /\ pc' = [w \in Connection |-> "closed"]
  /\ conversation' = [w \in Connection |-> None]
  /\ history' = [w \in Connection |-> <<>>]
  /\ prefix' = [w \in Connection |-> 0]
  /\ unseen' = [w \in Connection |-> FALSE]
  /\ own' = [w \in Connection |-> {}]
  /\ catchUp' = "idle" /\ unrecovered' = {} /\ recovering' = None
  /\ toDrain' = {} /\ draining' = 0
  /\ promised' = 0
  /\ UNCHANGED <<dbVars, read, countVars>>

\* The interpreter joins the catch-up thread, and abandons the daemon threads
\* of the sockets.
Exit ==
  /\ process = "exiting" /\ catchUp = "idle"
  /\ ProcessEnds

Kill ==
  /\ "kill" \in Allowed /\ starts < MaxStart
  /\ process # "down"
  /\ ProcessEnds

-----------------------------------------------------------------------------
(* Starting, unlocking, and the catch-up thread.                           *)

\* _start_catch_up: a second one is not started while one is running.
StartCatchUp ==
  /\ catchUp' = IF catchUp = "idle" THEN "begun" ELSE catchUp
  /\ promised' = Len(queue)
  /\ UNCHANGED <<unrecovered, recovering, toDrain, draining>>

Start ==
  /\ process = "down"
  /\ starts < MaxStart
  /\ starts' = starts + 1
  /\ process' = "serving" /\ unlocked' = ~HasPassword
  /\ IF HasPassword THEN UNCHANGED <<catchUpVars, promised>> ELSE StartCatchUp
  /\ UNCHANGED <<errand, toEnqueue, dbVars, socketVars, read, said, locks>>

\* POST /auth/unlock with the right password.  Sockets that outlived the lock
\* are the "early" case: the client drops its socket when it is signed out.
Unlock ==
  /\ process = "serving" /\ ~unlocked
  /\ "early" \in Allowed \/ Registered = {}
  /\ unlocked' = TRUE
  /\ StartCatchUp
  /\ UNCHANGED <<process, errand, toEnqueue, dbVars, socketVars, read, countVars>>

\* recover_unobserved_conversations reads its list once.
ListUnobserved ==
  /\ process # "down" /\ catchUp = "begun"
  /\ catchUp' = "recover" /\ unrecovered' = Unrecovered
  /\ UNCHANGED <<recovering, toDrain, draining, dbVars, processVars, socketVars,
                 read, countVars, promised>>

\* One conversation of the list: its messages are read and queued in one
\* commit, and it is marked in the next.  A conversation deleted since has no
\* messages and is passed over.
RecoverConversation(c) ==
  /\ process # "down" /\ catchUp = "recover"
  /\ c \in unrecovered
  /\ unrecovered' = unrecovered \ {c}
  /\ IF messages[c] # <<>>
       THEN /\ queue' = Append(queue, [transcript |-> messages[c], status |-> "pending"])
            /\ recovering' = c /\ catchUp' = "mark"
       ELSE UNCHANGED <<queue, recovering, catchUp>>
  /\ UNCHANGED <<row, messages, observed, toDrain, draining, processVars,
                 socketVars, read, countVars, promised>>

MarkRecovered ==
  /\ process # "down" /\ catchUp = "mark"
  /\ observed' = [observed EXCEPT ![recovering] = @ \/ row[recovering] = "present"]
  /\ catchUp' = "recover" /\ recovering' = None
  /\ UNCHANGED <<row, messages, queue, unrecovered, toDrain, draining,
                 processVars, socketVars, read, countVars, promised>>

\* _list_for_drain reads its list once, too.
ListForDrain ==
  /\ process # "down" /\ catchUp = "recover" /\ unrecovered = {}
  /\ catchUp' = "drain"
  /\ toDrain' = {n \in DOMAIN queue : queue[n].status \in {"pending", "processing"}}
  /\ UNCHANGED <<unrecovered, recovering, draining, dbVars, processVars,
                 socketVars, read, countVars, promised>>

\* The oldest row of the list is marked 'processing'.
TakeRow ==
  /\ process # "down" /\ catchUp = "drain"
  /\ \E n \in toDrain :
       /\ \A m \in toDrain : n <= m
       /\ draining' = n
       /\ queue' = [queue EXCEPT ![n].status = "processing"]
  /\ catchUp' = "run"
  /\ UNCHANGED <<row, messages, observed, unrecovered, recovering, toDrain,
                 processVars, socketVars, read, countVars, promised>>

RowReturns ==
  /\ process # "down" /\ catchUp = "run"
  /\ catchUp' = "finish"
  /\ read' = read \cup ToSet(queue[draining].transcript)
  /\ UNCHANGED <<unrecovered, recovering, toDrain, draining, dbVars,
                 processVars, socketVars, countVars, promised>>

\* What the drain does with the row it is at, before the next one.
FinishRow(status) ==
  /\ queue' = [queue EXCEPT ![draining].status = status]
  /\ catchUp' = "drain"
  /\ toDrain' = toDrain \ {draining} /\ draining' = 0
  /\ UNCHANGED <<row, messages, observed, unrecovered, recovering, processVars,
                 socketVars, read, countVars, promised>>

\* Mutant: the row is called completed while the Observer still runs.
CompleteRowEarly ==
  /\ process # "down" /\ catchUp \in {"run", "finish"}
  /\ FinishRow("completed")

CompleteRow ==
  /\ process # "down" /\ catchUp = "finish"
  /\ FinishRow("completed")

\* Mutant: a status the table's CHECK does not know.
DeferRowRenamed ==
  /\ "defer" \in Allowed
  /\ process # "down" /\ catchUp = "run"
  /\ FinishRow("deferred")

\* RetryableError: the row stays 'processing' for the next drain.
DeferRow ==
  /\ "defer" \in Allowed
  /\ process # "down" /\ catchUp = "run"
  /\ FinishRow(queue[draining].status)

\* Mutant: the except clause leaves the loop.
FailRowBreaks ==
  /\ "fail" \in Allowed
  /\ process # "down" /\ catchUp = "run"
  /\ queue' = [queue EXCEPT ![draining].status = "failed"]
  /\ catchUp' = "drain" /\ toDrain' = {} /\ draining' = 0
  /\ UNCHANGED <<row, messages, observed, unrecovered, recovering, processVars,
                 socketVars, read, countVars, promised>>

FailRow ==
  /\ "fail" \in Allowed
  /\ process # "down" /\ catchUp = "run"
  /\ FinishRow("failed")

CatchUpEnds ==
  /\ process # "down" /\ catchUp = "drain" /\ toDrain = {}
  /\ catchUp' = "idle"
  /\ UNCHANGED <<unrecovered, recovering, toDrain, draining, dbVars, processVars,
                 socketVars, read, countVars, promised>>

\* Any other exception: _catch_up_blocking logs it and the thread is over.
CatchUpFaults ==
  /\ "fault" \in Allowed
  /\ process # "down" /\ catchUp # "idle"
  /\ catchUp' = "idle" /\ unrecovered' = {} /\ recovering' = None
  /\ toDrain' = {} /\ draining' = 0
  /\ UNCHANGED <<dbVars, processVars, socketVars, read, countVars, promised>>

\* DELETE /conversations/{id}: the messages go with the row.
DeleteConversation(c) ==
  /\ "delete" \in Allowed
  /\ process = "serving" /\ unlocked
  /\ row[c] = "present"
  /\ row' = [row EXCEPT ![c] = "deleted"]
  /\ messages' = [messages EXCEPT ![c] = <<>>]
  /\ observed' = [observed EXCEPT ![c] = FALSE]
  /\ UNCHANGED <<queue, processVars, socketVars, catchUpVars, read,
                 countVars, promised>>

-----------------------------------------------------------------------------

Socket(w) ==
  \/ \E c \in Conversation \cup {None} : OpenSocket(w, c)
  \/ BeginTurn(w)
  \/ EndTurn(w)
  \/ CommitTurn(w)
  \/ IdleTimeout(w)
  \/ Disconnect(w)
  \/ PassReturns(w)
  \/ MarkObserved(w)
  \/ PassRaises(w)
  \/ EnqueueSession(w)

Process ==
  \/ LockBegins
  \/ LockEnds
  \/ StopBegins
  \/ StopSnapshots
  \/ StopEnds
  \/ Exit
  \/ Kill
  \/ Start
  \/ Unlock

CatchUp ==
  \/ ListUnobserved
  \/ \E c \in Conversation : RecoverConversation(c)
  \/ MarkRecovered
  \/ ListForDrain
  \/ TakeRow
  \/ RowReturns
  \/ CompleteRow
  \/ DeferRow
  \/ FailRow
  \/ CatchUpEnds
  \/ CatchUpFaults

Next ==
  \/ \E w \in Connection : Socket(w)
  \/ Process
  \/ CatchUp
  \/ \E c \in Conversation : DeleteConversation(c)

Spec == Init /\ [][Next]_vars

(***************************************************************************)
(* What is bound to happen: the user starts PIP again and signs in, a      *)
(* shutdown or a lock runs to its end, and so does the catch-up thread,    *)
(* whatever becomes of each row.  Nothing obliges a model to answer, a     *)
(* user to speak or a client to disconnect.                                *)
(***************************************************************************)
CatchUpSteps ==
  \/ ListUnobserved
  \/ \E c \in Conversation : RecoverConversation(c)
  \/ MarkRecovered
  \/ ListForDrain
  \/ TakeRow
  \/ RowReturns \/ DeferRow \/ FailRow
  \/ CompleteRow
  \/ CatchUpEnds

Fairness ==
  /\ WF_vars(Start)
  /\ WF_vars(Unlock)
  /\ WF_vars(\E w \in Connection : EnqueueSession(w))
  /\ WF_vars(LockEnds \/ StopSnapshots \/ StopEnds \/ Exit)
  /\ WF_vars(CatchUpSteps)

FairSpec == Spec /\ Fairness

-----------------------------------------------------------------------------
(* Properties.                                                             *)

DbTypeOK ==
  /\ row \in [Conversation -> {"unused", "present", "deleted"}]
  /\ messages \in [Conversation -> Transcript]
  /\ observed \in [Conversation -> BOOLEAN]
  /\ queue \in Seq(QueueRow)

ProcessTypeOK ==
  /\ process \in {"down", "serving", "stopping", "exiting"}
  /\ unlocked \in BOOLEAN
  /\ errand \in {"none", "lock", "stop"}
  /\ toEnqueue \subseteq Connection

SocketTypeOK ==
  /\ pc \in [Connection -> SocketState]
  /\ conversation \in [Connection -> Conversation \cup {None}]
  /\ history \in [Connection -> Transcript]
  /\ prefix \in [Connection -> Nat]
  /\ unseen \in [Connection -> BOOLEAN]
  /\ own \in [Connection -> SUBSET Turn]

CatchUpTypeOK ==
  /\ catchUp \in {"idle", "begun", "recover", "mark", "drain", "run", "finish"}
  /\ unrecovered \subseteq Conversation
  /\ recovering \in Conversation \cup {None}
  /\ toDrain \subseteq DOMAIN queue
  /\ draining \in Nat

HistoryTypeOK ==
  /\ said \in 0 .. MaxTurn /\ starts \in 0 .. MaxStart /\ locks \in 0 .. MaxLock
  /\ read \subseteq Turn
  /\ promised \in 0 .. Len(queue)

\* Every variable has its type; what the drain has left to do are rows of the
\* table.
TypeOK ==
  DbTypeOK /\ ProcessTypeOK /\ SocketTypeOK /\ CatchUpTypeOK /\ HistoryTypeOK

\* Some queue row holds turn t, whatever became of the row.
Queued(t) == \E n \in DOMAIN queue : t \in ToSet(queue[n].transcript)

\* The handler of an open socket still means to take t to the Observer.
Held(t) == \E w \in Connection : unseen[w] /\ t \in own[w]

\* No committed turn is lost: an Observer pass has read it, or a queue row
\* holds it, or its conversation is still there for startup recovery to find,
\* or the socket it was said on is open.  (ws_chat's comments on a failed pass,
\* recover_unobserved_conversations' docstring.)
NothingLost ==
  \A c \in Conversation : \A t \in ToSet(messages[c]) :
    t \in read \/ Queued(t) \/ ~observed[c] \/ Held(t)

\* The slice of its history that a socket gives the Observer as evidence, or
\* the queue, is the turns said on it since its last pass: no resumed turn is
\* counted again, and none of its own is sliced away.  (observed_prefix in
\* ws_chat and enqueue_for_shutdown.)
EvidenceIsOwn ==
  \A w \in Connection :
    /\ ToSet(Evidence(w)) = own[w]
    /\ unseen[w] <=> own[w] # {}

\* No turn is queued for two Observer passes.  TLC refutes it: README.
QueuedOnce ==
  \A m, n \in DOMAIN queue :
    m # n => ToSet(queue[m].transcript) \cap ToSet(queue[n].transcript) = {}

\* Once a catch-up is over, every row that was waiting when the data was last
\* opened has been taken up: "the next unlock's catch-up drains them"
\* (auth_lock's docstring).  TLC refutes it: README.
UnlockTakesUp ==
  catchUp = "idle" =>
    \A n \in 1 .. promised : queue[n].status # "pending"

\* A conversation that no pass has seen and that no process is serving is
\* found by a later start and queued for the Observer, unless it is deleted.
\* (recover_unobserved_conversations.)
UnobservedIsRecovered ==
  \A c \in Conversation :
    process = "down" /\ row[c] = "present" /\ messages[c] # <<>>
      ~> observed[c] \/ row[c] = "deleted"

Waiting(n) == IF n \in DOMAIN queue THEN queue[n].status = "pending" ELSE FALSE

\* A row does not wait for ever: some drain takes it up.  (The pending_observer
\* table's comment in schema.sql.)
WaitingIsTakenUp ==
  \A n \in 1 .. MaxRow : Waiting(n) ~> ~Waiting(n)

\* The table is used as PendingQueue promises: no row dropped or rewritten,
\* none called completed that the Observer has not returned from, and one left
\* behind by a crash or a deferral taken up again.
Table == INSTANCE PendingQueue
           WITH returned <- IF catchUp = "finish" THEN {draining} ELSE {}
QueueKeepsItsPromise == Table!Spec
=============================================================================
