--------------------------------- MODULE Recall ---------------------------------
(***************************************************************************)
(* What is remembered of a conversation and shown in the next: one chat at a  *)
(* time is opened, resumed, spoken in and left; the Observer                 *)
(* (ObserverPass) turns what was said into evidence and into the one         *)
(* standing snapshot, at once or from the queue after the next start; every  *)
(* question is put to a model with a prompt (ContextAssembly) of the         *)
(* history, the snapshot and whatever else was found.                        *)
(*                                                                         *)
(* SessionLifecycle says which turns a pass is given, with any number of     *)
(* sockets; here it is what becomes of them.                                 *)
(*                                                                         *)
(* A pass and its mark, recovery's row and its mark, a drained row and its   *)
(* completion are pairs of commits: a kill or an error may come between, and *)
(* a sign-out queues turns that the open socket keeps.  What is put up twice *)
(* in such a way may be counted twice, and is recorded in again.             *)
(***************************************************************************)
EXTENDS ContextAssembly, ObserverPass

CONSTANTS
    Inputs,         \* what a question may come with; see InputsAssumption
    RecapWords,     \* the words of a snapshot's text
    MaxTurn,        \* questions asked
    MaxStart,       \* starts of the backend
    MaxAgain        \* times that something is put up again

ASSUME InputsAssumption ==
    /\ Inputs \subseteq [message : Nat, decisions : Seq(Nat), rows : Nat, rag : Nat,
                         web : Nat, gap : Int, continuation : BOOLEAN]
    /\ RecapWords \in Nat \ {0} /\ MaxTurn \in Nat /\ MaxStart \in Nat /\ MaxAgain \in Nat

VARIABLES
    up,         \* the backend is running
    open,       \* a chat is open
    chat,       \* its stored messages, and those of the last chat when none is
    marked,     \* it has been observed (conversations.observed_at)
    spent,      \* its unobserved turns have been put up, to a pass or a queue
    behind,     \* earlier chats that recovery has to queue
    recovering, \* the chat that recovery has listed, or has queued and not marked
    passed,     \* a pass over the socket's turns has returned, its mark is to come
    history,    \* conversation_history of the socket
    prefix,     \* observed_prefix
    unobserved, \* has_unobserved_turns
    queue,      \* pending_observer
    snapshot,   \* session_snapshot: None or the turns it was made of
    prompt,     \* what the model is shown while it answers, or None
    counted,    \* how often each thing was handed on as evidence
    said,       \* in how many stretches between two passes it was said
    again,      \* times that turns were put up which had been before
    turns, starts   \* what the bounds count

socket == <<open, history, prefix, unobserved, passed>>
present == <<chat, marked, spent>>
stored == <<present, behind, recovering, queue>>
vars == <<up, socket, stored, snapshot, prompt, counted, said, again, turns, starts>>

Init ==
    /\ up = FALSE /\ open = FALSE
    /\ chat = <<>> /\ marked = FALSE /\ spent = FALSE
    /\ behind = <<>> /\ recovering = "none"
    /\ history = <<>> /\ prefix = 0 /\ unobserved = FALSE /\ passed = FALSE
    /\ queue = <<>>
    /\ snapshot = None /\ prompt = None
    /\ counted = [f \in Fact |-> 0] /\ said = [f \in Fact |-> 0] /\ again = 0
    /\ turns = 0 /\ starts = 0

WordsOf(h) == [i \in DOMAIN h |-> h[i].words]

\* Stage 12 is handed each candidate for itself: one that fails takes no other
\* with it.
Handed(out) ==
    LET quotes == {c.quote : c \in out.memory} IN
    \E ok \in SUBSET quotes : counted' = [f \in Fact |-> counted[f] + IF f \in ok THEN 1 ELSE 0]

\* A pass that ran: the snapshot first, which may fail for itself, then the
\* candidates.
Pass(t, p) ==
    \E answer \in Answer :
        LET out == Output(answer, t, p) IN
        /\ \/ snapshot' = IF MayOverwrite(out, Fresh(t, p)) THEN Fresh(t, p) ELSE snapshot
           \/ snapshot' = snapshot
        /\ Handed(out)

-----------------------------------------------------------------------------
(* Putting turns up                                                         *)

\* A stretch of turns in the queue or in a chat left behind, and whether it
\* has been put up since.
Row(t) == [turns |-> t, spent |-> FALSE]

Again(before) ==
    /\ before => again < MaxAgain
    /\ again' = IF before THEN again + 1 ELSE again

\* The unobserved turns of the present chat are put up.
PutUp == Again(spent) /\ spent' = TRUE

\* The socket has no turns of its own any more: what it had put up only it
\* could have put up again, unless the chat is still to be recovered.
Settled == spent' = (spent /\ ~marked')

Closed ==
    /\ open' = FALSE /\ history' = <<>> /\ prefix' = 0 /\ unobserved' = FALSE /\ passed' = FALSE
    /\ prompt' = None

-----------------------------------------------------------------------------
(* The backend                                                              *)

Start ==
    /\ ~up /\ starts < MaxStart
    /\ up' = TRUE /\ starts' = starts + 1
    /\ UNCHANGED <<socket, stored, snapshot, prompt, counted, said, again, turns>>

\* The catch-up of a start or of a sign-in lists the chats whose messages no
\* pass has marked (recover_unobserved_conversations), whatever is open
\* meanwhile: those left behind, and last the present one, which a pass may mark
\* and another chat replace before it is reached.
List ==
    /\ up /\ recovering = "none"
    /\ behind = <<>> /\ chat # <<>> /\ ~marked
    /\ recovering' = "listed"
    /\ UNCHANGED <<up, socket, present, behind, queue, snapshot, prompt, counted, said, again, turns, starts>>

\* What is on the list is queued whole, one by one ...
Recover ==
    /\ up
    /\ \/ /\ recovering = "none" /\ behind # <<>>
          /\ queue' = Append(queue, Row(Head(behind).turns))
          /\ Again(Head(behind).spent)
          /\ behind' = [behind EXCEPT ![1].spent = TRUE]
          /\ recovering' = "behind"
          /\ UNCHANGED spent
       \/ /\ recovering = "stale"
          /\ queue' = Append(queue, Row(Head(behind).turns))
          /\ Again(TRUE)
          /\ behind' = Tail(behind)
          /\ recovering' = "none"
          /\ UNCHANGED spent
       \/ /\ recovering = "listed"
          /\ queue' = Append(queue, Row(chat))
          /\ Again(marked \/ spent)
          /\ spent' = (spent \/ ~marked)
          /\ recovering' = "chat"
          /\ UNCHANGED behind
    /\ UNCHANGED <<up, socket, chat, marked, snapshot, prompt, counted, said, turns, starts>>

\* ... and marked, in another commit, which may fail.
RecoverMarks ==
    /\ up
    /\ recovering' = "none"
    /\ \/ recovering = "behind" /\ behind' = Tail(behind) /\ UNCHANGED <<marked, spent>>
       \/ recovering = "chat" /\ marked' = TRUE /\ spent' = (spent /\ unobserved) /\ UNCHANGED behind
       \/ recovering # "none" /\ recovering # "stale" /\ UNCHANGED <<marked, spent, behind>>
    /\ UNCHANGED <<up, socket, chat, queue, snapshot, prompt, counted, said, again, turns, starts>>

\* enqueue_for_shutdown leaves out what the socket was handed, and does not
\* mark the chat.  It may fail, and one socket's failure stops nothing; a socket
\* that is leaving may still be among those it was told of.
Queues ==
    /\ open /\ unobserved /\ history # <<>>
    /\ queue' = Append(queue, Row(Fresh(history, prefix)))

\* A chat that is on the list and marked is queued by nobody else.
Unlisted ==
    /\ recovering' = "none"
    /\ behind' = IF recovering = "stale" THEN Tail(behind) ELSE behind

\* A clean stop, after which the next start may queue the chat again.
Stop ==
    /\ up
    /\ up' = FALSE
    /\ \/ Queues /\ Again(spent) /\ spent' = ~marked
       \/ UNCHANGED <<queue, again>> /\ spent' = (spent /\ ~marked)
    /\ Unlisted
    /\ Closed
    /\ UNCHANGED <<chat, marked, snapshot, counted, said, turns, starts>>

\* auth_lock queues the turns of the open socket by the same route; socket, flag
\* and history stay, for the disconnect pass to find.
Lock ==
    /\ up
    /\ Queues
    /\ PutUp
    /\ UNCHANGED <<up, socket, chat, marked, behind, recovering, snapshot, prompt, counted, said, turns, starts>>

Kill ==
    /\ up
    /\ up' = FALSE
    /\ spent' = (spent /\ ~marked)
    /\ Unlisted
    /\ Closed
    /\ UNCHANGED <<chat, marked, queue, snapshot, counted, said, again, turns, starts>>

\* The drain follows the recovery in the same thread: it runs a pass over a
\* row ...
DrainRuns ==
    /\ up /\ recovering = "none" /\ queue # <<>>
    /\ Pass(Head(queue).turns, 0)
    /\ Again(Head(queue).spent)
    /\ queue' = [queue EXCEPT ![1].spent = TRUE]
    /\ UNCHANGED <<up, socket, present, behind, recovering, prompt, said, turns, starts>>

\* ... and completes it in another commit.
DrainCompletes ==
    /\ up /\ recovering = "none" /\ queue # <<>> /\ Head(queue).spent
    /\ queue' = Tail(queue)
    /\ UNCHANGED <<up, socket, present, behind, recovering, snapshot, prompt, counted, said, again, turns, starts>>

-----------------------------------------------------------------------------
(* A chat                                                                     *)

Opened(messages) ==
    /\ up /\ ~open
    /\ open' = TRUE
    /\ history' = messages /\ prefix' = Len(messages) /\ unobserved' = FALSE
    /\ UNCHANGED <<up, passed, queue, snapshot, prompt, counted, said, again, turns, starts>>

Unmarked ==
    behind \o (IF chat # <<>> /\ (~marked \/ recovering = "listed")
               THEN <<[turns |-> chat, spent |-> spent \/ marked]>> ELSE <<>>)

\* A recovery that is at the present chat queues or marks it where it is then.
OpenNew ==
    /\ behind' = Unmarked
    /\ recovering' = CASE recovering = "listed" -> IF marked THEN "stale" ELSE "none"
                       [] recovering = "chat" -> IF marked THEN "none" ELSE "behind"
                       [] OTHER -> recovering
    /\ chat' = <<>> /\ marked' = FALSE /\ spent' = FALSE
    /\ Opened(<<>>)

Resume ==
    /\ chat # <<>>
    /\ UNCHANGED <<present, behind, recovering>>
    /\ Opened(chat)

\* A question, and the prompt it is put with: Stage 7, or the bare message
\* where that raised.
Ask ==
    /\ open /\ prompt = None /\ ~passed /\ turns < MaxTurn
    /\ turns' = turns + 1
    /\ \E in \in Inputs :
         LET recap == IF snapshot = None THEN 0 ELSE RecapWords
             offered == Offered(in, WordsOf(history), recap)
         IN  \E kept \in {Assembled(in, WordsOf(history), recap), Nothing} :
                prompt' = [offered |-> offered, kept |-> kept,
                           recap |-> recap > 0, failed |-> kept # Assembled(in, WordsOf(history), recap),
                           room |-> Room - SystemWords - in.message]
    /\ UNCHANGED <<up, socket, stored, snapshot, counted, said, again, starts>>

\* What people say: a word, a question, one of the things; and what a model
\* answers: something, or one of the things.
Spoken ==
    [who : {"user"}, says : {None}, words : {1, MinWords}] \cup [who : {"user"}, says : Fact, words : {MinWords}]
Answered == [who : {"assistant"}, says : Fact \cup {None}, words : {2}]

\* The exchange is kept, in the table and on the socket.
Reply ==
    /\ prompt # None
    /\ \E u \in Spoken, a \in Answered :
         /\ history' = history \o <<u, a>>
         /\ chat' = chat \o <<u, a>>
         /\ said' = [f \in Fact |->
                        IF Grounded(f, <<u, a>>) /\ ~Grounded(f, Fresh(history, prefix))
                        THEN said[f] + 1 ELSE said[f]]
    /\ unobserved' = TRUE
    /\ prompt' = None
    /\ UNCHANGED <<up, open, prefix, passed, marked, spent, behind, recovering, queue, snapshot, counted, again, turns, starts>>

\* run_observer_now, idle or leaving: the pass over the socket's history
\* commits what it found ...
Observe ==
    /\ open /\ prompt = None /\ unobserved /\ ~passed
    /\ Pass(history, prefix)
    /\ PutUp
    /\ passed' = TRUE
    /\ UNCHANGED <<up, open, history, prefix, unobserved, chat, marked, behind, recovering, queue, prompt, said, turns, starts>>

\* ... and marks the chat, unless that or the pass itself raised.
Marks == marked' = (marked \/ passed) \/ UNCHANGED marked

\* As if the prefix still counted into a history that is gone.
IdleKeepsPrefix ==
    /\ open /\ prompt = None /\ unobserved
    /\ Marks /\ Settled
    /\ history' = <<>> /\ unobserved' = FALSE /\ passed' = FALSE
    /\ UNCHANGED <<up, open, prefix, chat, behind, recovering, queue, snapshot, prompt, counted, said, again, turns, starts>>

\* Ten minutes of silence: the history goes whether the pass ran or not.
Idle ==
    /\ open /\ prompt = None /\ unobserved
    /\ Marks /\ Settled
    /\ history' = <<>> /\ prefix' = 0 /\ unobserved' = FALSE /\ passed' = FALSE
    /\ UNCHANGED <<up, open, chat, behind, recovering, queue, snapshot, prompt, counted, said, again, turns, starts>>

Leave ==
    /\ open /\ prompt = None
    /\ Marks /\ Settled
    /\ Closed
    /\ UNCHANGED <<up, chat, behind, recovering, queue, snapshot, counted, said, again, turns, starts>>

\* scripts/clear_poisoned_snapshot.py
ClearSnapshot ==
    /\ ~up /\ snapshot # None
    /\ snapshot' = None
    /\ UNCHANGED <<up, socket, stored, prompt, counted, said, again, turns, starts>>

-----------------------------------------------------------------------------
Next ==
    \/ Start \/ Stop \/ Lock \/ Kill
    \/ List \/ Recover \/ RecoverMarks \/ DrainRuns \/ DrainCompletes
    \/ OpenNew \/ Resume \/ Ask \/ Reply \/ Observe \/ Idle \/ Leave
    \/ ClearSnapshot

Spec == Init /\ [][Next]_vars

-----------------------------------------------------------------------------
(* Properties                                                               *)

TypeOK ==
    /\ {up, open, marked, spent, unobserved, passed} \subseteq BOOLEAN
    /\ {chat, history} \subseteq Seq(Turn)
    /\ prefix \in 0..Len(history)
    /\ {queue, behind} \subseteq Seq([turns : Seq(Turn), spent : BOOLEAN])
    /\ recovering \in {"none", "listed", "stale", "chat", "behind"}
    /\ snapshot = None \/ snapshot \in Seq(Turn)
    /\ prompt # None => open /\ prompt.recap \in BOOLEAN /\ prompt.failed \in BOOLEAN
    /\ \A f \in Fact : counted[f] \in Nat /\ said[f] \in Nat
    /\ again \in Nat /\ turns \in 0..MaxTurn /\ starts \in 0..MaxStart

\* Reading is not hearing: nothing is handed on as evidence more often than
\* there were stretches between two passes in which it was said, whatever was
\* resumed or shown to the model again (_only_candidates_stated_this_session),
\* but once more for every time that turns are put up which had been before: by
\* a sign-out and then by their socket, by a pass and then by the recovery that
\* missed its mark or listed the chat before it, by a stop, a recovery or a drain
\* repeated.
EvidenceWasSaid == \A f \in Fact : counted[f] <= said[f] + again

\* A prompt that was assembled keeps the most that its ranks and its room
\* allow, the newest of the history, or nothing where nothing fits; and it starts from a recap wherever
\* there is a snapshot and no live history in its place.
PromptIsBest ==
    prompt # None /\ ~prompt.failed =>
        /\ IsBest(prompt.kept, prompt.offered, prompt.room)
        /\ IsSuffix(prompt.kept.conversation_history, WordsOf(history))
        /\ prompt.recap /\ history = <<>> => prompt.offered.session_snapshot > 0
=============================================================================
