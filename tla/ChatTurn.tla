------------------------------ MODULE ChatTurn -------------------------------
(***************************************************************************)
(* One turn of a conversation, from the message on the socket to the reply *)
(* in the database: ws_chat and stream_pipeline_to_websocket of            *)
(* api/server.py, core/pipeline.py, stages 8 and 9, core/response_cache.py *)
(* and what decides which model may be asked (provider_consent and         *)
(* llm_endpoints).                                                         *)
(*                                                                         *)
(* The handler asks the pipeline's generator for one event at a time on a  *)
(* thread.  Before each it empties the queue its reader task fills, and    *)
(* sends each event when it has it.  So a step of a turn is: empty the     *)
(* queue, then take one event and send it; everything else (stops,         *)
(* departures, settings, decisions) may come between.                      *)
(*                                                                         *)
(* A text is the sequence of the models that spoke its tokens.  A slot of  *)
(* Socket is one conversation and, at a time, one connection to it.        *)
(***************************************************************************)
EXTENDS Integers, Sequences, FiniteSets, SequencesExt

CONSTANTS
  Socket,
  Question,     \* a message with its project: what the cache is keyed by
  Cacheable,    \* questions of a category with a time to live
  Searched,     \* questions with a trigger word of stage 6
  Order,        \* the chain of models by priority, "ollama" and the endpoints
  MaxTokens,    \* max_tokens of a reply
  Silent,       \* whether a send to a client that is gone may go unnoticed
  MaxAsk,       \* bound: messages
  MaxStop,      \* bound: stops and departures
  MaxChange,    \* bound: changes of decisions, consent, endpoints, cache
  MaxFail       \* bound: failures of models and of the database

ASSUME TurnBounds == {MaxAsk, MaxStop, MaxChange, MaxFail} \subseteq Nat
ASSUME SilentAssumption == Silent \in BOOLEAN
ASSUME TokensAssumption == MaxTokens \in Nat \ {0}
ASSUME QuestionAssumption == Cacheable \subseteq Question /\ Searched \subseteq Question
ASSUME OrderAssumption == Order \in Seq(STRING) /\ "none" \notin Range(Order)

VARIABLES
  client,     \* the other end is there
  incoming,   \* the queue between the reader task and the handler
  turn,       \* where the handler is, and the generator's locals
  events,     \* what the client was sent in this turn, stage events left out
  past,       \* conversation_history
  messages,   \* the table, per conversation
  unseen,     \* has_unobserved_turns
  cache,      \* response_cache._cache
  decisions,  \* questions with an active decision
  endpoint,   \* llm_endpoints
  consent,    \* provider_consent
  \* History: what the rules speak of and the code does not keep.
  asked,      \* asked[c]: models and searches used in this turn
  agreed,     \* agreed[c]: those the user agreed to at some moment of it
  yes,        \* what the user agreed to by name
  relabelled, \* endpoints saved again with another locality
  whole,      \* replies that a model ended, no decision in sight
  late,       \* tokens sent since the client's stop reached the queue, -1 before
  counts

wire == <<client, incoming, events>>
talk == <<past, messages, unseen>>
settings == <<endpoint, consent, yes, relabelled>>
vars == <<wire, turn, talk, cache, decisions, settings, asked, agreed, whole, late, counts>>

-----------------------------------------------------------------------------

Endpoint == Range(Order) \ {"ollama"}
Gated == Range(Order) \cup {"web_search"}
Scope == {"full_inference", "web_search_only", "none"}
Text == Seq(Range(Order))
Event == [kind : {"hint", "token", "done", "error", "stopped"}, text : Text]
Message == [role : {"user", "assistant"}, question : Question, text : Text]

Streaming == {"route", "lookup", "retrieve", "search", "gate", "hint", "chat", "deliver", "recall"}
Working == Streaming \cup {"begin", "keepUser", "keepReply"}
Step == {"closed", "waiting", "closing"} \cup Working

Turn == [step : Step, question : Question \cup {"none"}, decided : BOOLEAN,
         todo : SUBSET Range(Order), reply : Text,
         status : {"none", "success", "error", "stopped"},
         stopping : BOOLEAN, drained : BOOLEAN]
Idle(step) == [step |-> step, question |-> "none", decided |-> FALSE, todo |-> {},
               reply |-> <<>>, status |-> "none", stopping |-> FALSE, drained |-> FALSE]
At(c, s) == turn[c].step = s
Ready(c, s) == turn[c].step = s /\ turn[c].drained

\* A row of provider_consent.  ollama's and web_search's are seeded.
Row == [cloud : BOOLEAN, consented : BOOLEAN, scope : Scope, revoked : BOOLEAN]
Seeded == [ollama |-> [cloud |-> FALSE, consented |-> TRUE, scope |-> "full_inference", revoked |-> FALSE],
           web_search |-> [cloud |-> TRUE, consented |-> FALSE, scope |-> "web_search_only", revoked |-> FALSE]]
\* No row that is written looks like this.
NoRow == [cloud |-> TRUE, consented |-> FALSE, scope |-> "none", revoked |-> FALSE]
NoEndpoint == [saved |-> FALSE, local |-> FALSE, enabled |-> FALSE]

\* stage_08.run: fails closed, and asks nothing of a local provider.
Passes(p, scope) ==
  /\ consent[p] # NoRow
  /\ \/ ~consent[p].cloud
     \/ /\ ~consent[p].revoked /\ consent[p].consented
        /\ consent[p].scope \in {scope, "full_inference"}

\* _default_providers and _gate_providers
Configured(p) == p = "ollama" \/ (endpoint[p].saved /\ endpoint[p].enabled)
GatedProviders == {p \in Range(Order) : Configured(p) /\ Passes(p, "full_inference")}
\* The one of S that is first in the chain.
First(S) == Order[SelectInSeq(Order, LAMBDA p : p \in S)]

\* What the user has agreed to, as the user sees it.
Agreed(p) == \/ p = "ollama"
             \/ p \in Endpoint /\ endpoint[p].saved /\ endpoint[p].local
             \/ p = "web_search" /\ yes[p] \in {"web_search_only", "full_inference"}
             \/ p \in Endpoint /\ yes[p] = "full_inference"
\* An endpoint saved again under the other locality keeps the consent row it
\* had: it is left out of account.
AgreedNow == {p \in Gated : Agreed(p)} \cup relabelled

Init ==
  /\ client = [c \in Socket |-> FALSE]
  /\ incoming = [c \in Socket |-> <<>>]
  /\ turn = [c \in Socket |-> Idle("closed")]
  /\ events = [c \in Socket |-> <<>>]
  /\ past = [c \in Socket |-> <<>>]
  /\ messages = [c \in Socket |-> <<>>]
  /\ unseen = [c \in Socket |-> FALSE]
  /\ cache = [q \in Question |-> <<>>]
  /\ decisions = {}
  /\ endpoint = [p \in Endpoint |-> NoEndpoint]
  /\ consent = [p \in Gated |-> IF p \in DOMAIN Seeded THEN Seeded[p] ELSE NoRow]
  /\ asked = [c \in Socket |-> {}] /\ agreed = [c \in Socket |-> {}]
  /\ yes = [p \in Gated |-> "none"]
  /\ relabelled = {} /\ whole = {}
  /\ late = [c \in Socket |-> -1]
  /\ counts = [ask |-> 0, stop |-> 0, change |-> 0, fail |-> 0]

Counts(k, max) == counts[k] < max /\ counts' = [counts EXCEPT ![k] = @ + 1]

-----------------------------------------------------------------------------
(* The client.                                                               *)

\* ws_chat up to its loop: the conversation is resumed with all its messages.
Connect(c) ==
  /\ At(c, "closed")
  /\ client' = [client EXCEPT ![c] = TRUE]
  /\ incoming' = [incoming EXCEPT ![c] = <<>>]
  /\ turn' = [turn EXCEPT ![c] = Idle("waiting")]
  /\ past' = [past EXCEPT ![c] = messages[c]]
  /\ UNCHANGED <<events, messages, unseen, cache, decisions, settings, asked, agreed, whole, late, counts>>

\* _read_forever
Puts(c, msg) ==
  /\ client[c] /\ turn[c].step # "closed"
  /\ incoming' = [incoming EXCEPT ![c] = Append(@, msg)]
  /\ UNCHANGED <<events, turn, talk, cache, decisions, settings, asked, agreed, whole>>

Ask(c, q) ==
  /\ Counts("ask", MaxAsk)
  /\ Puts(c, q)
  /\ UNCHANGED <<client, late>>

Stop(c) ==
  /\ Counts("stop", MaxStop)
  /\ Puts(c, "stop")
  /\ late' = [late EXCEPT ![c] = IF At(c, "waiting") \/ @ >= 0 THEN @ ELSE 0]
  /\ UNCHANGED client

\* The sentinel _DISCONNECT.
Leave(c) ==
  /\ Counts("stop", MaxStop)
  /\ Puts(c, "gone")
  /\ client' = [client EXCEPT ![c] = FALSE]
  /\ UNCHANGED late

-----------------------------------------------------------------------------
(* The handler between turns.                                                *)

\* What is told of a turn here ends with it.
Over(c) ==
  /\ events' = [events EXCEPT ![c] = <<>>] /\ late' = [late EXCEPT ![c] = -1]
  /\ asked' = [asked EXCEPT ![c] = {}] /\ agreed' = [agreed EXCEPT ![c] = {}]

\* websocket.send_json of what is sent, and on to the next step.  A send to a
\* client that is gone raises WebSocketDisconnect, or goes unnoticed.
Sends(c, next, sent) ==
  \/ /\ client[c] \/ Silent
     /\ turn' = [turn EXCEPT ![c] = [next EXCEPT !.drained = FALSE]]
     /\ events' = [events EXCEPT ![c] = @ \o sent]
     /\ late' = [late EXCEPT ![c] =
          IF @ >= 0 /\ \E i \in DOMAIN sent : sent[i].kind = "token" THEN @ + 1 ELSE @]
  \/ /\ ~client[c]
     /\ turn' = [turn EXCEPT ![c] = Idle("closing")]
     /\ UNCHANGED <<events, late>>

\* Mutant: what is no question is answered too.
ReceiveAnything(c) ==
  /\ At(c, "waiting") /\ incoming[c] # <<>>
  /\ incoming' = [incoming EXCEPT ![c] = Tail(@)]
  /\ turn' = [turn EXCEPT ![c] =
       IF Head(incoming[c]) = "gone" THEN Idle("closing")
       ELSE [Idle("begin") EXCEPT !.question = Head(incoming[c])]]
  /\ agreed' = [agreed EXCEPT ![c] = AgreedNow]
  /\ UNCHANGED <<client, events, late, talk, cache, decisions, settings, asked, whole, counts>>

\* A message begins a turn; a stop that comes too late is an empty message.
Receive(c) ==
  LET msg == Head(incoming[c]) IN
  /\ At(c, "waiting") /\ incoming[c] # <<>>
  /\ incoming' = [incoming EXCEPT ![c] = Tail(@)]
  /\ \/ /\ msg \in Question
        /\ turn' = [turn EXCEPT ![c] = [Idle("begin") EXCEPT !.question = msg]]
        /\ agreed' = [agreed EXCEPT ![c] = AgreedNow]
        /\ late' = [late EXCEPT ![c] = IF "stop" \in Range(incoming'[c]) THEN 0 ELSE -1]
        /\ UNCHANGED events
     \/ /\ msg = "stop"
        /\ Sends(c, Idle("waiting"), <<>>)
        /\ UNCHANGED agreed
     \/ /\ msg = "gone"
        /\ turn' = [turn EXCEPT ![c] = Idle("closing")]
        /\ UNCHANGED <<events, agreed, late>>
  /\ UNCHANGED <<client, talk, cache, decisions, settings, asked, whole, counts>>

\* Mutant: the turns are cleared and stay unobserved.
IdleTimeoutKeepsFlag(c) ==
  /\ At(c, "waiting") /\ incoming[c] = <<>> /\ unseen[c]
  /\ past' = [past EXCEPT ![c] = <<>>]
  /\ UNCHANGED <<wire, turn, messages, unseen, cache, decisions, settings, asked, agreed, whole, late, counts>>

\* The Observer runs, well or not, and the turns in memory are gone.
IdleTimeout(c) ==
  /\ At(c, "waiting") /\ incoming[c] = <<>> /\ unseen[c]
  /\ unseen' = [unseen EXCEPT ![c] = FALSE]
  /\ past' = [past EXCEPT ![c] = <<>>]
  /\ UNCHANGED <<wire, turn, messages, cache, decisions, settings, asked, agreed, whole, late, counts>>

\* start_session and create_conversation.
Begin(c) ==
  /\ At(c, "begin")
  /\ Sends(c, [turn[c] EXCEPT !.step = "route"], <<>>)
  /\ UNCHANGED <<client, incoming, talk, cache, decisions, settings, asked, agreed, whole, counts>>

\* The finally clause: the Observer sees what it has not seen, the connection
\* is closed.
Close(c) ==
  /\ At(c, "closing")
  /\ turn' = [turn EXCEPT ![c] = Idle("closed")]
  /\ client' = [client EXCEPT ![c] = FALSE]
  /\ incoming' = [incoming EXCEPT ![c] = <<>>]
  /\ past' = [past EXCEPT ![c] = <<>>]
  /\ unseen' = [unseen EXCEPT ![c] = FALSE]
  /\ Over(c)
  /\ UNCHANGED <<messages, cache, decisions, settings, whole, counts>>

-----------------------------------------------------------------------------
(* The turn: stream_pipeline_to_websocket around pipeline.run.               *)

StopRead(c) == turn[c].stopping \/ "stop" \in Range(incoming[c])

\* Mutant: get instead of get_nowait.
DrainBlocks(c) ==
  /\ turn[c].step \in Streaming /\ ~turn[c].drained
  /\ incoming[c] # <<>>
  /\ turn' = [turn EXCEPT ![c] = [@ EXCEPT !.drained = TRUE, !.stopping = StopRead(c)]]
  /\ incoming' = [incoming EXCEPT ![c] = <<>>]
  /\ UNCHANGED <<client, events, talk, cache, decisions, settings, asked, agreed, whole, late, counts>>

\* Everything but a stop is dropped, the sentinel with it.
Drain(c) ==
  /\ turn[c].step \in Streaming /\ ~turn[c].drained
  /\ turn' = [turn EXCEPT ![c] = [@ EXCEPT !.drained = TRUE, !.stopping = StopRead(c)]]
  /\ incoming' = [incoming EXCEPT ![c] = <<>>]
  /\ UNCHANGED <<client, events, talk, cache, decisions, settings, asked, agreed, whole, late, counts>>

E(kind, text) == <<[kind |-> kind, text |-> text]>>
Rest == <<client, incoming, talk, decisions, settings, agreed>>

\* Stages 0 to 2.
Route(c) ==
  /\ Ready(c, "route")
  /\ Sends(c, [turn[c] EXCEPT !.step = "lookup"], <<>>)
  /\ UNCHANGED <<Rest, cache, asked, whole, counts>>

\* response_cache.get; on a miss stage 3, which fails open.
Lookup(c) ==
  LET q == turn[c].question IN
  /\ Ready(c, "lookup")
  /\ \/ /\ cache[q] # <<>>
        /\ Sends(c, [turn[c] EXCEPT !.step = "recall", !.reply = cache[q]], <<>>)
        /\ UNCHANGED counts
     \/ /\ cache[q] = <<>>
        /\ Sends(c, [turn[c] EXCEPT !.step = "retrieve", !.decided = q \in decisions], <<>>)
        /\ UNCHANGED counts
     \/ /\ cache[q] = <<>> /\ q \in decisions /\ Counts("fail", MaxFail)
        /\ Sends(c, [turn[c] EXCEPT !.step = "retrieve"], <<>>)
  /\ UNCHANGED <<Rest, cache, asked, whole>>

\* A cached reply: hint, one token, done, and then the end, stop or no stop.
Recall(c) ==
  LET n == Len(events[c]) IN
  /\ Ready(c, "recall")
  /\ \/ n = 0 /\ Sends(c, turn[c], E("hint", <<>>))
     \/ n = 1 /\ Sends(c, turn[c], E("token", turn[c].reply))
     \/ n = 2 /\ Sends(c, [turn[c] EXCEPT !.status = "success"], E("done", <<>>))
     \/ n = 3 /\ turn' = [turn EXCEPT ![c].step = "keepUser"] /\ UNCHANGED <<events, late>>
  /\ UNCHANGED <<Rest, cache, asked, whole, counts>>

\* Stages 4 and 5.
Retrieve(c) ==
  /\ Ready(c, "retrieve")
  /\ Sends(c, [turn[c] EXCEPT !.step = "search"], <<>>)
  /\ UNCHANGED <<Rest, cache, asked, whole, counts>>

\* Stage 6 behind stage 8; an event only when something was found.
Search(c) ==
  LET next == [turn[c] EXCEPT !.step = "gate"]
      allowed == turn[c].question \in Searched /\ Passes("web_search", "web_search_only")
  IN /\ Ready(c, "search")
     /\ \/ turn' = [turn EXCEPT ![c] = next] /\ UNCHANGED <<events, late>>
        \/ allowed /\ Sends(c, next, <<>>)
     /\ asked' = IF allowed THEN [asked EXCEPT ![c] = @ \cup {"web_search"}] ELSE asked
     /\ UNCHANGED <<Rest, cache, whole, counts>>

\* Mutant: the chain is not gated.
GateOpen(c) ==
  /\ Ready(c, "gate")
  /\ Sends(c, [turn[c] EXCEPT !.step = "hint", !.todo = {p \in Range(Order) : Configured(p)}], <<>>)
  /\ UNCHANGED <<Rest, cache, asked, whole, counts>>

\* Stages 7 and 8.  With no provider left the turn is over, without an event.
Gate(c) ==
  /\ Ready(c, "gate")
  /\ \/ /\ GatedProviders # {}
        /\ Sends(c, [turn[c] EXCEPT !.step = "hint", !.todo = GatedProviders], <<>>)
     \/ /\ GatedProviders = {}
        /\ turn' = [turn EXCEPT ![c] = [@ EXCEPT !.step = "keepUser", !.status = "error"]]
        /\ UNCHANGED <<events, late>>
  /\ UNCHANGED <<Rest, cache, asked, whole, counts>>

\* Stage 9.
Hint(c) ==
  /\ Ready(c, "hint")
  /\ Sends(c, [turn[c] EXCEPT !.step = "chat"], E("hint", <<>>))
  /\ UNCHANGED <<Rest, cache, asked, whole, counts>>

Provider(c) == First(turn[c].todo)
\* Those that are left when that one fails.
Remaining(c) == turn[c].todo \ {Provider(c)}
Chats(c) == Ready(c, "chat") /\ asked' = [asked EXCEPT ![c] = @ \cup {Provider(c)}]
Ends(c, kind, status) ==
  Sends(c, [turn[c] EXCEPT !.step = "deliver", !.status = status], E(kind, <<>>))

\* Mutant: the token that arrived goes out before the stop is looked at.
TokenThenPoll(c) ==
  /\ Chats(c) /\ Len(turn[c].reply) < MaxTokens
  /\ Sends(c, [turn[c] EXCEPT !.reply = Append(@, Provider(c))], E("token", <<Provider(c)>>))
  /\ UNCHANGED <<Rest, cache, whole, counts>>

\* The provider yields a token: should_stop is asked before it goes out.
Token(c) ==
  /\ Chats(c) /\ Len(turn[c].reply) < MaxTokens
  /\ IF turn[c].stopping THEN Ends(c, "stopped", "stopped")
     ELSE Sends(c, [turn[c] EXCEPT !.reply = Append(@, Provider(c))], E("token", <<Provider(c)>>))
  /\ UNCHANGED <<Rest, cache, whole, counts>>

Done(c) ==
  /\ Chats(c) /\ turn[c].reply # <<>>
  /\ Ends(c, "done", "success")
  /\ whole' = IF turn[c].decided THEN whole ELSE whole \cup {<<turn[c].question, turn[c].reply>>}
  /\ UNCHANGED <<Rest, cache, counts>>

\* Mutant: the next provider takes over whatever the client has seen.
ProviderFailsOver(c) ==
  /\ Chats(c) /\ Counts("fail", MaxFail)
  /\ \/ /\ Remaining(c) # {}
        /\ turn' = [turn EXCEPT ![c].todo = Remaining(c)]
        /\ UNCHANGED <<events, late>>
     \/ /\ Remaining(c) = {}
        /\ Ends(c, "error", "error")
  /\ UNCHANGED <<Rest, cache, whole>>

\* The provider raises or gives nothing: the next one is tried, unless the
\* client has seen tokens of this one.
ProviderFails(c) ==
  /\ Chats(c) /\ Counts("fail", MaxFail)
  /\ \/ /\ turn[c].reply = <<>> /\ Remaining(c) # {}
        /\ turn' = [turn EXCEPT ![c].todo = Remaining(c)]
        /\ UNCHANGED <<events, late>>
     \/ /\ turn[c].reply # <<>> \/ Remaining(c) = {}
        /\ Ends(c, "error", "error")
  /\ UNCHANGED <<Rest, cache, whole>>

\* Mutant: a reply is kept however it ended.
DeliverAnything(c) ==
  LET t == turn[c] IN
  /\ Ready(c, "deliver")
  /\ cache' = IF t.question \in Cacheable /\ ~t.decided
                THEN [cache EXCEPT ![t.question] = t.reply] ELSE cache
  /\ turn' = [turn EXCEPT ![c].step = "keepUser"]
  /\ UNCHANGED <<Rest, events, late, asked, whole, counts>>

\* response_cache.set and stage 10: pipeline_complete.
Deliver(c) ==
  LET t == turn[c] IN
  /\ Ready(c, "deliver")
  /\ cache' = IF t.status = "success" /\ t.question \in Cacheable /\ ~t.decided
                THEN [cache EXCEPT ![t.question] = t.reply] ELSE cache
  /\ turn' = [turn EXCEPT ![c].step = "keepUser"]
  /\ UNCHANGED <<Rest, events, late, asked, whole, counts>>

Said(c, role) == [role |-> role, question |-> turn[c].question,
                  text |-> IF role = "user" THEN <<>> ELSE turn[c].reply]

KeepUser(c) ==
  /\ At(c, "keepUser")
  /\ past' = [past EXCEPT ![c] = Append(@, Said(c, "user"))]
  /\ messages' = [messages EXCEPT ![c] = Append(@, Said(c, "user"))]
  /\ unseen' = [unseen EXCEPT ![c] = TRUE]
  /\ turn' = [turn EXCEPT ![c].step = "keepReply"]
  /\ UNCHANGED <<wire, cache, decisions, settings, asked, agreed, whole, late, counts>>

HasReply(c) == turn[c].status \in {"success", "stopped"} /\ turn[c].reply # <<>>

\* Mutant: whatever was said stays in memory, and only a good reply is stored.
KeepReplyInMemory(c) ==
  /\ At(c, "keepReply")
  /\ past' = IF turn[c].reply # <<>> THEN [past EXCEPT ![c] = Append(@, Said(c, "assistant"))] ELSE past
  /\ messages' = IF HasReply(c) THEN [messages EXCEPT ![c] = Append(@, Said(c, "assistant"))] ELSE messages
  /\ turn' = [turn EXCEPT ![c] = Idle("waiting")]
  /\ Over(c)
  /\ UNCHANGED <<client, incoming, unseen, cache, decisions, settings, whole, counts>>

KeepReply(c) ==
  /\ At(c, "keepReply")
  /\ IF HasReply(c)
       THEN /\ past' = [past EXCEPT ![c] = Append(@, Said(c, "assistant"))]
            /\ messages' = [messages EXCEPT ![c] = Append(@, Said(c, "assistant"))]
       ELSE UNCHANGED <<past, messages>>
  /\ turn' = [turn EXCEPT ![c] = Idle("waiting")]
  /\ Over(c)
  /\ UNCHANGED <<client, incoming, unseen, cache, decisions, settings, whole, counts>>

\* An exception on the executor: memory is ahead of the table by a message.
Raises(c) ==
  /\ turn[c].step \in Working /\ Counts("fail", MaxFail)
  /\ past' = IF At(c, "keepUser") THEN [past EXCEPT ![c] = Append(@, Said(c, "user"))] ELSE past
  /\ unseen' = [unseen EXCEPT ![c] = @ \/ At(c, "keepUser")]
  /\ turn' = [turn EXCEPT ![c] = Idle("closing")]
  /\ UNCHANGED <<wire, messages, cache, decisions, settings, asked, agreed, whole, late>>

-----------------------------------------------------------------------------
(* Other requests.                                                           *)

Meanwhile ==
  /\ Counts("change", MaxChange)
  /\ agreed' = [c \in Socket |-> agreed[c] \cup IF turn[c].step \in Working THEN AgreedNow' ELSE {}]
  /\ UNCHANGED <<wire, turn, talk, asked, whole, late>>

\* A decision on a question is logged, or retracted; an entry expires.
Decide(q) ==
  /\ decisions' = IF q \in decisions THEN decisions \ {q} ELSE decisions \cup {q}
  /\ UNCHANGED <<cache, settings>> /\ Meanwhile
Expire(q) ==
  /\ cache[q] # <<>>
  /\ cache' = [cache EXCEPT ![q] = <<>>]
  /\ UNCHANGED <<decisions, settings>> /\ Meanwhile

\* api_grant_consent and api_revoke_consent.
Grant(p, scope) ==
  /\ consent[p] # NoRow
  /\ consent' = [consent EXCEPT ![p] = [@ EXCEPT !.consented = TRUE, !.scope = scope, !.revoked = FALSE]]
  /\ yes' = [yes EXCEPT ![p] = scope]
  /\ UNCHANGED <<cache, decisions, endpoint, relabelled>> /\ Meanwhile
Revoke(p) ==
  /\ consent[p] # NoRow
  /\ consent' = [consent EXCEPT ![p].revoked = TRUE]
  /\ yes' = [yes EXCEPT ![p] = "none"]
  /\ UNCHANGED <<cache, decisions, endpoint, relabelled>> /\ Meanwhile

\* add_endpoint: the consent row is inserted and never updated.
AddEndpoint(p, local) ==
  /\ endpoint' = [endpoint EXCEPT ![p] = [saved |-> TRUE, local |-> local, enabled |-> TRUE]]
  /\ consent' = IF consent[p] # NoRow THEN consent ELSE [consent EXCEPT ![p] =
       [cloud |-> ~local, consented |-> local, scope |-> "full_inference", revoked |-> FALSE]]
  /\ relabelled' = IF consent[p] # NoRow /\ consent[p].cloud = local
                     THEN relabelled \cup {p} ELSE relabelled \ {p}
  /\ UNCHANGED <<cache, decisions, yes>> /\ Meanwhile

SwitchEndpoint(p) ==
  /\ endpoint[p].saved
  /\ endpoint' = [endpoint EXCEPT ![p].enabled = ~@]
  /\ UNCHANGED <<cache, decisions, consent, yes, relabelled>> /\ Meanwhile

\* remove_endpoint, of whatever id: the consent goes with it.
RemoveEndpoint(p) ==
  /\ endpoint' = [q \in Endpoint |-> IF q = p THEN NoEndpoint ELSE endpoint[q]]
  /\ consent' = [consent EXCEPT ![p] = NoRow]
  /\ yes' = [yes EXCEPT ![p] = "none"]
  /\ relabelled' = relabelled \ {p}
  /\ UNCHANGED <<cache, decisions>> /\ Meanwhile

-----------------------------------------------------------------------------

\* The handler goes on by itself, whatever the client does.
Handles(c) ==
  \/ Receive(c) \/ Begin(c) \/ Drain(c) \/ Close(c)
  \/ Route(c) \/ Lookup(c) \/ Recall(c) \/ Retrieve(c) \/ Search(c) \/ Gate(c)
  \/ Hint(c) \/ Token(c) \/ Done(c) \/ ProviderFails(c) \/ Deliver(c)
  \/ KeepUser(c) \/ KeepReply(c)

Client(c) == Connect(c) \/ Stop(c) \/ Leave(c) \/ \E q \in Question : Ask(c, q)

Others ==
  \/ \E q \in Question : Decide(q) \/ Expire(q)
  \/ \E p \in Gated : Revoke(p) \/ RemoveEndpoint(p) \/ \E s \in Scope : Grant(p, s)
  \/ \E p \in Endpoint : SwitchEndpoint(p) \/ \E l \in BOOLEAN : AddEndpoint(p, l)

Next == Others \/ \E c \in Socket : Client(c) \/ Handles(c) \/ IdleTimeout(c) \/ Raises(c)

Spec == Init /\ [][Next]_vars

\* The event loop and the threads run, models answer within their timeout, and
\* the idle timer goes off.
Fairness == \A c \in Socket : WF_vars(Handles(c)) /\ WF_vars(IdleTimeout(c))
FairSpec == Spec /\ Fairness

-----------------------------------------------------------------------------
(* Properties.                                                               *)

\* Types.
TypeOK ==
  /\ client \in [Socket -> BOOLEAN] /\ unseen \in [Socket -> BOOLEAN]
  /\ incoming \in [Socket -> Seq(Question \cup {"stop", "gone"})]
  /\ turn \in [Socket -> Turn]
  /\ events \in [Socket -> Seq(Event)]
  /\ past \in [Socket -> Seq(Message)] /\ messages \in [Socket -> Seq(Message)]
  /\ cache \in [Question -> Text] /\ decisions \subseteq Question
  /\ endpoint \in [Endpoint -> [saved : BOOLEAN, local : BOOLEAN, enabled : BOOLEAN]]
  /\ consent \in [Gated -> Row] /\ yes \in [Gated -> Scope]
  /\ asked \in [Socket -> SUBSET Gated] /\ agreed \in [Socket -> SUBSET Gated]
  /\ relabelled \subseteq Endpoint /\ whole \subseteq Question \X Text
  /\ late \in [Socket -> Int] /\ counts \in [{"ask", "stop", "change", "fail"} -> Nat]

\* What the client was shown of a turn.
Shown(c) == FlattenSeq([i \in DOMAIN events[c] |-> events[c][i].text])

\* The reply that is stored is what the client has seen, no more (a token that
\* a stop dropped) and no less, from one model, and only one that ended well.
ReplyIsWhatWasShown == [][\A c \in Socket :
  Len(messages'[c]) > Len(messages[c]) /\ Last(messages'[c]).role = "assistant" =>
    /\ Last(messages'[c]).text = Shown(c)
    /\ Cardinality(Range(Shown(c))) = 1
    /\ Last(events[c]).kind \in {"done", "stopped"}]_vars

\* The history that the next prompt is built from is the end of what is stored.
HistoryIsStored == \A c \in Socket :
  At(c, "waiting") => IsSuffix(past[c], messages[c])

\* What leaves the machine: a model or a search is used only if the user had
\* agreed to it at some moment of the turn (or had saved it again, at some moment
\* of the turn, under the other locality: see AgreedNow).
UsesWhatIsAgreed == \A c \in Socket : asked[c] \subseteq agreed[c]

\* Once a stop is in the queue, at most the one token goes out that was under
\* way, however slow the model and whichever model takes over.
StopIsHeeded == \A c \in Socket : late[c] <= 1

\* A reply that the cache serves was given in full, once, by a model, to
\* someone whose question no decision answered.
CacheIsWhole == \A q \in Question : cache[q] # <<>> => <<q, cache[q]>> \in whole

\* "A Decision Log hit always overrides a cache hit."  TLC refutes it.
DecisionsOverride == [][\A c \in Socket :
  At(c, "lookup") /\ turn'[c].step = "recall" => turn[c].question \notin decisions]_vars

\* A turn comes to its end, and what was said in it comes to the Observer, with
\* the client there or gone.
TurnsEnd == \A c \in Socket : At(c, "route") ~> turn[c].step \in {"waiting", "closed"}
TurnsAreObserved == \A c \in Socket : unseen[c] ~> ~unseen[c]

\* "A disconnect [...] is turned into the _DISCONNECT sentinel" for the loop to
\* end on: a client that left is noticed.  TLC refutes it.
LeavingIsNoticed == \A c \in Socket : ~client[c] ~> At(c, "closed")
=============================================================================
