--------------------------- MODULE ChatTurnProofs ---------------------------
(***************************************************************************)
(* What ChatTurn keeps to for every set of conversations and questions and   *)
(* every chain of models: its types, a history that is the end of what is    *)
(* stored, models and searches that were agreed to, a stop that lets one     *)
(* token through at most, a cache of replies that were given in full, and    *)
(* stored replies that are what the client was shown.                        *)
(***************************************************************************)
EXTENDS ChatTurn, TLAPS, FiniteSetTheorems, SequenceTheorems, WellFoundedInduction

-----------------------------------------------------------------------------
(* The invariants                                                           *)

\* The steps of a turn before the cached reply or the first model.
Before == {"begin", "route", "lookup", "retrieve", "search", "gate", "hint"}

\* A turn at work has its question, and a chain of models where it asks them.
Formed == {t \in Turn :
  /\ t.step \in Working => t.question \in Question
  /\ t.step \in {"hint", "chat"} => t.todo # {}}

Typed == TypeOK /\ turn \in [Socket -> Formed]

\* While the loop goes round, and in a turn until both of its messages are
\* kept, memory and table end alike.
StoredInv == \A c \in Socket :
  turn[c].step \notin {"closed", "closing"} => IsSuffix(past[c], messages[c])

\* A consent row tells what the user said: a local one is of an endpoint saved
\* as local, and a cloud one that consents has the scope of the last yes.
ConsentTells == \A p \in Gated :
  /\ ~consent[p].cloud /\ p \in Endpoint \ relabelled => endpoint[p].saved /\ endpoint[p].local
  /\ consent[p].cloud /\ consent[p].consented /\ ~consent[p].revoked => yes[p] = consent[p].scope
  /\ p = "web_search" /\ p \notin Endpoint => consent[p].cloud

\* What is agreed to now counts for every turn at work, and what a turn has
\* used or goes on to use counted at some moment of it.
AgreedInv ==
  /\ ConsentTells
  /\ \A c \in Socket :
       /\ asked[c] \subseteq agreed[c]
       /\ turn[c].step \in Working => AgreedNow \subseteq agreed[c]
       /\ turn[c].step \in {"hint", "chat"} => turn[c].todo \subseteq agreed[c]
       /\ turn[c].step \in {"closed", "waiting"} => asked[c] = {}

\* A stop that reached the queue is still in it or has been read, until the
\* turn has no more tokens to send.
StopInv == \A c \in Socket :
  /\ late[c] \in -1 .. 1
  /\ turn[c].step \in {"closed", "waiting"} => late[c] = -1
  /\ turn[c].step \in Before => late[c] <= 0
  /\ turn[c].step \in Before \cup {"chat"} /\ late[c] >= 0 =>
       turn[c].stopping \/ "stop" \in Range(incoming[c])
  /\ turn[c].step = "chat" /\ late[c] = 1 => turn[c].stopping \/ ~turn[c].drained
  /\ turn[c].step = "recall" /\ late[c] = 1 => Len(events[c]) >= 2

\* A reply on its way into the cache ended well.
CacheInv ==
  /\ CacheIsWhole
  /\ \A c \in Socket :
       At(c, "deliver") /\ turn[c].status = "success" /\ ~turn[c].decided =>
         <<turn[c].question, turn[c].reply>> \in whole

-----------------------------------------------------------------------------
(* Sets of positions, and the first in the chain                             *)

LEMMA LeastOfNumbers ==
  ASSUME NEW S \in SUBSET (Nat \ {0}), NEW n \in S
  PROVE  \E m \in S : \A k \in S : m <= k
<1> DEFINE T == {1 .. k : k \in S}
<1>1. T \subseteq FiniteSubsetsOf(Nat) /\ T # {}
  BY FS_Interval DEF FiniteSubsetsOf
<1>2. PICK x \in T : \A y \in T : ~(<<y, x>> \in StrictSubsetOrdering(Nat))
  BY <1>1, FS_StrictSubsetOrderingWellFounded, WFMin
<1>3. PICK m \in S : x = 1 .. m
  OBVIOUS
<1>4. ASSUME NEW k \in S, k < m PROVE FALSE
  <2>1. 1 .. k \subseteq 1 .. m /\ m \in 1 .. m /\ m \notin 1 .. k
    BY <1>4
  <2>2. 1 .. k \in SUBSET Nat /\ 1 .. m \in SUBSET Nat
    OBVIOUS
  <2>3. <<1 .. k, 1 .. m>> \in StrictSubsetOrdering(Nat)
    BY <2>1, <2>2 DEF StrictSubsetOrdering
  <2>4. 1 .. k \in T
    OBVIOUS
  <2> QED
    BY <1>2, <1>3, <2>3, <2>4
<1> QED
  BY <1>4

LEMMA FirstIsOne ==
  ASSUME NEW S \in SUBSET Range(Order), S # {}
  PROVE  First(S) \in S
<1> DEFINE I == {i \in 1 .. Len(Order) : Order[i] \in S}
<1>1. Order \in Seq(STRING)
  BY OrderAssumption
<1>2. PICK n \in I : TRUE
  BY <1>1 DEF Range
<1>3. \E m \in I : \A k \in I : m <= k
  <2>1. I \in SUBSET (Nat \ {0})
    BY <1>1
  <2> QED
    BY <1>2, <2>1, LeastOfNumbers
<1>4. Min(I) \in I
  BY <1>3 DEF Min
<1>5. First(S) = Order[Min(I)]
  BY <1>2 DEF First, SelectInSeq
<1> QED
  BY <1>4, <1>5

-----------------------------------------------------------------------------
(* Types                                                                     *)

LEMMA IdleFormed ==
  /\ \A s \in Step \ Working : Idle(s) \in Formed
  /\ \A q \in Question : [Idle("begin") EXCEPT !.question = q] \in Formed
BY EmptySeq DEF Formed, Turn, Idle, Text, Step, Working, Streaming

LEMMA StepFormed ==
  ASSUME NEW t \in Formed, NEW s \in Step, t.step \in Working,
         s \in {"hint", "chat"} => t.todo # {}
  PROVE  [t EXCEPT !.step = s] \in Formed
BY DEF Formed, Turn

LEMMA InitTyped == Init => Typed
<1> SUFFICES ASSUME Init PROVE Typed
  OBVIOUS
<1>1. turn \in [Socket -> Formed]
  BY IdleFormed DEF Init, Step, Working, Streaming
<1>2. TypeOK
  <2> USE DEF Init
  <2>1. turn \in [Socket -> Turn]
    BY <1>1 DEF Formed
  <2>2. /\ client \in [Socket -> BOOLEAN] /\ unseen \in [Socket -> BOOLEAN]
        /\ incoming \in [Socket -> Seq(Question \cup {"stop", "gone"})]
        /\ events \in [Socket -> Seq(Event)]
        /\ past \in [Socket -> Seq(Message)] /\ messages \in [Socket -> Seq(Message)]
        /\ cache \in [Question -> Text]
    BY EmptySeq DEF Text
  <2>3. /\ endpoint \in [Endpoint -> [saved : BOOLEAN, local : BOOLEAN, enabled : BOOLEAN]]
        /\ consent \in [Gated -> Row] /\ yes \in [Gated -> Scope]
    <3>1. NoRow \in Row /\ "none" \in Scope
      BY DEF NoRow, Row, Scope
    <3>2. \A p \in DOMAIN Seeded : Seeded[p] \in Row
      <4>1. Seeded.ollama \in Row /\ Seeded.web_search \in Row
        BY DEF Seeded, Row, Scope
      <4>2. DOMAIN Seeded = {"ollama", "web_search"}
        BY DEF Seeded
      <4> QED
        BY <4>1, <4>2
    <3> QED
      BY <3>1, <3>2 DEF NoEndpoint
  <2> QED
    BY <2>1, <2>2, <2>3 DEF TypeOK
<1> QED
  BY <1>1, <1>2 DEF Typed

\* What a send makes of the variables it changes.
LEMMA SendsTyped ==
  ASSUME Typed, NEW c \in Socket, NEW next \in Formed, NEW sent \in Seq(Event),
         Sends(c, next, sent)
  PROVE  /\ turn' \in [Socket -> Formed]
         /\ events' \in [Socket -> Seq(Event)]
         /\ late' \in [Socket -> Int]
<1>1. [next EXCEPT !.drained = FALSE] \in Formed /\ Idle("closing") \in Formed
  BY IdleFormed DEF Formed, Turn, Step, Working, Streaming
<1>2. turn' \in [Socket -> Formed]
  BY <1>1 DEF Sends, Typed
<1>3. events' \in [Socket -> Seq(Event)]
  <2>1. events[c] \o sent \in Seq(Event)
    BY ConcatProperties DEF Typed, TypeOK
  <2> QED
    BY <2>1 DEF Sends, Typed, TypeOK
<1>4. late' \in [Socket -> Int]
  BY DEF Sends, Typed, TypeOK
<1> QED
  BY <1>2, <1>3, <1>4

LEMMA CountsTyped ==
  ASSUME Typed, NEW k \in {"ask", "stop", "change", "fail"}, NEW max, Counts(k, max)
  PROVE  counts' \in [{"ask", "stop", "change", "fail"} -> Nat]
BY DEF Typed, TypeOK, Counts

\* The client.
LEMMA ClientTyped ==
  ASSUME NEW c \in Socket, Typed, Client(c)
  PROVE  Typed'
<1> DEFINE Msg == Question \cup {"stop", "gone"}
<1> USE DEF Typed, TypeOK, wire, talk, settings
<1>1. CASE Connect(c)
  <2>1. turn' \in [Socket -> Formed]
    BY <1>1, IdleFormed DEF Connect, Step, Working, Streaming
  <2>2. incoming' \in [Socket -> Seq(Msg)]
    BY <1>1 DEF Connect
  <2> QED
    BY <1>1, <2>1, <2>2 DEF Connect, Formed
<1>2. ASSUME NEW msg \in Msg, Puts(c, msg)
      PROVE  incoming' \in [Socket -> Seq(Msg)]
  BY <1>2, AppendProperties DEF Puts
<1>3. CASE \E q \in Question : Ask(c, q)
  <2>1. counts' \in [{"ask", "stop", "change", "fail"} -> Nat]
    BY <1>3, CountsTyped DEF Ask
  <2>2. incoming' \in [Socket -> Seq(Msg)]
    BY <1>2, <1>3 DEF Ask
  <2> QED
    BY <1>3, <2>1, <2>2 DEF Ask, Puts
<1>4. CASE Stop(c)
  <2>1. counts' \in [{"ask", "stop", "change", "fail"} -> Nat]
    BY <1>4, CountsTyped DEF Stop
  <2>2. late' \in [Socket -> Int]
    BY <1>4 DEF Stop
  <2> QED
    BY <1>2, <1>4, <2>1, <2>2 DEF Stop, Puts
<1>5. CASE Leave(c)
  <2>1. counts' \in [{"ask", "stop", "change", "fail"} -> Nat]
    BY <1>5, CountsTyped DEF Leave
  <2> QED
    BY <1>2, <1>5, <2>1 DEF Leave, Puts
<1> QED
  BY <1>1, <1>3, <1>4, <1>5 DEF Client

LEMMA AgreedTyped == Typed => AgreedNow \subseteq Gated
BY DEF Typed, TypeOK, AgreedNow, Gated, Endpoint

\* Between turns.
LEMMA LoopTyped ==
  ASSUME NEW c \in Socket, Typed,
         Receive(c) \/ Begin(c) \/ Close(c) \/ IdleTimeout(c)
  PROVE  Typed'
<1> USE DEF Typed, TypeOK, wire, talk, settings
<1>0. /\ Idle("closing") \in Formed /\ Idle("closed") \in Formed /\ Idle("waiting") \in Formed
      /\ [Socket -> Formed] \subseteq [Socket -> Turn]
      /\ <<>> \in Seq(Event)
  BY IdleFormed, EmptySeq DEF Step, Working, Streaming, Formed
<1>1. CASE Receive(c)
  <2>1. Head(incoming[c]) \in Question \cup {"stop", "gone"}
    BY <1>1, HeadTailProperties DEF Receive
  <2>2. incoming' \in [Socket -> Seq(Question \cup {"stop", "gone"})]
    <3>1. Tail(incoming[c]) \in Seq(Question \cup {"stop", "gone"})
      BY <1>1, HeadTailProperties DEF Receive
    <3> QED
      BY <1>1, <3>1 DEF Receive
  <2>3. /\ turn' \in [Socket -> Formed]
        /\ events' \in [Socket -> Seq(Event)]
        /\ late' \in [Socket -> Int]
        /\ agreed' \in [Socket -> SUBSET Gated]
    <3>1. Sends(c, Idle("waiting"), <<>>) =>
            /\ turn' \in [Socket -> Formed]
            /\ events' \in [Socket -> Seq(Event)]
            /\ late' \in [Socket -> Int]
      BY <1>0, SendsTyped
    <3>2. turn' \in [Socket -> Formed]
      <4>1. PICK t \in {[Idle("begin") EXCEPT !.question = Head(incoming[c])], Idle("closing")} :
              \/ Sends(c, Idle("waiting"), <<>>)
              \/ t \in Formed /\ turn' = [turn EXCEPT ![c] = t]
        BY <1>0, <1>1, IdleFormed DEF Receive
      <4> QED
        BY <3>1, <4>1
    <3>3. events' \in [Socket -> Seq(Event)] /\ late' \in [Socket -> Int]
      BY <1>1, <3>1 DEF Receive
    <3>4. agreed' \in [Socket -> SUBSET Gated]
      BY <1>1, AgreedTyped DEF Receive
    <3> QED
      BY <3>2, <3>3, <3>4
  <2> QED
    BY <1>0, <1>1, <2>2, <2>3 DEF Receive
<1>2. CASE Begin(c)
  <2>1. [turn[c] EXCEPT !.step = "route"] \in Formed
    BY <1>2, StepFormed DEF Begin, At, Step, Working, Streaming
  <2>2. turn' \in [Socket -> Formed] /\ events' \in [Socket -> Seq(Event)] /\ late' \in [Socket -> Int]
    BY <1>0, <1>2, <2>1, SendsTyped DEF Begin
  <2> QED
    BY <1>0, <1>2, <2>2 DEF Begin
<1>3. CASE Close(c)
  <2>1. turn' \in [Socket -> Formed]
    BY <1>0, <1>3 DEF Close
  <2>2. /\ incoming' \in [Socket -> Seq(Question \cup {"stop", "gone"})]
        /\ past' \in [Socket -> Seq(Message)]
        /\ events' \in [Socket -> Seq(Event)]
    BY <1>3, EmptySeq DEF Close, Over
  <2>3. late' \in [Socket -> Int] /\ agreed' \in [Socket -> SUBSET Gated] /\ asked' \in [Socket -> SUBSET Gated]
    BY <1>3 DEF Close, Over
  <2> QED
    BY <1>0, <1>3, <2>1, <2>2, <2>3 DEF Close
<1>4. CASE IdleTimeout(c)
  BY <1>4, EmptySeq DEF IdleTimeout
<1> QED
  BY <1>1, <1>2, <1>3, <1>4

\* The messages of a turn are kept, or something raises.
LEMMA KeepTyped ==
  ASSUME NEW c \in Socket, Typed, KeepUser(c) \/ KeepReply(c) \/ Raises(c)
  PROVE  Typed'
<1> USE DEF Typed, TypeOK, wire, talk, settings
<1> DEFINE t == turn[c]
<1>0. /\ Idle("closing") \in Formed /\ Idle("waiting") \in Formed
      /\ [Socket -> Formed] \subseteq [Socket -> Turn]
      /\ t \in Formed
  BY IdleFormed DEF Step, Working, Streaming, Formed
<1>1. t.step \in Working =>
        /\ \A role \in {"user", "assistant"} : Said(c, role) \in Message
        /\ \A role \in {"user", "assistant"} :
             /\ Append(past[c], Said(c, role)) \in Seq(Message)
             /\ Append(messages[c], Said(c, role)) \in Seq(Message)
  <2> SUFFICES ASSUME t.step \in Working, NEW role \in {"user", "assistant"}
               PROVE  /\ Said(c, role) \in Message
                      /\ Append(past[c], Said(c, role)) \in Seq(Message)
                      /\ Append(messages[c], Said(c, role)) \in Seq(Message)
    OBVIOUS
  <2>1. Said(c, role) \in Message
    BY <1>0, EmptySeq DEF Said, Message, Formed, Turn, Text
  <2> QED
    BY <2>1, AppendProperties
<1>2. CASE KeepUser(c)
  <2>1. t.step \in Working
    BY <1>2 DEF KeepUser, At, Working
  <2>2. [t EXCEPT !.step = "keepReply"] \in Formed
    BY <1>0, <2>1, StepFormed DEF Step, Working
  <2>3. turn' \in [Socket -> Formed]
    BY <1>2, <2>2 DEF KeepUser
  <2> QED
    BY <1>0, <1>1, <1>2, <2>1, <2>3 DEF KeepUser
<1>3. CASE KeepReply(c)
  <2>1. t.step \in Working
    BY <1>3 DEF KeepReply, At, Working
  <2>2. turn' \in [Socket -> Formed]
    BY <1>0, <1>3 DEF KeepReply
  <2>3. past' \in [Socket -> Seq(Message)] /\ messages' \in [Socket -> Seq(Message)]
    BY <1>1, <1>3, <2>1 DEF KeepReply
  <2>4. events' \in [Socket -> Seq(Event)]
    BY <1>3, EmptySeq DEF KeepReply, Over
  <2>5. late' \in [Socket -> Int] /\ agreed' \in [Socket -> SUBSET Gated] /\ asked' \in [Socket -> SUBSET Gated]
    BY <1>3 DEF KeepReply, Over
  <2> QED
    BY <1>0, <1>3, <2>2, <2>3, <2>4, <2>5 DEF KeepReply
<1>4. CASE Raises(c)
  <2>1. turn' \in [Socket -> Formed]
    BY <1>0, <1>4 DEF Raises
  <2>2. past' \in [Socket -> Seq(Message)] /\ unseen' \in [Socket -> BOOLEAN]
    BY <1>1, <1>4 DEF Raises
  <2>3. counts' \in [{"ask", "stop", "change", "fail"} -> Nat]
    BY <1>4, CountsTyped DEF Raises
  <2> QED
    BY <1>0, <1>4, <2>1, <2>2, <2>3 DEF Raises
<1> QED
  BY <1>2, <1>3, <1>4

\* Other requests.
LEMMA OthersTyped ==
  ASSUME Typed, Others
  PROVE  Typed'
<1> DEFINE Settings ==
      /\ cache \in [Question -> Text] /\ decisions \subseteq Question
      /\ endpoint \in [Endpoint -> [saved : BOOLEAN, local : BOOLEAN, enabled : BOOLEAN]]
      /\ consent \in [Gated -> Row] /\ yes \in [Gated -> Scope]
      /\ relabelled \subseteq Endpoint
<1>1. Settings
  BY DEF Typed, TypeOK
<1>2. ASSUME NEW q \in Question, Decide(q) \/ Expire(q)
      PROVE  Settings' /\ Meanwhile
  BY <1>1, <1>2, EmptySeq DEF Decide, Expire, settings, Text
<1>3. ASSUME NEW p \in Gated, Revoke(p) \/ RemoveEndpoint(p) \/ \E s \in Scope : Grant(p, s)
      PROVE  Settings' /\ Meanwhile
  <2>1. CASE Revoke(p)
    BY <1>1, <2>1 DEF Revoke, Row, Scope
  <2>2. CASE RemoveEndpoint(p)
    BY <1>1, <2>2 DEF RemoveEndpoint, Row, Scope, NoRow, NoEndpoint
  <2>3. CASE \E s \in Scope : Grant(p, s)
    BY <1>1, <2>3 DEF Grant, Row
  <2> QED
    BY <1>3, <2>1, <2>2, <2>3
<1>4. ASSUME NEW p \in Endpoint, SwitchEndpoint(p) \/ \E l \in BOOLEAN : AddEndpoint(p, l)
      PROVE  Settings' /\ Meanwhile
  <2>1. CASE SwitchEndpoint(p)
    BY <1>1, <2>1 DEF SwitchEndpoint
  <2>2. ASSUME NEW l \in BOOLEAN, AddEndpoint(p, l)
        PROVE  Settings' /\ Meanwhile
    <3>1. consent' \in [Gated -> Row]
      BY <1>1, <2>2 DEF AddEndpoint, Row, Scope
    <3> QED
      BY <1>1, <2>2, <3>1 DEF AddEndpoint
  <2> QED
    BY <1>4, <2>1, <2>2
<1>5. Settings' /\ Meanwhile
  BY <1>2, <1>3, <1>4 DEF Others
<1>6. agreed' \in [Socket -> SUBSET Gated]
  <2>1. AgreedNow' \subseteq Gated
    BY <1>5 DEF AgreedNow, Gated, Endpoint
  <2> QED
    BY <1>5, <2>1 DEF Meanwhile, Typed, TypeOK
<1>7. counts' \in [{"ask", "stop", "change", "fail"} -> Nat]
  BY <1>5, CountsTyped DEF Meanwhile
<1> QED
  BY <1>5, <1>6, <1>7 DEF Meanwhile, Typed, TypeOK, wire, talk

Kind == {"hint", "token", "done", "error", "stopped"}

LEMMA EventTyped ==
  /\ <<>> \in Text /\ <<>> \in Seq(Event)
  /\ \A kind \in Kind, text \in Text : E(kind, text) \in Seq(Event)
BY EmptySeq DEF E, Event, Text, Kind

\* Steps of the stages that ask no model.
Quiet(c) == \/ Drain(c) \/ Route(c) \/ Lookup(c) \/ Recall(c) \/ Retrieve(c)
            \/ Search(c) \/ Gate(c) \/ Hint(c) \/ Deliver(c)
\* Steps of a model.
Speaks(c) == Token(c) \/ Done(c) \/ ProviderFails(c)

LEMMA QuietTyped ==
  ASSUME NEW c \in Socket, Typed, Quiet(c)
  PROVE  Typed'
<1> USE DEF Rest, wire, talk, settings
<1> DEFINE t == turn[c]
           Wire == /\ turn \in [Socket -> Formed]
                   /\ events \in [Socket -> Seq(Event)]
                   /\ late \in [Socket -> Int]
<1>1. /\ t \in Formed
      /\ cache \in [Question -> Text]
      /\ Wire
      /\ t.step \in Working => t.question \in Question
  BY DEF Typed, TypeOK, Formed
<1>2. ASSUME NEW next \in Formed, NEW sent \in Seq(Event), Sends(c, next, sent)
      PROVE  Wire'
  BY <1>2, SendsTyped
<1>3. ASSUME NEW next \in Formed, turn' = [turn EXCEPT ![c] = next], UNCHANGED <<events, late>>
      PROVE  Wire'
  BY <1>1, <1>3
<1>4. ASSUME Wire', UNCHANGED <<Rest, cache, asked, whole, counts>>
      PROVE  Typed'
  BY <1>4 DEF Typed, TypeOK, Formed
<1>5. \A s \in Step : t.step \in Working /\ s \notin {"hint", "chat"} => [t EXCEPT !.step = s] \in Formed
  BY <1>1, StepFormed
<1>6. CASE Drain(c)
  <2> DEFINE u == [t EXCEPT !.drained = TRUE, !.stopping = StopRead(c)]
  <2>1. u \in Formed
    <3>1. StopRead(c) \in BOOLEAN
      BY <1>1 DEF StopRead, Formed, Turn
    <3> QED
      BY <1>1, <3>1 DEF Formed, Turn
  <2>2. turn' \in [Socket -> Formed]
    BY <1>1, <1>6, <2>1 DEF Drain
  <2>3. incoming' \in [Socket -> Seq(Question \cup {"stop", "gone"})]
    BY <1>6, EmptySeq DEF Drain, Typed, TypeOK
  <2> QED
    BY <1>6, <2>2, <2>3 DEF Drain, Typed, TypeOK, Formed
<1>7. CASE Route(c)
  <2>1. [t EXCEPT !.step = "lookup"] \in Formed
    BY <1>5, <1>7 DEF Route, Ready, Step, Working, Streaming
  <2> QED
    BY <1>2, <1>4, <1>7, <2>1, EventTyped DEF Route
<1>8. CASE Lookup(c)
  <2>1. t.question \in Question /\ t.step \in Working
    BY <1>1, <1>8 DEF Lookup, Ready, Working, Streaming
  <2>2. /\ [t EXCEPT !.step = "recall", !.reply = cache[t.question]] \in Formed
        /\ [t EXCEPT !.step = "retrieve", !.decided = t.question \in decisions] \in Formed
        /\ [t EXCEPT !.step = "retrieve"] \in Formed
    <3>1. "recall" \in Step /\ "retrieve" \in Step
      BY DEF Step, Working, Streaming
    <3>2. (t.question \in decisions) \in BOOLEAN /\ cache[t.question] \in Text
      BY <1>1, <2>1
    <3> QED
      BY <1>1, <2>1, <3>1, <3>2 DEF Formed, Turn
  <2>3. Wire'
    BY <1>2, <1>8, <2>2, EventTyped DEF Lookup
  <2>4. counts' \in [{"ask", "stop", "change", "fail"} -> Nat]
    BY <1>8, CountsTyped DEF Lookup, Typed, TypeOK
  <2> QED
    BY <1>8, <2>3, <2>4 DEF Lookup, Typed, TypeOK, Formed
<1>9. CASE Recall(c)
  <2>1. [t EXCEPT !.status = "success"] \in Formed
    BY <1>1 DEF Formed, Turn
  <2>2. [t EXCEPT !.step = "keepUser"] \in Formed
    BY <1>5, <1>9 DEF Recall, Ready, Step, Working, Streaming
  <2>3. /\ E("hint", <<>>) \in Seq(Event) /\ E("done", <<>>) \in Seq(Event)
        /\ E("token", t.reply) \in Seq(Event)
    BY <1>1, EventTyped DEF Kind, Formed, Turn
  <2>4. Wire'
    BY <1>1, <1>2, <1>3, <1>9, <2>1, <2>2, <2>3 DEF Recall
  <2> QED
    BY <1>4, <1>9, <2>4 DEF Recall
<1>10. CASE Retrieve(c)
  <2>1. [t EXCEPT !.step = "search"] \in Formed
    BY <1>5, <1>10 DEF Retrieve, Ready, Step, Working, Streaming
  <2> QED
    BY <1>2, <1>4, <1>10, <2>1, EventTyped DEF Retrieve
<1>11. CASE Search(c)
  <2>1. [t EXCEPT !.step = "gate"] \in Formed
    BY <1>5, <1>11 DEF Search, Ready, Step, Working, Streaming
  <2>2. Wire'
    BY <1>2, <1>3, <1>11, <2>1, EventTyped DEF Search
  <2>3. asked' \in [Socket -> SUBSET Gated]
    BY <1>11 DEF Search, Typed, TypeOK, Gated
  <2> QED
    BY <1>11, <2>2, <2>3 DEF Search, Typed, TypeOK, Formed
<1>12. CASE Gate(c)
  <2>1. GatedProviders # {} => [t EXCEPT !.step = "hint", !.todo = GatedProviders] \in Formed
    BY <1>1, <1>12 DEF Gate, Ready, Formed, Turn, Step, Working, Streaming, GatedProviders
  <2>2. [t EXCEPT !.step = "keepUser", !.status = "error"] \in Formed
    BY <1>1, <1>12 DEF Gate, Ready, Formed, Turn, Step, Working, Streaming
  <2>3. Wire'
    BY <1>2, <1>3, <1>12, <2>1, <2>2, EventTyped DEF Gate
  <2> QED
    BY <1>4, <1>12, <2>3 DEF Gate
<1>13. CASE Hint(c)
  <2>1. [t EXCEPT !.step = "chat"] \in Formed
    BY <1>1, <1>13 DEF Hint, Ready, Formed, Turn, Step, Working, Streaming
  <2>2. E("hint", <<>>) \in Seq(Event)
    BY EventTyped DEF Kind
  <2> QED
    BY <1>2, <1>4, <1>13, <2>1, <2>2 DEF Hint
<1>14. CASE Deliver(c)
  <2>1. [t EXCEPT !.step = "keepUser"] \in Formed
    BY <1>5, <1>14 DEF Deliver, Ready, Step, Working, Streaming
  <2>2. Wire'
    BY <1>3, <1>14, <2>1 DEF Deliver
  <2>3. cache' \in [Question -> Text]
    BY <1>1, <1>14 DEF Deliver, Formed, Turn
  <2> QED
    BY <1>14, <2>2, <2>3 DEF Deliver, Typed, TypeOK, Formed
<1> QED
  BY <1>6, <1>7, <1>8, <1>9, <1>10, <1>11, <1>12, <1>13, <1>14 DEF Quiet

LEMMA SpeaksTyped ==
  ASSUME NEW c \in Socket, Typed, Speaks(c)
  PROVE  Typed'
<1> USE DEF Rest, wire, talk, settings
<1> DEFINE t == turn[c]
           p == Provider(c)
           Wire == /\ turn \in [Socket -> Formed]
                   /\ events \in [Socket -> Seq(Event)]
                   /\ late \in [Socket -> Int]
<1>1. t \in Formed /\ Wire /\ Ready(c, "chat") /\ t.step = "chat"
  BY DEF Typed, TypeOK, Speaks, Token, Done, ProviderFails, Chats, Ready
<1>2. t.question \in Question /\ t.reply \in Text /\ t.todo \in SUBSET Range(Order) /\ t.todo # {}
  BY <1>1 DEF Formed, Turn, Working, Streaming
<1>3. p \in Range(Order) /\ p \in t.todo
  BY <1>2, FirstIsOne DEF Provider
<1>4. ASSUME NEW next \in Formed, NEW sent \in Seq(Event), Sends(c, next, sent)
      PROVE  Wire'
  BY <1>4, SendsTyped
<1>5. ASSUME NEW kind \in Kind, NEW status \in {"success", "error", "stopped"}, Ends(c, kind, status)
      PROVE  Wire'
  <2>1. [t EXCEPT !.step = "deliver", !.status = status] \in Formed
    BY <1>1, <1>2 DEF Formed, Turn, Step, Working, Streaming
  <2>2. E(kind, <<>>) \in Seq(Event)
    BY EventTyped
  <2> QED
    BY <1>4, <1>5, <2>1, <2>2 DEF Ends
<1>6. Chats(c) => asked' \in [Socket -> SUBSET Gated]
  BY <1>3 DEF Chats, Typed, TypeOK, Gated
<1>7. CASE Token(c)
  <2>1. <<p>> \in Text /\ Append(t.reply, p) \in Text
    BY <1>2, <1>3, AppendProperties DEF Text
  <2>2. E("token", <<p>>) \in Seq(Event)
    BY <2>1, EventTyped DEF Kind
  <2>3. [t EXCEPT !.reply = Append(@, p)] \in Formed
    BY <1>1, <1>2, <2>1 DEF Formed, Turn
  <2>4. Wire'
    BY <1>4, <1>5, <1>7, <2>2, <2>3 DEF Token, Kind
  <2> QED
    BY <1>6, <1>7, <2>4 DEF Token, Typed, TypeOK, Formed
<1>8. CASE Done(c)
  <2>1. Wire'
    BY <1>5, <1>8 DEF Done, Kind
  <2>2. whole' \subseteq Question \X Text
    BY <1>2, <1>8 DEF Done, Typed, TypeOK
  <2> QED
    BY <1>6, <1>8, <2>1, <2>2 DEF Done, Typed, TypeOK, Formed
<1>9. CASE ProviderFails(c)
  <2>1. Remaining(c) # {} => [t EXCEPT !.todo = Remaining(c)] \in Formed
    BY <1>1, <1>2 DEF Remaining, Formed, Turn
  <2>2. Wire'
    <3>1. CASE Ends(c, "error", "error")
      BY <1>5, <3>1 DEF Kind
    <3>2. CASE Remaining(c) # {} /\ turn' = [turn EXCEPT ![c].todo = Remaining(c)] /\ UNCHANGED <<events, late>>
      BY <1>1, <2>1, <3>2
    <3> QED
      BY <1>9, <3>1, <3>2 DEF ProviderFails
  <2>3. counts' \in [{"ask", "stop", "change", "fail"} -> Nat]
    BY <1>9, CountsTyped DEF ProviderFails
  <2> QED
    BY <1>6, <1>9, <2>2, <2>3 DEF ProviderFails, Typed, TypeOK, Formed
<1> QED
  BY <1>7, <1>8, <1>9 DEF Speaks

\* The steps of Next, in the groups that the lemmas speak of.
LEMMA NextCases ==
  ASSUME Next
  PROVE  \/ Others
         \/ \E c \in Socket :
              \/ Client(c)
              \/ Receive(c) \/ Begin(c) \/ Close(c) \/ IdleTimeout(c)
              \/ KeepUser(c) \/ KeepReply(c) \/ Raises(c)
              \/ Quiet(c) \/ Speaks(c)
BY DEF Next, Handles, Quiet, Speaks

LEMMA StepTyped == Typed /\ [Next]_vars => Typed'
<1> SUFFICES ASSUME Typed, [Next]_vars PROVE Typed'
  OBVIOUS
<1>1. CASE UNCHANGED vars
  BY <1>1 DEF vars, wire, talk, settings, Typed, TypeOK, Formed
<1>2. CASE Next
  BY <1>2, NextCases, OthersTyped, ClientTyped, LoopTyped, KeepTyped, QuietTyped, SpeaksTyped
<1> QED
  BY <1>1, <1>2

LEMMA SpecTyped == Spec => []Typed
BY InitTyped, StepTyped, PTL DEF Spec

\* Every variable keeps its type.
THEOREM Typing == Spec => []TypeOK
<1>1. Typed => TypeOK
  BY DEF Typed
<1> QED
  BY <1>1, SpecTyped, PTL

-----------------------------------------------------------------------------
(* What the steps of one turn leave alone                                    *)

LEMMA SendsFrame ==
  ASSUME Typed, NEW c \in Socket, NEW next, NEW sent, Sends(c, next, sent)
  PROVE  /\ turn'[c] \in {[next EXCEPT !.drained = FALSE], Idle("closing")}
         /\ \A d \in Socket \ {c} :
              turn'[d] = turn[d] /\ events'[d] = events[d] /\ late'[d] = late[d]
BY DEF Sends, Typed, TypeOK

LEMMA Frame ==
  ASSUME NEW c \in Socket, Typed, Quiet(c) \/ Speaks(c)
  PROVE  /\ turn[c].step \in Streaming
         /\ UNCHANGED <<talk, settings, agreed>>
         /\ \A d \in Socket \ {c} :
              /\ turn'[d] = turn[d] /\ events'[d] = events[d] /\ late'[d] = late[d]
              /\ incoming'[d] = incoming[d] /\ asked'[d] = asked[d]
<1> USE DEF Rest
<1>1. turn[c].step \in Streaming /\ UNCHANGED <<talk, settings, agreed>>
  <2>1. CASE Quiet(c)
    BY <2>1 DEF Quiet, Drain, Route, Lookup, Recall, Retrieve, Search, Gate, Hint, Deliver, Ready, Streaming
  <2>2. CASE Speaks(c)
    BY <2>2 DEF Speaks, Token, Done, ProviderFails, Chats, Ready, Streaming
  <2> QED
    BY <2>1, <2>2
<1>2. ASSUME NEW d \in Socket \ {c}
      PROVE  /\ turn'[d] = turn[d] /\ events'[d] = events[d] /\ late'[d] = late[d]
             /\ incoming'[d] = incoming[d] /\ asked'[d] = asked[d]
  <2> DEFINE Sent == turn'[d] = turn[d] /\ events'[d] = events[d] /\ late'[d] = late[d]
             Still == incoming'[d] = incoming[d] /\ asked'[d] = asked[d]
  <2>1. \A next, sent : Sends(c, next, sent) => Sent
    BY SendsFrame
  <2>2. ASSUME NEW next, turn' = [turn EXCEPT ![c] = next], UNCHANGED <<events, late>>
        PROVE  Sent
    BY <2>2 DEF Typed, TypeOK
  <2>3. \A kind, status : Ends(c, kind, status) => Sent
    BY <2>1 DEF Ends
  <2> HIDE DEF Sent
  <2>4. CASE Quiet(c)
    <3>1. Sent
      BY <2>1, <2>2, <2>4 DEF Quiet, Drain, Route, Lookup, Recall, Retrieve, Search, Gate, Hint, Deliver
    <3>2. Still
      BY <2>4 DEF Quiet, Drain, Route, Lookup, Recall, Retrieve, Search, Gate, Hint, Deliver, Typed, TypeOK
    <3> QED
      BY <3>1, <3>2 DEF Sent
  <2>5. CASE Speaks(c)
    <3>1. Sent
      BY <2>1, <2>2, <2>3, <2>5 DEF Speaks, Token, Done, ProviderFails
    <3>2. Still
      BY <2>5 DEF Speaks, Token, Done, ProviderFails, Chats, Typed, TypeOK
    <3> QED
      BY <3>1, <3>2 DEF Sent
  <2> QED
    BY <2>4, <2>5
<1> QED
  BY <1>1, <1>2

\* Steps of the client and of the handler around a turn.
Around(c) == \/ Client(c) \/ Receive(c) \/ Begin(c) \/ Close(c) \/ IdleTimeout(c)
             \/ KeepUser(c) \/ KeepReply(c) \/ Raises(c)

\* Where they take the turn.
LEMMA AroundGoes ==
  ASSUME NEW c \in Socket, Typed, Around(c)
  PROVE  /\ \A d \in Socket \ {c} : turn'[d] = turn[d]
         /\ \/ turn'[c] = turn[c]
            \/ turn'[c].step \in {"closed", "waiting", "closing", "begin", "route", "keepReply"}
<1>1. turn[c] \in Turn /\ turn \in [Socket -> Turn]
  BY DEF Typed, TypeOK
<1>2. \A s \in Step : /\ Idle(s).step = s /\ [Idle(s) EXCEPT !.drained = FALSE].step = s
                     /\ \A q : [Idle(s) EXCEPT !.question = q].step = s
  BY DEF Idle
<1>3. {"closed", "waiting", "closing", "begin", "route", "keepReply"} \subseteq Step
  BY DEF Step, Working, Streaming
<1>4. CASE Connect(c) \/ Close(c) \/ KeepReply(c) \/ Raises(c)
  BY <1>1, <1>2, <1>3, <1>4 DEF Connect, Close, KeepReply, Raises
<1>5. CASE Stop(c) \/ Leave(c) \/ (\E q \in Question : Ask(c, q)) \/ IdleTimeout(c)
  BY <1>5 DEF Stop, Leave, Ask, Puts, IdleTimeout
<1>6. CASE Receive(c)
  <2>1. /\ Idle("closing").step = "closing"
        /\ [Idle("waiting") EXCEPT !.drained = FALSE].step = "waiting"
        /\ [Idle("begin") EXCEPT !.question = Head(incoming[c])].step = "begin"
    BY DEF Idle
  <2>2. CASE Sends(c, Idle("waiting"), <<>>)
    <3>1. turn'[c] \in {[Idle("waiting") EXCEPT !.drained = FALSE], Idle("closing")}
      BY <2>2, SendsFrame
    <3>2. turn'[c].step \in {"waiting", "closing"}
      BY <2>1, <3>1
    <3> QED
      BY <2>2, <3>2, SendsFrame
  <2>3. CASE turn' = [turn EXCEPT ![c] = Idle("closing")]
    BY <1>1, <2>1, <2>3
  <2>4. CASE turn' = [turn EXCEPT ![c] = [Idle("begin") EXCEPT !.question = Head(incoming[c])]]
    BY <1>1, <2>1, <2>4
  <2> QED
    BY <1>6, <2>2, <2>3, <2>4 DEF Receive
<1>7. CASE Begin(c)
  <2>1. [[turn[c] EXCEPT !.step = "route"] EXCEPT !.drained = FALSE].step = "route"
    BY <1>1 DEF Turn
  <2> QED
    BY <1>2, <1>3, <1>7, <2>1, SendsFrame DEF Begin
<1>8. CASE KeepUser(c)
  BY <1>1, <1>8 DEF KeepUser, Turn
<1> QED
  BY <1>4, <1>5, <1>6, <1>7, <1>8 DEF Around, Client

\* Where a step of a stage takes its turn.
LEMMA QuietGoes ==
  ASSUME NEW c \in Socket, Typed, Quiet(c)
  PROVE  \/ turn'[c].step \in {"closing", "lookup", "recall", "retrieve", "search", "gate", "keepUser"}
         \/ turn'[c].step = turn[c].step /\ turn'[c].todo = turn[c].todo
         \/ Gate(c) /\ turn'[c].step = "hint" /\ turn'[c].todo = GatedProviders
         \/ Hint(c) /\ turn'[c].step = "chat" /\ turn'[c].todo = turn[c].todo
<1> DEFINE t == turn[c]
<1>1. t \in Turn /\ turn \in [Socket -> Turn] /\ Idle("closing").step = "closing"
  BY DEF Typed, TypeOK, Idle
<1>2. ASSUME NEW next \in Turn
      PROVE  /\ [next EXCEPT !.drained = FALSE].step = next.step
             /\ [next EXCEPT !.drained = FALSE].todo = next.todo
  BY DEF Turn
<1>3. ASSUME NEW next \in Turn, NEW sent, Sends(c, next, sent)
      PROVE  turn'[c].step = "closing" \/ (turn'[c].step = next.step /\ turn'[c].todo = next.todo)
  BY <1>1, <1>2, <1>3, SendsFrame
<1>4. CASE Drain(c)
  BY <1>1, <1>4 DEF Drain, Turn
<1>5. CASE Route(c) \/ Retrieve(c) \/ Search(c) \/ Deliver(c)
  <2>1. \A s \in Step : [t EXCEPT !.step = s] \in Turn /\ [t EXCEPT !.step = s].step = s
    BY <1>1 DEF Turn
  <2>2. {"lookup", "search", "gate", "keepUser"} \subseteq Step
    BY DEF Step, Working, Streaming
  <2> QED
    BY <1>1, <1>3, <1>5, <2>1, <2>2 DEF Route, Retrieve, Search, Deliver
<1>6. CASE Lookup(c)
  <2>1. /\ cache[t.question] \in Text /\ {"recall", "retrieve"} \subseteq Step
        /\ (t.question \in decisions) \in BOOLEAN
    BY <1>6 DEF Lookup, Ready, Typed, TypeOK, Formed, Step, Working, Streaming
  <2> DEFINE u == [t EXCEPT !.step = "recall", !.reply = cache[t.question]]
             v == [t EXCEPT !.step = "retrieve", !.decided = t.question \in decisions]
             w == [t EXCEPT !.step = "retrieve"]
  <2>2. /\ u \in Turn /\ u.step = "recall"
        /\ v \in Turn /\ v.step = "retrieve"
        /\ w \in Turn /\ w.step = "retrieve"
    BY <1>1, <2>1 DEF Turn
  <2> QED
    BY <1>3, <1>6, <2>2 DEF Lookup
<1>7. CASE Recall(c)
  <2>1. /\ [t EXCEPT !.status = "success"] \in Turn
        /\ [t EXCEPT !.status = "success"].step = t.step
        /\ [t EXCEPT !.status = "success"].todo = t.todo
        /\ [t EXCEPT !.step = "keepUser"].step = "keepUser"
    BY <1>1 DEF Turn
  <2> QED
    BY <1>1, <1>3, <1>7, <2>1 DEF Recall
<1>8. CASE Gate(c)
  <2> DEFINE u == [t EXCEPT !.step = "hint", !.todo = GatedProviders]
             v == [t EXCEPT !.step = "keepUser", !.status = "error"]
  <2>1. u \in Turn /\ u.step = "hint" /\ u.todo = GatedProviders /\ v.step = "keepUser"
    BY <1>1 DEF Turn, GatedProviders, Step, Working, Streaming
  <2> QED
    BY <1>1, <1>3, <1>8, <2>1 DEF Gate
<1>9. CASE Hint(c)
  <2> DEFINE u == [t EXCEPT !.step = "chat"]
  <2>1. u \in Turn /\ u.step = "chat" /\ u.todo = t.todo
    BY <1>1 DEF Turn, Step, Working, Streaming
  <2> QED
    BY <1>3, <1>9, <2>1 DEF Hint
<1> QED
  BY <1>4, <1>5, <1>6, <1>7, <1>8, <1>9 DEF Quiet

\* Where a step of a model takes its turn.
LEMMA SpeaksGoes ==
  ASSUME NEW c \in Socket, Typed, Speaks(c)
  PROVE  \/ turn'[c].step \in {"closing", "deliver"}
         \/ turn'[c].step = "chat" /\ turn'[c].todo \subseteq turn[c].todo
<1> DEFINE t == turn[c]
<1>1. /\ t \in Turn /\ turn \in [Socket -> Turn] /\ Idle("closing").step = "closing"
      /\ t.step = "chat" /\ Provider(c) \in Range(Order)
  <2>1. t \in Formed /\ t \in Turn /\ turn \in [Socket -> Turn] /\ Idle("closing").step = "closing"
    BY DEF Typed, TypeOK, Idle
  <2>2. t.step = "chat"
    BY DEF Speaks, Token, Done, ProviderFails, Chats, Ready
  <2>3. Provider(c) \in Range(Order)
    BY <2>1, <2>2, FirstIsOne DEF Provider, Formed, Turn
  <2> QED
    BY <2>1, <2>2, <2>3
<1>2. ASSUME NEW next \in Turn, NEW sent, Sends(c, next, sent)
      PROVE  turn'[c].step = "closing" \/ (turn'[c].step = next.step /\ turn'[c].todo = next.todo)
  <2>1. /\ [next EXCEPT !.drained = FALSE].step = next.step
        /\ [next EXCEPT !.drained = FALSE].todo = next.todo
    BY DEF Turn
  <2> QED
    BY <1>1, <1>2, <2>1, SendsFrame
<1>3. ASSUME NEW kind, NEW status \in {"success", "error", "stopped"}, Ends(c, kind, status)
      PROVE  turn'[c].step \in {"closing", "deliver"}
  <2> DEFINE u == [t EXCEPT !.step = "deliver", !.status = status]
  <2>1. u \in Turn /\ u.step = "deliver"
    BY <1>1 DEF Turn, Step, Working, Streaming
  <2> QED
    BY <1>2, <1>3, <2>1 DEF Ends
<1>4. CASE Token(c)
  <2> DEFINE u == [t EXCEPT !.reply = Append(@, Provider(c))]
  <2>1. u \in Turn /\ u.step = "chat" /\ u.todo = t.todo
    BY <1>1, AppendProperties DEF Turn, Text
  <2> QED
    BY <1>2, <1>3, <1>4, <2>1 DEF Token
<1>5. CASE Done(c)
  BY <1>3, <1>5 DEF Done
<1>6. CASE ProviderFails(c)
  <2> DEFINE u == [t EXCEPT !.todo = Remaining(c)]
  <2>1. u.step = "chat" /\ u.todo \subseteq t.todo
    BY <1>1 DEF Turn, Remaining
  <2> QED
    BY <1>1, <1>3, <1>6, <2>1 DEF ProviderFails
<1> QED
  BY <1>4, <1>5, <1>6 DEF Speaks

-----------------------------------------------------------------------------
(* Memory and table                                                          *)

LEMMA SuffixByPosition ==
  ASSUME NEW s \in Seq(Message), NEW t \in Seq(Message)
  PROVE  IsSuffix(s, t) <=> /\ Len(s) <= Len(t)
                            /\ \A i \in 1 .. Len(s) : s[Len(s) - i + 1] = t[Len(t) - i + 1]
<1>1. /\ Reverse(s) = [i \in 1 .. Len(s) |-> s[Len(s) - i + 1]]
      /\ Reverse(t) = [i \in 1 .. Len(t) |-> t[Len(t) - i + 1]]
  BY DEF Reverse
<1>2. /\ Reverse(s) \in Seq(Message) /\ Len(Reverse(s)) = Len(s)
      /\ Reverse(t) \in Seq(Message) /\ Len(Reverse(t)) = Len(t)
  BY <1>1
<1>3. CASE Len(s) > Len(t)
  BY <1>2, <1>3 DEF IsSuffix, IsPrefix
<1>4. CASE Len(s) <= Len(t)
  <2>1. SubSeq(Reverse(s), 1, Len(s)) = SubSeq(Reverse(t), 1, Len(s)) <=>
          \A i \in 1 .. Len(s) : Reverse(s)[i] = Reverse(t)[i]
    BY <1>2, <1>4
  <2>2. \A i \in 1 .. Len(s) : /\ Reverse(s)[i] = s[Len(s) - i + 1]
                               /\ Reverse(t)[i] = t[Len(t) - i + 1]
    BY <1>1, <1>4
  <2> QED
    BY <1>2, <1>4, <2>1, <2>2 DEF IsSuffix, IsPrefix
<1> QED
  BY <1>3, <1>4

LEMMA SuffixFacts ==
  ASSUME NEW s \in Seq(Message), NEW t \in Seq(Message)
  PROVE  /\ IsSuffix(<<>>, t)
         /\ IsSuffix(t, t)
         /\ IsSuffix(s, t) => \A x \in Message : IsSuffix(Append(s, x), Append(t, x))
<1>1. IsSuffix(<<>>, t)
  <2> DEFINE e == <<>>
  <2>1. e \in Seq(Message) /\ Len(e) = 0 /\ Len(t) \in Nat
    BY EmptySeq
  <2> HIDE DEF e
  <2>2. IsSuffix(e, t) <=> /\ Len(e) <= Len(t)
                           /\ \A i \in 1 .. Len(e) : e[Len(e) - i + 1] = t[Len(t) - i + 1]
    BY <2>1, SuffixByPosition
  <2>3. IsSuffix(e, t)
    BY <2>1, <2>2
  <2> QED
    BY <2>3 DEF e
<1>2. IsSuffix(t, t)
  BY SuffixByPosition
<1>3. ASSUME IsSuffix(s, t), NEW x \in Message
      PROVE  IsSuffix(Append(s, x), Append(t, x))
  <2> DEFINE u == Append(s, x)
             v == Append(t, x)
  <2>1. /\ Len(s) \in Nat /\ Len(t) \in Nat /\ Len(s) <= Len(t)
        /\ \A i \in 1 .. Len(s) : s[Len(s) - i + 1] = t[Len(t) - i + 1]
    BY <1>3, SuffixByPosition
  <2>2. /\ u \in Seq(Message) /\ Len(u) = Len(s) + 1
        /\ u[Len(s) + 1] = x /\ \A i \in 1 .. Len(s) : u[i] = s[i]
    BY AppendProperties
  <2>3. /\ v \in Seq(Message) /\ Len(v) = Len(t) + 1
        /\ v[Len(t) + 1] = x /\ \A i \in 1 .. Len(t) : v[i] = t[i]
    BY AppendProperties
  <2> HIDE DEF u, v
  <2>4. ASSUME NEW i \in 1 .. Len(u) PROVE u[Len(u) - i + 1] = v[Len(v) - i + 1]
    <3>1. CASE i = 1
      BY <2>1, <2>2, <2>3, <3>1
    <3>2. CASE i # 1
      <4>1. i - 1 \in 1 .. Len(s)
        BY <2>1, <2>2, <3>2
      <4>2. /\ Len(u) - i + 1 = Len(s) - (i - 1) + 1 /\ Len(u) - i + 1 \in 1 .. Len(s)
            /\ Len(v) - i + 1 = Len(t) - (i - 1) + 1 /\ Len(v) - i + 1 \in 1 .. Len(t)
        BY <2>1, <2>2, <2>3, <4>1
      <4>3. s[Len(s) - (i - 1) + 1] = t[Len(t) - (i - 1) + 1]
        BY <2>1, <4>1
      <4> QED
        BY <2>2, <2>3, <4>2, <4>3
    <3> QED
      BY <3>1, <3>2
  <2>5. IsSuffix(u, v) <=> /\ Len(u) <= Len(v)
                           /\ \A i \in 1 .. Len(u) : u[Len(u) - i + 1] = v[Len(v) - i + 1]
    BY <2>2, <2>3, SuffixByPosition
  <2>6. IsSuffix(u, v)
    BY <2>1, <2>2, <2>3, <2>4, <2>5
  <2> QED
    BY <2>6 DEF u, v
<1> QED
  BY <1>1, <1>2, <1>3

LEMMA StoredStep == Typed /\ StoredInv /\ [Next]_vars => StoredInv'
<1> SUFFICES ASSUME Typed, StoredInv, [Next]_vars PROVE StoredInv'
  OBVIOUS
<1> USE DEF StoredInv, talk
<1>1. \A c \in Socket : turn[c] \in Turn /\ past[c] \in Seq(Message) /\ messages[c] \in Seq(Message)
  BY DEF Typed, TypeOK
<1>2. CASE UNCHANGED vars
  BY <1>2 DEF vars
<1>3. CASE Others
  <2>1. Meanwhile
    BY <1>3 DEF Others, Decide, Expire, Revoke, RemoveEndpoint, Grant, SwitchEndpoint, AddEndpoint
  <2> QED
    BY <2>1 DEF Meanwhile
<1>4. ASSUME NEW c \in Socket,
             \A d \in Socket \ {c} : turn'[d] = turn[d] /\ past'[d] = past[d] /\ messages'[d] = messages[d],
             turn'[c].step \notin {"closed", "closing"} => IsSuffix(past'[c], messages'[c])
      PROVE  StoredInv'
  BY <1>4
<1>5. ASSUME NEW c \in Socket, Client(c) PROVE StoredInv'
  <2>1. CASE Connect(c)
    BY <1>1, <1>4, <2>1, SuffixFacts DEF Connect, Typed, TypeOK
  <2>2. CASE Stop(c) \/ Leave(c) \/ \E q \in Question : Ask(c, q)
    BY <2>2 DEF Stop, Leave, Ask, Puts
  <2> QED
    BY <1>5, <2>1, <2>2 DEF Client
<1>6. ASSUME NEW c \in Socket, Receive(c) PROVE StoredInv'
  <2>1. turn[c].step = "waiting" /\ \A d \in Socket \ {c} : turn'[d] = turn[d]
    BY <1>6, SendsFrame DEF Receive, At, Typed, TypeOK
  <2> QED
    BY <1>4, <1>6, <2>1 DEF Receive
<1>7. ASSUME NEW c \in Socket, Begin(c) PROVE StoredInv'
  <2>1. turn[c].step = "begin" /\ \A d \in Socket \ {c} : turn'[d] = turn[d]
    BY <1>7, SendsFrame DEF Begin, At
  <2> QED
    BY <1>4, <1>7, <2>1 DEF Begin
<1>8. ASSUME NEW c \in Socket, Close(c) PROVE StoredInv'
  <2>1. turn'[c].step = "closed"
    BY <1>8 DEF Close, Idle, Typed, TypeOK
  <2> QED
    BY <1>4, <1>8, <2>1 DEF Close, Typed, TypeOK
<1>9. ASSUME NEW c \in Socket, IdleTimeout(c) PROVE StoredInv'
  BY <1>1, <1>4, <1>9, SuffixFacts DEF IdleTimeout, Typed, TypeOK
<1>10. ASSUME NEW c \in Socket, KeepUser(c) \/ KeepReply(c) PROVE StoredInv'
  <2>1. turn[c].step \in {"keepUser", "keepReply"} /\ IsSuffix(past[c], messages[c])
    BY <1>10 DEF KeepUser, KeepReply, At
  <2>2. \A role \in {"user", "assistant"} : Said(c, role) \in Message
    <3>1. turn[c].question \in Question /\ turn[c].reply \in Text /\ <<>> \in Text
      BY <2>1, EventTyped DEF Typed, Formed, Turn, Working
    <3> QED
      BY <3>1 DEF Said, Message
  <2>3. \A role \in {"user", "assistant"} :
          IsSuffix(Append(past[c], Said(c, role)), Append(messages[c], Said(c, role)))
    BY <1>1, <2>1, <2>2, SuffixFacts
  <2> QED
    BY <1>4, <1>10, <2>1, <2>3 DEF KeepUser, KeepReply, Typed, TypeOK
<1>11. ASSUME NEW c \in Socket, Raises(c) PROVE StoredInv'
  <2>1. turn'[c].step = "closing"
    BY <1>11 DEF Raises, Idle, Typed, TypeOK
  <2> QED
    BY <1>4, <1>11, <2>1 DEF Raises, Typed, TypeOK
<1>12. ASSUME NEW c \in Socket, Quiet(c) \/ Speaks(c) PROVE StoredInv'
  <2>1. turn[c].step \notin {"closed", "closing"}
    BY <1>12, Frame DEF Streaming
  <2> QED
    BY <1>4, <1>12, <2>1, Frame
<1> QED
  BY <1>2, <1>3, <1>5, <1>6, <1>7, <1>8, <1>9, <1>10, <1>11, <1>12, NextCases

\* The history that the next prompt is built from is the end of what is stored,
\* whatever failed between the two appends of a message (api/server.py ws_chat).
THEOREM HistoryHolds == Spec => []HistoryIsStored
<1>1. Init => StoredInv
  BY DEF Init, StoredInv, Idle
<1>2. StoredInv => HistoryIsStored
  BY DEF StoredInv, HistoryIsStored, At
<1> QED
  BY <1>1, <1>2, SpecTyped, StoredStep, PTL DEF Spec

-----------------------------------------------------------------------------
(* What is used was agreed to                                                *)

\* Stage 8 lets nothing through that the user has not agreed to.
LEMMA PassesAgreed ==
  ASSUME Typed, ConsentTells
  PROVE  /\ GatedProviders \subseteq AgreedNow
         /\ Passes("web_search", "web_search_only") => "web_search" \in AgreedNow
<1> USE DEF AgreedNow, Agreed, Passes, ConsentTells
<1>1. ASSUME NEW p \in Range(Order), Passes(p, "full_inference")
      PROVE  p \in AgreedNow
  <2>1. p \in Gated /\ (p = "ollama" \/ p \in Endpoint)
    BY DEF Gated, Endpoint
  <2> QED
    BY <1>1, <2>1
<1>2. ASSUME Passes("web_search", "web_search_only") PROVE "web_search" \in AgreedNow
  <2>1. "web_search" \in Gated
    BY DEF Gated
  <2> QED
    BY <1>2, <2>1
<1> QED
  BY <1>1, <1>2 DEF GatedProviders

LEMMA OthersConsent ==
  ASSUME Typed, ConsentTells, Others
  PROVE  ConsentTells'
<1> USE DEF ConsentTells, Typed, TypeOK
<1>1. CASE \E q \in Question : Decide(q) \/ Expire(q)
  BY <1>1 DEF Decide, Expire, settings
<1>2. ASSUME NEW p \in Gated, Revoke(p) PROVE ConsentTells'
  BY <1>2 DEF Revoke, Row
<1>3. ASSUME NEW p \in Gated, RemoveEndpoint(p) PROVE ConsentTells'
  BY <1>3 DEF RemoveEndpoint, NoRow
<1>4. ASSUME NEW p \in Gated, NEW s \in Scope, Grant(p, s) PROVE ConsentTells'
  BY <1>4 DEF Grant, Row
<1>5. ASSUME NEW p \in Endpoint, SwitchEndpoint(p) PROVE ConsentTells'
  BY <1>5 DEF SwitchEndpoint
<1>6. ASSUME NEW p \in Endpoint, NEW l \in BOOLEAN, AddEndpoint(p, l) PROVE ConsentTells'
  BY <1>6 DEF AddEndpoint, Row, NoRow
<1> QED
  BY <1>1, <1>2, <1>3, <1>4, <1>5, <1>6 DEF Others

\* What AgreedInv says of one conversation.
AgreedAt(c) ==
  /\ asked[c] \subseteq agreed[c]
  /\ turn[c].step \in Working => AgreedNow \subseteq agreed[c]
  /\ turn[c].step \in {"hint", "chat"} => turn[c].todo \subseteq agreed[c]
  /\ turn[c].step \in {"closed", "waiting"} => asked[c] = {}

LEMMA AgreedStep == Typed /\ AgreedInv /\ [Next]_vars => AgreedInv'
<1> SUFFICES ASSUME Typed, AgreedInv, [Next]_vars PROVE AgreedInv'
  OBVIOUS
<1>1. ConsentTells /\ \A c \in Socket : AgreedAt(c)
  BY DEF AgreedInv, AgreedAt
<1>2. ASSUME ConsentTells', \A c \in Socket : AgreedAt(c)' PROVE AgreedInv'
  BY <1>2 DEF AgreedInv, AgreedAt
<1>3. ASSUME UNCHANGED settings PROVE ConsentTells' /\ AgreedNow' = AgreedNow
  BY <1>1, <1>3 DEF settings, ConsentTells, AgreedNow, Agreed
<1>4. CASE UNCHANGED vars
  <2>1. UNCHANGED <<settings, asked, agreed, turn>>
    BY <1>4 DEF vars
  <2> QED
    BY <1>1, <1>2, <1>3, <2>1 DEF AgreedAt
<1>5. CASE Others
  <2>1. Meanwhile
    BY <1>5 DEF Others, Decide, Expire, Revoke, RemoveEndpoint, Grant, SwitchEndpoint, AddEndpoint
  <2>2. \A c \in Socket : /\ agreed[c] \subseteq agreed'[c]
                         /\ turn[c].step \in Working => AgreedNow' \subseteq agreed'[c]
    BY <2>1 DEF Meanwhile
  <2>3. \A c \in Socket : AgreedAt(c)'
    BY <1>1, <2>1, <2>2 DEF Meanwhile, AgreedAt
  <2> QED
    BY <1>1, <1>2, <1>5, <2>3, OthersConsent
<1>6. ASSUME NEW c \in Socket, UNCHANGED settings, AgreedAt(c)',
             \A d \in Socket \ {c} : /\ turn'[d] = turn[d] /\ asked'[d] = asked[d]
                                     /\ agreed'[d] = agreed[d]
      PROVE  AgreedInv'
  <2>1. \A d \in Socket : AgreedAt(d)'
    BY <1>1, <1>3, <1>6 DEF AgreedAt
  <2> QED
    BY <1>2, <1>3, <1>6, <2>1
<1>7. ASSUME NEW c \in Socket, Client(c) PROVE AgreedInv'
  <2>1. CASE Connect(c)
    <3>1. turn'[c].step = "waiting" /\ asked[c] = {} /\ asked'[c] = {}
      BY <1>1, <2>1 DEF Connect, At, Idle, AgreedAt, Typed, TypeOK
    <3>2. AgreedAt(c)'
      BY <3>1 DEF AgreedAt, Working, Streaming
    <3> QED
      BY <1>6, <2>1, <3>2 DEF Connect, Typed, TypeOK
  <2>2. CASE Stop(c) \/ Leave(c) \/ \E q \in Question : Ask(c, q)
    <3>1. UNCHANGED <<settings, asked, agreed, turn>>
      BY <2>2 DEF Stop, Leave, Ask, Puts
    <3> QED
      BY <1>1, <1>2, <1>3, <3>1 DEF AgreedAt
  <2> QED
    BY <1>7, <2>1, <2>2 DEF Client
<1>8. ASSUME NEW c \in Socket, Receive(c) PROVE AgreedInv'
  <2>1. UNCHANGED <<settings, asked>> /\ asked[c] = {}
    BY <1>1, <1>8 DEF Receive, At, AgreedAt
  <2>2. \/ turn'[c].step = "begin" /\ agreed'[c] = AgreedNow
        \/ turn'[c].step \in {"waiting", "closing"} /\ agreed'[c] = agreed[c]
    BY <1>8, SendsFrame DEF Receive, Idle, Typed, TypeOK
  <2>3. \A d \in Socket \ {c} : turn'[d] = turn[d] /\ agreed'[d] = agreed[d]
    BY <1>8, SendsFrame DEF Receive, Typed, TypeOK
  <2>4. AgreedAt(c)'
    BY <1>3, <2>1, <2>2 DEF AgreedAt, Working, Streaming
  <2> QED
    BY <1>6, <2>1, <2>3, <2>4
<1>9. ASSUME NEW c \in Socket, Begin(c) PROVE AgreedInv'
  <2>1. UNCHANGED <<settings, asked, agreed>> /\ turn[c].step = "begin"
    BY <1>9 DEF Begin, At
  <2>2. turn'[c].step \in {"route", "closing"} /\ \A d \in Socket \ {c} : turn'[d] = turn[d]
    BY <1>9, SendsFrame DEF Begin, Idle, Typed, TypeOK, Turn
  <2>3. AgreedAt(c)'
    BY <1>1, <1>3, <2>1, <2>2 DEF AgreedAt, Working, Streaming
  <2> QED
    BY <1>6, <2>1, <2>2, <2>3
<1>10. ASSUME NEW c \in Socket, Close(c) \/ KeepReply(c) PROVE AgreedInv'
  <2>1. UNCHANGED settings /\ asked'[c] = {} /\ turn'[c].step \in {"closed", "waiting"}
    BY <1>10 DEF Close, KeepReply, Over, Idle, Typed, TypeOK
  <2>2. AgreedAt(c)'
    BY <2>1 DEF AgreedAt, Working, Streaming
  <2>3. \A d \in Socket \ {c} : turn'[d] = turn[d] /\ asked'[d] = asked[d] /\ agreed'[d] = agreed[d]
    BY <1>10 DEF Close, KeepReply, Over, Typed, TypeOK
  <2> QED
    BY <1>6, <2>1, <2>2, <2>3
<1>11. ASSUME NEW c \in Socket, IdleTimeout(c) PROVE AgreedInv'
  <2>1. UNCHANGED <<settings, asked, agreed, turn>>
    BY <1>11 DEF IdleTimeout
  <2> QED
    BY <1>1, <1>2, <1>3, <2>1 DEF AgreedAt
<1>12. ASSUME NEW c \in Socket, KeepUser(c) \/ Raises(c) PROVE AgreedInv'
  <2>1. UNCHANGED <<settings, asked, agreed>> /\ turn[c].step \in Working
    BY <1>12 DEF KeepUser, Raises, At, Working
  <2>2. turn'[c].step \in {"keepReply", "closing"} /\ \A d \in Socket \ {c} : turn'[d] = turn[d]
    BY <1>12 DEF KeepUser, Raises, Idle, Typed, TypeOK, Turn
  <2>3. AgreedAt(c)'
    BY <1>1, <1>3, <2>1, <2>2 DEF AgreedAt, Working, Streaming
  <2> QED
    BY <1>6, <2>1, <2>2, <2>3
<1>13. ASSUME NEW c \in Socket, Quiet(c) PROVE AgreedInv'
  <2>1. /\ UNCHANGED <<settings, agreed>> /\ turn[c].step \in Working
        /\ \A d \in Socket \ {c} : turn'[d] = turn[d] /\ asked'[d] = asked[d]
    BY <1>13, Frame DEF Working
  <2>2. AgreedNow \subseteq agreed[c] /\ asked[c] \subseteq agreed[c]
    BY <1>1, <2>1 DEF AgreedAt
  <2>3. asked'[c] \subseteq agreed[c]
    <3>1. CASE Search(c)
      BY <1>1, <2>2, <3>1, PassesAgreed DEF Search, Typed, TypeOK
    <3>2. CASE ~Search(c)
      BY <1>13, <2>2, <3>2 DEF Quiet, Drain, Route, Lookup, Recall, Retrieve, Gate, Hint, Deliver
    <3> QED
      BY <3>1, <3>2
  <2>4. turn'[c].step \in {"hint", "chat"} => turn'[c].todo \subseteq agreed[c]
    <3>1. GatedProviders \subseteq agreed[c]
      BY <1>1, <2>2, PassesAgreed
    <3>2. Hint(c) => turn[c].step = "hint"
      BY DEF Hint, Ready
    <3> QED
      BY <1>1, <1>13, <3>1, <3>2, QuietGoes DEF AgreedAt
  <2>5. turn'[c].step \notin {"closed", "waiting"}
    BY <1>13, <2>1, QuietGoes DEF Working, Streaming
  <2>6. AgreedAt(c)'
    BY <1>3, <2>1, <2>2, <2>3, <2>4, <2>5 DEF AgreedAt
  <2> QED
    BY <1>6, <2>1, <2>6
<1>14. ASSUME NEW c \in Socket, Speaks(c) PROVE AgreedInv'
  <2>1. /\ UNCHANGED <<settings, agreed>> /\ turn[c].step = "chat"
        /\ \A d \in Socket \ {c} : turn'[d] = turn[d] /\ asked'[d] = asked[d]
    BY <1>14, Frame DEF Speaks, Token, Done, ProviderFails, Chats, Ready
  <2>2. /\ AgreedNow \subseteq agreed[c] /\ asked[c] \subseteq agreed[c]
        /\ turn[c].todo \subseteq agreed[c]
    BY <1>1, <2>1 DEF AgreedAt, Working, Streaming
  <2>3. Provider(c) \in turn[c].todo
    BY <2>1, FirstIsOne DEF Provider, Typed, Formed, Turn
  <2>4. asked'[c] \subseteq agreed[c]
    BY <1>14, <2>2, <2>3 DEF Speaks, Token, Done, ProviderFails, Chats, Typed, TypeOK
  <2>5. /\ turn'[c].step \in {"chat", "deliver", "closing"}
        /\ turn'[c].step = "chat" => turn'[c].todo \subseteq agreed[c]
    BY <1>14, <2>2, SpeaksGoes
  <2>6. AgreedAt(c)'
    BY <1>3, <2>1, <2>2, <2>4, <2>5 DEF AgreedAt
  <2> QED
    BY <1>6, <2>1, <2>6
<1> QED
  BY <1>4, <1>5, <1>7, <1>8, <1>9, <1>10, <1>11, <1>12, <1>13, <1>14, NextCases

\* A model or a search is used only if the user had agreed to it at some moment
\* of the turn: the gate of stage 8 and the consent rows, whatever is granted,
\* revoked, saved or removed while the chain is worked through.
THEOREM ConsentHolds == Spec => []UsesWhatIsAgreed
<1>1. Init => AgreedInv
  <2> SUFFICES ASSUME Init PROVE AgreedInv
    OBVIOUS
  <2>1. ConsentTells
    <3>1. /\ DOMAIN Seeded = {"ollama", "web_search"}
          /\ Seeded.web_search.cloud /\ ~Seeded.web_search.consented
      BY DEF Seeded
    <3>2. \A p \in Gated : consent[p] = IF p \in DOMAIN Seeded THEN Seeded[p] ELSE NoRow
      BY DEF Init
    <3>3. \A p \in Gated : p # "ollama" => consent[p].cloud /\ ~consent[p].consented
      BY <3>1, <3>2 DEF NoRow
    <3>4. \A p \in Gated : p = "ollama" => consent[p].cloud = FALSE
      BY <3>1, <3>2 DEF Seeded
    <3> QED
      BY <3>3, <3>4 DEF ConsentTells, Endpoint
  <2> QED
    BY <2>1 DEF Init, AgreedInv, Idle, Working, Streaming
<1>2. AgreedInv => UsesWhatIsAgreed
  BY DEF AgreedInv, UsesWhatIsAgreed
<1> QED
  BY <1>1, <1>2, SpecTyped, AgreedStep, PTL DEF Spec

-----------------------------------------------------------------------------
(* What is cached was given in full                                          *)

LEMMA CacheStep == Typed /\ CacheInv /\ [Next]_vars => CacheInv'
<1> SUFFICES ASSUME Typed, CacheInv, [Next]_vars PROVE CacheInv'
  OBVIOUS
<1> DEFINE Full(c) == turn[c].step = "deliver" /\ turn[c].status = "success" /\ ~turn[c].decided =>
                        <<turn[c].question, turn[c].reply>> \in whole
<1>1. CacheIsWhole /\ \A c \in Socket : Full(c)
  BY DEF CacheInv, At
<1>2. ASSUME CacheIsWhole', \A c \in Socket : Full(c)' PROVE CacheInv'
  BY <1>2 DEF CacheInv, At
<1>3. ASSUME cache' = cache, whole \subseteq whole', NEW c \in Socket, Full(c)',
             \A d \in Socket \ {c} : turn'[d] = turn[d]
      PROVE  CacheInv'
  BY <1>1, <1>2, <1>3 DEF CacheIsWhole
<1>4. CASE UNCHANGED vars
  BY <1>1, <1>2, <1>4 DEF vars, CacheIsWhole
<1>5. CASE Others
  <2>1. UNCHANGED <<turn, whole>>
    BY <1>5 DEF Others, Meanwhile, Decide, Expire, Revoke, RemoveEndpoint, Grant, SwitchEndpoint, AddEndpoint
  <2>2. \A q \in Question : cache'[q] = cache[q] \/ cache'[q] = <<>>
    BY <1>5 DEF Others, Decide, Expire, Revoke, RemoveEndpoint, Grant, SwitchEndpoint, AddEndpoint, Typed, TypeOK
  <2> QED
    BY <1>1, <1>2, <2>1, <2>2 DEF CacheIsWhole
<1>6. ASSUME NEW c \in Socket, Around(c) PROVE CacheInv'
  <2>1. UNCHANGED <<cache, whole>>
    BY <1>6 DEF Around, Client, Connect, Stop, Leave, Ask, Puts, Receive, Begin, Close, IdleTimeout,
         KeepUser, KeepReply, Raises
  <2> QED
    BY <1>1, <1>3, <1>6, <2>1, AroundGoes
<1>7. ASSUME NEW c \in Socket, Quiet(c), ~Deliver(c) PROVE CacheInv'
  <2>1. UNCHANGED <<cache, whole>> /\ \A d \in Socket \ {c} : turn'[d] = turn[d]
    BY <1>7, Frame DEF Quiet, Drain, Route, Lookup, Recall, Retrieve, Search, Gate, Hint
  <2>2. Full(c)'
    <3>1. CASE Drain(c)
      BY <1>1, <2>1, <3>1 DEF Drain, Typed, TypeOK, Turn
    <3>2. CASE ~Drain(c)
      <4>1. turn[c].step # "deliver" /\ turn'[c].step # "deliver"
        BY <1>7, <3>2, QuietGoes DEF Quiet, Route, Lookup, Recall, Retrieve, Search, Gate, Hint, Ready
      <4> QED
        BY <4>1
    <3> QED
      BY <3>1, <3>2
  <2> QED
    BY <1>3, <2>1, <2>2
<1>8. ASSUME NEW c \in Socket, Deliver(c) PROVE CacheInv'
  <2>1. UNCHANGED whole /\ \A d \in Socket \ {c} : turn'[d] = turn[d]
    BY <1>8, Frame DEF Quiet, Deliver
  <2>2. turn'[c].step = "keepUser"
    BY <1>8 DEF Deliver, Typed, TypeOK, Turn
  <2>3. CacheIsWhole'
    BY <1>1, <1>8, <2>1 DEF Deliver, CacheIsWhole, Ready, Typed, TypeOK
  <2> QED
    BY <1>1, <1>2, <2>1, <2>2, <2>3
<1>9. ASSUME NEW c \in Socket, Speaks(c) PROVE CacheInv'
  <2>1. /\ cache' = cache /\ whole \subseteq whole'
        /\ \A d \in Socket \ {c} : turn'[d] = turn[d]
    BY <1>9, Frame DEF Speaks, Token, Done, ProviderFails
  <2> DEFINE t == turn[c]
  <2>2. t \in Turn /\ t.step = "chat" /\ Idle("closing").step = "closing"
    BY <1>9 DEF Speaks, Token, Done, ProviderFails, Chats, Ready, Typed, TypeOK, Idle
  <2>3. ASSUME NEW kind, NEW status \in {"success", "error", "stopped"}, Ends(c, kind, status)
        PROVE  \/ turn'[c].step = "closing"
               \/ /\ turn'[c].status = status /\ turn'[c].decided = t.decided
                  /\ turn'[c].question = t.question /\ turn'[c].reply = t.reply
    <3> DEFINE u == [[t EXCEPT !.step = "deliver", !.status = status] EXCEPT !.drained = FALSE]
    <3>1. /\ u.status = status /\ u.decided = t.decided
          /\ u.question = t.question /\ u.reply = t.reply
      BY <2>2 DEF Turn
    <3> QED
      BY <2>2, <2>3, <3>1, SendsFrame DEF Ends
  <2>4. Full(c)'
    <3>1. CASE Token(c)
      <4>1. turn'[c].step = "chat" \/ turn'[c].step = "closing" \/ Ends(c, "stopped", "stopped")
        <5> DEFINE u == [[t EXCEPT !.reply = Append(@, Provider(c))] EXCEPT !.drained = FALSE]
        <5>1. u.step = "chat"
          BY <2>2 DEF Turn
        <5> QED
          BY <2>2, <3>1, <5>1, SendsFrame DEF Token
      <4> QED
        BY <2>3, <4>1
    <3>2. CASE Done(c)
      BY <2>3, <3>2 DEF Done
    <3>3. CASE ProviderFails(c)
      <4>1. turn'[c].step = "chat" \/ Ends(c, "error", "error")
        BY <2>2, <3>3 DEF ProviderFails, Typed, TypeOK, Turn
      <4> QED
        BY <2>3, <4>1
    <3> QED
      BY <1>9, <3>1, <3>2, <3>3 DEF Speaks
  <2> QED
    BY <1>3, <2>1, <2>4
<1> QED
  BY <1>4, <1>5, <1>6, <1>7, <1>8, <1>9, NextCases DEF Around

\* A reply that the cache serves was given in full by a model to someone whose
\* question no decision answered: no stopped, failed or overridden reply gets in
\* (pipeline.run's call of response_cache.set).
THEOREM CacheHolds == Spec => []CacheIsWhole
<1>1. Init => CacheInv
  BY DEF Init, CacheInv, CacheIsWhole, At, Idle
<1>2. CacheInv => CacheIsWhole
  BY DEF CacheInv
<1> QED
  BY <1>1, <1>2, SpecTyped, CacheStep, PTL DEF Spec

-----------------------------------------------------------------------------
(* A stop is heeded                                                          *)

\* What StopInv says of one conversation.
StopAt(c) ==
  /\ late[c] \in -1 .. 1
  /\ turn[c].step \in {"closed", "waiting"} => late[c] = -1
  /\ turn[c].step \in Before => late[c] <= 0
  /\ turn[c].step \in Before \cup {"chat"} /\ late[c] >= 0 =>
       turn[c].stopping \/ "stop" \in Range(incoming[c])
  /\ turn[c].step = "chat" /\ late[c] = 1 => turn[c].stopping \/ ~turn[c].drained
  /\ turn[c].step = "recall" /\ late[c] = 1 => Len(events[c]) >= 2

LEMMA AppendKeeps ==
  ASSUME Typed, NEW c \in Socket, NEW msg \in Question \cup {"stop", "gone"}, Puts(c, msg)
  PROVE  Range(incoming'[c]) = Range(incoming[c]) \cup {msg}
<1> DEFINE Msg == Question \cup {"stop", "gone"}
           s == incoming[c]
<1>1. s \in Seq(Msg) /\ incoming'[c] = Append(s, msg)
  BY DEF Typed, TypeOK, Puts
<1>2. /\ DOMAIN s = 1 .. Len(s) /\ Len(s) \in Nat
      /\ DOMAIN Append(s, msg) = 1 .. (Len(s) + 1)
      /\ \A i \in 1 .. Len(s) : Append(s, msg)[i] = s[i]
      /\ Append(s, msg)[Len(s) + 1] = msg
  BY <1>1, AppendProperties
<1> QED
  BY <1>1, <1>2 DEF Range

\* What a send makes of the count: a token adds one, anything else nothing.
LEMMA SendsLate ==
  ASSUME Typed, NEW c \in Socket, NEW next, NEW kind \in Kind, NEW text \in Text,
         Sends(c, next, E(kind, text))
  PROVE  \/ turn'[c] = Idle("closing") /\ late'[c] = late[c]
         \/ /\ turn'[c] = [next EXCEPT !.drained = FALSE]
            /\ late'[c] = IF late[c] >= 0 /\ kind = "token" THEN late[c] + 1 ELSE late[c]
            /\ Len(events'[c]) = Len(events[c]) + 1
<1>1. /\ E(kind, text) \in Seq(Event)
      /\ DOMAIN E(kind, text) = {1} /\ Len(E(kind, text)) = 1
      /\ E(kind, text)[1].kind = kind
  BY EventTyped DEF E
<1>2. events[c] \in Seq(Event)
  BY DEF Typed, TypeOK
<1>3. Len(events[c] \o E(kind, text)) = Len(events[c]) + 1
  <2> DEFINE s == events[c]
             e == E(kind, text)
  <2>1. s \in Seq(Event) /\ e \in Seq(Event) /\ Len(e) = 1
    BY <1>1, <1>2
  <2> HIDE DEF s, e
  <2>2. Len(s \o e) = Len(s) + Len(e)
    BY <2>1, ConcatProperties
  <2> QED
    BY <2>1, <2>2 DEF s, e
<1>4. (\E i \in DOMAIN E(kind, text) : E(kind, text)[i].kind = "token") <=> kind = "token"
  BY <1>1
<1> QED
  BY <1>3, <1>4 DEF Sends, Typed, TypeOK

LEMMA SendsNothing ==
  ASSUME Typed, NEW c \in Socket, NEW next, Sends(c, next, <<>>)
  PROVE  /\ turn'[c] \in {Idle("closing"), [next EXCEPT !.drained = FALSE]}
         /\ late'[c] = late[c]
BY DEF Sends, Typed, TypeOK

\* No stop is at hand for a turn that is not begun or has no tokens left.
LEMMA StopAround ==
  ASSUME Typed, NEW c \in Socket, StopAt(c), Around(c)
  PROVE  StopAt(c)'
<1> USE DEF Typed, TypeOK
<1>1. turn[c] \in Turn /\ turn \in [Socket -> Turn] /\ late \in [Socket -> Int]
  OBVIOUS
<1>2. /\ Idle("closing").step = "closing" /\ Idle("waiting").step = "waiting"
      /\ [Idle("waiting") EXCEPT !.drained = FALSE].step = "waiting"
      /\ Idle("closed").step = "closed"
      /\ [Idle("begin") EXCEPT !.question = Head(incoming[c])].step = "begin"
  BY DEF Idle
<1>3. ASSUME turn'[c].step \in {"closed", "waiting"}, late'[c] = -1
      PROVE  StopAt(c)'
  BY <1>3 DEF StopAt, Before
<1>4. ASSUME turn'[c].step \in {"closing", "keepReply"}, late'[c] = late[c]
      PROVE  StopAt(c)'
  BY <1>4 DEF StopAt, Before
<1>5. CASE Client(c)
  <2>1. CASE Connect(c)
    BY <1>1, <1>2, <1>3, <2>1 DEF Connect, At, StopAt
  <2>2. ASSUME NEW msg \in Question \cup {"stop", "gone"}, Puts(c, msg), late'[c] = late[c]
        PROVE  StopAt(c)'
    BY <2>2, AppendKeeps DEF Puts, StopAt
  <2>3. CASE Leave(c) \/ \E q \in Question : Ask(c, q)
    BY <2>2, <2>3 DEF Leave, Ask
  <2>4. CASE Stop(c)
    <3>1. /\ Puts(c, "stop") /\ turn'[c] = turn[c] /\ events'[c] = events[c]
          /\ late'[c] = IF At(c, "waiting") \/ late[c] >= 0 THEN late[c] ELSE 0
      BY <2>4 DEF Stop, Puts
    <3>2. "stop" \in Range(incoming'[c]) /\ turn[c].step # "closed"
      <4>1. "stop" \in Question \cup {"stop", "gone"}
        OBVIOUS
      <4>2. Range(incoming'[c]) = Range(incoming[c]) \cup {"stop"}
        BY <3>1, <4>1, AppendKeeps
      <4> QED
        BY <3>1, <4>2 DEF Puts
    <3> QED
      BY <3>1, <3>2 DEF StopAt, At
  <2> QED
    BY <1>5, <2>1, <2>3, <2>4 DEF Client
<1>6. CASE Receive(c)
  <2>1. late[c] = -1 /\ turn[c].step = "waiting"
    BY <1>6 DEF Receive, At, StopAt
  <2>2. CASE turn' = [turn EXCEPT ![c] = [Idle("begin") EXCEPT !.question = Head(incoming[c])]]
             /\ late' = [late EXCEPT ![c] = IF "stop" \in Range(incoming'[c]) THEN 0 ELSE -1]
    <3>1. turn'[c].step = "begin" /\ late'[c] = IF "stop" \in Range(incoming'[c]) THEN 0 ELSE -1
      BY <1>1, <1>2, <2>2
    <3> QED
      BY <3>1 DEF StopAt, Before
  <2>3. CASE Sends(c, Idle("waiting"), <<>>)
    <3>1. turn'[c].step \in {"waiting", "closing"} /\ late'[c] = late[c]
      BY <1>2, <2>3, SendsNothing
    <3> QED
      BY <1>3, <1>4, <2>1, <3>1
  <2>4. CASE turn' = [turn EXCEPT ![c] = Idle("closing")] /\ UNCHANGED late
    BY <1>1, <1>2, <1>4, <2>4
  <2> QED
    BY <1>6, <2>2, <2>3, <2>4 DEF Receive
<1>7. CASE Begin(c)
  <2> DEFINE u == [turn[c] EXCEPT !.step = "route"]
  <2>1. /\ [u EXCEPT !.drained = FALSE].step = "route"
        /\ [u EXCEPT !.drained = FALSE].stopping = turn[c].stopping
        /\ turn[c].step = "begin"
    BY <1>1, <1>7 DEF Turn, Begin, At
  <2>2. /\ turn'[c] \in {Idle("closing"), [u EXCEPT !.drained = FALSE]}
        /\ late'[c] = late[c] /\ incoming'[c] = incoming[c]
    BY <1>7, SendsNothing DEF Begin
  <2>3. CASE turn'[c] = Idle("closing")
    BY <1>2, <1>4, <2>2, <2>3
  <2>4. CASE turn'[c] = [u EXCEPT !.drained = FALSE]
    <3>1. turn'[c].step = "route" /\ turn'[c].stopping = turn[c].stopping
      BY <2>1, <2>4
    <3> QED
      BY <2>1, <2>2, <3>1 DEF StopAt, Before
  <2> QED
    BY <2>2, <2>3, <2>4
<1>8. CASE Close(c) \/ KeepReply(c)
  BY <1>1, <1>2, <1>3, <1>8 DEF Close, KeepReply, Over
<1>9. CASE IdleTimeout(c)
  BY <1>9 DEF IdleTimeout, wire, StopAt
<1>10. CASE KeepUser(c) \/ Raises(c)
  <2>1. turn'[c].step \in {"closing", "keepReply"} /\ late'[c] = late[c]
    BY <1>1, <1>2, <1>10 DEF KeepUser, Raises, Turn
  <2> QED
    BY <1>4, <2>1
<1> QED
  BY <1>5, <1>6, <1>7, <1>8, <1>9, <1>10 DEF Around

\* A stage sends no token but the cached one, and a stop is read or stays.
LEMMA StopQuiet ==
  ASSUME Typed, NEW c \in Socket, StopAt(c), Quiet(c)
  PROVE  StopAt(c)'
<1> USE DEF Typed, TypeOK
<1> DEFINE t == turn[c]
           There == incoming'[c] = incoming[c]
<1>1. /\ t \in Turn /\ turn \in [Socket -> Turn] /\ late \in [Socket -> Int]
      /\ t.step \in Streaming
  BY Frame
<1>2. Idle("closing").step = "closing"
  BY DEF Idle
<1>3. ASSUME turn'[c].step = "closing", late'[c] = late[c]
      PROVE  StopAt(c)'
  BY <1>3 DEF StopAt, Before
<1>4. ASSUME NEW s \in Step, t.step \in Before, There, late'[c] = late[c], turn'[c].step = s,
             turn'[c].stopping = t.stopping, s \in Before \cup {"chat", "keepUser", "recall"}
      PROVE  StopAt(c)'
  BY <1>4 DEF StopAt, Before
<1>5. ASSUME NEW next \in Turn, next.stopping = t.stopping, t.step \in Before, There,
             next.step \in Before \cup {"chat", "keepUser", "recall"},
             turn'[c] \in {Idle("closing"), [next EXCEPT !.drained = FALSE]}, late'[c] = late[c]
      PROVE  StopAt(c)'
  <2>1. /\ [next EXCEPT !.drained = FALSE].step = next.step
        /\ [next EXCEPT !.drained = FALSE].stopping = next.stopping
        /\ next.step \in Step
    BY DEF Turn
  <2> QED
    BY <1>2, <1>3, <1>4, <1>5, <2>1
<1>6. \A s \in Step : /\ [t EXCEPT !.step = s] \in Turn
                     /\ [t EXCEPT !.step = s].step = s
                     /\ [t EXCEPT !.step = s].stopping = t.stopping
  BY <1>1 DEF Turn
<1>7. {"lookup", "recall", "retrieve", "search", "gate", "hint", "chat", "keepUser"} \subseteq Step
  BY DEF Step, Working, Streaming
<1>8. CASE Drain(c)
  <2>1. turn'[c] = [t EXCEPT !.drained = TRUE, !.stopping = StopRead(c)] /\ UNCHANGED <<events, late>>
    BY <1>1, <1>8 DEF Drain
  <2>2. turn'[c].step = t.step /\ turn'[c].drained /\ turn'[c].stopping = StopRead(c)
    BY <1>1, <2>1 DEF Turn
  <2>3. t.step \in Before \cup {"chat"} /\ late[c] >= 0 => StopRead(c)
    BY DEF StopAt, StopRead
  <2> QED
    BY <1>1, <2>1, <2>2, <2>3 DEF StopAt, Before
<1>9. CASE Route(c) \/ Retrieve(c) \/ Search(c)
  <2> DEFINE Goes(s) == /\ turn'[c] \in {Idle("closing"), [[t EXCEPT !.step = s] EXCEPT !.drained = FALSE],
                                        [t EXCEPT !.step = s]}
                        /\ late'[c] = late[c]
  <2>1. t.step \in Before /\ There
    BY <1>9 DEF Route, Retrieve, Search, Ready, Before, Rest
  <2>2. \E s \in {"lookup", "search", "gate"} : Goes(s)
    BY <1>1, <1>9, SendsNothing DEF Route, Retrieve, Search
  <2>3. PICK s \in {"lookup", "search", "gate"} : Goes(s)
    BY <2>2
  <2>4. s \in Step /\ s \in Before
    BY <1>7 DEF Before
  <2>5. CASE turn'[c] = [t EXCEPT !.step = s]
    BY <1>4, <1>6, <2>1, <2>3, <2>4, <2>5
  <2>6. CASE turn'[c] # [t EXCEPT !.step = s]
    <3> DEFINE next == [t EXCEPT !.step = s]
    <3>1. next \in Turn /\ next.step = s /\ next.stopping = t.stopping
      BY <1>6, <2>4
    <3>2. turn'[c] \in {Idle("closing"), [next EXCEPT !.drained = FALSE]} /\ late'[c] = late[c]
      BY <2>3, <2>6
    <3> HIDE DEF next
    <3>3. next.step \in Before \cup {"chat", "keepUser", "recall"}
      BY <2>4, <3>1
    <3> QED
      BY <1>5, <2>1, <3>1, <3>2, <3>3
  <2> QED
    BY <2>5, <2>6
<1>10. CASE Lookup(c)
  <2>1. /\ t.step \in Before /\ There /\ cache[t.question] \in Text
        /\ (t.question \in decisions) \in BOOLEAN
    BY <1>10 DEF Lookup, Ready, Before, Rest, Formed, Working, Streaming
  <2> DEFINE u == [t EXCEPT !.step = "recall", !.reply = cache[t.question]]
             v == [t EXCEPT !.step = "retrieve", !.decided = t.question \in decisions]
             w == [t EXCEPT !.step = "retrieve"]
  <2>2. /\ u \in Turn /\ u.step = "recall" /\ u.stopping = t.stopping
        /\ v \in Turn /\ v.step = "retrieve" /\ v.stopping = t.stopping
        /\ w \in Turn /\ w.step = "retrieve" /\ w.stopping = t.stopping
    BY <1>1, <1>7, <2>1 DEF Turn
  <2>3. Sends(c, u, <<>>) \/ Sends(c, v, <<>>) \/ Sends(c, w, <<>>)
    BY <1>10 DEF Lookup
  <2> HIDE DEF u, v, w
  <2>4. ASSUME NEW x \in Turn, x.stopping = t.stopping, x.step \in {"recall", "retrieve"},
               Sends(c, x, <<>>)
        PROVE  StopAt(c)'
    <3>1. turn'[c] \in {Idle("closing"), [x EXCEPT !.drained = FALSE]} /\ late'[c] = late[c]
      BY <2>4, SendsNothing
    <3>2. x.step \in Before \cup {"chat", "keepUser", "recall"}
      BY <2>4 DEF Before
    <3> QED
      BY <1>5, <2>1, <2>4, <3>1, <3>2
  <2> QED
    BY <2>2, <2>3, <2>4
<1>11. CASE Gate(c)
  <2>1. t.step \in Before /\ There
    BY <1>11 DEF Gate, Ready, Before, Rest
  <2> DEFINE u == [t EXCEPT !.step = "hint", !.todo = GatedProviders]
             v == [t EXCEPT !.step = "keepUser", !.status = "error"]
  <2>2. /\ u \in Turn /\ u.step = "hint" /\ u.stopping = t.stopping
        /\ v.step = "keepUser" /\ v.stopping = t.stopping
    BY <1>1, <1>7 DEF Turn, GatedProviders
  <2>3. CASE Sends(c, u, <<>>)
    <3>1. turn'[c] \in {Idle("closing"), [u EXCEPT !.drained = FALSE]} /\ late'[c] = late[c]
      BY <2>3, SendsNothing
    <3> QED
      BY <1>5, <2>1, <2>2, <3>1 DEF Before
  <2>4. CASE turn' = [turn EXCEPT ![c] = v] /\ UNCHANGED late
    <3>1. turn'[c] = v /\ late'[c] = late[c]
      BY <1>1, <2>4
    <3> QED
      BY <1>4, <1>7, <2>1, <2>2, <3>1
  <2> QED
    BY <1>11, <2>3, <2>4 DEF Gate
<1>12. CASE Hint(c)
  <2>1. t.step \in Before /\ There
    BY <1>12 DEF Hint, Ready, Before, Rest
  <2>2. turn'[c] \in {Idle("closing"), [[t EXCEPT !.step = "chat"] EXCEPT !.drained = FALSE]}
        /\ late'[c] = late[c]
    BY <1>12, EventTyped, SendsLate DEF Hint, Kind
  <2> QED
    BY <1>5, <1>6, <1>7, <2>1, <2>2
<1>13. CASE Recall(c)
  <2> DEFINE n == Len(events[c])
             u == [t EXCEPT !.status = "success"]
  <2>1. /\ t.step = "recall" /\ t.reply \in Text /\ n \in Nat
        /\ u \in Turn /\ u.step = "recall"
    <3>1. t.step = "recall" /\ events[c] \in Seq(Event)
      BY <1>13 DEF Recall, Ready
    <3>2. t.reply \in Text /\ u \in Turn /\ u.step = t.step
      BY <1>1 DEF Turn
    <3> QED
      BY <3>1, <3>2
  <2>2. ASSUME NEW next \in Turn, next.step = "recall"
        PROVE  [next EXCEPT !.drained = FALSE].step = "recall"
    BY <2>2 DEF Turn
  <2>3. ASSUME NEW next \in Turn, next.step = "recall", NEW kind \in Kind, NEW text \in Text,
               Sends(c, next, E(kind, text)), kind = "token" => n = 1
        PROVE  StopAt(c)'
    <3>1. CASE turn'[c] = Idle("closing") /\ late'[c] = late[c]
      BY <1>2, <1>3, <3>1
    <3>2. CASE /\ turn'[c] = [next EXCEPT !.drained = FALSE]
               /\ late'[c] = IF late[c] >= 0 /\ kind = "token" THEN late[c] + 1 ELSE late[c]
               /\ Len(events'[c]) = n + 1
      <4>1. turn'[c].step = "recall"
        BY <2>2, <2>3, <3>2
      <4>2. late[c] \in -1 .. 1 /\ (late[c] = 1 => n >= 2)
        BY <2>1 DEF StopAt
      <4>3. late'[c] \in -1 .. 1 /\ (late'[c] = 1 => Len(events'[c]) >= 2)
        <5>1. CASE kind = "token"
          <6>1. n = 1 /\ Len(events'[c]) = 2
            <7>1. n = 1
              BY <2>3, <5>1
            <7>2. Len(events'[c]) = n + 1
              BY <3>2
            <7> QED
              BY <7>1, <7>2
          <6>2. late[c] \in -1 .. 0 /\ late'[c] = IF late[c] >= 0 THEN late[c] + 1 ELSE late[c]
            BY <3>2, <4>2, <5>1, <6>1
          <6> QED
            BY <6>1, <6>2
        <5>2. CASE kind # "token"
          BY <2>1, <2>3, <3>2, <4>2, <5>2
        <5> QED
          BY <5>1, <5>2
      <4> QED
        BY <4>1, <4>3 DEF StopAt, Before
    <3> QED
      BY <2>3, <3>1, <3>2, SendsLate
  <2>4. CASE Sends(c, t, E("hint", <<>>)) \/ (n = 1 /\ Sends(c, t, E("token", t.reply)))
             \/ Sends(c, u, E("done", <<>>))
    BY <1>1, <2>1, <2>3, <2>4, EventTyped DEF Kind
  <2>5. CASE turn' = [turn EXCEPT ![c].step = "keepUser"] /\ UNCHANGED <<events, late>>
    <3>1. turn'[c].step = "keepUser" /\ late'[c] = late[c]
      BY <1>1, <2>5 DEF Turn
    <3> QED
      BY <3>1 DEF StopAt, Before
  <2> QED
    BY <1>13, <2>4, <2>5 DEF Recall
<1>14. CASE Deliver(c)
  <2>1. turn'[c].step = "keepUser" /\ late'[c] = late[c]
    BY <1>1, <1>14 DEF Deliver, Turn
  <2> QED
    BY <2>1 DEF StopAt, Before
<1> QED
  BY <1>8, <1>9, <1>10, <1>11, <1>12, <1>13, <1>14 DEF Quiet

\* A model's token goes out only if the stop has not been read, and the queue
\* is read before the next.
LEMMA StopSpeaks ==
  ASSUME Typed, NEW c \in Socket, StopAt(c), Speaks(c)
  PROVE  StopAt(c)'
<1> DEFINE t == turn[c]
<1>1. /\ t \in Formed /\ t \in Turn /\ turn \in [Socket -> Turn] /\ late \in [Socket -> Int]
      /\ events[c] \in Seq(Event) /\ Idle("closing").step = "closing"
  BY DEF Typed, TypeOK, Idle
<1>2. t.step = "chat" /\ t.drained /\ incoming'[c] = incoming[c]
  BY DEF Speaks, Token, Done, ProviderFails, Chats, Ready, Rest
<1>3. Provider(c) \in Range(Order)
  <2>1. t.todo # {} /\ t.todo \subseteq Range(Order)
    BY <1>1, <1>2 DEF Formed, Turn
  <2> QED
    BY <2>1, FirstIsOne DEF Provider
<1>4. /\ late[c] \in -1 .. 1
      /\ late[c] >= 0 => t.stopping \/ "stop" \in Range(incoming[c])
      /\ late[c] = 1 => t.stopping
  BY <1>2 DEF StopAt
<1>5. ASSUME turn'[c].step \in {"closing", "deliver"}, late'[c] = late[c]
      PROVE  StopAt(c)'
  BY <1>4, <1>5 DEF StopAt, Before
<1>6. ASSUME NEW kind \in Kind \ {"token"}, NEW status \in {"success", "error", "stopped"},
             Ends(c, kind, status)
      PROVE  StopAt(c)'
  <2> DEFINE u == [t EXCEPT !.step = "deliver", !.status = status]
  <2>1. [u EXCEPT !.drained = FALSE].step = "deliver"
    BY <1>1 DEF Turn
  <2>2. Sends(c, u, E(kind, <<>>)) /\ <<>> \in Text /\ kind \in Kind /\ kind # "token"
    BY <1>6, EventTyped DEF Ends
  <2>3. /\ turn'[c] \in {Idle("closing"), [u EXCEPT !.drained = FALSE]}
        /\ late'[c] = late[c]
    BY <2>2, SendsLate
  <2> QED
    BY <1>1, <1>5, <2>1, <2>3
<1>7. CASE Token(c) /\ ~t.stopping
  <2> DEFINE u == [t EXCEPT !.reply = Append(@, Provider(c))]
             text == <<Provider(c)>>
  <2>1. /\ [u EXCEPT !.drained = FALSE].step = "chat"
        /\ [u EXCEPT !.drained = FALSE].stopping = t.stopping
        /\ [u EXCEPT !.drained = FALSE].drained = FALSE
    BY <1>1, <1>2 DEF Turn
  <2>2. Sends(c, u, E("token", text)) /\ text \in Text /\ "token" \in Kind
    BY <1>3, <1>7 DEF Token, Text, Kind
  <2> HIDE DEF text
  <2>3. CASE turn'[c] = Idle("closing") /\ late'[c] = late[c]
    BY <1>1, <1>5, <2>3
  <2>4. CASE /\ turn'[c] = [u EXCEPT !.drained = FALSE]
             /\ late'[c] = IF late[c] >= 0 /\ "token" = "token" THEN late[c] + 1 ELSE late[c]
    <3>1. turn'[c].step = "chat" /\ turn'[c].stopping = t.stopping /\ ~turn'[c].drained
      BY <2>1, <2>4
    <3>2. late[c] \in -1 .. 0 /\ late'[c] = IF late[c] >= 0 THEN late[c] + 1 ELSE late[c]
      BY <1>4, <1>7, <2>4
    <3>3. late'[c] \in -1 .. 1 /\ (late'[c] >= 0 => late[c] >= 0)
      BY <3>2
    <3> QED
      BY <1>2, <1>4, <3>1, <3>3 DEF StopAt, Before
  <2> QED
    BY <2>2, <2>3, <2>4, SendsLate
<1>8. CASE Token(c) /\ t.stopping
  BY <1>6, <1>8 DEF Token, Kind
<1>9. CASE Done(c)
  BY <1>6, <1>9 DEF Done, Kind
<1>10. CASE ProviderFails(c)
  <2>1. CASE turn' = [turn EXCEPT ![c].todo = Remaining(c)] /\ UNCHANGED <<events, late>>
    <3>1. /\ turn'[c].step = "chat" /\ turn'[c].stopping = t.stopping
          /\ late'[c] = late[c]
          /\ turn'[c].drained
      BY <1>1, <1>2, <2>1 DEF Turn
    <3> QED
      BY <1>2, <1>4, <3>1 DEF StopAt, Before
  <2>2. CASE Ends(c, "error", "error")
    BY <1>6, <2>2 DEF Kind
  <2> QED
    BY <1>10, <2>1, <2>2 DEF ProviderFails
<1> QED
  BY <1>7, <1>8, <1>9, <1>10 DEF Speaks

\* The conversations that a step is not about.
LEMMA StopElsewhere ==
  ASSUME Typed, NEW c \in Socket, Around(c) \/ Quiet(c) \/ Speaks(c), NEW d \in Socket \ {c}
  PROVE  turn'[d] = turn[d] /\ events'[d] = events[d] /\ late'[d] = late[d] /\ incoming'[d] = incoming[d]
<1>1. CASE Quiet(c) \/ Speaks(c)
  BY <1>1, Frame
<1>2. CASE Around(c)
  <2>1. turn'[d] = turn[d]
    BY <1>2, AroundGoes
  <2>2. \A next, sent : Sends(c, next, sent) => events'[d] = events[d] /\ late'[d] = late[d]
    BY SendsFrame
  <2>3. events'[d] = events[d] /\ late'[d] = late[d]
    BY <1>2, <2>2 DEF Around, Client, Connect, Stop, Leave, Ask, Puts, Receive, Begin, Close,
       IdleTimeout, KeepUser, KeepReply, Raises, Over, wire, Typed, TypeOK
  <2>4. incoming'[d] = incoming[d]
    BY <1>2 DEF Around, Client, Connect, Stop, Leave, Ask, Puts, Receive, Begin, Close,
       IdleTimeout, KeepUser, KeepReply, Raises, wire, Typed, TypeOK
  <2> QED
    BY <2>1, <2>3, <2>4
<1> QED
  BY <1>1, <1>2

LEMMA StopStep == Typed /\ StopInv /\ [Next]_vars => StopInv'
<1> SUFFICES ASSUME Typed, StopInv, [Next]_vars, NEW d \in Socket
             PROVE  StopAt(d)'
  BY DEF StopInv, StopAt
<1>1. StopAt(d)
  BY DEF StopInv, StopAt
<1>2. ASSUME turn'[d] = turn[d], events'[d] = events[d], late'[d] = late[d], incoming'[d] = incoming[d]
      PROVE  StopAt(d)'
  BY <1>1, <1>2 DEF StopAt
<1>3. CASE UNCHANGED vars
  BY <1>2, <1>3 DEF vars, wire
<1>4. CASE Others
  <2>1. Meanwhile
    BY <1>4 DEF Others, Decide, Expire, Grant, Revoke, AddEndpoint, SwitchEndpoint, RemoveEndpoint
  <2> QED
    BY <1>2, <2>1 DEF Meanwhile, wire
<1>5. ASSUME NEW c \in Socket, Around(c) \/ Quiet(c) \/ Speaks(c)
      PROVE  StopAt(d)'
  <2>1. CASE c = d
    BY <1>1, <1>5, <2>1, StopAround, StopQuiet, StopSpeaks
  <2>2. CASE c # d
    BY <1>2, <1>5, <2>2, StopElsewhere
  <2> QED
    BY <2>1, <2>2
<1>6. Next => Others \/ \E c \in Socket : Around(c) \/ Quiet(c) \/ Speaks(c)
  BY NextCases DEF Around
<1> QED
  BY <1>3, <1>4, <1>5, <1>6 DEF vars

\* Once a stop is in the queue, at most one more token is sent, in every
\* conversation and whichever models take over.
THEOREM StopHolds == Spec => []StopIsHeeded
<1>1. Init => StopInv
  BY DEF Init, StopInv, Idle, Before
<1>2. StopInv => StopIsHeeded
  BY DEF StopInv, StopIsHeeded
<1> QED
  BY <1>1, <1>2, SpecTyped, StopStep, PTL DEF Spec

-----------------------------------------------------------------------------
(* Texts joined                                                              *)

\* f joins the first n texts of s, from the left.
Joins(f, s, n) == f = [i \in 1 .. n |-> IF i = 1 THEN s[i] ELSE f[i - 1] \o s[i]]

\* s and t begin with the same n texts.
Alike(s, t, n) == \A i \in 1 .. n : s[i] = t[i]

LEMMA JoinsExist ==
  ASSUME NEW s, NEW n \in Nat \ {0}
  PROVE  \E f : Joins(f, s, n)
<1> DEFINE S == {k \in Nat \ {0} : ~\E f : Joins(f, s, k)}
<1>1. SUFFICES ASSUME n \in S PROVE FALSE
  OBVIOUS
<1>2. PICK m \in S : \A k \in S : m <= k
  BY <1>1, LeastOfNumbers
<1>3. m \in Nat \ {0} /\ ~\E f : Joins(f, s, m)
  OBVIOUS
<1>4. CASE m = 1
  <2> DEFINE g == [i \in 1 .. 1 |-> s[i]]
  <2>1. Joins(g, s, 1)
    BY DEF Joins
  <2> QED
    BY <1>3, <1>4, <2>1
<1>5. CASE m # 1
  <2>1. m - 1 \in Nat \ {0} /\ ~(m <= m - 1)
    BY <1>3, <1>5
  <2>2. m - 1 \notin S
    BY <1>2, <2>1
  <2>3. PICK f : Joins(f, s, m - 1)
    BY <2>1, <2>2
  <2> DEFINE g == [i \in 1 .. m |-> IF i = m THEN f[m - 1] \o s[m] ELSE f[i]]
  <2>4. \A i \in 1 .. (m - 1) : f[i] = IF i = 1 THEN s[i] ELSE f[i - 1] \o s[i]
    BY <2>3 DEF Joins
  <2>5. ASSUME NEW i \in 1 .. m PROVE g[i] = IF i = 1 THEN s[i] ELSE g[i - 1] \o s[i]
    <3>1. CASE i = m
      <4>1. m - 1 \in 1 .. m /\ m - 1 # m /\ m \in 1 .. m
        BY <1>3, <2>1
      <4>2. g[m] = (f[m - 1] \o s[m]) /\ g[m - 1] = f[m - 1]
        BY <4>1
      <4> QED
        BY <1>5, <3>1, <4>1, <4>2
    <3>2. CASE i # m /\ i # 1
      <4>1. i \in 1 .. (m - 1) /\ i - 1 \in 1 .. m /\ i - 1 # m
        BY <1>3, <3>2
      <4>2. g[i] = f[i] /\ g[i - 1] = f[i - 1]
        BY <3>2, <4>1
      <4> QED
        BY <2>4, <3>2, <4>1, <4>2
    <3>3. CASE i # m /\ i = 1
      <4>1. i \in 1 .. (m - 1) /\ g[i] = f[i]
        BY <1>3, <3>3
      <4> QED
        BY <2>4, <3>3, <4>1
    <3> QED
      BY <3>1, <3>2, <3>3
  <2>6. g = [i \in 1 .. m |-> g[i]]
    OBVIOUS
  <2> HIDE DEF g
  <2>7. Joins(g, s, m)
    BY <2>5, <2>6 DEF Joins
  <2> QED
    BY <1>3, <2>7
<1> QED
  BY <1>4, <1>5

LEMMA JoinsAgree ==
  ASSUME NEW s, NEW t, NEW f, NEW g, NEW n \in Nat \ {0}, NEW m \in Nat \ {0}, n <= m,
         Joins(f, s, n), Joins(g, t, m), Alike(s, t, n)
  PROVE  f[n] = g[n]
<1> DEFINE S == {k \in 1 .. n : f[k] # g[k]}
<1>1. SUFFICES ASSUME n \in S PROVE FALSE
  OBVIOUS
<1>2. S \in SUBSET (Nat \ {0})
  OBVIOUS
<1>3. PICK k \in S : \A j \in S : k <= j
  BY <1>1, <1>2, LeastOfNumbers
<1>4. k \in 1 .. n /\ k \in 1 .. m /\ f[k] # g[k] /\ s[k] = t[k]
  BY DEF Alike
<1>5. /\ f[k] = IF k = 1 THEN s[k] ELSE f[k - 1] \o s[k]
      /\ g[k] = IF k = 1 THEN t[k] ELSE g[k - 1] \o t[k]
  BY <1>4 DEF Joins
<1>6. k # 1 => f[k - 1] = g[k - 1]
  <2>1. ASSUME k # 1 PROVE k - 1 \in 1 .. n /\ ~(k <= k - 1)
    BY <1>4, <2>1
  <2> QED
    BY <1>3, <2>1
<1> QED
  BY <1>4, <1>5, <1>6

LEMMA JoinedIs ==
  ASSUME NEW s, Len(s) \in Nat \ {0}
  PROVE  \E f : Joins(f, s, Len(s)) /\ FlattenSeq(s) = f[Len(s)]
<1> DEFINE f == CHOOSE x : Joins(x, s, Len(s))
<1>1. Joins(f, s, Len(s))
  BY JoinsExist
<1>2. FlattenSeq(s) = f[Len(s)]
  BY DEF FlattenSeq, Joins
<1> QED
  BY <1>1, <1>2

\* A text that is added at the end is joined at the end.
LEMMA JoinedWithMore ==
  ASSUME NEW s \in Seq(Text), NEW x \in Text
  PROVE  FlattenSeq(Append(s, x)) = (FlattenSeq(s) \o x)
<1>1. PICK t : t = Append(s, x)
  OBVIOUS
<1>2. PICK n \in Nat : n = Len(s)
  BY LenProperties
<1>3. PICK m \in Nat \ {0} : m = n + 1
  OBVIOUS
<1>4. Len(t) = m /\ t[m] = x /\ \A i \in 1 .. n : t[i] = s[i]
  BY <1>1, <1>2, <1>3, AppendProperties
<1>5. PICK g : Joins(g, t, m) /\ FlattenSeq(t) = g[m]
  BY <1>4, JoinedIs
<1>6. CASE n = 0
  <2>1. s = <<>> /\ FlattenSeq(<<>>) = <<>>
    <3>1. Len(s) = 0
      BY <1>2, <1>6
    <3> QED
      BY <3>1 DEF FlattenSeq
  <2>2. g[m] = t[m]
    BY <1>3, <1>5, <1>6 DEF Joins
  <2>3. (<<>> \o x) = x
    BY DEF Text
  <2>4. FlattenSeq(t) = x
    BY <1>4, <1>5, <2>2
  <2> QED
    BY <1>1, <2>1, <2>3, <2>4
<1>7. CASE n # 0
  <2>1. n \in Nat \ {0} /\ Alike(s, t, n)
    BY <1>4, <1>7 DEF Alike
  <2>2. PICK f : Joins(f, s, n) /\ FlattenSeq(s) = f[n]
    BY <1>2, <2>1, JoinedIs
  <2>3. g[m] = (f[n] \o t[m])
    <3>1. m = n + 1 /\ n \in Nat \ {0} /\ Joins(f, s, n) /\ Joins(g, t, m) /\ Alike(s, t, n)
      BY <1>3, <1>5, <2>1, <2>2
    <3>2. m \in 1 .. m /\ m # 1 /\ m - 1 = n /\ n <= m
      BY <3>1
    <3>3. f[n] = g[n]
      BY <3>1, <3>2, JoinsAgree
    <3>4. g[m] = IF m = 1 THEN t[m] ELSE g[m - 1] \o t[m]
      BY <3>1, <3>2 DEF Joins
    <3> QED
      BY <3>2, <3>3, <3>4
  <2> QED
    BY <1>1, <1>4, <1>5, <2>2, <2>3
<1> QED
  BY <1>6, <1>7

\* What a client sees of the events ev.
ShownOf(ev) == FlattenSeq([i \in DOMAIN ev |-> ev[i].text])

LEMMA ShownOfEvents ==
  /\ ShownOf(<<>>) = <<>>
  /\ \A c : Shown(c) = ShownOf(events[c])
  /\ \A ev \in Seq(Event), kind \in Kind, text \in Text :
       /\ ShownOf(ev \o E(kind, text)) = ShownOf(ev) \o text
       /\ Len(ev \o E(kind, text)) = Len(ev) + 1
       /\ Last(ev \o E(kind, text)).kind = kind
<1>1. ShownOf(<<>>) = <<>>
  BY DEF ShownOf, FlattenSeq
<1>2. \A c : Shown(c) = ShownOf(events[c])
  BY DEF Shown, ShownOf
<1>3. ASSUME NEW ev \in Seq(Event), NEW kind \in Kind, NEW text \in Text
      PROVE  /\ ShownOf(ev \o E(kind, text)) = ShownOf(ev) \o text
             /\ Len(ev \o E(kind, text)) = Len(ev) + 1
             /\ Last(ev \o E(kind, text)).kind = kind
  <2> DEFINE e == [kind |-> kind, text |-> text]
             w == ev \o <<e>>
             s == [i \in DOMAIN ev |-> ev[i].text]
             t == [i \in DOMAIN w |-> w[i].text]
             n == Len(ev)
  <2>1. /\ n \in Nat /\ w \in Seq(Event) /\ Len(w) = n + 1 /\ w[n + 1] = e
        /\ \A i \in 1 .. n : w[i] = ev[i]
    <3>1. e \in Event
      BY DEF Event, Kind
    <3>2. w = Append(ev, e)
      BY <3>1
    <3> QED
      BY <3>1, <3>2, AppendProperties
  <2>2. DOMAIN ev = 1 .. n /\ DOMAIN w = 1 .. (n + 1)
    BY <2>1
  <2>3. \A i \in 1 .. n : ev[i].text \in Text
    <3>1. \A i \in 1 .. n : ev[i] \in Event
      BY <2>2
    <3> QED
      BY <3>1 DEF Event
  <2>4. s \in Seq(Text) /\ Len(s) = n
    BY <2>1, <2>2, <2>3
  <2>5. t = Append(s, text)
    <3>1. Append(s, text) \in Seq(Text) /\ Len(Append(s, text)) = n + 1
      BY <2>4, AppendProperties
    <3>2. ASSUME NEW i \in 1 .. (n + 1) PROVE t[i] = Append(s, text)[i]
      <4>1. CASE i = n + 1
        BY <2>1, <2>2, <2>4, <4>1, AppendProperties
      <4>2. CASE i # n + 1
        <5>1. i \in 1 .. n
          BY <2>1, <4>2
        <5> QED
          BY <2>1, <2>2, <2>4, <5>1, AppendProperties
      <4> QED
        BY <4>1, <4>2
    <3>3. DOMAIN t = 1 .. (n + 1) /\ DOMAIN Append(s, text) = 1 .. (n + 1)
      BY <2>1, <2>2, <3>1
    <3>4. t = [i \in 1 .. (n + 1) |-> t[i]] /\ Append(s, text) = [i \in 1 .. (n + 1) |-> Append(s, text)[i]]
      BY <3>1, <3>3
    <3> QED
      BY <3>2, <3>4
  <2>6. ShownOf(w) = ShownOf(ev) \o text
    BY <2>4, <2>5, JoinedWithMore DEF ShownOf
  <2>7. Last(w).kind = kind
    BY <2>1 DEF Last
  <2> QED
    BY <2>1, <2>6, <2>7 DEF E
<1> QED
  BY <1>1, <1>2, <1>3

-----------------------------------------------------------------------------
(* What is stored was shown                                                  *)

\* A text of one model.
OfOne(text) == \E p \in Range(Order) : Range(text) = {p}

\* A reply that may be stored is the text shown, and it ended well.
ShownWell(t, ev) ==
  /\ ShownOf(ev) = t.reply
  /\ Last(ev).kind \in {"done", "stopped"}
  /\ t.reply # <<>> => OfOne(t.reply)

\* What the client was shown of the turn t in the events ev is the reply so far,
\* of the one model whose tokens it has seen; of a cached reply all or nothing.
Fits(t, ev) ==
  /\ t.step \in {"closed", "waiting"} \cup Before => ev = <<>>
  /\ t.step \in Before => t.reply = <<>> /\ t.status = "none"
  /\ t.step = "chat" =>
       ShownOf(ev) = t.reply /\ (t.reply # <<>> => Range(t.reply) = {First(t.todo)})
  /\ t.step = "recall" =>
       /\ OfOne(t.reply)
       /\ Len(ev) < 2 => ShownOf(ev) = <<>>
       /\ Len(ev) >= 2 => ShownOf(ev) = t.reply
       /\ Len(ev) >= 3 => Last(ev).kind = "done"
  /\ t.step \in {"deliver", "keepUser", "keepReply"} /\ t.status \in {"success", "stopped"} =>
       ShownWell(t, ev)

ShownInv ==
  /\ \A c \in Socket : Fits(turn[c], events[c])
  /\ \A q \in Question : cache[q] # <<>> => OfOne(cache[q])

LEMMA FitsSame ==
  ASSUME NEW t, NEW u, NEW ev, Fits(t, ev),
         u.step = t.step, u.reply = t.reply, u.status = t.status, u.todo = t.todo
  PROVE  Fits(u, ev)
BY DEF Fits, ShownWell

LEMMA FitsLater ==
  ASSUME NEW t, NEW u, NEW ev, Fits(t, ev), u.reply = t.reply, u.status = t.status,
         \/ t.step \in Before /\ u.step \in Before
         \/ /\ t.step \in {"deliver", "keepUser"} /\ u.step \in {"keepUser", "keepReply"}
  PROVE  Fits(u, ev)
BY DEF Fits, ShownWell, Before

LEMMA FitsIdle ==
  /\ \A ev : Fits(Idle("closing"), ev)
  /\ \A s \in {"closed", "waiting"} : Fits(Idle(s), <<>>)
  /\ \A q : Fits([Idle("begin") EXCEPT !.question = q], <<>>)
BY DEF Fits, Idle, Before

\* What a send makes of it.
LEMMA SendsFits ==
  ASSUME Typed, NEW c \in Socket, NEW next \in Turn, NEW sent, Sends(c, next, sent),
         Fits(next, events[c] \o sent)
  PROVE  Fits(turn'[c], events'[c])
<1> DEFINE u == [next EXCEPT !.drained = FALSE]
<1>1. \/ turn'[c] = Idle("closing")
      \/ turn'[c] = u /\ events'[c] = (events[c] \o sent)
  BY DEF Sends, Typed, TypeOK
<1>2. u.step = next.step /\ u.reply = next.reply /\ u.status = next.status /\ u.todo = next.todo
  BY DEF Turn
<1> HIDE DEF u
<1>3. Fits(u, events[c] \o sent)
  BY <1>2, FitsSame
<1> QED
  BY <1>1, <1>3, FitsIdle

LEMMA SendsNothingFits ==
  ASSUME Typed, NEW c \in Socket, NEW next \in Turn, Sends(c, next, <<>>), Fits(next, events[c])
  PROVE  Fits(turn'[c], events'[c])
<1>1. (events[c] \o <<>>) = events[c]
  BY ConcatEmptySeq DEF Typed, TypeOK
<1> QED
  BY <1>1, SendsFits

LEMMA ShownAround ==
  ASSUME Typed, NEW c \in Socket, Fits(turn[c], events[c]), Around(c)
  PROVE  Fits(turn'[c], events'[c])
<1> DEFINE t == turn[c]
           ev == events[c]
<1>1. /\ t \in Turn /\ turn \in [Socket -> Turn]
      /\ DOMAIN events = Socket
  BY DEF Typed, TypeOK
<1>2. t.step \in {"closed", "waiting"} => ev = <<>>
  BY DEF Fits
<1>3. CASE Connect(c)
  <2>1. turn'[c] = Idle("waiting") /\ events'[c] = <<>>
    BY <1>1, <1>2, <1>3 DEF Connect, At
  <2> QED
    BY <2>1, FitsIdle
<1>4. CASE Stop(c) \/ Leave(c) \/ (\E q \in Question : Ask(c, q)) \/ IdleTimeout(c)
  BY <1>4 DEF Stop, Leave, Ask, Puts, IdleTimeout, wire
<1>5. CASE Receive(c)
  <2>1. ev = <<>> /\ Idle("waiting") \in Turn
    BY <1>2, <1>5, IdleFormed DEF Receive, At, Formed, Step, Working, Streaming
  <2>2. CASE Sends(c, Idle("waiting"), <<>>)
    BY <2>1, <2>2, FitsIdle, SendsNothingFits
  <2>3. CASE /\ turn' = [turn EXCEPT ![c] = [Idle("begin") EXCEPT !.question = Head(incoming[c])]]
             /\ UNCHANGED events
    <3>1. turn'[c] = [Idle("begin") EXCEPT !.question = Head(incoming[c])] /\ events'[c] = <<>>
      BY <1>1, <2>1, <2>3
    <3> QED
      BY <3>1, FitsIdle
  <2>4. CASE turn' = [turn EXCEPT ![c] = Idle("closing")]
    BY <1>1, <2>4, FitsIdle
  <2> QED
    BY <1>5, <2>2, <2>3, <2>4 DEF Receive
<1>6. CASE Begin(c)
  <2> DEFINE u == [t EXCEPT !.step = "route"]
  <2>1. /\ u \in Turn /\ u.step = "route" /\ u.reply = t.reply /\ u.status = t.status
        /\ t.step = "begin"
    BY <1>1, <1>6 DEF Begin, At, Turn, Step, Working, Streaming
  <2>2. Sends(c, u, <<>>)
    BY <1>6 DEF Begin
  <2> HIDE DEF u
  <2>3. Fits(u, ev)
    BY <2>1, FitsLater DEF Before
  <2> QED
    BY <2>1, <2>2, <2>3, SendsNothingFits
<1>7. CASE Close(c) \/ KeepReply(c)
  <2>1. turn'[c] \in {Idle("closed"), Idle("waiting")} /\ events'[c] = <<>>
    BY <1>1, <1>7 DEF Close, KeepReply, Over
  <2> QED
    BY <2>1, FitsIdle
<1>8. CASE KeepUser(c)
  <2> DEFINE u == [t EXCEPT !.step = "keepReply"]
  <2>1. /\ u.step = "keepReply" /\ u.reply = t.reply /\ u.status = t.status
        /\ t.step = "keepUser"
    BY <1>1, <1>8 DEF KeepUser, At, Turn
  <2>2. turn'[c] = u /\ events'[c] = ev
    BY <1>1, <1>8 DEF KeepUser, wire
  <2> HIDE DEF u
  <2> QED
    BY <2>1, <2>2, FitsLater
<1>9. CASE Raises(c)
  <2>1. turn'[c] = Idle("closing")
    BY <1>1, <1>9 DEF Raises
  <2> QED
    BY <2>1, FitsIdle
<1> QED
  BY <1>3, <1>4, <1>5, <1>6, <1>7, <1>8, <1>9 DEF Around, Client

\* Events sent with a text, or with none.
LEMMA SendsTextFits ==
  ASSUME Typed, NEW c \in Socket, NEW next \in Turn, NEW kind \in Kind, NEW text \in Text,
         Sends(c, next, E(kind, text)),
         \A ev : /\ ShownOf(ev) = (ShownOf(events[c]) \o text)
                 /\ Len(ev) = Len(events[c]) + 1 /\ Last(ev).kind = kind
                 => Fits(next, ev)
  PROVE  Fits(turn'[c], events'[c])
<1> DEFINE ev == events[c] \o E(kind, text)
<1>1. events[c] \in Seq(Event)
  BY DEF Typed, TypeOK
<1>2. /\ ShownOf(ev) = (ShownOf(events[c]) \o text)
      /\ Len(ev) = Len(events[c]) + 1 /\ Last(ev).kind = kind
  BY <1>1, ShownOfEvents
<1> HIDE DEF ev
<1>3. Fits(next, ev)
  BY <1>2
<1> QED
  BY <1>3, SendsFits DEF ev

LEMMA ShownQuiet ==
  ASSUME Typed, ShownInv, NEW c \in Socket, Quiet(c)
  PROVE  Fits(turn'[c], events'[c])
<1> DEFINE t == turn[c]
           ev == events[c]
<1>1. /\ t \in Turn /\ t \in Formed /\ turn \in [Socket -> Turn] /\ t.step \in Streaming
      /\ ev \in Seq(Event) /\ Len(ev) \in Nat
  <2>1. t \in Turn /\ t \in Formed /\ turn \in [Socket -> Turn] /\ t.step \in Streaming
    BY Frame DEF Typed, TypeOK
  <2>2. ev \in Seq(Event)
    BY DEF Typed, TypeOK
  <2>3. Len(ev) \in Nat
    BY <2>2, LenProperties
  <2> QED
    BY <2>1, <2>2, <2>3
<1>2. Fits(t, ev)
  BY DEF ShownInv
<1>3. /\ t.step \in Before => /\ ev = <<>> /\ ShownOf(ev) = <<>> /\ Len(ev) = 0
                              /\ t.reply = <<>> /\ t.status = "none"
      /\ \A x \in Text : /\ (x \o <<>>) = x /\ (<<>> \o x) = x
  <2>1. t.step \in Before => ev = <<>> /\ t.reply = <<>> /\ t.status = "none"
    BY <1>2 DEF Fits
  <2>2. ShownOf(<<>>) = <<>> /\ Len(<<>>) = 0
    BY ShownOfEvents
  <2>3. \A x \in Text : (x \o <<>>) = x /\ (<<>> \o x) = x
    BY ConcatEmptySeq DEF Text
  <2> QED
    BY <2>1, <2>2, <2>3
<1>4. \A s \in Step : /\ [t EXCEPT !.step = s] \in Turn
                     /\ [t EXCEPT !.step = s].step = s
                     /\ [t EXCEPT !.step = s].reply = t.reply
                     /\ [t EXCEPT !.step = s].status = t.status
                     /\ [t EXCEPT !.step = s].todo = t.todo
  BY <1>1 DEF Turn
<1>5. {"lookup", "recall", "retrieve", "search", "gate", "hint", "chat", "keepUser"} \subseteq Step
  BY DEF Step, Working, Streaming
<1>6. <<>> \in Text /\ t.reply \in Text
  BY <1>1, EventTyped DEF Turn
<1>7. CASE Drain(c)
  <2> DEFINE u == [t EXCEPT !.drained = TRUE, !.stopping = StopRead(c)]
  <2>1. turn'[c] = u /\ events'[c] = ev
    BY <1>1, <1>7 DEF Drain
  <2>2. u.step = t.step /\ u.reply = t.reply /\ u.status = t.status /\ u.todo = t.todo
    BY <1>1 DEF Turn
  <2> HIDE DEF u
  <2> QED
    BY <1>2, <2>1, <2>2, FitsSame
<1>8. CASE Route(c) \/ Retrieve(c) \/ Search(c)
  <2> DEFINE Goes(s) == \/ Sends(c, [t EXCEPT !.step = s], <<>>)
                        \/ turn' = [turn EXCEPT ![c] = [t EXCEPT !.step = s]] /\ UNCHANGED <<events, late>>
  <2>1. t.step \in Before
    BY <1>8 DEF Route, Retrieve, Search, Ready, Before
  <2>2. PICK s \in {"lookup", "search", "gate"} : Goes(s)
    BY <1>8 DEF Route, Retrieve, Search
  <2> DEFINE u == [t EXCEPT !.step = s]
  <2>3. u \in Turn /\ u.step \in Before /\ u.reply = t.reply /\ u.status = t.status
    BY <1>4, <1>5 DEF Before
  <2>4. Sends(c, u, <<>>) \/ (turn'[c] = u /\ events'[c] = ev)
    BY <1>1, <2>2
  <2> HIDE DEF u
  <2>5. Fits(u, ev)
    BY <1>2, <2>1, <2>3, FitsLater
  <2> QED
    BY <2>3, <2>4, <2>5, SendsNothingFits
<1>9. CASE Lookup(c)
  <2>1. /\ t.step \in Before /\ t.question \in Question /\ cache[t.question] \in Text
        /\ (t.question \in decisions) \in BOOLEAN
    BY <1>1, <1>9 DEF Lookup, Ready, Before, Formed, Working, Streaming, Typed, TypeOK
  <2> DEFINE u == [t EXCEPT !.step = "recall", !.reply = cache[t.question]]
             v == [t EXCEPT !.step = "retrieve", !.decided = t.question \in decisions]
             w == [t EXCEPT !.step = "retrieve"]
  <2>2. /\ u \in Turn /\ u.step = "recall" /\ u.reply = cache[t.question]
        /\ v \in Turn /\ v.step = "retrieve" /\ v.reply = t.reply /\ v.status = t.status
        /\ w \in Turn /\ w.step = "retrieve" /\ w.reply = t.reply /\ w.status = t.status
    BY <1>1, <1>5, <2>1 DEF Turn
  <2>3. \/ Sends(c, u, <<>>) /\ cache[t.question] # <<>>
        \/ Sends(c, v, <<>>) \/ Sends(c, w, <<>>)
    BY <1>9 DEF Lookup
  <2> HIDE DEF u, v, w
  <2>4. Fits(v, ev) /\ Fits(w, ev)
    BY <1>2, <2>1, <2>2, FitsLater DEF Before
  <2>5. cache[t.question] # <<>> => Fits(u, ev)
    <3>1. cache[t.question] # <<>> => OfOne(u.reply)
      BY <2>1, <2>2 DEF ShownInv
    <3>2. ShownOf(ev) = <<>> /\ Len(ev) = 0
      BY <1>3, <2>1
    <3> QED
      BY <2>2, <3>1, <3>2 DEF Fits, Before
  <2> QED
    BY <2>2, <2>3, <2>4, <2>5, SendsNothingFits
<1>10. CASE Gate(c)
  <2> DEFINE u == [t EXCEPT !.step = "hint", !.todo = GatedProviders]
             v == [t EXCEPT !.step = "keepUser", !.status = "error"]
  <2>1. t.step \in Before
    BY <1>10 DEF Gate, Ready, Before
  <2>2. /\ u \in Turn /\ u.step = "hint" /\ u.reply = t.reply /\ u.status = t.status
        /\ v.step = "keepUser" /\ v.status = "error"
    BY <1>1, <1>5 DEF Turn, GatedProviders
  <2>3. Sends(c, u, <<>>) \/ turn'[c] = v
    BY <1>1, <1>10 DEF Gate
  <2> HIDE DEF u, v
  <2>4. Fits(u, ev)
    BY <1>2, <2>1, <2>2, FitsLater DEF Before
  <2>5. \A e : Fits(v, e)
    BY <2>2 DEF Fits, Before
  <2> QED
    BY <2>2, <2>3, <2>4, <2>5, SendsNothingFits
<1>11. CASE Hint(c)
  <2> DEFINE u == [t EXCEPT !.step = "chat"]
  <2>1. t.step \in Before
    BY <1>11 DEF Hint, Ready, Before
  <2>2. u \in Turn /\ u.step = "chat" /\ u.reply = <<>>
    BY <1>3, <1>4, <1>5, <2>1
  <2>3. Sends(c, u, E("hint", <<>>)) /\ "hint" \in Kind
    BY <1>11 DEF Hint, Kind
  <2> HIDE DEF u
  <2>4. ASSUME NEW e, ShownOf(e) = (ShownOf(ev) \o <<>>) PROVE Fits(u, e)
    <3>1. ShownOf(e) = <<>>
      BY <1>3, <1>6, <2>1, <2>4
    <3> QED
      BY <2>2, <3>1 DEF Fits, Before
  <2> QED
    BY <1>6, <2>2, <2>3, <2>4, SendsTextFits
<1>12. CASE Recall(c)
  <2> DEFINE n == Len(ev)
             u == [t EXCEPT !.status = "success"]
             v == [t EXCEPT !.step = "keepUser"]
  <2>1. /\ t.step = "recall" /\ OfOne(t.reply)
        /\ n < 2 => ShownOf(ev) = <<>>
        /\ n >= 2 => ShownOf(ev) = t.reply
        /\ n >= 3 => Last(ev).kind = "done"
    <3>1. t.step = "recall"
      BY <1>12 DEF Recall, Ready
    <3> QED
      BY <1>2, <3>1 DEF Fits
  <2>2. /\ u \in Turn /\ u.step = "recall" /\ u.reply = t.reply
        /\ v.step = "keepUser" /\ v.reply = t.reply
    BY <1>1, <2>1 DEF Turn
  <2>3. CASE n = 0 /\ Sends(c, t, E("hint", <<>>))
    <3>1. ASSUME NEW e, ShownOf(e) = (ShownOf(ev) \o <<>>), Len(e) = n + 1
          PROVE  Fits(t, e)
      <4>1. ShownOf(e) = <<>> /\ Len(e) = 1
        BY <1>3, <1>6, <2>1, <2>3, <3>1
      <4> QED
        BY <2>1, <4>1 DEF Fits, Before
    <3> QED
      BY <1>1, <1>6, <2>3, <3>1, SendsTextFits DEF Kind
  <2>4. CASE n = 1 /\ Sends(c, t, E("token", t.reply))
    <3>1. ASSUME NEW e, ShownOf(e) = (ShownOf(ev) \o t.reply), Len(e) = n + 1
          PROVE  Fits(t, e)
      <4>1. ShownOf(ev) = <<>> /\ (<<>> \o t.reply) = t.reply /\ Len(e) = 2
        BY <1>3, <1>6, <2>1, <2>4, <3>1
      <4>2. ShownOf(e) = t.reply
        BY <3>1, <4>1
      <4> QED
        BY <2>1, <4>1, <4>2 DEF Fits, Before
    <3> QED
      BY <1>1, <1>6, <2>4, <3>1, SendsTextFits DEF Kind
  <2>5. CASE n = 2 /\ Sends(c, u, E("done", <<>>))
    <3> HIDE DEF u
    <3>1. ASSUME NEW e, ShownOf(e) = (ShownOf(ev) \o <<>>), Len(e) = n + 1, Last(e).kind = "done"
          PROVE  Fits(u, e)
      <4>1. ShownOf(e) = t.reply /\ Len(e) = 3
        BY <1>3, <1>6, <2>1, <2>5, <3>1
      <4> QED
        BY <2>1, <2>2, <3>1, <4>1 DEF Fits, Before
    <3> QED
      BY <1>6, <2>2, <2>5, <3>1, SendsTextFits DEF Kind
  <2>6. CASE n = 3 /\ turn' = [turn EXCEPT ![c].step = "keepUser"] /\ UNCHANGED <<events, late>>
    <3>1. turn'[c] = v /\ events'[c] = ev
      BY <1>1, <2>6
    <3> HIDE DEF v
    <3>2. ShownOf(ev) = v.reply /\ Last(ev).kind = "done" /\ OfOne(v.reply)
      BY <2>1, <2>2, <2>6
    <3>3. Fits(v, ev)
      BY <2>2, <3>2 DEF Fits, ShownWell, Before
    <3> QED
      BY <3>1, <3>3
  <2> QED
    BY <1>12, <2>3, <2>4, <2>5, <2>6 DEF Recall
<1>13. CASE Deliver(c)
  <2> DEFINE u == [t EXCEPT !.step = "keepUser"]
  <2>1. t.step = "deliver" /\ u.step = "keepUser" /\ u.reply = t.reply /\ u.status = t.status
    BY <1>4, <1>5, <1>13 DEF Deliver, Ready
  <2>2. turn'[c] = u /\ events'[c] = ev
    BY <1>1, <1>13 DEF Deliver
  <2> HIDE DEF u
  <2> QED
    BY <1>2, <2>1, <2>2, FitsLater
<1> QED
  BY <1>7, <1>8, <1>9, <1>10, <1>11, <1>12, <1>13 DEF Quiet

LEMMA ShownSpeaks ==
  ASSUME Typed, NEW c \in Socket, Fits(turn[c], events[c]), Speaks(c)
  PROVE  Fits(turn'[c], events'[c])
<1> DEFINE t == turn[c]
           ev == events[c]
           p == Provider(c)
<1>1. t \in Turn /\ t \in Formed /\ turn \in [Socket -> Turn]
  BY DEF Typed, TypeOK
<1>2. t.step = "chat"
  BY DEF Speaks, Token, Done, ProviderFails, Chats, Ready
<1>3. /\ ShownOf(ev) = t.reply
      /\ t.reply # <<>> => Range(t.reply) = {p}
  BY <1>2 DEF Fits, Provider
<1>4. p \in Range(Order)
  BY <1>1, <1>2, FirstIsOne DEF Provider, Formed, Turn
<1>5. t.reply \in Text /\ <<>> \in Text /\ (t.reply \o <<>>) = t.reply
  BY <1>1, EventTyped, ConcatEmptySeq DEF Turn, Text
<1>6. t.reply # <<>> => OfOne(t.reply)
  BY <1>3, <1>4 DEF OfOne
<1> HIDE DEF p
<1>7. ASSUME NEW kind \in {"done", "error", "stopped"}, NEW status \in {"success", "error", "stopped"},
             kind = "error" => status = "error", Ends(c, kind, status)
      PROVE  Fits(turn'[c], events'[c])
  <2> DEFINE u == [t EXCEPT !.step = "deliver", !.status = status]
  <2>1. u \in Turn /\ u.step = "deliver" /\ u.status = status /\ u.reply = t.reply
    BY <1>1 DEF Turn, Step, Working, Streaming
  <2>2. Sends(c, u, E(kind, <<>>)) /\ kind \in Kind
    BY <1>7 DEF Ends, Kind
  <2> HIDE DEF u
  <2>3. ASSUME NEW e, ShownOf(e) = (ShownOf(ev) \o <<>>), Last(e).kind = kind
        PROVE  Fits(u, e)
    <3>1. ShownOf(e) = u.reply /\ (u.reply # <<>> => OfOne(u.reply))
      BY <1>3, <1>5, <1>6, <2>1, <2>3
    <3>2. u.status \in {"success", "stopped"} => Last(e).kind \in {"done", "stopped"}
      BY <1>7, <2>1, <2>3
    <3> QED
      BY <2>1, <3>1, <3>2 DEF Fits, ShownWell, Before
  <2> QED
    BY <1>5, <2>1, <2>2, <2>3, SendsTextFits
<1>8. CASE Token(c) /\ ~t.stopping
  <2> DEFINE u == [t EXCEPT !.reply = Append(@, p)]
             text == <<p>>
  <2>1. text \in Text /\ Append(t.reply, p) \in Text /\ Append(t.reply, p) = (t.reply \o text)
    BY <1>4, <1>5, AppendProperties, AppendIsConcat DEF Text
  <2>2. u \in Turn /\ u.step = "chat" /\ u.reply = Append(t.reply, p) /\ u.todo = t.todo
    BY <1>1, <1>2, <2>1 DEF Turn
  <2>3. Sends(c, u, E("token", text)) /\ "token" \in Kind
    BY <1>8 DEF Token, Kind, p
  <2>4. Range(Append(t.reply, p)) = {p}
    <3> DEFINE s == t.reply
    <3>1. /\ s \in Seq(Range(Order)) /\ DOMAIN s = 1 .. Len(s) /\ Len(s) \in Nat
          /\ DOMAIN Append(s, p) = 1 .. (Len(s) + 1)
          /\ \A i \in 1 .. Len(s) : Append(s, p)[i] = s[i]
          /\ Append(s, p)[Len(s) + 1] = p
      BY <1>4, <1>5, AppendProperties DEF Text
    <3>2. \A i \in 1 .. Len(s) : s[i] = p
      <4>1. CASE s = <<>>
        BY <4>1
      <4>2. CASE s # <<>>
        BY <1>3, <3>1, <4>2 DEF Range
      <4> QED
        BY <4>1, <4>2
    <3> HIDE DEF s
    <3>3. \A i \in DOMAIN Append(s, p) : Append(s, p)[i] = p
      BY <3>1, <3>2
    <3>4. Len(s) + 1 \in DOMAIN Append(s, p)
      BY <3>1
    <3>5. Range(Append(s, p)) = {p}
      BY <3>3, <3>4 DEF Range
    <3> QED
      BY <3>5 DEF s
  <2> HIDE DEF u, text
  <2>5. ASSUME NEW e, ShownOf(e) = (ShownOf(ev) \o text) PROVE Fits(u, e)
    <3>1. ShownOf(e) = u.reply /\ Range(u.reply) = {First(u.todo)}
      BY <1>3, <2>1, <2>2, <2>4, <2>5 DEF p, Provider
    <3> QED
      BY <2>2, <3>1 DEF Fits, Before
  <2> QED
    BY <2>1, <2>2, <2>3, <2>5, SendsTextFits
<1>9. CASE Token(c) /\ t.stopping
  BY <1>7, <1>9 DEF Token
<1>10. CASE Done(c)
  BY <1>7, <1>10 DEF Done
<1>11. CASE ProviderFails(c)
  <2>1. CASE /\ t.reply = <<>>
             /\ turn' = [turn EXCEPT ![c].todo = Remaining(c)] /\ UNCHANGED <<events, late>>
    <3> DEFINE u == [t EXCEPT !.todo = Remaining(c)]
    <3>1. turn'[c] = u /\ events'[c] = ev /\ u.step = "chat" /\ u.reply = <<>>
      BY <1>1, <1>2, <2>1 DEF Turn
    <3> HIDE DEF u
    <3>2. ShownOf(ev) = u.reply
      BY <1>3, <2>1, <3>1
    <3>3. Fits(u, ev)
      BY <3>1, <3>2 DEF Fits, Before
    <3> QED
      BY <3>1, <3>3
  <2>2. CASE Ends(c, "error", "error")
    BY <1>7, <2>2
  <2> QED
    BY <1>11, <2>1, <2>2 DEF ProviderFails
<1> QED
  BY <1>8, <1>9, <1>10, <1>11 DEF Speaks

\* A reply goes into the cache as one model gave it.
LEMMA CachedIsOfOne ==
  ASSUME Typed, ShownInv, [Next]_vars, NEW q \in Question, cache'[q] # <<>>
  PROVE  OfOne(cache'[q])
<1>1. ASSUME cache'[q] = cache[q] PROVE OfOne(cache'[q])
  BY <1>1 DEF ShownInv
<1>2. CASE UNCHANGED vars
  BY <1>1, <1>2 DEF vars
<1>3. CASE Others
  <2>1. cache'[q] = cache[q] \/ cache'[q] = <<>>
    BY <1>3 DEF Others, Decide, Expire, Revoke, RemoveEndpoint, Grant, SwitchEndpoint, AddEndpoint, Typed, TypeOK
  <2> QED
    BY <1>1, <2>1
<1>4. ASSUME NEW c \in Socket, Around(c) PROVE OfOne(cache'[q])
  <2>1. cache' = cache
    BY <1>4 DEF Around, Client, Connect, Stop, Leave, Ask, Puts, Receive, Begin, Close, IdleTimeout,
         KeepUser, KeepReply, Raises
  <2> QED
    BY <1>1, <2>1
<1>5. ASSUME NEW c \in Socket, Quiet(c) \/ Speaks(c), ~Deliver(c) PROVE OfOne(cache'[q])
  <2>1. cache' = cache
    BY <1>5 DEF Quiet, Speaks, Drain, Route, Lookup, Recall, Retrieve, Search, Gate, Hint,
         Token, Done, ProviderFails
  <2> QED
    BY <1>1, <2>1
<1>6. ASSUME NEW c \in Socket, Deliver(c) PROVE OfOne(cache'[q])
  <2> DEFINE t == turn[c]
  <2>1. t.step = "deliver" /\ Fits(t, events[c])
    BY <1>6 DEF Deliver, Ready, ShownInv
  <2>2. cache'[q] = cache[q] \/ (t.status = "success" /\ cache'[q] = t.reply)
    BY <1>6 DEF Deliver, Typed, TypeOK
  <2>3. t.status = "success" /\ t.reply # <<>> => OfOne(t.reply)
    BY <2>1 DEF Fits, ShownWell
  <2> QED
    BY <1>1, <2>2, <2>3
<1> QED
  BY <1>2, <1>3, <1>4, <1>5, <1>6, NextCases DEF Around

LEMMA ShownStep == Typed /\ ShownInv /\ [Next]_vars => ShownInv'
<1> SUFFICES ASSUME Typed, ShownInv, [Next]_vars PROVE ShownInv'
  OBVIOUS
<1>1. \A q \in Question : cache'[q] # <<>> => OfOne(cache'[q])
  BY CachedIsOfOne
<1>2. ASSUME NEW d \in Socket PROVE Fits(turn'[d], events'[d])
  <2>1. Fits(turn[d], events[d])
    BY DEF ShownInv
  <2>2. CASE UNCHANGED vars
    BY <2>1, <2>2 DEF vars, wire
  <2>3. CASE Others
    <3>1. Meanwhile
      BY <2>3 DEF Others, Decide, Expire, Grant, Revoke, AddEndpoint, SwitchEndpoint, RemoveEndpoint
    <3> QED
      BY <2>1, <3>1 DEF Meanwhile, wire
  <2>4. ASSUME NEW c \in Socket, Around(c) \/ Quiet(c) \/ Speaks(c)
        PROVE  Fits(turn'[d], events'[d])
    <3>1. CASE c = d
      BY <2>1, <2>4, <3>1, ShownAround, ShownQuiet, ShownSpeaks
    <3>2. CASE c # d
      BY <2>1, <2>4, <3>2, StopElsewhere
    <3> QED
      BY <3>1, <3>2
  <2> QED
    BY <2>2, <2>3, <2>4, NextCases DEF Around
<1> QED
  BY <1>1, <1>2 DEF ShownInv

\* A reply is stored by KeepReply and by nothing else.
LEMMA StoredByKeepReply ==
  ASSUME Typed, [Next]_vars, NEW c \in Socket, Len(messages'[c]) > Len(messages[c]),
         Last(messages'[c]).role = "assistant"
  PROVE  /\ At(c, "keepReply") /\ HasReply(c)
         /\ Last(messages'[c]).text = turn[c].reply
<1>1. messages[c] \in Seq(Message) /\ Len(messages[c]) \in Nat /\ DOMAIN messages = Socket
  <2>1. messages[c] \in Seq(Message) /\ DOMAIN messages = Socket
    BY DEF Typed, TypeOK
  <2> QED
    BY <2>1, LenProperties
<1>2. messages'[c] # messages[c]
  BY <1>1
<1>3. ASSUME NEW m, messages'[c] = Append(messages[c], m) PROVE Last(messages'[c]) = m
  <2>1. Len(Append(messages[c], m)) = Len(messages[c]) + 1
    BY <1>1
  <2>2. Append(messages[c], m)[Len(messages[c]) + 1] = m
    BY <1>1
  <2> QED
    BY <1>3, <2>1, <2>2 DEF Last
<1>4. ~UNCHANGED vars /\ ~Others
  BY <1>2 DEF vars, talk, Others, Meanwhile, Decide, Expire, Grant, Revoke, AddEndpoint,
     SwitchEndpoint, RemoveEndpoint
<1>5. PICK d \in Socket : Around(d) \/ Quiet(d) \/ Speaks(d)
  BY <1>4, NextCases DEF Around
<1>6. KeepUser(d) \/ KeepReply(d)
  <2>1. ~Quiet(d) /\ ~Speaks(d)
    BY <1>2, Frame DEF talk
  <2>2. ~(Client(d) \/ Receive(d) \/ Begin(d) \/ Close(d) \/ IdleTimeout(d) \/ Raises(d))
    BY <1>2 DEF Client, Connect, Stop, Leave, Ask, Puts, Receive, Begin, Close, IdleTimeout,
       Raises, talk
  <2> QED
    BY <1>5, <2>1, <2>2 DEF Around
<1>7. d = c
  BY <1>1, <1>2, <1>6 DEF KeepUser, KeepReply
<1>8. CASE KeepUser(c)
  <2>1. messages'[c] = Append(messages[c], Said(c, "user"))
    BY <1>1, <1>8 DEF KeepUser
  <2>2. Said(c, "user").role = "user"
    BY DEF Said
  <2> QED
    BY <1>3, <2>1, <2>2
<1>9. CASE KeepReply(c)
  <2>1. At(c, "keepReply") /\ HasReply(c)
    BY <1>2, <1>9 DEF KeepReply
  <2>2. messages'[c] = Append(messages[c], Said(c, "assistant"))
    BY <1>1, <1>9, <2>1 DEF KeepReply
  <2>3. Said(c, "assistant").text = turn[c].reply
    BY DEF Said
  <2> QED
    BY <1>3, <2>1, <2>2, <2>3
<1> QED
  BY <1>6, <1>7, <1>8, <1>9

\* The reply that is stored is the text the client was shown, whole and no more,
\* it is of one model, and it was ended by that model or by a stop: KeepReply
\* stores what stages 9 and the cache sent, never a text of two models, of a
\* failure, or with a token that a stop held back.
THEOREM ReplyHolds == Spec => ReplyIsWhatWasShown
<1>1. Init => ShownInv
  BY ShownOfEvents, FitsIdle DEF Init, ShownInv
<1>2. ASSUME Typed, ShownInv, [Next]_vars, NEW c \in Socket,
             Len(messages'[c]) > Len(messages[c]), Last(messages'[c]).role = "assistant"
      PROVE  /\ Last(messages'[c]).text = Shown(c)
             /\ Cardinality(Range(Shown(c))) = 1
             /\ Last(events[c]).kind \in {"done", "stopped"}
  <2>1. At(c, "keepReply") /\ HasReply(c) /\ Last(messages'[c]).text = turn[c].reply
    BY <1>2, StoredByKeepReply
  <2>2. Fits(turn[c], events[c])
    BY <1>2 DEF ShownInv
  <2>3. ShownWell(turn[c], events[c]) /\ turn[c].reply # <<>>
    BY <2>1, <2>2 DEF Fits, At, HasReply
  <2>4. Shown(c) = turn[c].reply /\ OfOne(turn[c].reply) /\ Last(events[c]).kind \in {"done", "stopped"}
    BY <2>3, ShownOfEvents DEF ShownWell
  <2>5. \A p : Cardinality({p}) = 1
    BY FS_Singleton
  <2> QED
    BY <2>1, <2>4, <2>5 DEF OfOne
<1>3. Typed /\ ShownInv /\ [Next]_vars => [\A c \in Socket :
        Len(messages'[c]) > Len(messages[c]) /\ Last(messages'[c]).role = "assistant" =>
          /\ Last(messages'[c]).text = Shown(c)
          /\ Cardinality(Range(Shown(c))) = 1
          /\ Last(events[c]).kind \in {"done", "stopped"}]_vars
  BY <1>2
<1> QED
  BY <1>1, <1>3, SpecTyped, ShownStep, PTL DEF Spec, ReplyIsWhatWasShown

=============================================================================
