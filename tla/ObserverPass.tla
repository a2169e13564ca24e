----------------------------- MODULE ObserverPass -----------------------------
(***************************************************************************)
(* What one pass of the Observer keeps of a model's answer about a           *)
(* transcript: stage_11_observer.py.                                         *)
(*                                                                         *)
(* A transcript is a sequence of turns; a turn has a speaker, a number of    *)
(* words and at most one thing it says.  A candidate quotes a thing, or      *)
(* something that nobody said.                                               *)
(***************************************************************************)
EXTENDS Integers, Sequences, SequencesExt, FiniteSets

CONSTANTS
    Fact,           \* the things that may be said
    Invented,       \* a quote of nothing: a placeholder, a confabulation
    None,           \* a turn that says none of them
    MaxTranscript,  \* observer.max_session_tokens
    MinWords        \* the words of a turn that is more than an acknowledgment

ASSUME ObserverAssumption ==
    /\ Invented \notin Fact /\ None \notin Fact /\ Invented # None
    /\ MaxTranscript \in Nat /\ MinWords \in Nat

Quote == Fact \cup {Invented}
Turn == [who : {"user", "assistant"}, says : Fact \cup {None}, words : Nat]

Memory == [quote : Quote, sound : BOOLEAN]
Decision == [text : Fact, quote : Quote, asks : BOOLEAN]

AtMostOne(S) == {{}} \cup {{x} : x \in S}

\* What a model may answer: nothing that parses, or candidates and a topic.
Answer ==
    [parsed : {FALSE}, memory : {{}}, decisions : {{}}, topic : {FALSE}]
        \cup [parsed : {TRUE}, memory : AtMostOne(Memory), decisions : AtMostOne(Decision), topic : BOOLEAN]

Length(turns) == FoldSeq(LAMBDA t, n : t.words + n, 0, turns)

\* _cap_transcript: whole lines from the end, one at least.
Cap(turns) ==
    LET fits(i) == i = Len(turns) \/ Length(SubSeq(turns, i, Len(turns))) <= MaxTranscript
        from == {i \in DOMAIN turns : fits(i)}
    IN  IF from = {} THEN turns
        ELSE SubSeq(turns, CHOOSE i \in from : \A j \in from : i <= j, Len(turns))

\* _quote_is_grounded, whoever said it.
Grounded(quote, turns) == \E i \in DOMAIN turns : turns[i].says = quote

\* _looks_like_assistant_echo
Echoes(d, turns) ==
    d.asks \/ \E i \in DOMAIN turns : turns[i].who = "assistant" /\ turns[i].says = d.text

\* _substantive_user_turns
Substantive(turns) ==
    Cardinality({i \in DOMAIN turns : turns[i].who = "user" /\ turns[i].words >= MinWords})

\* run: unsound and ungrounded candidates are dropped, and the recap of a
\* session that said nothing.
Extracted(answer, turns) ==
    LET shown == Cap(turns) IN
    [memory |-> {c \in answer.memory : c.sound /\ Grounded(c.quote, shown)},
     decisions |-> {d \in answer.decisions : ~Echoes(d, shown) /\ Grounded(d.quote, shown)},
     topic |-> answer.topic /\ Substantive(shown) >= 1]

\* As if reading a turn again were hearing it again.
StatedAnyTime(out, fresh) == out

\* _only_candidates_stated_this_session
OnlyStated(out, fresh) ==
    [out EXCEPT !.memory = {c \in @ : Grounded(c.quote, fresh)},
                !.decisions = {d \in @ : Grounded(d.quote, fresh)}]

\* _snapshot_may_overwrite_the_standing_one
MayOverwrite(out, fresh) ==
    /\ out.topic
    /\ out.memory # {} \/ out.decisions # {} \/ Substantive(fresh) >= 2

\* What the socket was not handed: the slice behind observed_prefix.
Fresh(turns, prefix) == SubSeq(turns, prefix + 1, Len(turns))

\* run_session_end up to the writes: a pass that was told which turns are new
\* looks for its evidence there.
Output(answer, turns, prefix) ==
    LET out == Extracted(answer, turns) IN
    IF prefix = 0 THEN out ELSE OnlyStated(out, Fresh(turns, prefix))
=============================================================================
