--------------------------- MODULE ContextAssembly ---------------------------
(***************************************************************************)
(* What a model is shown: stage_07_context_assembly.py, with the gap of      *)
(* stage_00_gap_detector.py that scales one of its budgets.                  *)
(*                                                                         *)
(* A text is the number of its words, which is all the budget sees           *)
(* (_estimate_tokens); the history is the sequence of its messages' words.   *)
(* The sections are a record, one field a section.                           *)
(***************************************************************************)
EXTENDS Integers, Sequences, SequencesExt

CONSTANTS
    Room,           \* context_token_budget - response_reserved_tokens
    SystemWords,    \* the instructions, never cut
    Heading,        \* the heading of a section
    SnapshotWords, ProfileWords, DecisionWords, RagWords, WebWords, HistoryWords
                    \* settings.json: the most that each section may take

ASSUME BudgetAssumption ==
    /\ {Room, SystemWords, Heading, HistoryWords} \subseteq Nat
    /\ {SnapshotWords, ProfileWords, DecisionWords, RagWords, WebWords} \subseteq Nat \ {0}

Total(s) == FoldSeq(LAMBDA x, y : x + y, 0, s)

\* _truncate_to_tokens: the ellipsis takes the place of a word.
Truncate(words, most) == IF words <= most THEN words ELSE IF most = 0 THEN words ELSE most

Section(words, most) == IF words = 0 THEN 0 ELSE Truncate(Heading + words, most)

\* A table that was looked up and is empty is said to be empty, a word each.
Profile(rows, none) == Section(rows + none, ProfileWords)

\* The gap in hours; none is known, or a clock that went backwards, is 0.
Modifier(gap) ==
    CASE gap < 1 -> 0
      [] gap >= 1 /\ gap < 24 -> 1
      [] gap >= 24 /\ gap <= 168 -> 2
      [] OTHER -> 3

\* As if the recap were only ever scaled by the gap.
BudgetWithoutFloor(modifier, continuation, history) == (SnapshotWords * modifier) \div 2

\* The live conversation stands in for the recap only where there is one and
\* nobody asked for a recap.
SnapshotBudget(modifier, continuation, history) ==
    LET scaled == (SnapshotWords * modifier) \div 2 IN
    IF (continuation \/ history = <<>>) /\ scaled < SnapshotWords THEN SnapshotWords ELSE scaled

Snapshot(words, most) == IF most <= 0 THEN 0 ELSE Section(words, most)

\* The longest start of the list that fits, of one entry at least.
Decisions(entries) ==
    LET fits(n) == n = 1 \/ Heading + Total(SubSeq(entries, 1, n)) <= DecisionWords
        n == CHOOSE k \in DOMAIN entries :
                 fits(k) /\ \A j \in DOMAIN entries : fits(j) => j <= k
    IN  IF entries = <<>> THEN 0 ELSE Section(Total(SubSeq(entries, 1, n)), DecisionWords)

\* As if the newest messages were dropped first.
TrimNewest(h, most) ==
    LET kept == {n \in 0..Len(h) : Total(SubSeq(h, 1, n)) <= most} IN
    IF kept = {} THEN <<>> ELSE SubSeq(h, 1, CHOOSE n \in kept : \A m \in kept : m <= n)

\* The longest end of the history that fits: _trim_conversation_history, and
\* the while loop of run that pops the oldest.
Trim(h, most) ==
    LET from == {i \in 1..(Len(h) + 1) : Total(SubSeq(h, i, Len(h))) <= most} IN
    IF from = {} THEN <<>> ELSE SubSeq(h, CHOOSE i \in from : \A j \in from : i <= j, Len(h))

\* What there is to show, each section within its own budget.
Offered(in, history, recap) ==
    [decision_log |-> Decisions(in.decisions),
     profile |-> Profile(in.rows, IF in.continuation /\ in.rows = 0 THEN 2 ELSE 0),
     rag_chunks |-> Section(in.rag, RagWords),
     session_snapshot |-> Snapshot(recap, SnapshotBudget(Modifier(in.gap), in.continuation, history)),
     conversation_history |-> Trim(history, HistoryWords),
     web_results |-> Section(in.web, WebWords)]

Words(s) ==
    s.decision_log + s.profile + s.rag_chunks + s.session_snapshot + s.web_results
        + Total(s.conversation_history)

\* _PRIORITY_RANK backwards: what goes first.
LowestFirst == <<"web_results", "conversation_history", "session_snapshot",
                 "rag_chunks", "profile", "decision_log">>

Without(s, k) == [s EXCEPT ![k] = IF k = "conversation_history" THEN <<>> ELSE 0]

\* One turn of the loop: nothing where it fits already, the oldest messages one
\* by one, any other section as a whole.
Cut(s, k, room) ==
    IF Words(s) <= room THEN s
    ELSE IF k = "conversation_history"
         THEN [s EXCEPT ![k] = Trim(s[k], room - Words(Without(s, k)))]
         ELSE Without(s, k)

Fitted(s, room) == FoldLeft(LAMBDA t, k : Cut(t, k, room), s, LowestFirst)

Nothing == FoldLeft(Without, [k \in ToSet(LowestFirst) |-> 0], LowestFirst)

Assembled(in, history, recap) == Fitted(Offered(in, history, recap), Room - SystemWords - in.message)

-----------------------------------------------------------------------------
(* The reference: everything the ranks allow to be kept, and the most of it    *)
(* that fits.                                                                  *)

\* Whole sections from the top of the ranks, and of the history any end.
Keepings(s) ==
    LET cut(n) == FoldLeft(Without, s, SubSeq(LowestFirst, 1, n))
        h == s.conversation_history
    IN  {cut(n) : n \in 0..Len(LowestFirst)}
            \cup {[cut(1) EXCEPT !.conversation_history = SubSeq(h, i, Len(h))] : i \in DOMAIN h}

IsBest(kept, offered, room) ==
    \/ kept = Nothing /\ \A k \in Keepings(offered) : Words(k) <= room => Words(k) = 0
    \/ /\ kept \in Keepings(offered) /\ Words(kept) <= room
       /\ \A k \in Keepings(offered) : Words(k) <= room => Words(k) <= Words(kept)
=============================================================================
