------------------------------ MODULE RecallProofs ------------------------------
(***************************************************************************)
(* That reading is not hearing (Recall), for any number of things, chats,    *)
(* starts, questions and failing passes; and that a prompt is the best of     *)
(* what there is to show, for any sections, budgets and histories.           *)
(***************************************************************************)
EXTENDS Recall, SequenceTheorems, FiniteSetTheorems, WellFoundedInduction, TLAPS

-----------------------------------------------------------------------------
(* Counting in sequences                                                    *)

\* At how many places of q a member of P stands.
Places(q, P) == {i \in DOMAIN q : q[i] \in P}
Hits(q, P) == Cardinality(Places(q, P))

LEMMA HitsAreNat ==
    ASSUME NEW S, NEW q \in Seq(S), NEW P
    PROVE  /\ IsFiniteSet(Places(q, P)) /\ Hits(q, P) \in Nat
           /\ Places(q, P) \subseteq 1 .. Len(q)
  <1>1. DOMAIN q = 1 .. Len(q) /\ Len(q) \in Nat
    OBVIOUS
  <1>2. IsFiniteSet(1 .. Len(q))
    BY <1>1, FS_Interval
  <1>3. Places(q, P) \subseteq 1 .. Len(q)
    BY <1>1 DEF Places
  <1>4. IsFiniteSet(Places(q, P))
    BY <1>2, <1>3, FS_Subset
  <1> QED BY <1>3, <1>4, FS_CardinalityType DEF Hits

LEMMA NoHits ==
    ASSUME NEW P
    PROVE  Hits(<<>>, P) = 0
  <1>1. Places(<<>>, P) = {}
    BY DEF Places
  <1> QED BY <1>1, FS_EmptySet DEF Hits

LEMMA HitsOfOne ==
    ASSUME NEW S, NEW x \in S, NEW P
    PROVE  Hits(<<x>>, P) = IF x \in P THEN 1 ELSE 0
  <1>1. Places(<<x>>, P) = IF x \in P THEN {1} ELSE {}
    BY DEF Places
  <1> QED BY <1>1, FS_EmptySet, FS_Singleton DEF Hits

LEMMA HitsOfBoth ==
    ASSUME NEW S, NEW q \in Seq(S), NEW r \in Seq(S), NEW P
    PROVE  Hits(q \o r, P) = Hits(q, P) + Hits(r, P)
  <1> DEFINE n == Len(q)
             A == Places(q, P)
             B == Places(r, P)
             C == {i \in (n + 1) .. (n + Len(r)) : (i - n) \in B}
  <1>1. /\ n \in Nat /\ Len(r) \in Nat /\ DOMAIN q = 1 .. n /\ DOMAIN r = 1 .. Len(r)
        /\ DOMAIN (q \o r) = 1 .. (n + Len(r))
        /\ \A i \in 1 .. (n + Len(r)) : (q \o r)[i] = IF i <= n THEN q[i] ELSE r[i - n]
    OBVIOUS
  <1>2. Places(q \o r, P) = A \cup C
    <2>1. \A i \in 1 .. (n + Len(r)) : (q \o r)[i] \in P <=> i \in A \cup C
      BY <1>1 DEF Places
    <2>2. A \cup C \subseteq 1 .. (n + Len(r))
      BY <1>1, HitsAreNat
    <2>3. Places(q \o r, P) = {i \in 1 .. (n + Len(r)) : (q \o r)[i] \in P}
      BY <1>1 DEF Places
    <2> HIDE DEF A, C, n
    <2> QED BY <2>1, <2>2, <2>3
  <1>3. IsFiniteSet(A) /\ IsFiniteSet(B) /\ B \subseteq 1 .. Len(r) /\ A \subseteq 1 .. n
    BY HitsAreNat
  <1>4. IsFiniteSet(C) /\ Cardinality(C) = Cardinality(B)
    <2> DEFINE f == [i \in B |-> i + n]
    <2> HIDE DEF A, B, n
    <2>1. f \in [B -> C]
      BY <1>1, <1>3
    <2>2. \A i, j \in B : f[i] = f[j] => i = j
      BY <1>1, <1>3
    <2>3. \A k \in C : \E i \in B : f[i] = k
      <3> TAKE k \in C
      <3>1. k - n \in B /\ f[k - n] = k
        BY <1>1
      <3> QED BY <3>1
    <2> HIDE DEF f, C
    <2>4. f \in Bijection(B, C)
      BY <2>1, <2>2, <2>3 DEF Bijection, Injection, Surjection, IsInjective
    <2>5. ExistsBijection(B, C)
      BY <2>4 DEF ExistsBijection
    <2> QED BY <1>3, <2>5, FS_Bijection
  <1>5. A \cap C = {}
    <2> HIDE DEF A, B, n
    <2> QED BY <1>1, <1>3
  <1>6. Cardinality(A \cap C) = 0
    BY <1>5, FS_EmptySet
  <1>7. Cardinality(A) \in Nat /\ Cardinality(C) \in Nat
    BY <1>3, <1>4, FS_CardinalityType
  <1>8. Cardinality(A \cup C) = Cardinality(A) + Cardinality(C) - Cardinality(A \cap C)
    BY <1>3, <1>4, FS_Union
  <1> HIDE DEF A, B, C
  <1>9. Cardinality(A \cup C) = Cardinality(A) + Cardinality(B)
    BY <1>4, <1>6, <1>7, <1>8
  <1> QED BY <1>2, <1>9 DEF Hits, A, B

LEMMA HitsOfMore ==
    ASSUME NEW S, NEW q \in Seq(S), NEW x \in S, NEW P
    PROVE  Hits(Append(q, x), P) = Hits(q, P) + IF x \in P THEN 1 ELSE 0
  <1>1. Append(q, x) = q \o <<x>> /\ <<x>> \in Seq(S)
    BY AppendIsConcat
  <1>2. Hits(q \o <<x>>, P) = Hits(q, P) + Hits(<<x>>, P)
    BY <1>1, HitsOfBoth
  <1>3. Hits(<<x>>, P) = IF x \in P THEN 1 ELSE 0
    BY HitsOfOne
  <1> QED BY <1>1, <1>2, <1>3

LEMMA HitsOfRest ==
    ASSUME NEW S, NEW q \in Seq(S), q # <<>>, NEW P
    PROVE  Hits(q, P) = Hits(Tail(q), P) + IF Head(q) \in P THEN 1 ELSE 0
  <1>1. /\ Head(q) \in S /\ Tail(q) \in Seq(S) /\ <<Head(q)>> \in Seq(S)
        /\ q = <<Head(q)>> \o Tail(q)
    OBVIOUS
  <1>2. Hits(q, P) = Hits(<<Head(q)>>, P) + Hits(Tail(q), P)
    BY <1>1, HitsOfBoth
  <1>3. Hits(<<Head(q)>>, P) = IF Head(q) \in P THEN 1 ELSE 0
    BY <1>1, HitsOfOne
  <1>4. Hits(Tail(q), P) \in Nat
    BY <1>1, HitsAreNat
  <1> QED BY <1>2, <1>3, <1>4

-----------------------------------------------------------------------------
(* What a pass hands on                                                     *)

LEMMA Minimum ==
    ASSUME NEW T, T \subseteq Nat, T # {}
    PROVE  \E i \in T : \A j \in T : i <= j
  <1>1. PICK i \in T : \A j \in T : ~(<<j, i>> \in OpToRel(<, Nat))
    BY NatLessThanWellFounded, WFMin
  <1>2. \A j \in T : ~(j < i)
    BY <1>1 DEF OpToRel
  <1> QED BY <1>2

\* What the model is shown of a transcript is in the transcript.
LEMMA CapIsPart ==
    ASSUME NEW t \in Seq(Turn), NEW f, Grounded(f, Cap(t))
    PROVE  Grounded(f, t)
  <1> DEFINE fits(i) == i = Len(t) \/ Length(SubSeq(t, i, Len(t))) <= MaxTranscript
             from == {i \in DOMAIN t : fits(i)}
             k == CHOOSE i \in from : \A j \in from : i <= j
  <1>1. Cap(t) = IF from = {} THEN t ELSE SubSeq(t, k, Len(t))
    BY DEF Cap
  <1>2. DOMAIN t = 1 .. Len(t) /\ Len(t) \in Nat /\ from \subseteq DOMAIN t
    OBVIOUS
  <1> HIDE DEF from
  <1>3. CASE from = {}
    BY <1>1, <1>3
  <1>4. CASE from # {}
    <2>1. \E i \in from : \A j \in from : i <= j
      BY <1>2, <1>4, Minimum
    <2>2. k \in 1 .. Len(t)
      BY <1>2, <2>1
    <2> HIDE DEF k
    <2>3. \A i \in DOMAIN SubSeq(t, k, Len(t)) :
            (k + i - 1) \in DOMAIN t /\ SubSeq(t, k, Len(t))[i] = t[k + i - 1]
      BY <1>2, <2>2
    <2> QED BY <1>1, <1>4, <2>3 DEF Grounded
  <1> QED BY <1>3, <1>4

\* The slice behind a prefix, turn by turn.
LEMMA FreshTurns ==
    ASSUME NEW t \in Seq(Turn), NEW p \in 0 .. Len(t)
    PROVE  /\ Fresh(t, p) \in Seq(Turn)
           /\ DOMAIN Fresh(t, p) = 1 .. (Len(t) - p)
           /\ Len(Fresh(t, p)) = Len(t) - p
           /\ \A i \in 1 .. (Len(t) - p) : Fresh(t, p)[i] = t[p + i] /\ (p + i) \in DOMAIN t
  <1>1. Len(t) \in Nat /\ p + 1 \in Nat /\ DOMAIN t = 1 .. Len(t)
    OBVIOUS
  <1>2. \A i \in (p + 1) .. Len(t) : t[i] \in Turn
    BY <1>1
  <1>3. /\ Fresh(t, p) \in Seq(Turn)
        /\ Len(Fresh(t, p)) = IF p + 1 <= Len(t) THEN Len(t) - (p + 1) + 1 ELSE 0
        /\ \A i \in 1 .. Len(t) - (p + 1) + 1 : Fresh(t, p)[i] = t[p + 1 + i - 1]
    BY <1>1, <1>2, SubSeqProperties DEF Fresh
  <1>4. Len(Fresh(t, p)) = Len(t) - p
    <2>1. p \in Nat /\ p <= Len(t)
      OBVIOUS
    <2>2. CASE p + 1 <= Len(t)
      BY <1>1, <1>3, <2>1, <2>2
    <2>3. CASE p = Len(t)
      <3>1. ~(p + 1 <= Len(t)) /\ Len(t) - p = 0
        BY <1>1, <2>1, <2>3
      <3> QED BY <1>3, <3>1
    <2>4. \A n, m \in Nat : m <= n => m + 1 <= n \/ m = n
      OBVIOUS
    <2> QED BY <1>1, <2>1, <2>2, <2>3, <2>4
  <1>5. DOMAIN Fresh(t, p) = 1 .. Len(Fresh(t, p))
    BY <1>3, LenProperties
  <1>6. DOMAIN Fresh(t, p) = 1 .. (Len(t) - p)
    BY <1>4, <1>5
  <1>7. ASSUME NEW i \in 1 .. (Len(t) - p)
        PROVE  Fresh(t, p)[i] = t[p + i] /\ (p + i) \in DOMAIN t
    <2>1. i \in 1 .. Len(t) - (p + 1) + 1 /\ p + 1 + i - 1 = p + i
      BY <1>1
    <2>2. (p + i) \in 1 .. Len(t)
      BY <1>1
    <2> QED BY <1>1, <1>3, <2>1, <2>2
  <1> QED BY <1>3, <1>4, <1>6, <1>7

\* The turns a socket was not handed are turns of its history.
LEMMA FreshIsPart ==
    ASSUME NEW t \in Seq(Turn), NEW p \in 0 .. Len(t)
    PROVE  /\ Fresh(t, p) \in Seq(Turn)
           /\ p = Len(t) => Fresh(t, p) = <<>>
           /\ p = 0 => Fresh(t, p) = t
           /\ \A f : Grounded(f, Fresh(t, p)) => Grounded(f, t)
  <1>1. Len(t) \in Nat /\ DOMAIN t = 1 .. Len(t)
    OBVIOUS
  <1>2. p = Len(t) => Fresh(t, p) = <<>>
    BY <1>1, FreshTurns
  <1>3. p = 0 => Fresh(t, p) = t
    <2>1. ASSUME p = 0 PROVE Fresh(t, p) = t
      <3>1. /\ Fresh(t, p) \in Seq(Turn) /\ Len(Fresh(t, p)) = Len(t)
            /\ \A i \in 1 .. Len(t) : Fresh(t, p)[i] = t[i]
        <4>1. Len(t) - p = Len(t) /\ \A i \in 1 .. Len(t) : p + i = i
          BY <1>1, <2>1
        <4> QED BY <4>1, FreshTurns
      <3> QED BY <3>1
    <2> QED BY <2>1
  <1>4. ASSUME NEW f, Grounded(f, Fresh(t, p)) PROVE Grounded(f, t)
    <2>1. PICK i \in DOMAIN Fresh(t, p) : Fresh(t, p)[i].says = f
      BY <1>4 DEF Grounded
    <2>2. (p + i) \in DOMAIN t /\ t[p + i].says = f
      BY <2>1, FreshTurns
    <2> QED BY <2>2 DEF Grounded
  <1> QED BY <1>2, <1>3, <1>4, FreshTurns

\* What is handed on as memory was said in what was new to the pass.
LEMMA HandedWasSaid ==
    ASSUME NEW t \in Seq(Turn), NEW p \in 0 .. Len(t), NEW answer, NEW c \in Output(answer, t, p).memory
    PROVE  Grounded(c.quote, Fresh(t, p))
  <1> DEFINE out == Extracted(answer, t)
  <1>1. out.memory = {m \in answer.memory : m.sound /\ Grounded(m.quote, Cap(t))}
    BY DEF Extracted
  <1>2. CASE p = 0
    <2>1. Grounded(c.quote, Cap(t))
      BY <1>1, <1>2 DEF Output
    <2> QED BY <1>2, <2>1, CapIsPart, FreshIsPart
  <1>3. CASE p # 0
    <2>1. c \in OnlyStated(out, Fresh(t, p)).memory
      BY <1>3 DEF Output
    <2>2. OnlyStated(out, Fresh(t, p)).memory = {m \in out.memory : Grounded(m.quote, Fresh(t, p))}
      BY DEF OnlyStated, Extracted
    <2> QED BY <2>1, <2>2
  <1> QED BY <1>2, <1>3

\* A pass counts a thing once at most, and only one that was said.
LEMMA PassCounts ==
    ASSUME NEW t \in Seq(Turn), NEW p \in 0 .. Len(t), Pass(t, p), counted \in [Fact -> Nat]
    PROVE  /\ counted' \in [Fact -> Nat]
           /\ \A f \in Fact : counted'[f] <= counted[f] + IF Grounded(f, Fresh(t, p)) THEN 1 ELSE 0
           /\ snapshot' \in {snapshot, Fresh(t, p)}
  <1>1. PICK answer \in Answer :
          /\ \/ snapshot' = IF MayOverwrite(Output(answer, t, p), Fresh(t, p)) THEN Fresh(t, p) ELSE snapshot
             \/ snapshot' = snapshot
          /\ Handed(Output(answer, t, p))
    BY DEF Pass
  <1>2. PICK ok \in SUBSET {c.quote : c \in Output(answer, t, p).memory} :
          counted' = [f \in Fact |-> counted[f] + IF f \in ok THEN 1 ELSE 0]
    BY <1>1 DEF Handed
  <1>3. \A f \in ok : Grounded(f, Fresh(t, p))
    BY <1>2, HandedWasSaid
  <1> QED BY <1>1, <1>2, <1>3

-----------------------------------------------------------------------------
(* The invariant                                                            *)

QueueRow == [turns : Seq(Turn), spent : BOOLEAN]

\* What a socket has of its chat, what of it is new, and where a recovery is.
Shape ==
    /\ TypeOK
    /\ counted \in [Fact -> Nat] /\ said \in [Fact -> Nat]
    /\ open => up
    /\ open /\ ~unobserved => prefix = Len(history)
    /\ \A f \in Fact : Grounded(f, history) => Grounded(f, chat)
    /\ recovering \in {"behind", "stale"} => behind # <<>>
    /\ recovering \in {"chat", "listed"} => chat # <<>>

\* Where a thing waits to be counted without having been put up before: in the
\* queue, in earlier chats that recovery queues, and in the present chat: in the
\* whole of it as long as it is not marked, then in what its socket said last.
Waiting(f) == {r \in QueueRow : ~r.spent /\ Grounded(f, r.turns)}
Pending ==
    IF spent THEN <<>>
    ELSE IF ~marked THEN chat
    ELSE IF open /\ unobserved THEN Fresh(history, prefix) ELSE <<>>
One(f, t) == IF Grounded(f, t) THEN 1 ELSE 0
Owed(f) == Hits(queue, Waiting(f)) + Hits(behind, Waiting(f)) + One(f, Pending)

\* Every stretch in which a thing was said is a count to be had, and so is every
\* time it is put up again; what has been counted and what waits to be never
\* come to more.
Ledger == \A f \in Fact : counted[f] + Owed(f) <= said[f] + again

-----------------------------------------------------------------------------
(* Types                                                                    *)

LEMMA NothingGrounded == \A f : ~Grounded(f, <<>>)
  BY DEF Grounded

LEMMA OneIs ==
    ASSUME NEW f, NEW t
    PROVE  /\ One(f, t) \in {0, 1}
           /\ Grounded(f, t) => One(f, t) = 1
           /\ ~Grounded(f, t) => One(f, t) = 0
  BY DEF One

LEMMA NothingIsOwed == \A f : One(f, <<>>) = 0
  BY NothingGrounded DEF One

\* Facts of the types, in the form the provers use best.
LEMMA Kinds ==
    ASSUME Shape
    PROVE  /\ chat \in Seq(Turn) /\ history \in Seq(Turn)
           /\ queue \in Seq(QueueRow) /\ behind \in Seq(QueueRow)
           /\ prefix \in 0 .. Len(history)
           /\ up \in BOOLEAN /\ open \in BOOLEAN /\ marked \in BOOLEAN /\ unobserved \in BOOLEAN
           /\ spent \in BOOLEAN /\ passed \in BOOLEAN
           /\ recovering \in {"none", "listed", "stale", "chat", "behind"}
           /\ Fresh(history, prefix) \in Seq(Turn)
           /\ \A f \in Fact : Grounded(f, Fresh(history, prefix)) => Grounded(f, chat)
  <1>1. /\ chat \in Seq(Turn) /\ history \in Seq(Turn)
        /\ queue \in Seq(QueueRow) /\ behind \in Seq(QueueRow)
        /\ prefix \in 0 .. Len(history)
        /\ up \in BOOLEAN /\ open \in BOOLEAN /\ marked \in BOOLEAN /\ unobserved \in BOOLEAN
        /\ spent \in BOOLEAN /\ passed \in BOOLEAN
        /\ recovering \in {"none", "listed", "stale", "chat", "behind"}
    BY DEF Shape, TypeOK, QueueRow
  <1>2. /\ Fresh(history, prefix) \in Seq(Turn)
        /\ \A f : Grounded(f, Fresh(history, prefix)) => Grounded(f, history)
    BY <1>1, FreshIsPart
  <1> QED BY <1>1, <1>2 DEF Shape

LEMMA RowIs ==
    ASSUME NEW t \in Seq(Turn)
    PROVE  Row(t) \in QueueRow /\ Row(t).turns = t /\ Row(t).spent = FALSE
  BY DEF Row, QueueRow

\* A row that is added waits with what it says.
LEMMA AddingRow ==
    ASSUME NEW q \in Seq(QueueRow), NEW t \in Seq(Turn), NEW f
    PROVE  /\ Append(q, Row(t)) \in Seq(QueueRow)
           /\ Hits(Append(q, Row(t)), Waiting(f)) = Hits(q, Waiting(f)) + One(f, t)
  <1>1. Row(t) \in QueueRow
    BY RowIs
  <1>2. Row(t) \in Waiting(f) <=> Grounded(f, t)
    BY RowIs DEF Waiting
  <1>3. Append(q, Row(t)) \in Seq(QueueRow)
    BY <1>1
  <1>4. Hits(Append(q, Row(t)), Waiting(f)) = Hits(q, Waiting(f)) + IF Row(t) \in Waiting(f) THEN 1 ELSE 0
    BY <1>1, HitsOfMore
  <1> QED BY <1>2, <1>3, <1>4 DEF One

LEMMA ReplacingFirst ==
    ASSUME NEW q \in Seq(QueueRow), q # <<>>, NEW s \in QueueRow, NEW p, p = [q EXCEPT ![1] = s]
    PROVE  p \in Seq(QueueRow) /\ p # <<>> /\ Head(p) = s /\ Tail(p) = Tail(q)
  <1>1. q \in Seq(QueueRow) /\ 1 \in DOMAIN q
    OBVIOUS
  <1>2. p \in Seq(QueueRow) /\ Len(p) = Len(q) /\ p[1] = s
    BY <1>1
  <1>3. Head(p) = s /\ p # <<>>
    BY <1>1, <1>2
  <1>4. \A i \in 2 .. Len(q) : p[i] = q[i]
    BY <1>1
  <1>5. /\ Tail(p) \in Seq(QueueRow) /\ Tail(q) \in Seq(QueueRow)
        /\ Len(Tail(p)) = Len(q) - 1 /\ Len(Tail(q)) = Len(q) - 1
    BY <1>1, <1>2, <1>3
  <1>6. \A i \in 1 .. (Len(q) - 1) : Tail(p)[i] = p[i + 1] /\ Tail(q)[i] = q[i + 1]
    BY <1>1, <1>2, <1>3
  <1>7. \A i \in 1 .. (Len(q) - 1) : Tail(p)[i] = Tail(q)[i]
    <2> TAKE i \in 1 .. (Len(q) - 1)
    <2>1. (i + 1) \in 2 .. Len(q)
      BY <1>1
    <2> QED BY <1>4, <1>6, <2>1
  <1>8. Tail(p) = Tail(q)
    BY <1>5, <1>7
  <1> QED BY <1>2, <1>3, <1>8

\* A first row that is spent waits no longer.
LEMMA SpendingFirst ==
    ASSUME NEW q \in Seq(QueueRow), q # <<>>, NEW p, p = [q EXCEPT ![1].spent = TRUE], NEW f
    PROVE  /\ Head(q) \in QueueRow /\ p \in Seq(QueueRow) /\ p # <<>>
           /\ Hits(p, Waiting(f)) = Hits(q, Waiting(f)) - IF Head(q).spent THEN 0 ELSE One(f, Head(q).turns)
  <1> DEFINE r == Head(q)
             s == [r EXCEPT !.spent = TRUE]
  <1>1. r \in QueueRow /\ r = q[1] /\ 1 \in DOMAIN q
    OBVIOUS
  <1>2. r.turns \in Seq(Turn) /\ r.spent \in BOOLEAN /\ s \in QueueRow /\ s.spent = TRUE
    BY <1>1 DEF QueueRow
  <1>3. p \in Seq(QueueRow) /\ p # <<>> /\ Head(p) = s /\ Tail(p) = Tail(q)
    <2>1. p = [q EXCEPT ![1] = s]
      BY <1>1
    <2> HIDE DEF r, s
    <2> QED BY <1>2, <2>1, ReplacingFirst
  <1>4. s \notin Waiting(f)
    BY <1>2 DEF Waiting
  <1>5. r \in Waiting(f) <=> ~r.spent /\ Grounded(f, r.turns)
    BY <1>1 DEF Waiting
  <1> HIDE DEF r, s
  <1>6. /\ Hits(q, Waiting(f)) = Hits(Tail(q), Waiting(f)) + IF r \in Waiting(f) THEN 1 ELSE 0
        /\ Hits(p, Waiting(f)) = Hits(Tail(q), Waiting(f)) + IF s \in Waiting(f) THEN 1 ELSE 0
    <2>1. Hits(q, Waiting(f)) = Hits(Tail(q), Waiting(f)) + IF Head(q) \in Waiting(f) THEN 1 ELSE 0
      BY HitsOfRest
    <2>2. Hits(p, Waiting(f)) = Hits(Tail(p), Waiting(f)) + IF Head(p) \in Waiting(f) THEN 1 ELSE 0
      BY <1>3, HitsOfRest
    <2> QED BY <1>3, <2>1, <2>2 DEF r
  <1>7. Hits(Tail(q), Waiting(f)) \in Nat
    <2>1. Tail(q) \in Seq(QueueRow)
      BY <1>1
    <2> QED BY <2>1, HitsAreNat
  <1>8. Hits(p, Waiting(f)) = Hits(q, Waiting(f)) - IF r.spent THEN 0 ELSE One(f, r.turns)
    BY <1>2, <1>4, <1>5, <1>6, <1>7 DEF One
  <1> QED BY <1>1, <1>3, <1>8 DEF r

LEMMA DroppingFirst ==
    ASSUME NEW q \in Seq(QueueRow), q # <<>>, NEW f
    PROVE  /\ Tail(q) \in Seq(QueueRow) /\ Hits(Tail(q), Waiting(f)) \in Nat
           /\ Hits(Tail(q), Waiting(f)) <= Hits(q, Waiting(f))
  <1>1. Tail(q) \in Seq(QueueRow)
    OBVIOUS
  <1>2. Hits(Tail(q), Waiting(f)) \in Nat
    BY <1>1, HitsAreNat
  <1>3. Hits(q, Waiting(f)) = Hits(Tail(q), Waiting(f)) + IF Head(q) \in Waiting(f) THEN 1 ELSE 0
    BY HitsOfRest
  <1> QED BY <1>1, <1>2, <1>3

LEMMA PendingIs ==
    ASSUME NEW f
    PROVE  One(f, Pending) =
             IF spent THEN 0
             ELSE IF ~marked THEN One(f, chat)
             ELSE IF open /\ unobserved THEN One(f, Fresh(history, prefix)) ELSE 0
  BY NothingIsOwed DEF Pending

LEMMA OwedTypes ==
    ASSUME Shape, NEW f
    PROVE  /\ Hits(queue, Waiting(f)) \in Nat /\ Hits(behind, Waiting(f)) \in Nat
           /\ One(f, Pending) \in {0, 1} /\ Owed(f) \in Nat
  <1>1. Hits(queue, Waiting(f)) \in Nat
    BY Kinds, HitsAreNat
  <1>2. Hits(behind, Waiting(f)) \in Nat
    BY Kinds, HitsAreNat
  <1>3. One(f, Pending) \in {0, 1}
    BY OneIs
  <1> QED BY <1>1, <1>2, <1>3 DEF Owed

LEMMA UnmarkedHits ==
    ASSUME Shape, NEW f
    PROVE  /\ Unmarked \in Seq(QueueRow)
           /\ Hits(Unmarked, Waiting(f)) =
                Hits(behind, Waiting(f)) + IF ~marked /\ ~spent THEN One(f, chat) ELSE 0
           /\ (chat # <<>> /\ (~marked \/ recovering = "listed")) => Unmarked # <<>>
  <1>1. chat \in Seq(Turn) /\ behind \in Seq(QueueRow) /\ spent \in BOOLEAN /\ marked \in BOOLEAN
    BY Kinds
  <1>2. Hits(behind, Waiting(f)) \in Nat
    BY OwedTypes
  <1> DEFINE r == [turns |-> chat, spent |-> spent \/ marked]
             listed == ~marked \/ recovering = "listed"
  <1>3. r \in QueueRow /\ (r \in Waiting(f) <=> ~spent /\ ~marked /\ Grounded(f, chat))
    <2>1. r \in QueueRow /\ r.turns = chat /\ r.spent = (spent \/ marked)
      BY <1>1 DEF QueueRow
    <2> QED BY <2>1 DEF Waiting
  <1> HIDE DEF r
  <1>4. CASE chat # <<>> /\ listed
    <2>1. Unmarked = (behind \o <<r>>) /\ <<r>> \in Seq(QueueRow)
      BY <1>3, <1>4 DEF Unmarked, r
    <2>2. Hits(Unmarked, Waiting(f)) = Hits(behind, Waiting(f)) + Hits(<<r>>, Waiting(f))
      BY <1>1, <2>1, HitsOfBoth
    <2>3. Hits(<<r>>, Waiting(f)) = IF ~marked /\ ~spent THEN One(f, chat) ELSE 0
      BY <1>3, HitsOfOne DEF One
    <2>4. Unmarked \in Seq(QueueRow) /\ Unmarked # <<>>
      <3>1. Len(<<r>>) = 1 /\ Len(behind) \in Nat
        BY <1>1
      <3>2. Unmarked \in Seq(QueueRow) /\ Len(Unmarked) = Len(behind) + 1
        BY <1>1, <2>1, <3>1
      <3> QED BY <3>1, <3>2
    <2> QED BY <1>4, <2>2, <2>3, <2>4
  <1>5. CASE ~(chat # <<>> /\ listed)
    <2>1. Unmarked = behind
      BY <1>1, <1>5 DEF Unmarked
    <2>2. ~marked => One(f, chat) = 0
      BY <1>5, NothingIsOwed
    <2> QED BY <1>1, <1>2, <1>5, <2>1, <2>2
  <1> QED BY <1>4, <1>5

LEMMA SpeechIsTurns ==
    ASSUME NEW u \in Spoken, NEW a \in Answered
    PROVE  <<u, a>> \in Seq(Turn)
  <1>1. MinWords \in Nat
    BY ObserverAssumption
  <1>2. u \in Turn
    BY <1>1 DEF Spoken, Turn
  <1>3. a \in Turn
    BY DEF Answered, Turn
  <1> QED BY <1>2, <1>3

LEMMA AgainIs ==
    ASSUME Shape, NEW b \in BOOLEAN, Again(b)
    PROVE  again \in Nat /\ again' \in Nat /\ again' = again + IF b THEN 1 ELSE 0
  <1>1. again \in Nat
    BY DEF Shape, TypeOK
  <1> QED BY <1>1 DEF Again

\* The shape of a step's end, part by part.
LEMMA Shaped ==
    ASSUME up' \in BOOLEAN, open' \in BOOLEAN, marked' \in BOOLEAN, unobserved' \in BOOLEAN,
           spent' \in BOOLEAN, passed' \in BOOLEAN, recovering' \in {"none", "listed", "stale", "chat", "behind"},
           chat' \in Seq(Turn), history' \in Seq(Turn), behind' \in Seq(QueueRow),
           prefix' \in 0 .. Len(history'), queue' \in Seq(QueueRow),
           snapshot' = None \/ snapshot' \in Seq(Turn),
           prompt' # None => open' /\ prompt'.recap \in BOOLEAN /\ prompt'.failed \in BOOLEAN,
           counted' \in [Fact -> Nat], said' \in [Fact -> Nat],
           again' \in Nat, turns' \in 0 .. MaxTurn, starts' \in 0 .. MaxStart,
           open' => up',
           (open' /\ ~unobserved') => prefix' = Len(history'),
           \A f \in Fact : Grounded(f, history)' => Grounded(f, chat)',
           recovering' \in {"behind", "stale"} => behind' # <<>>,
           recovering' \in {"chat", "listed"} => chat' # <<>>
    PROVE  Shape'
  <1>1. \A f \in Fact : counted'[f] \in Nat /\ said'[f] \in Nat
    OBVIOUS
  <1>2. TypeOK'
    BY <1>1 DEF TypeOK, QueueRow
  <1> QED BY <1>2 DEF Shape

\* What of the types a step starts from.
LEMMA Unshaped ==
    ASSUME Shape
    PROVE  /\ snapshot = None \/ snapshot \in Seq(Turn)
           /\ prompt # None => open /\ prompt.recap \in BOOLEAN /\ prompt.failed \in BOOLEAN
           /\ counted \in [Fact -> Nat] /\ said \in [Fact -> Nat]
           /\ again \in Nat /\ turns \in 0 .. MaxTurn /\ starts \in 0 .. MaxStart
           /\ open => up
           /\ (open /\ ~unobserved) => prefix = Len(history)
           /\ \A f \in Fact : Grounded(f, history) => Grounded(f, chat)
           /\ recovering \in {"behind", "stale"} => behind # <<>>
           /\ recovering \in {"chat", "listed"} => chat # <<>>
  BY DEF Shape, TypeOK

LEMMA StartOfShape == Init => Shape
  <1> SUFFICES ASSUME Init PROVE Shape
    OBVIOUS
  <1> USE DEF Init
  <1>1. <<>> \in Seq(Turn) /\ <<>> \in Seq(QueueRow) /\ Len(<<>>) = 0
    OBVIOUS
  <1>2. \A f \in Fact : counted[f] = 0 /\ said[f] = 0
    OBVIOUS
  <1>3. MaxTurn \in Nat /\ MaxStart \in Nat
    BY InputsAssumption
  <1>4. prefix \in 0 .. Len(history) /\ turns \in 0 .. MaxTurn /\ starts \in 0 .. MaxStart
    BY <1>1, <1>3
  <1>5. {chat, history} \subseteq Seq(Turn)
    BY <1>1
  <1>6. {queue, behind} \subseteq Seq([turns : Seq(Turn), spent : BOOLEAN])
    BY <1>1 DEF QueueRow
  <1>7. TypeOK
    BY <1>2, <1>4, <1>5, <1>6 DEF TypeOK
  <1> QED BY <1>1, <1>7, NothingGrounded DEF Shape

\* A stop, a kill or a start: nothing is open after it.
LEMMA BackendKeepsShape ==
    ASSUME Shape, Start \/ Stop \/ Kill
    PROVE  Shape'
  <1> USE Kinds, Unshaped
  <1>0. <<>> \in Seq(Turn) /\ Len(<<>>) = 0
    OBVIOUS
  <1>1. CASE Start
    <2>1. starts' \in 0 .. MaxStart /\ up' = TRUE
      BY <1>1, InputsAssumption DEF Start
    <2>2. UNCHANGED <<open, history, prefix, unobserved, passed, chat, marked, spent, behind, recovering, queue, snapshot, prompt, counted, said, again, turns>>
      BY <1>1 DEF Start, socket, stored, present
    <2>3. \A f \in Fact : Grounded(f, history)' => Grounded(f, chat)'
      BY <2>2
    <2> QED BY <2>1, <2>2, <2>3, Shaped
  <1>2. CASE Stop \/ Kill
    <2>1. /\ open' = FALSE /\ history' = <<>> /\ prefix' = 0 /\ unobserved' = FALSE /\ passed' = FALSE
          /\ prompt' = None /\ up' = FALSE /\ recovering' = "none"
      BY <1>2 DEF Stop, Kill, Closed, Unlisted
    <2>2. UNCHANGED <<chat, marked, snapshot, counted, said, turns, starts>>
      BY <1>2 DEF Stop, Kill
    <2>9. behind' \in Seq(QueueRow)
      <3>1. CASE recovering = "stale"
        BY <1>2, <3>1, DroppingFirst DEF Stop, Kill, Unlisted
      <3>2. CASE recovering # "stale"
        BY <1>2, <3>2 DEF Stop, Kill, Unlisted
      <3> QED BY <3>1, <3>2
    <2>3. spent' \in BOOLEAN
      BY <1>2 DEF Stop, Kill
    <2>4. queue' \in Seq(QueueRow)
      <3>1. queue' \in {queue, Append(queue, Row(Fresh(history, prefix)))}
        BY <1>2 DEF Stop, Kill, Queues
      <3>2. Append(queue, Row(Fresh(history, prefix))) \in Seq(QueueRow)
        BY AddingRow
      <3> QED BY <3>1, <3>2
    <2>5. again' \in Nat
      BY <1>2, AgainIs DEF Stop, Kill
    <2>6. \A f \in Fact : Grounded(f, history)' => Grounded(f, chat)'
      BY <2>1, NothingGrounded
    <2>7. history' \in Seq(Turn) /\ prefix' \in 0 .. Len(history')
      BY <1>0, <2>1
    <2>8. up' \in BOOLEAN /\ open' \in BOOLEAN /\ marked' \in BOOLEAN /\ unobserved' \in BOOLEAN
      BY <2>1, <2>2
    <2> QED BY <2>1, <2>2, <2>3, <2>4, <2>5, <2>6, <2>7, <2>8, <2>9, Shaped
  <1> QED BY <1>1, <1>2

LEMMA RecoveryKeepsShape ==
    ASSUME Shape, List \/ Recover \/ RecoverMarks
    PROVE  Shape'
  <1> USE Kinds, Unshaped
  <1>1. /\ UNCHANGED <<up, open, history, prefix, unobserved, passed, chat, snapshot, prompt, counted, said, turns, starts>>
        /\ \A f \in Fact : Grounded(f, history)' => Grounded(f, chat)'
    BY DEF List, Recover, RecoverMarks, socket, present
  <1>2. CASE Recover /\ recovering' = "behind"
    <2>1. /\ behind # <<>> /\ queue' = Append(queue, Row(Head(behind).turns))
          /\ Again(Head(behind).spent) /\ behind' = [behind EXCEPT ![1].spent = TRUE]
          /\ UNCHANGED <<spent, marked>>
      BY <1>2 DEF Recover
    <2>2. Head(behind) \in QueueRow /\ behind' \in Seq(QueueRow) /\ behind' # <<>>
      BY <2>1, SpendingFirst
    <2>3. Head(behind).turns \in Seq(Turn) /\ Head(behind).spent \in BOOLEAN
      BY <2>2 DEF QueueRow
    <2>4. queue' \in Seq(QueueRow)
      BY <2>1, <2>3, AddingRow
    <2>5. again' \in Nat
      BY <2>1, <2>3, AgainIs
    <2> QED BY <1>1, <1>2, <2>1, <2>2, <2>4, <2>5, Shaped
  <1>3. CASE Recover /\ recovering' = "chat"
    <2>1. /\ chat # <<>> /\ queue' = Append(queue, Row(chat))
          /\ Again(marked \/ spent) /\ spent' = (spent \/ ~marked)
          /\ UNCHANGED <<behind, marked>>
      BY <1>3 DEF Recover
    <2>2. queue' \in Seq(QueueRow)
      BY <2>1, AddingRow
    <2>3. again' \in Nat /\ spent' \in BOOLEAN
      BY <2>1, AgainIs
    <2> QED BY <1>1, <1>3, <2>1, <2>2, <2>3, Shaped
  <1>5. CASE Recover /\ recovering' = "none"
    <2>1. /\ recovering = "stale" /\ queue' = Append(queue, Row(Head(behind).turns))
          /\ Again(TRUE) /\ behind' = Tail(behind)
          /\ UNCHANGED <<spent, marked>>
      BY <1>5 DEF Recover
    <2>2. behind # <<>>
      BY <2>1
    <2>3. Head(behind) \in QueueRow /\ behind' \in Seq(QueueRow)
      BY <2>1, <2>2, DroppingFirst
    <2>4. Head(behind).turns \in Seq(Turn)
      BY <2>3 DEF QueueRow
    <2>5. queue' \in Seq(QueueRow)
      BY <2>1, <2>4, AddingRow
    <2>6. again' \in Nat
      BY <2>1, AgainIs
    <2> QED BY <1>1, <1>5, <2>1, <2>3, <2>5, <2>6, Shaped
  <1>6. CASE List
    <2>1. recovering' = "listed" /\ chat # <<>> /\ UNCHANGED <<marked, spent, behind, queue, again>>
      BY <1>6 DEF List, present
    <2> QED BY <1>1, <2>1, Shaped
  <1>4. CASE RecoverMarks
    <2>1. recovering' = "none" /\ UNCHANGED <<queue, again>>
      BY <1>4 DEF RecoverMarks
    <2>2. marked' \in BOOLEAN /\ spent' \in BOOLEAN
      BY <1>4 DEF RecoverMarks
    <2>3. behind' \in Seq(QueueRow)
      <3>1. CASE behind' = behind
        BY <3>1
      <3>2. CASE recovering = "behind" /\ behind' = Tail(behind)
        BY <3>2, DroppingFirst
      <3> QED BY <1>4, <3>1, <3>2 DEF RecoverMarks
    <2> QED BY <1>1, <2>1, <2>2, <2>3, Shaped
  <1>7. Recover => recovering' \in {"none", "chat", "behind"}
    BY DEF Recover
  <1> QED BY <1>2, <1>3, <1>4, <1>5, <1>6, <1>7

LEMMA LockKeepsShape ==
    ASSUME Shape, Lock
    PROVE  Shape'
  <1> USE Kinds, Unshaped
  <1>1. /\ UNCHANGED <<up, open, history, prefix, unobserved, passed, chat, marked, behind, recovering, snapshot, prompt, counted, said, turns, starts>>
        /\ queue' = Append(queue, Row(Fresh(history, prefix))) /\ PutUp
        /\ \A f \in Fact : Grounded(f, history)' => Grounded(f, chat)'
    BY DEF Lock, Queues, socket
  <1>2. queue' \in Seq(QueueRow)
    BY <1>1, AddingRow
  <1>3. again' \in Nat /\ spent' = TRUE
    BY <1>1, AgainIs DEF PutUp
  <1> QED BY <1>1, <1>2, <1>3, Shaped

LEMMA DrainKeepsShape ==
    ASSUME Shape, DrainRuns
    PROVE  Shape'
  <1> USE Kinds, Unshaped
  <1>1. /\ queue # <<>> /\ Pass(Head(queue).turns, 0)
        /\ queue' = [queue EXCEPT ![1].spent = TRUE]
        /\ Again(Head(queue).spent)
        /\ UNCHANGED <<up, open, history, prefix, unobserved, passed, chat, marked, spent, behind, recovering, prompt, said, turns, starts>>
    BY DEF DrainRuns, socket, present
  <1>2. Head(queue) \in QueueRow /\ queue' \in Seq(QueueRow)
    BY <1>1, SpendingFirst
  <1>3. Head(queue).turns \in Seq(Turn) /\ Head(queue).spent \in BOOLEAN
    BY <1>2 DEF QueueRow
  <1>4. 0 \in 0 .. Len(Head(queue).turns)
    BY <1>3
  <1>5. /\ counted' \in [Fact -> Nat]
        /\ snapshot' \in {snapshot, Fresh(Head(queue).turns, 0)}
    BY <1>1, <1>3, <1>4, PassCounts
  <1>6. Fresh(Head(queue).turns, 0) \in Seq(Turn)
    BY <1>3, <1>4, FreshIsPart
  <1>7. \A f \in Fact : Grounded(f, history)' => Grounded(f, chat)'
    BY <1>1
  <1>8. again' \in Nat
    BY <1>1, <1>3, AgainIs
  <1>9. snapshot' = None \/ snapshot' \in Seq(Turn)
    BY <1>5, <1>6
  <1> QED BY <1>1, <1>2, <1>5, <1>7, <1>8, <1>9, Shaped

LEMMA CompletingKeepsShape ==
    ASSUME Shape, DrainCompletes
    PROVE  Shape'
  <1> USE Kinds, Unshaped
  <1>1. /\ UNCHANGED <<up, open, history, prefix, unobserved, passed, chat, marked, spent, behind, recovering, snapshot, prompt, counted, said, again, turns, starts>>
        /\ queue # <<>> /\ queue' = Tail(queue)
    BY DEF DrainCompletes, socket, present
  <1>2. queue' \in Seq(QueueRow)
    BY <1>1, DroppingFirst
  <1>3. \A f \in Fact : Grounded(f, history)' => Grounded(f, chat)'
    BY <1>1
  <1> QED BY <1>1, <1>2, <1>3, Shaped

LEMMA OpeningKeepsShape ==
    ASSUME Shape, OpenNew \/ Resume
    PROVE  Shape'
  <1> USE Kinds, Unshaped
  <1>1. /\ up /\ ~open /\ open' = TRUE /\ unobserved' = FALSE
        /\ UNCHANGED <<up, passed, queue, snapshot, prompt, counted, said, again, turns, starts>>
        /\ history' = chat' /\ prefix' = Len(history') /\ chat' \in {<<>>, chat}
        /\ behind' \in {behind, Unmarked} /\ marked' \in {FALSE, marked} /\ spent' \in {FALSE, spent}
    BY DEF OpenNew, Resume, Opened, present
  <1>2. chat' \in Seq(Turn)
    <2>1. <<>> \in Seq(Turn) /\ chat \in Seq(Turn)
      OBVIOUS
    <2> QED BY <1>1, <2>1
  <1>3. prefix' \in 0 .. Len(history')
    BY <1>1, <1>2
  <1>4. behind' \in Seq(QueueRow)
    BY <1>1, UnmarkedHits
  <1>5. \A f \in Fact : Grounded(f, history)' => Grounded(f, chat)'
    BY <1>1
  <1>6. /\ recovering' \in {"none", "listed", "stale", "chat", "behind"}
        /\ recovering' \in {"behind", "stale"} => behind' # <<>>
        /\ recovering' \in {"chat", "listed"} => chat' # <<>>
    <2>1. CASE OpenNew
      <3>1. /\ behind' = Unmarked
            /\ recovering = "listed" => recovering' = IF marked THEN "stale" ELSE "none"
            /\ recovering = "chat" => recovering' = IF marked THEN "none" ELSE "behind"
            /\ recovering \notin {"listed", "chat"} => recovering' = recovering
        BY <2>1 DEF OpenNew
      <3>2. CASE (recovering = "chat" /\ ~marked) \/ (recovering = "listed" /\ marked)
        <4>1. Unmarked # <<>>
          BY <3>2, UnmarkedHits
        <4>2. recovering' \in {"behind", "stale"}
          BY <3>1, <3>2
        <4> QED BY <3>1, <4>1, <4>2
      <3>3. CASE recovering \in {"behind", "stale"}
        <4>1. Unmarked # <<>>
          <5>1. behind # <<>> /\ behind \in Seq(QueueRow) /\ Len(behind) > 0
            BY <3>3
          <5> DEFINE r == [turns |-> chat, spent |-> spent \/ marked]
          <5>2. r \in QueueRow
            BY DEF QueueRow
          <5> HIDE DEF r
          <5>3. Unmarked = (behind \o <<r>>) \/ Unmarked = (behind \o <<>>)
            BY DEF Unmarked, r
          <5>4. Len(behind \o <<r>>) > 0 /\ (behind \o <<>>) = behind
            BY <5>1, <5>2
          <5> QED BY <5>1, <5>3, <5>4
        <4> QED BY <3>1, <3>3, <4>1
      <3>4. CASE recovering = "none" \/ (recovering = "chat" /\ marked) \/ (recovering = "listed" /\ ~marked)
        <4>1. recovering' = "none"
          BY <3>1, <3>4
        <4> QED BY <4>1
      <3> QED BY <3>2, <3>3, <3>4
    <2>2. CASE Resume
      <3>1. UNCHANGED <<chat, behind, recovering>>
        BY <2>2 DEF Resume, present
      <3> QED BY <3>1
    <2> QED BY <2>1, <2>2
  <1>7. marked' \in BOOLEAN /\ spent' \in BOOLEAN /\ passed' \in BOOLEAN /\ up' = TRUE
    BY <1>1
  <1>8. prompt' # None => open' /\ prompt'.recap \in BOOLEAN /\ prompt'.failed \in BOOLEAN
    BY <1>1
  <1> QED BY <1>1, <1>2, <1>3, <1>4, <1>5, <1>6, <1>7, <1>8, Shaped

LEMMA AskKeepsShape ==
    ASSUME Shape, Ask
    PROVE  Shape'
  <1> USE Kinds, Unshaped
  <1>1. /\ open /\ turns < MaxTurn /\ turns' = turns + 1
        /\ UNCHANGED <<up, open, history, prefix, unobserved, passed, chat, marked, spent, behind, recovering, queue, snapshot, counted, said, again, starts>>
    BY DEF Ask, socket, stored, present
  <1>2. prompt'.recap \in BOOLEAN /\ prompt'.failed \in BOOLEAN
    BY DEF Ask
  <1>3. turns' \in 0 .. MaxTurn
    BY <1>1, InputsAssumption
  <1>4. \A f \in Fact : Grounded(f, history)' => Grounded(f, chat)'
    BY <1>1
  <1> QED BY <1>1, <1>2, <1>3, <1>4, Shaped

LEMMA JoinedGrounds ==
    ASSUME NEW f, NEW s \in Seq(Turn), NEW t \in Seq(Turn)
    PROVE  Grounded(f, s \o t) <=> Grounded(f, s) \/ Grounded(f, t)
  <1> DEFINE n == Len(s)
  <1>1. /\ n \in Nat /\ Len(t) \in Nat /\ DOMAIN s = 1 .. n /\ DOMAIN t = 1 .. Len(t)
        /\ DOMAIN (s \o t) = 1 .. (n + Len(t))
        /\ \A i \in 1 .. (n + Len(t)) : (s \o t)[i] = IF i <= n THEN s[i] ELSE t[i - n]
    OBVIOUS
  <1>2. ASSUME NEW i \in 1 .. (n + Len(t)), (s \o t)[i].says = f
        PROVE  Grounded(f, s) \/ Grounded(f, t)
    <2>1. CASE i <= n
      BY <1>1, <1>2, <2>1 DEF Grounded
    <2>2. CASE ~(i <= n)
      <3>1. i - n \in DOMAIN t /\ t[i - n].says = f
        BY <1>1, <1>2, <2>2
      <3> QED BY <3>1 DEF Grounded
    <2> QED BY <2>1, <2>2
  <1>3. ASSUME NEW i \in DOMAIN s, s[i].says = f PROVE Grounded(f, s \o t)
    <2>1. i \in DOMAIN (s \o t) /\ (s \o t)[i].says = f
      BY <1>1, <1>3
    <2> QED BY <2>1 DEF Grounded
  <1>4. ASSUME NEW i \in DOMAIN t, t[i].says = f PROVE Grounded(f, s \o t)
    <2>1. (n + i) \in DOMAIN (s \o t) /\ (s \o t)[n + i].says = f
      BY <1>1, <1>4
    <2> QED BY <2>1 DEF Grounded
  <1> QED BY <1>1, <1>2, <1>3, <1>4 DEF Grounded

LEMMA ReplyKeepsShape ==
    ASSUME Shape, Reply
    PROVE  Shape'
  <1> USE Kinds, Unshaped
  <1>1. PICK u \in Spoken, a \in Answered :
          /\ history' = history \o <<u, a>> /\ chat' = chat \o <<u, a>>
          /\ said' = [f \in Fact |->
                        IF Grounded(f, <<u, a>>) /\ ~Grounded(f, Fresh(history, prefix))
                        THEN said[f] + 1 ELSE said[f]]
    BY DEF Reply
  <1>2. /\ unobserved' = TRUE /\ prompt' = None
        /\ UNCHANGED <<up, open, prefix, passed, marked, spent, behind, recovering, queue, snapshot, counted, again, turns, starts>>
    BY DEF Reply
  <1>3. <<u, a>> \in Seq(Turn)
    BY SpeechIsTurns
  <1>4. /\ history' \in Seq(Turn) /\ chat' \in Seq(Turn)
        /\ Len(history') = Len(history) + Len(<<u, a>>) /\ Len(chat') = Len(chat) + Len(<<u, a>>)
    BY <1>1, <1>3
  <1>5. prefix' \in 0 .. Len(history')
    BY <1>2, <1>3, <1>4
  <1>6. said' \in [Fact -> Nat]
    BY <1>1
  <1>7. \A f \in Fact : Grounded(f, history)' => Grounded(f, chat)'
    <2> TAKE f \in Fact
    <2>1. Grounded(f, history \o <<u, a>>) <=> Grounded(f, history) \/ Grounded(f, <<u, a>>)
      BY <1>3, JoinedGrounds
    <2>2. Grounded(f, chat \o <<u, a>>) <=> Grounded(f, chat) \/ Grounded(f, <<u, a>>)
      BY <1>3, JoinedGrounds
    <2> QED BY <1>1, <2>1, <2>2
  <1>8. chat' # <<>>
    <2>1. Len(<<u, a>>) = 2 /\ Len(chat) \in Nat
      OBVIOUS
    <2> QED BY <1>4, <2>1
  <1> QED BY <1>2, <1>4, <1>5, <1>6, <1>7, <1>8, Shaped

LEMMA ObservingKeepsShape ==
    ASSUME Shape, Observe
    PROVE  Shape'
  <1> USE Kinds, Unshaped
  <1>1. /\ UNCHANGED <<up, open, history, prefix, unobserved, chat, marked, behind, recovering, queue, prompt, said, turns, starts>>
        /\ passed' = TRUE /\ PutUp /\ Pass(history, prefix)
    BY DEF Observe
  <1>2. /\ counted' \in [Fact -> Nat]
        /\ snapshot' \in {snapshot, Fresh(history, prefix)}
    BY <1>1, PassCounts
  <1>3. snapshot' = None \/ snapshot' \in Seq(Turn)
    BY <1>2
  <1>4. again' \in Nat /\ spent' = TRUE
    BY <1>1, AgainIs DEF PutUp
  <1>5. \A f \in Fact : Grounded(f, history)' => Grounded(f, chat)'
    BY <1>1
  <1> QED BY <1>1, <1>2, <1>3, <1>4, <1>5, Shaped

LEMMA LeavingKeepsShape ==
    ASSUME Shape, Idle \/ Leave
    PROVE  Shape'
  <1> USE Kinds, Unshaped
  <1>0. <<>> \in Seq(Turn) /\ 0 \in 0 .. Len(<<>>) /\ Len(<<>>) = 0
    OBVIOUS
  <1>1. /\ history' = <<>> /\ prefix' = 0 /\ unobserved' = FALSE /\ passed' = FALSE /\ open' \in {open, FALSE}
        /\ prompt = None /\ prompt' = None
        /\ UNCHANGED <<up, chat, behind, recovering, queue, snapshot, counted, said, again, turns, starts>>
    BY DEF Idle, Leave, Closed
  <1>2. marked' \in BOOLEAN /\ spent' \in BOOLEAN
    BY DEF Idle, Leave, Marks, Settled
  <1>3. \A f \in Fact : Grounded(f, history)' => Grounded(f, chat)'
    BY <1>1, NothingGrounded
  <1>4. history' \in Seq(Turn) /\ prefix' \in 0 .. Len(history') /\ prefix' = Len(history')
    BY <1>0, <1>1
  <1>5. open' \in BOOLEAN /\ up' \in BOOLEAN /\ unobserved' \in BOOLEAN /\ (open' => up')
    <2>1. CASE open' = FALSE
      BY <1>1, <2>1
    <2>2. CASE open' = open
      <3>1. open \in BOOLEAN /\ up \in BOOLEAN /\ (open => up)
        OBVIOUS
      <3>2. up' = up /\ unobserved' = FALSE
        BY <1>1
      <3> QED BY <2>2, <3>1, <3>2
    <2> QED BY <1>1, <2>1, <2>2
  <1>6. /\ chat' \in Seq(Turn) /\ behind' \in Seq(QueueRow) /\ queue' \in Seq(QueueRow)
        /\ recovering' \in {"none", "listed", "stale", "chat", "behind"}
    BY <1>1
  <1>7. /\ said' \in [Fact -> Nat] /\ counted' \in [Fact -> Nat] /\ again' \in Nat
        /\ turns' \in 0 .. MaxTurn /\ starts' \in 0 .. MaxStart
        /\ snapshot' = None \/ snapshot' \in Seq(Turn)
    BY <1>1
  <1>8. /\ recovering' \in {"behind", "stale"} => behind' # <<>>
        /\ recovering' \in {"chat", "listed"} => chat' # <<>>
    BY <1>1
  <1> QED BY <1>1, <1>2, <1>3, <1>4, <1>5, <1>6, <1>7, <1>8, Shaped

LEMMA ClearingKeepsShape ==
    ASSUME Shape, ClearSnapshot
    PROVE  Shape'
  <1> USE Kinds, Unshaped
  <1>1. /\ snapshot' = None
        /\ UNCHANGED <<up, open, history, prefix, unobserved, passed, chat, marked, spent, behind, recovering, queue, prompt, counted, said, again, turns, starts>>
    BY DEF ClearSnapshot, socket, stored, present
  <1>2. \A f \in Fact : Grounded(f, history)' => Grounded(f, chat)'
    BY <1>1
  <1> QED BY <1>1, <1>2, Shaped

LEMMA StutterKeepsShape ==
    ASSUME Shape, UNCHANGED vars
    PROVE  Shape'
  BY DEF Shape, TypeOK, Grounded, vars, socket, stored, present

LEMMA StepKeepsShape == Shape /\ [Next]_vars => Shape'
  <1> SUFFICES ASSUME Shape, [Next]_vars PROVE Shape'
    OBVIOUS
  <1>1. CASE Start \/ Stop \/ Kill
    BY <1>1, BackendKeepsShape
  <1>2. CASE List \/ Recover \/ RecoverMarks
    BY <1>2, RecoveryKeepsShape
  <1>3. CASE Lock
    BY <1>3, LockKeepsShape
  <1>4. CASE DrainRuns
    BY <1>4, DrainKeepsShape
  <1>5. CASE DrainCompletes
    BY <1>5, CompletingKeepsShape
  <1>6. CASE OpenNew \/ Resume
    BY <1>6, OpeningKeepsShape
  <1>7. CASE Ask
    BY <1>7, AskKeepsShape
  <1>8. CASE Reply
    BY <1>8, ReplyKeepsShape
  <1>9. CASE Observe
    BY <1>9, ObservingKeepsShape
  <1>10. CASE Idle \/ Leave
    BY <1>10, LeavingKeepsShape
  <1>11. CASE ClearSnapshot
    BY <1>11, ClearingKeepsShape
  <1>12. CASE UNCHANGED vars
    BY <1>12, StutterKeepsShape
  <1> QED BY <1>1, <1>2, <1>3, <1>4, <1>5, <1>6, <1>7, <1>8, <1>9, <1>10, <1>11, <1>12 DEF Next

\* Every variable keeps its kind, and a socket never counts further into its
\* history than it goes.
THEOREM Typing == Spec => []TypeOK
  <1>1. Shape => TypeOK
    BY DEF Shape
  <1> QED BY <1>1, StartOfShape, StepKeepsShape, PTL DEF Spec

-----------------------------------------------------------------------------
(* The ledger                                                               *)

\* What is owed at the end of a step.
LEMMA OwedAfter ==
    ASSUME NEW f
    PROVE  Owed(f)' = Hits(queue', Waiting(f)) + Hits(behind', Waiting(f))
                        + IF spent' THEN 0
                          ELSE IF ~marked' THEN One(f, chat')
                          ELSE IF open' /\ unobserved' THEN One(f, Fresh(history', prefix')) ELSE 0
  <1>1. Owed(f)' = Hits(queue', Waiting(f)) + Hits(behind', Waiting(f)) + One(f, Pending)'
    BY DEF Owed, Hits, Places, Waiting, QueueRow, Turn, Grounded
  <1>2. One(f, Pending)' =
             IF spent' THEN 0
             ELSE IF ~marked' THEN One(f, chat')
             ELSE IF open' /\ unobserved' THEN One(f, Fresh(history', prefix')) ELSE 0
    <2>1. One(f, <<>>) = 0
      BY NothingIsOwed
    <2> QED BY <2>1 DEF Pending, One, Grounded, Fresh
  <1> QED BY <1>1, <1>2

LEMMA LedgerBefore ==
    ASSUME Shape, Ledger, NEW f \in Fact
    PROVE  /\ counted[f] + Owed(f) <= said[f] + again
           /\ counted[f] \in Nat /\ said[f] \in Nat /\ again \in Nat
           /\ Owed(f) = Hits(queue, Waiting(f)) + Hits(behind, Waiting(f)) + One(f, Pending)
           /\ Hits(queue, Waiting(f)) \in Nat /\ Hits(behind, Waiting(f)) \in Nat
           /\ One(f, Pending) \in {0, 1}
  BY OwedTypes, Unshaped DEF Ledger, Owed

LEMMA LedgerThere ==
    ASSUME \A f \in Fact : counted'[f] + Owed(f)' <= said'[f] + again'
    PROVE  Ledger'
  BY DEF Ledger

\* What an open socket said last is in its chat, and is owed unless it was put up.
LEMMA FreshIsOwed ==
    ASSUME Shape, open, unobserved, NEW f \in Fact
    PROVE  /\ One(f, Fresh(history, prefix)) \in {0, 1}
           /\ One(f, Fresh(history, prefix)) <= One(f, chat)
           /\ ~spent => One(f, Fresh(history, prefix)) <= One(f, Pending)
  <1>1. One(f, Fresh(history, prefix)) \in {0, 1} /\ One(f, chat) \in {0, 1}
    BY OneIs
  <1>2. One(f, Fresh(history, prefix)) <= One(f, chat)
    <2>1. CASE Grounded(f, Fresh(history, prefix))
      <3>1. Grounded(f, chat)
        BY <2>1, Kinds
      <3>2. One(f, chat) = 1
        BY <3>1, OneIs
      <3> QED BY <1>1, <3>2
    <2>2. CASE ~Grounded(f, Fresh(history, prefix))
      <3>1. One(f, Fresh(history, prefix)) = 0
        BY <2>2, OneIs
      <3> QED BY <1>1, <3>1
    <2> QED BY <2>1, <2>2
  <1> QED BY <1>1, <1>2, PendingIs

LEMMA StartOfLedger == Init => Ledger
  <1> SUFFICES ASSUME Init, NEW f \in Fact PROVE counted[f] + Owed(f) <= said[f] + again
    BY DEF Ledger
  <1>1. /\ queue = <<>> /\ behind = <<>> /\ chat = <<>> /\ marked = FALSE
        /\ counted[f] = 0 /\ said[f] = 0 /\ again = 0
    BY DEF Init
  <1>2. Hits(queue, Waiting(f)) = 0 /\ Hits(behind, Waiting(f)) = 0
    BY <1>1, NoHits
  <1>3. One(f, Pending) = 0
    BY <1>1, NothingIsOwed, PendingIs
  <1> QED BY <1>1, <1>2, <1>3 DEF Owed

\* What leaves the list at a stop owed no more than it did.
LEMMA UnlistedHits ==
    ASSUME Shape, Unlisted, NEW f
    PROVE  Hits(behind', Waiting(f)) \in Nat /\ Hits(behind', Waiting(f)) <= Hits(behind, Waiting(f))
  <1>1. CASE recovering = "stale"
    <2>1. behind # <<>> /\ behind \in Seq(QueueRow) /\ behind' = Tail(behind)
      BY <1>1, Kinds, Unshaped DEF Unlisted
    <2> QED BY <2>1, DroppingFirst
  <1>2. CASE recovering # "stale"
    BY <1>2, OwedTypes DEF Unlisted
  <1> QED BY <1>1, <1>2

\* A clean stop leaves a row in the place of what the socket had.
LEMMA StopKeepsLedger ==
    ASSUME Shape, Ledger, Stop
    PROVE  Ledger'
  <1>1. ~open' /\ UNCHANGED <<chat, marked, counted, said>>
    BY DEF Stop, Closed
  <1>2. SUFFICES ASSUME NEW f \in Fact PROVE counted'[f] + Owed(f)' <= said'[f] + again'
    BY LedgerThere
  <1>3. Owed(f)' = Hits(queue', Waiting(f)) + Hits(behind', Waiting(f))
                     + IF spent' THEN 0 ELSE IF ~marked THEN One(f, chat) ELSE 0
    BY <1>1, OwedAfter
  <1>8. Hits(behind', Waiting(f)) \in Nat /\ Hits(behind', Waiting(f)) <= Hits(behind, Waiting(f))
    BY UnlistedHits DEF Stop
  <1>4. One(f, chat) \in {0, 1}
    BY OneIs
  <1>5. spent \in BOOLEAN /\ marked \in BOOLEAN
    BY Kinds
  <1>6. CASE Queues /\ Again(spent) /\ spent' = ~marked
    <2>1. Hits(queue', Waiting(f)) = Hits(queue, Waiting(f)) + One(f, Fresh(history, prefix))
      BY <1>6, Kinds, AddingRow DEF Queues
    <2>2. again' = again + IF spent THEN 1 ELSE 0
      BY <1>5, <1>6, AgainIs
    <2>3. /\ One(f, Fresh(history, prefix)) \in {0, 1}
          /\ ~spent => One(f, Fresh(history, prefix)) <= One(f, Pending)
      BY <1>6, FreshIsOwed DEF Queues
    <2>4. Owed(f)' = Hits(queue, Waiting(f)) + One(f, Fresh(history, prefix)) + Hits(behind', Waiting(f))
      <3>1. (IF spent' THEN 0 ELSE IF ~marked THEN One(f, chat) ELSE 0) = 0
        BY <1>5, <1>6
      <3>2. Owed(f)' = Hits(queue', Waiting(f)) + Hits(behind', Waiting(f)) + 0
        BY <1>3, <3>1
      <3> QED BY <1>8, <2>1, <2>3, <3>2, LedgerBefore
    <2> QED BY <1>1, <1>5, <1>8, <2>2, <2>3, <2>4, LedgerBefore
  <1>7. CASE UNCHANGED <<queue, again>> /\ spent' = (spent /\ ~marked)
    <2>1. (IF spent' THEN 0 ELSE IF ~marked THEN One(f, chat) ELSE 0) <= One(f, Pending)
      BY <1>4, <1>5, <1>7, PendingIs, LedgerBefore
    <2> QED BY <1>1, <1>3, <1>4, <1>7, <1>8, <2>1, LedgerBefore
  <1> QED BY <1>6, <1>7 DEF Stop

LEMMA KillKeepsLedger ==
    ASSUME Shape, Ledger, Kill
    PROVE  Ledger'
  <1>1. ~open' /\ spent' = (spent /\ ~marked) /\ UNCHANGED <<chat, marked, queue, counted, said, again>>
    BY DEF Kill, Closed
  <1>2. SUFFICES ASSUME NEW f \in Fact PROVE counted'[f] + Owed(f)' <= said'[f] + again'
    BY LedgerThere
  <1>3. Owed(f)' = Hits(queue, Waiting(f)) + Hits(behind', Waiting(f))
                     + IF spent' THEN 0 ELSE IF ~marked THEN One(f, chat) ELSE 0
    BY <1>1, OwedAfter
  <1>6. Hits(behind', Waiting(f)) \in Nat /\ Hits(behind', Waiting(f)) <= Hits(behind, Waiting(f))
    BY UnlistedHits DEF Kill
  <1>4. One(f, chat) \in {0, 1} /\ spent \in BOOLEAN /\ marked \in BOOLEAN
    BY OneIs, Kinds
  <1>5. (IF spent' THEN 0 ELSE IF ~marked THEN One(f, chat) ELSE 0) <= One(f, Pending)
    BY <1>1, <1>4, PendingIs, LedgerBefore
  <1> QED BY <1>1, <1>3, <1>4, <1>5, <1>6, LedgerBefore

\* A sign-out puts up what the socket has, and the socket may yet put it up again.
LEMMA LockKeepsLedger ==
    ASSUME Shape, Ledger, Lock
    PROVE  Ledger'
  <1>1. UNCHANGED <<behind, counted, said>> /\ open /\ unobserved /\ spent' = TRUE
    BY DEF Lock, Queues, PutUp
  <1>2. SUFFICES ASSUME NEW f \in Fact PROVE counted'[f] + Owed(f)' <= said'[f] + again'
    BY LedgerThere
  <1>3. Hits(queue', Waiting(f)) = Hits(queue, Waiting(f)) + One(f, Fresh(history, prefix))
    BY Kinds, AddingRow DEF Lock, Queues
  <1>4. again' = again + IF spent THEN 1 ELSE 0
    BY Kinds, AgainIs DEF Lock, PutUp
  <1>5. Owed(f)' = Hits(queue', Waiting(f)) + Hits(behind, Waiting(f)) + 0
    BY <1>1, OwedAfter
  <1>6. spent \in BOOLEAN
    BY Kinds
  <1>7. /\ One(f, Fresh(history, prefix)) \in {0, 1}
        /\ ~spent => One(f, Fresh(history, prefix)) <= One(f, Pending)
    BY <1>1, FreshIsOwed
  <1> QED BY <1>1, <1>3, <1>4, <1>5, <1>6, <1>7, LedgerBefore

\* Recovery moves what a chat owes to the queue; where it did so before and its
\* mark was lost, or a pass has marked the chat since it was listed, it adds a
\* row.
LEMMA RecoverKeepsLedger ==
    ASSUME Shape, Ledger, Recover
    PROVE  Ledger'
  <1>1. UNCHANGED <<open, history, prefix, unobserved, chat, marked, counted, said>>
    BY DEF Recover, socket
  <1>2. SUFFICES ASSUME NEW f \in Fact PROVE counted'[f] + Owed(f)' <= said'[f] + again'
    BY LedgerThere
  <1>3. CASE /\ behind # <<>> /\ queue' = Append(queue, Row(Head(behind).turns))
             /\ Again(Head(behind).spent) /\ behind' = [behind EXCEPT ![1].spent = TRUE]
             /\ UNCHANGED spent
    <2> DEFINE r == Head(behind)
    <2>1. /\ r \in QueueRow
          /\ Hits(behind', Waiting(f)) = Hits(behind, Waiting(f)) - IF r.spent THEN 0 ELSE One(f, r.turns)
      BY <1>3, Kinds, SpendingFirst
    <2>2. r.turns \in Seq(Turn) /\ r.spent \in BOOLEAN
      BY <2>1 DEF QueueRow
    <2>3. again' = again + IF r.spent THEN 1 ELSE 0
      BY <1>3, <2>2, AgainIs
    <2>4. Hits(queue', Waiting(f)) = Hits(queue, Waiting(f)) + One(f, r.turns)
      BY <1>3, <2>2, Kinds, AddingRow
    <2>5. Owed(f)' = Hits(queue', Waiting(f)) + Hits(behind', Waiting(f)) + One(f, Pending)
      BY <1>1, <1>3, OwedAfter, PendingIs
    <2>6. One(f, r.turns) \in {0, 1}
      BY OneIs
    <2>7. counted'[f] = counted[f] /\ said'[f] = said[f]
      BY <1>1
    <2> HIDE DEF r
    <2>8. CASE r.spent
      <3>1. again' = again + 1 /\ Hits(behind', Waiting(f)) = Hits(behind, Waiting(f))
        BY <2>1, <2>3, <2>8, LedgerBefore
      <3> QED BY <2>4, <2>5, <2>6, <2>7, <3>1, LedgerBefore
    <2>9. CASE ~r.spent
      <3>1. again' = again /\ Hits(behind', Waiting(f)) = Hits(behind, Waiting(f)) - One(f, r.turns)
        BY <2>1, <2>3, <2>9, LedgerBefore
      <3> QED BY <2>4, <2>5, <2>6, <2>7, <3>1, LedgerBefore
    <2> QED BY <2>8, <2>9
  <1>4. CASE /\ queue' = Append(queue, Row(chat)) /\ Again(marked \/ spent)
             /\ spent' = (spent \/ ~marked) /\ UNCHANGED behind
    <2>1. Hits(queue', Waiting(f)) = Hits(queue, Waiting(f)) + One(f, chat)
      BY <1>4, Kinds, AddingRow
    <2>2. spent \in BOOLEAN /\ marked \in BOOLEAN
      BY Kinds
    <2>3. again' = again + IF marked \/ spent THEN 1 ELSE 0
      BY <1>4, <2>2, AgainIs
    <2>4. One(f, chat) \in {0, 1} /\ counted'[f] = counted[f] /\ said'[f] = said[f]
      BY <1>1, OneIs
    <2>5. CASE marked \/ spent
      <3>2. Owed(f)' = Hits(queue', Waiting(f)) + Hits(behind, Waiting(f)) + One(f, Pending)
        <4>1. spent' = spent
          BY <1>4, <2>2, <2>5
        <4> QED BY <1>1, <1>4, <4>1, OwedAfter, PendingIs
      <3>3. again' = again + 1
        BY <2>3, <2>5
      <3> QED BY <2>1, <2>4, <3>2, <3>3, LedgerBefore
    <2>6. CASE ~marked /\ ~spent
      <3>4. spent' = TRUE
        BY <1>4, <2>2, <2>6
      <3>5. again' = again
        BY <2>2, <2>3, <2>6, LedgerBefore
      <3>1. spent' = TRUE /\ again' = again
        BY <3>4, <3>5
      <3>2. Owed(f)' = Hits(queue', Waiting(f)) + Hits(behind, Waiting(f)) + 0
        BY <1>4, <3>1, OwedAfter
      <3>3. One(f, Pending) = One(f, chat)
        BY <2>6, PendingIs
      <3> QED BY <2>1, <2>4, <3>1, <3>2, <3>3, LedgerBefore
    <2> QED BY <2>5, <2>6
  <1>5. CASE /\ recovering = "stale" /\ queue' = Append(queue, Row(Head(behind).turns))
             /\ Again(TRUE) /\ behind' = Tail(behind) /\ UNCHANGED spent
    <2> DEFINE t == Head(behind).turns
    <2>1. behind # <<>> /\ behind \in Seq(QueueRow)
      BY <1>5, Kinds, Unshaped
    <2>2. t \in Seq(Turn)
      <3>1. Head(behind) \in QueueRow
        BY <2>1
      <3> QED BY <3>1 DEF QueueRow
    <2>3. Hits(queue', Waiting(f)) = Hits(queue, Waiting(f)) + One(f, t)
      BY <1>5, <2>2, Kinds, AddingRow
    <2>4. Hits(behind', Waiting(f)) \in Nat /\ Hits(behind', Waiting(f)) <= Hits(behind, Waiting(f))
      BY <1>5, <2>1, DroppingFirst
    <2>5. again' = again + 1
      BY <1>5, AgainIs
    <2>6. One(f, t) \in {0, 1} /\ counted'[f] = counted[f] /\ said'[f] = said[f]
      BY <1>1, OneIs
    <2>7. Owed(f)' = Hits(queue', Waiting(f)) + Hits(behind', Waiting(f)) + One(f, Pending)
      BY <1>1, <1>5, OwedAfter, PendingIs
    <2> HIDE DEF t
    <2> QED BY <2>3, <2>4, <2>5, <2>6, <2>7, LedgerBefore
  <1> QED BY <1>3, <1>4, <1>5 DEF Recover

LEMMA RecoverMarksKeepsLedger ==
    ASSUME Shape, Ledger, RecoverMarks
    PROVE  Ledger'
  <1>1. UNCHANGED <<open, history, prefix, unobserved, chat, queue, counted, said, again>>
    BY DEF RecoverMarks, socket
  <1>2. SUFFICES ASSUME NEW f \in Fact PROVE counted'[f] + Owed(f)' <= said'[f] + again'
    BY LedgerThere
  <1>3. Hits(behind', Waiting(f)) \in Nat /\ Hits(behind', Waiting(f)) <= Hits(behind, Waiting(f))
    <2>1. CASE behind' = behind
      BY <2>1, LedgerBefore
    <2>2. CASE recovering = "behind" /\ behind' = Tail(behind)
      <3>1. behind # <<>> /\ behind \in Seq(QueueRow)
        BY <2>2, Kinds, Unshaped
      <3> QED BY <2>2, <3>1, DroppingFirst
    <2> QED BY <2>1, <2>2 DEF RecoverMarks
  <1> DEFINE after == IF spent' THEN 0
                      ELSE IF ~marked' THEN One(f, chat)
                      ELSE IF open /\ unobserved THEN One(f, Fresh(history, prefix)) ELSE 0
  <1>4. Owed(f)' = Hits(queue, Waiting(f)) + Hits(behind', Waiting(f)) + after
    BY <1>1, OwedAfter
  <1>5. after \in {0, 1} /\ after <= One(f, Pending)
    <2>1. CASE UNCHANGED <<marked, spent>>
      <3>1. after = One(f, Pending)
        BY <2>1, PendingIs
      <3> QED BY <3>1, LedgerBefore
    <2>2. CASE marked' = TRUE /\ spent' = (spent /\ unobserved)
      <3>1. spent \in BOOLEAN /\ unobserved \in BOOLEAN
        BY Kinds
      <3>2. CASE open /\ unobserved /\ ~spent
        <4>1. after = One(f, Fresh(history, prefix))
          BY <2>2, <3>2
        <4>2. /\ One(f, Fresh(history, prefix)) \in {0, 1}
              /\ One(f, Fresh(history, prefix)) <= One(f, Pending)
          BY <3>2, FreshIsOwed
        <4> QED BY <4>1, <4>2
      <3>3. CASE ~(open /\ unobserved /\ ~spent)
        <4>1. after = 0
          BY <2>2, <3>1, <3>3
        <4> QED BY <4>1, LedgerBefore
      <3> QED BY <3>2, <3>3
    <2> QED BY <2>1, <2>2 DEF RecoverMarks
  <1> HIDE DEF after
  <1> QED BY <1>1, <1>3, <1>4, <1>5, LedgerBefore

\* A pass over a row counts what waited there, or the row has been put up and
\* is put up again.
LEMMA DrainRunsKeepsLedger ==
    ASSUME Shape, Ledger, DrainRuns
    PROVE  Ledger'
  <1> DEFINE r == Head(queue)
  <1>1. /\ queue # <<>> /\ Pass(r.turns, 0)
        /\ queue' = [queue EXCEPT ![1].spent = TRUE]
        /\ Again(r.spent)
        /\ UNCHANGED <<open, history, prefix, unobserved, chat, marked, spent, behind, said>>
    BY DEF DrainRuns, socket, present
  <1>2. queue \in Seq(QueueRow) /\ r \in QueueRow
    BY <1>1, Kinds
  <1>3. r.turns \in Seq(Turn) /\ r.spent \in BOOLEAN
    BY <1>2 DEF QueueRow
  <1>4. 0 \in 0 .. Len(r.turns)
    BY <1>3
  <1>5. \A f \in Fact : counted'[f] <= counted[f] + One(f, r.turns)
    <2>1. counted \in [Fact -> Nat]
      BY Unshaped
    <2>2. Fresh(r.turns, 0) = r.turns
      BY <1>3, <1>4, FreshIsPart
    <2> HIDE DEF r
    <2> QED BY <1>1, <1>3, <1>4, <2>1, <2>2, PassCounts DEF One
  <1>6. SUFFICES ASSUME NEW f \in Fact PROVE counted'[f] + Owed(f)' <= said'[f] + again'
    BY LedgerThere
  <1>7. Hits(queue', Waiting(f)) = Hits(queue, Waiting(f)) - IF r.spent THEN 0 ELSE One(f, r.turns)
    BY <1>1, <1>2, SpendingFirst
  <1>8. Owed(f)' = Hits(queue', Waiting(f)) + Hits(behind, Waiting(f)) + One(f, Pending)
    BY <1>1, OwedAfter, PendingIs
  <1>9. One(f, r.turns) \in {0, 1} /\ counted'[f] \in Nat
    <2>1. Shape'
      BY DrainKeepsShape
    <2>2. counted' \in [Fact -> Nat]
      BY <2>1 DEF Shape
    <2> QED BY <2>2, OneIs
  <1>10. again' = again + IF r.spent THEN 1 ELSE 0
    BY <1>1, <1>3, AgainIs
  <1>11. said'[f] = said[f]
    BY <1>1
  <1> HIDE DEF r
  <1>12. counted'[f] <= counted[f] + One(f, r.turns)
    BY <1>5
  <1>13. CASE r.spent
    <2>1. again' = again + 1 /\ Hits(queue', Waiting(f)) = Hits(queue, Waiting(f))
      BY <1>7, <1>10, <1>13, LedgerBefore
    <2> QED BY <1>8, <1>9, <1>11, <1>12, <2>1, LedgerBefore
  <1>14. CASE ~r.spent
    <2>1. again' = again /\ Hits(queue', Waiting(f)) = Hits(queue, Waiting(f)) - One(f, r.turns)
      BY <1>7, <1>10, <1>14, LedgerBefore
    <2> QED BY <1>8, <1>9, <1>11, <1>12, <2>1, LedgerBefore
  <1> QED BY <1>13, <1>14

LEMMA DrainCompletesKeepsLedger ==
    ASSUME Shape, Ledger, DrainCompletes
    PROVE  Ledger'
  <1>1. /\ queue # <<>> /\ queue' = Tail(queue)
        /\ UNCHANGED <<open, history, prefix, unobserved, chat, marked, spent, behind, counted, said, again>>
    BY DEF DrainCompletes, socket, present
  <1>2. SUFFICES ASSUME NEW f \in Fact PROVE counted'[f] + Owed(f)' <= said'[f] + again'
    BY LedgerThere
  <1>3. Hits(queue', Waiting(f)) \in Nat /\ Hits(queue', Waiting(f)) <= Hits(queue, Waiting(f))
    BY <1>1, Kinds, DroppingFirst
  <1>4. Owed(f)' = Hits(queue', Waiting(f)) + Hits(behind, Waiting(f)) + One(f, Pending)
    BY <1>1, OwedAfter, PendingIs
  <1> QED BY <1>1, <1>3, <1>4, LedgerBefore

LEMMA OpeningKeepsLedger ==
    ASSUME Shape, Ledger, OpenNew \/ Resume
    PROVE  Ledger'
  <1>1. ~open /\ unobserved' = FALSE /\ UNCHANGED <<queue, counted, said, again>>
    BY DEF OpenNew, Resume, Opened
  <1>2. SUFFICES ASSUME NEW f \in Fact PROVE counted'[f] + Owed(f)' <= said'[f] + again'
    BY LedgerThere
  <1>3. One(f, Pending) = IF ~marked /\ ~spent THEN One(f, chat) ELSE 0
    BY <1>1, PendingIs
  <1>4. CASE OpenNew
    <2>1. behind' = Unmarked /\ chat' = <<>> /\ marked' = FALSE /\ spent' = FALSE
      BY <1>4 DEF OpenNew
    <2>2. Owed(f)' = Hits(queue, Waiting(f)) + Hits(Unmarked, Waiting(f)) + One(f, <<>>)
      BY <1>1, <2>1, OwedAfter
    <2>3. Owed(f)' = Owed(f)
      BY <1>3, <2>2, NothingIsOwed, UnmarkedHits, LedgerBefore
    <2> QED BY <1>1, <2>3, LedgerBefore
  <1>5. CASE Resume
    <2>1. UNCHANGED <<chat, marked, spent, behind>>
      BY <1>5 DEF Resume, present
    <2>2. Owed(f)' = Hits(queue, Waiting(f)) + Hits(behind, Waiting(f))
                       + IF spent THEN 0 ELSE IF ~marked THEN One(f, chat) ELSE 0
      BY <1>1, <2>1, OwedAfter
    <2>3. Owed(f)' = Owed(f)
      BY <1>3, <2>2, LedgerBefore
    <2> QED BY <1>1, <2>3, LedgerBefore
  <1> QED BY <1>4, <1>5

LEMMA FreshGrounds ==
    ASSUME NEW t \in Seq(Turn), NEW p \in 0 .. Len(t), NEW f
    PROVE  Grounded(f, Fresh(t, p)) <=> \E k \in (p + 1) .. Len(t) : t[k].says = f
  <1>1. Len(t) \in Nat /\ p \in Nat
    OBVIOUS
  <1>2. ASSUME Grounded(f, Fresh(t, p)) PROVE \E k \in (p + 1) .. Len(t) : t[k].says = f
    <2>1. PICK i \in DOMAIN Fresh(t, p) : Fresh(t, p)[i].says = f
      BY <1>2 DEF Grounded
    <2>2. i \in 1 .. (Len(t) - p) /\ t[p + i].says = f
      BY <2>1, FreshTurns
    <2>3. (p + i) \in (p + 1) .. Len(t)
      BY <1>1, <2>2
    <2> QED BY <2>2, <2>3
  <1>3. ASSUME NEW k \in (p + 1) .. Len(t), t[k].says = f PROVE Grounded(f, Fresh(t, p))
    <2>1. (k - p) \in 1 .. (Len(t) - p) /\ p + (k - p) = k
      BY <1>1
    <2>2. (k - p) \in DOMAIN Fresh(t, p) /\ Fresh(t, p)[k - p] = t[k]
      BY <2>1, FreshTurns
    <2> QED BY <1>3, <2>2 DEF Grounded
  <1> QED BY <1>2, <1>3

\* What is new after an exchange is what was new and the exchange.
LEMMA FreshOfMore ==
    ASSUME NEW t \in Seq(Turn), NEW p \in 0 .. Len(t), NEW x \in Seq(Turn), NEW f
    PROVE  Grounded(f, Fresh(t \o x, p)) <=> Grounded(f, Fresh(t, p)) \/ Grounded(f, x)
  <1> DEFINE n == Len(t)
  <1>1. /\ n \in Nat /\ Len(x) \in Nat /\ p \in Nat /\ p <= n
        /\ t \o x \in Seq(Turn) /\ Len(t \o x) = n + Len(x) /\ DOMAIN x = 1 .. Len(x)
        /\ \A k \in 1 .. (n + Len(x)) : (t \o x)[k] = IF k <= n THEN t[k] ELSE x[k - n]
    OBVIOUS
  <1> HIDE DEF n
  <1>2. p \in 0 .. Len(t \o x)
    BY <1>1
  <1>3. Grounded(f, Fresh(t \o x, p)) <=> \E k \in (p + 1) .. (n + Len(x)) : (t \o x)[k].says = f
    <2>1. Grounded(f, Fresh(t \o x, p)) <=> \E k \in (p + 1) .. Len(t \o x) : (t \o x)[k].says = f
      BY <1>1, <1>2, FreshGrounds
    <2> QED BY <1>1, <2>1
  <1>4. Grounded(f, Fresh(t, p)) <=> \E k \in (p + 1) .. n : t[k].says = f
    BY FreshGrounds DEF n
  <1>5. ASSUME NEW k \in (p + 1) .. (n + Len(x)), (t \o x)[k].says = f
        PROVE  Grounded(f, Fresh(t, p)) \/ Grounded(f, x)
    <2>0. k \in 1 .. (n + Len(x))
      BY <1>1
    <2>1. CASE k <= n
      <3>1. k \in (p + 1) .. n /\ t[k].says = f
        BY <1>1, <1>5, <2>0, <2>1
      <3> QED BY <1>4, <3>1
    <2>2. CASE ~(k <= n)
      <3>1. (k - n) \in DOMAIN x /\ x[k - n].says = f
        BY <1>1, <1>5, <2>0, <2>2
      <3> QED BY <3>1 DEF Grounded
    <2> QED BY <2>1, <2>2
  <1>6. ASSUME NEW k \in (p + 1) .. n, t[k].says = f PROVE Grounded(f, Fresh(t \o x, p))
    <2>1. k \in (p + 1) .. (n + Len(x)) /\ (t \o x)[k].says = f
      BY <1>1, <1>6
    <2> QED BY <1>3, <2>1
  <1>7. ASSUME NEW i \in DOMAIN x, x[i].says = f PROVE Grounded(f, Fresh(t \o x, p))
    <2>1. (n + i) \in (p + 1) .. (n + Len(x)) /\ (t \o x)[n + i].says = f
      BY <1>1, <1>7
    <2> QED BY <1>3, <2>1
  <1> QED BY <1>3, <1>4, <1>5, <1>6, <1>7 DEF Grounded

\* Saying a thing for the first time since the last pass owes one count more,
\* and saying it again none.
LEMMA ReplyKeepsLedger ==
    ASSUME Shape, Ledger, Reply
    PROVE  Ledger'
  <1>1. PICK u \in Spoken, a \in Answered :
          /\ history' = history \o <<u, a>> /\ chat' = chat \o <<u, a>>
          /\ said' = [f \in Fact |->
                        IF Grounded(f, <<u, a>>) /\ ~Grounded(f, Fresh(history, prefix))
                        THEN said[f] + 1 ELSE said[f]]
    BY DEF Reply
  <1>2. unobserved' = TRUE /\ prompt # None
        /\ UNCHANGED <<open, prefix, marked, spent, behind, queue, counted, again>>
    BY DEF Reply
  <1>3. <<u, a>> \in Seq(Turn) /\ chat \in Seq(Turn) /\ history \in Seq(Turn) /\ prefix \in 0 .. Len(history)
    BY SpeechIsTurns, Kinds
  <1>4. open
    BY <1>2, Unshaped
  <1>5. SUFFICES ASSUME NEW f \in Fact PROVE counted'[f] + Owed(f)' <= said'[f] + again'
    BY LedgerThere
  <1> DEFINE new == Grounded(f, <<u, a>>)
             old == Grounded(f, Fresh(history, prefix))
             after == IF spent THEN 0 ELSE IF ~marked THEN One(f, chat') ELSE One(f, Fresh(history', prefix))
  <1>6. said'[f] = IF new /\ ~old THEN said[f] + 1 ELSE said[f]
    BY <1>1
  <1>7. Owed(f)' = Hits(queue, Waiting(f)) + Hits(behind, Waiting(f)) + after
    BY <1>2, <1>4, OwedAfter
  <1>8. after \in Nat /\ after - One(f, Pending) <= said'[f] - said[f]
    <2>1. CASE spent
      <3>1. after = 0 /\ One(f, Pending) = 0
        BY <2>1, PendingIs
      <3> HIDE DEF after, new, old
      <3> QED BY <1>6, <3>1, LedgerBefore
    <2>2. CASE ~spent /\ ~marked
      <3>1. Grounded(f, chat') <=> Grounded(f, chat) \/ new
        BY <1>1, <1>3, JoinedGrounds
      <3>2. old => Grounded(f, chat)
        BY Kinds
      <3>3. One(f, Pending) = IF Grounded(f, chat) THEN 1 ELSE 0
        BY <2>2, PendingIs DEF One
      <3>4. after = IF Grounded(f, chat) \/ new THEN 1 ELSE 0
        BY <2>2, <3>1 DEF One
      <3> HIDE DEF after, new, old
      <3> QED BY <1>6, <3>2, <3>3, <3>4, LedgerBefore
    <2>3. CASE ~spent /\ marked
      <3>1. Grounded(f, Fresh(history', prefix)) <=> old \/ new
        BY <1>1, <1>3, FreshOfMore
      <3>2. One(f, Pending) = IF old THEN 1 ELSE 0
        <4>1. CASE unobserved
          BY <1>4, <2>3, <4>1, PendingIs DEF One
        <4>2. CASE ~unobserved
          <5>1. prefix = Len(history)
            BY <1>4, <4>2, Unshaped
          <5>2. Fresh(history, prefix) = <<>>
            BY <1>3, <5>1, FreshIsPart
          <5> QED BY <2>3, <4>2, <5>2, NothingGrounded, PendingIs
        <4> QED BY <4>1, <4>2
      <3>3. after = IF old \/ new THEN 1 ELSE 0
        BY <2>3, <3>1 DEF One
      <3> HIDE DEF after, new, old
      <3> QED BY <1>6, <3>2, <3>3, LedgerBefore
    <2> QED BY <2>1, <2>2, <2>3
  <1>9. said'[f] \in Nat
    <2> HIDE DEF new, old
    <2> QED BY <1>6, LedgerBefore
  <1> HIDE DEF after, new, old
  <1> QED BY <1>2, <1>7, <1>8, <1>9, LedgerBefore

\* A pass over the history counts what its new turns owed, or they have been put
\* up and are put up again.
LEMMA ObserveKeepsLedger ==
    ASSUME Shape, Ledger, Observe
    PROVE  Ledger'
  <1>1. /\ open /\ unobserved /\ Pass(history, prefix) /\ spent' = TRUE
        /\ UNCHANGED <<behind, queue, said>>
    BY DEF Observe, PutUp
  <1>2. again' = again + IF spent THEN 1 ELSE 0
    BY Kinds, AgainIs DEF Observe, PutUp
  <1>3. SUFFICES ASSUME NEW f \in Fact PROVE counted'[f] + Owed(f)' <= said'[f] + again'
    BY LedgerThere
  <1>4. Owed(f)' = Hits(queue, Waiting(f)) + Hits(behind, Waiting(f)) + 0
    BY <1>1, OwedAfter
  <1>5. counted' \in [Fact -> Nat] /\ counted'[f] <= counted[f] + One(f, Fresh(history, prefix))
    BY <1>1, Kinds, Unshaped, PassCounts DEF One
  <1>6. /\ One(f, Fresh(history, prefix)) \in {0, 1}
        /\ ~spent => One(f, Fresh(history, prefix)) <= One(f, Pending)
    BY <1>1, FreshIsOwed
  <1>7. spent \in BOOLEAN /\ counted'[f] \in Nat
    BY <1>5, Kinds
  <1> QED BY <1>1, <1>2, <1>4, <1>5, <1>6, <1>7, LedgerBefore

\* What the socket leaves behind is the chat, unless it is marked.
LEMMA LeavingKeepsLedger ==
    ASSUME Shape, Ledger, Idle \/ Leave
    PROVE  Ledger'
  <1>1. /\ unobserved' = FALSE /\ spent' = (spent /\ ~marked') /\ marked' \in {marked, TRUE}
        /\ UNCHANGED <<chat, behind, queue, counted, said, again>>
    <2>1. /\ unobserved' = FALSE /\ UNCHANGED <<chat, behind, queue, counted, said, again>>
          /\ Marks /\ Settled
      BY DEF Idle, Leave, Closed
    <2>2. marked \in BOOLEAN /\ passed \in BOOLEAN
      BY Kinds
    <2> QED BY <2>1, <2>2 DEF Marks, Settled
  <1>2. SUFFICES ASSUME NEW f \in Fact PROVE counted'[f] + Owed(f)' <= said'[f] + again'
    BY LedgerThere
  <1>3. Owed(f)' = Hits(queue, Waiting(f)) + Hits(behind, Waiting(f))
                     + IF spent' THEN 0 ELSE IF ~marked' THEN One(f, chat) ELSE 0
    BY <1>1, OwedAfter
  <1>4. One(f, chat) \in {0, 1} /\ spent \in BOOLEAN /\ marked \in BOOLEAN
    BY OneIs, Kinds
  <1>5. (IF spent' THEN 0 ELSE IF ~marked' THEN One(f, chat) ELSE 0) <= One(f, Pending)
    <2>1. CASE marked' = TRUE \/ spent
      <3>1. (IF spent' THEN 0 ELSE IF ~marked' THEN One(f, chat) ELSE 0) = 0
        BY <1>1, <1>4, <2>1
      <3> QED BY <3>1, LedgerBefore
    <2>2. CASE marked' = FALSE /\ ~spent
      <3>1. ~marked
        BY <1>1, <1>4, <2>2
      <3>2. One(f, Pending) = One(f, chat)
        BY <2>2, <3>1, PendingIs
      <3>3. (IF spent' THEN 0 ELSE IF ~marked' THEN One(f, chat) ELSE 0) = One(f, chat)
        BY <1>1, <2>2
      <3> QED BY <1>4, <3>2, <3>3
    <2> QED BY <1>1, <1>4, <2>1, <2>2
  <1> QED BY <1>1, <1>3, <1>4, <1>5, LedgerBefore

LEMMA RestKeepsLedger ==
    ASSUME Shape, Ledger, Start \/ List \/ Ask \/ ClearSnapshot \/ UNCHANGED vars
    PROVE  Ledger'
  <1>1. UNCHANGED <<open, history, prefix, unobserved, chat, marked, spent, behind, queue, counted, said, again>>
    BY DEF Start, List, Ask, ClearSnapshot, vars, socket, stored, present
  <1>2. SUFFICES ASSUME NEW f \in Fact PROVE counted'[f] + Owed(f)' <= said'[f] + again'
    BY LedgerThere
  <1>3. Owed(f)' = Hits(queue, Waiting(f)) + Hits(behind, Waiting(f)) + One(f, Pending)
    BY <1>1, OwedAfter, PendingIs
  <1> QED BY <1>1, <1>3, LedgerBefore

LEMMA StepKeepsLedger == Shape /\ Ledger /\ [Next]_vars => Ledger'
  <1> SUFFICES ASSUME Shape, Ledger, [Next]_vars PROVE Ledger'
    OBVIOUS
  <1>1. CASE Stop
    BY <1>1, StopKeepsLedger
  <1>2. CASE Kill
    BY <1>2, KillKeepsLedger
  <1>3. CASE Lock
    BY <1>3, LockKeepsLedger
  <1>4. CASE Recover
    BY <1>4, RecoverKeepsLedger
  <1>5. CASE RecoverMarks
    BY <1>5, RecoverMarksKeepsLedger
  <1>6. CASE DrainRuns
    BY <1>6, DrainRunsKeepsLedger
  <1>7. CASE DrainCompletes
    BY <1>7, DrainCompletesKeepsLedger
  <1>8. CASE OpenNew \/ Resume
    BY <1>8, OpeningKeepsLedger
  <1>9. CASE Reply
    BY <1>9, ReplyKeepsLedger
  <1>10. CASE Observe
    BY <1>10, ObserveKeepsLedger
  <1>11. CASE Idle \/ Leave
    BY <1>11, LeavingKeepsLedger
  <1>12. CASE Start \/ List \/ Ask \/ ClearSnapshot \/ UNCHANGED vars
    BY <1>12, RestKeepsLedger
  <1> QED BY <1>1, <1>2, <1>3, <1>4, <1>5, <1>6, <1>7, <1>8, <1>9, <1>10, <1>11, <1>12 DEF Next

\* Reading is not hearing: however often a chat is resumed or shown to the model
\* again, a thing is handed on as evidence no more often than there were
\* stretches between two passes in which it was said, but once more for every
\* time that turns are put up which had been before: after a sign-out, a lost
\* mark, a list read before the mark, a stop, a recovery or a drain repeated.
THEOREM EvidenceHolds == Spec => []EvidenceWasSaid
  <1>1. Shape /\ Ledger => EvidenceWasSaid
    <2> SUFFICES ASSUME Shape, Ledger, NEW f \in Fact PROVE counted[f] <= said[f] + again
      BY DEF EvidenceWasSaid
    <2>1. Owed(f) \in Nat
      BY OwedTypes
    <2> QED BY <2>1, LedgerBefore
  <1> QED BY <1>1, StartOfShape, StepKeepsShape, StartOfLedger, StepKeepsLedger, PTL DEF Spec

-----------------------------------------------------------------------------
(* Folding                                                                  *)

\* f[T] is the fold of T, of which pick[T] is taken last, with the step st.
Folding(f, S, V, base, st, pick) ==
    /\ f \in [SUBSET S -> V]
    /\ f = [T \in SUBSET S |-> IF T = {} THEN base ELSE st[<<pick[T], f[T \ {pick[T]}]>>]]

\* The same for the sets of at most n members only.
FoldingUpTo(n, f, S, V, base, st, pick) ==
    /\ f \in [SUBSET S -> V]
    /\ \A T \in SUBSET S : Cardinality(T) <= n =>
            f[T] = IF T = {} THEN base ELSE st[<<pick[T], f[T \ {pick[T]}]>>]

LEMMA FoldExists ==
    ASSUME NEW S, IsFiniteSet(S), NEW V, NEW base \in V, NEW st \in [S \X V -> V], NEW pick,
           \A T \in SUBSET S : T # {} => pick[T] \in T
    PROVE  \E f : Folding(f, S, V, base, st, pick)
  <1> DEFINE Up(n) == \E f : FoldingUpTo(n, f, S, V, base, st, pick)
             bad == {n \in Nat : ~Up(n)}
  <1>1. \A T \in SUBSET S : IsFiniteSet(T) /\ Cardinality(T) \in Nat /\ Cardinality(T) <= Cardinality(S)
    BY FS_Subset, FS_CardinalityType
  <1>2. bad = {}
    <2> SUFFICES ASSUME bad # {} PROVE FALSE
      OBVIOUS
    <2>1. bad \subseteq Nat
      OBVIOUS
    <2>2. PICK n \in bad : \A m \in bad : n <= m
      BY <2>1, Minimum
    <2>3. n \in Nat /\ ~Up(n)
      BY <2>2
    <2>4. CASE n = 0
      <3> DEFINE g == [T \in SUBSET S |-> base]
      <3>1. g \in [SUBSET S -> V]
        OBVIOUS
      <3>2. \A T \in SUBSET S : Cardinality(T) <= 0 => T = {} /\ g[T] = base
        BY <1>1, FS_EmptySet
      <3>3. FoldingUpTo(0, g, S, V, base, st, pick)
        BY <3>1, <3>2 DEF FoldingUpTo
      <3> QED BY <2>3, <2>4, <3>3
    <2>5. CASE n # 0
      <3>1. PICK k \in Nat : n = k + 1
        BY <2>3, <2>5
      <3>2. Up(k)
        BY <2>2, <3>1
      <3>3. PICK f : FoldingUpTo(k, f, S, V, base, st, pick)
        BY <3>2
      <3> DEFINE g == [T \in SUBSET S |-> IF T = {} THEN base ELSE st[<<pick[T], f[T \ {pick[T]}]>>]]
      <3>4. g \in [SUBSET S -> V]
        <4>1. ASSUME NEW T \in SUBSET S, T # {} PROVE st[<<pick[T], f[T \ {pick[T]}]>>] \in V
          <5>1. T \ {pick[T]} \in SUBSET S /\ pick[T] \in S
            BY <4>1
          <5>2. f[T \ {pick[T]}] \in V
            BY <3>3, <5>1 DEF FoldingUpTo
          <5> QED BY <5>1, <5>2
        <4> QED BY <4>1
      <3>5. ASSUME NEW T \in SUBSET S, Cardinality(T) <= n
            PROVE  g[T] = IF T = {} THEN base ELSE st[<<pick[T], g[T \ {pick[T]}]>>]
        <4>1. CASE T = {}
          BY <4>1
        <4>2. CASE T # {}
          <5> DEFINE R == T \ {pick[T]}
          <5>1. R \in SUBSET S /\ Cardinality(R) <= k
            <6>1. IsFiniteSet(T) /\ pick[T] \in T
              BY <1>1, <4>2
            <6>2. Cardinality(R) = Cardinality(T) - 1
              BY <6>1, FS_RemoveElement
            <6> QED BY <1>1, <3>1, <3>5, <6>2
          <5>2. f[R] = IF R = {} THEN base ELSE st[<<pick[R], f[R \ {pick[R]}]>>]
            BY <3>3, <5>1 DEF FoldingUpTo
          <5>3. g[R] = f[R]
            BY <5>1, <5>2
          <5> QED BY <4>2, <5>3
        <4> QED BY <4>1, <4>2
      <3>6. FoldingUpTo(n, g, S, V, base, st, pick)
        <4> HIDE DEF g
        <4> QED BY <3>4, <3>5 DEF FoldingUpTo
      <3> QED BY <2>3, <3>6
    <2> QED BY <2>4, <2>5
  <1>3. Cardinality(S) \in Nat
    BY FS_CardinalityType
  <1>4. PICK f : FoldingUpTo(Cardinality(S), f, S, V, base, st, pick)
    BY <1>2, <1>3
  <1>5. \A T \in SUBSET S : f[T] = IF T = {} THEN base ELSE st[<<pick[T], f[T \ {pick[T]}]>>]
    BY <1>1, <1>4 DEF FoldingUpTo
  <1>6. f \in [SUBSET S -> V]
    BY <1>4 DEF FoldingUpTo
  <1>7. f = [T \in SUBSET S |-> IF T = {} THEN base ELSE st[<<pick[T], f[T \ {pick[T]}]>>]]
    BY <1>5, <1>6
  <1>8. Folding(f, S, V, base, st, pick)
    BY <1>6, <1>7 DEF Folding
  <1> QED BY <1>8
\* Two functions agree that agree wherever they agree on one member less.
Follows(f, g, S, pick) ==
    \A T \in SUBSET S : (T = {} \/ f[T \ {pick[T]}] = g[T \ {pick[T]}]) => f[T] = g[T]

LEMMA FoldsAgree ==
    ASSUME NEW S, NEW pick, NEW f, NEW g, Follows(f, g, S, pick),
           IsFiniteSet(S), \A T \in SUBSET S : T # {} => pick[T] \in T
    PROVE  \A T \in SUBSET S : f[T] = g[T]
  <1> DEFINE bad == {Cardinality(T) : T \in {R \in SUBSET S : f[R] # g[R]}}
  <1>1. \A T \in SUBSET S : IsFiniteSet(T) /\ Cardinality(T) \in Nat
    BY FS_Subset, FS_CardinalityType
  <1> SUFFICES ASSUME bad # {} PROVE FALSE
    OBVIOUS
  <1>2. bad \subseteq Nat
    BY <1>1
  <1>3. PICK n \in bad : \A m \in bad : n <= m
    <2> HIDE DEF bad
    <2> QED BY <1>2, Minimum
  <1>4. PICK T \in SUBSET S : f[T] # g[T] /\ n = Cardinality(T)
    BY <1>3
  <1>5. T # {} /\ f[T \ {pick[T]}] # g[T \ {pick[T]}]
    BY <1>4 DEF Follows
  <1>6. Cardinality(T \ {pick[T]}) \in bad
    BY <1>5
  <1>7. Cardinality(T \ {pick[T]}) = Cardinality(T) - 1
    BY <1>1, <1>5, FS_RemoveElement
  <1> QED BY <1>1, <1>3, <1>4, <1>6, <1>7

-----------------------------------------------------------------------------
(* Sums                                                                     *)

\* f[T] is the sum of s over the places T, taken in some order.
Sums(f, s) ==
    /\ f \in [SUBSET DOMAIN s -> Nat]
    /\ f[{}] = 0
    /\ \A T \in SUBSET DOMAIN s : T # {} => \E x \in T : f[T] = s[x] + f[T \ {x}]

LEMMA TotalIsSum ==
    ASSUME NEW s \in Seq(Nat)
    PROVE  \E f : Sums(f, s) /\ Total(s) = f[DOMAIN s]
  <1> DEFINE S == DOMAIN s
             st == [p \in S \X Nat |-> s[p[1]] + p[2]]
             pick == [T \in SUBSET S |-> CHOOSE x \in T : TRUE]
             eq(f) == f = [T \in SUBSET S |-> IF T = {} THEN 0
                              ELSE LET x == CHOOSE x \in T : TRUE IN s[x] + f[T \ {x}]]
             sum == CHOOSE f : eq(f)
  <1>1. IsFiniteSet(S) /\ \A x \in S : s[x] \in Nat
    <2>1. S = 1 .. Len(s) /\ Len(s) \in Nat /\ \A x \in S : s[x] \in Nat
      OBVIOUS
    <2>2. IsFiniteSet(1 .. Len(s))
      BY <2>1, FS_Interval
    <2> QED BY <2>1, <2>2
  <1>2. st \in [S \X Nat -> Nat] /\ 0 \in Nat
    BY <1>1
  <1>3. \A T \in SUBSET S : T # {} => pick[T] \in T /\ pick[T] = CHOOSE x \in T : TRUE
    OBVIOUS
  <1>4. \E f : Folding(f, S, Nat, 0, st, pick)
    <2> HIDE DEF S, st, pick
    <2> QED BY <1>1, <1>2, <1>3, FoldExists
  <1>5. ASSUME NEW f, Folding(f, S, Nat, 0, st, pick)
        PROVE  eq(f)
    <2>1. f \in [SUBSET S -> Nat]
      BY <1>5 DEF Folding
    <2>2. ASSUME NEW T \in SUBSET S, T # {}
          PROVE  st[<<pick[T], f[T \ {pick[T]}]>>] = s[pick[T]] + f[T \ {pick[T]}]
      <3>1. pick[T] \in S /\ f[T \ {pick[T]}] \in Nat
        BY <1>3, <2>1, <2>2
      <3> HIDE DEF pick, S
      <3> QED BY <3>1
    <2>3. f = [T \in SUBSET S |-> IF T = {} THEN 0 ELSE st[<<pick[T], f[T \ {pick[T]}]>>]]
      BY <1>5 DEF Folding
    <2>4. \A T \in SUBSET S : f[T] = IF T = {} THEN 0 ELSE s[pick[T]] + f[T \ {pick[T]}]
      <3> HIDE DEF st, pick
      <3> QED BY <2>2, <2>3
    <2>5. \A T \in SUBSET S : T # {} => pick[T] = CHOOSE x \in T : TRUE
      BY <1>3
    <2> QED BY <2>1, <2>4, <2>5
  <1>6. PICK f : Folding(f, S, Nat, 0, st, pick)
    BY <1>4
  <1>7. f \in [SUBSET S -> Nat] /\ eq(f)
    BY <1>5, <1>6 DEF Folding
  <1>8. eq(sum)
    BY <1>7
  <1>9. Follows(sum, f, S, pick)
    <2> HIDE DEF sum, S, pick
    <2>1. ASSUME NEW T \in SUBSET S
          PROVE  /\ sum[T] = IF T = {} THEN 0 ELSE LET x == CHOOSE x \in T : TRUE IN s[x] + sum[T \ {x}]
                 /\ f[T] = IF T = {} THEN 0 ELSE LET x == CHOOSE x \in T : TRUE IN s[x] + f[T \ {x}]
      BY <1>7, <1>8
    <2>2. ASSUME NEW T \in SUBSET S, T = {} \/ sum[T \ {pick[T]}] = f[T \ {pick[T]}]
          PROVE  sum[T] = f[T]
      <3>1. CASE T = {}
        BY <2>1, <3>1
      <3>2. CASE T # {}
        <4>1. /\ sum[T] = s[pick[T]] + sum[T \ {pick[T]}]
              /\ f[T] = s[pick[T]] + f[T \ {pick[T]}]
          BY <1>3, <2>1, <3>2
        <4> QED BY <2>2, <3>2, <4>1
      <3> QED BY <3>1, <3>2
    <2> QED BY <2>2 DEF Follows
  <1>10. \A T \in SUBSET S : sum[T] = f[T]
    <2> HIDE DEF S, st, pick, sum
    <2>1. \A T \in SUBSET S : T # {} => pick[T] \in T
      BY <1>3
    <2>2. IsFiniteSet(S)
      BY <1>1
    <2> QED BY <1>9, <2>1, <2>2, FoldsAgree
  <1>11. Total(s) = sum[S]
    BY DEF Total, FoldSeq, FoldFunction, FoldFunctionOnSet, MapThenFoldSet
  <1>12. Total(s) = f[S]
    <2> HIDE DEF S, sum
    <2> QED BY <1>10, <1>11
  <1>13. f[{}] = 0 /\ \A T \in SUBSET S : T # {} => \E x \in T : f[T] = s[x] + f[T \ {x}]
    BY <1>3, <1>7
  <1> QED BY <1>7, <1>12, <1>13 DEF Sums

\* Any place may be the last.
InAnyOrder(f, s) == \A T \in SUBSET DOMAIN s : \A y \in T : f[T] = s[y] + f[T \ {y}]

\* The order is all the same.
LEMMA AnyOrder ==
    ASSUME NEW s, NEW f, Sums(f, s), s \in Seq(Nat)
    PROVE  InAnyOrder(f, s)
  <1> DEFINE S == DOMAIN s
             fails(R) == \E z \in R : f[R] # s[z] + f[R \ {z}]
             bad == {Cardinality(R) : R \in {Q \in SUBSET S : fails(Q)}}
  <1>1. /\ IsFiniteSet(S) /\ \A x \in S : s[x] \in Nat
        /\ \A R \in SUBSET S : IsFiniteSet(R) /\ Cardinality(R) \in Nat
    <2>1. S = 1 .. Len(s) /\ Len(s) \in Nat /\ \A x \in S : s[x] \in Nat
      OBVIOUS
    <2>2. IsFiniteSet(S)
      BY <2>1, FS_Interval
    <2> QED BY <2>1, <2>2, FS_Subset, FS_CardinalityType
  <1>2. \A R \in SUBSET S : f[R] \in Nat
    BY DEF Sums
  <1> SUFFICES ASSUME bad # {} PROVE FALSE
    BY DEF InAnyOrder
  <1>3. bad \subseteq Nat
    BY <1>1
  <1>4. PICK n \in bad : \A m \in bad : n <= m
    <2> HIDE DEF bad
    <2> QED BY <1>3, Minimum
  <1>5. PICK R \in SUBSET S : fails(R) /\ n = Cardinality(R)
    BY <1>4
  <1> HIDE DEF S
  <1>6. \A Q \in SUBSET S : Cardinality(Q) < n => ~fails(Q)
    <2>1. ASSUME NEW Q \in SUBSET S, Cardinality(Q) < n, fails(Q) PROVE FALSE
      <3>1. Cardinality(Q) \in bad
        BY <2>1
      <3>2. n <= Cardinality(Q)
        BY <1>4, <3>1
      <3> QED BY <1>1, <1>5, <2>1, <3>2
    <2> QED BY <2>1
  <1>7. PICK z \in R : f[R] # s[z] + f[R \ {z}]
    BY <1>5
  <1>8. PICK x \in R : f[R] = s[x] + f[R \ {x}]
    BY <1>5, <1>7 DEF Sums, S
  <1>9. x # z
    BY <1>7, <1>8
  <1>10. /\ Cardinality(R \ {x}) < n /\ Cardinality(R \ {z}) < n
         /\ R \ {x} \in SUBSET S /\ R \ {z} \in SUBSET S
    <2>1. Cardinality(R \ {x}) = Cardinality(R) - 1 /\ Cardinality(R \ {z}) = Cardinality(R) - 1
      BY <1>1, <1>5, FS_RemoveElement
    <2> QED BY <1>1, <1>5, <2>1
  <1>11. f[R \ {x}] = s[z] + f[(R \ {x}) \ {z}] /\ f[R \ {z}] = s[x] + f[(R \ {z}) \ {x}]
    <2>1. z \in R \ {x} /\ x \in R \ {z}
      BY <1>9
    <2>2. ~fails(R \ {x}) /\ ~fails(R \ {z})
      BY <1>6, <1>10
    <2> QED BY <2>1, <2>2
  <1>12. (R \ {x}) \ {z} = (R \ {z}) \ {x} /\ (R \ {x}) \ {z} \in SUBSET S
    BY <1>5
  <1>13. f[(R \ {x}) \ {z}] \in Nat /\ s[x] \in Nat /\ s[z] \in Nat
    BY <1>1, <1>2, <1>5, <1>12
  <1>14. PICK c \in Nat : c = f[(R \ {x}) \ {z}] /\ c = f[(R \ {z}) \ {x}]
    BY <1>12, <1>13
  <1>15. f[R] = s[x] + (s[z] + c) /\ s[z] + f[R \ {z}] = s[z] + (s[x] + c)
    BY <1>8, <1>11, <1>14
  <1>16. s[x] + (s[z] + c) = s[z] + (s[x] + c)
    BY <1>13, <1>14
  <1> QED BY <1>7, <1>15, <1>16

\* t stands at the end of s, behind d others.
Ends(t, s, d) == Len(s) = d + Len(t) /\ \A i \in 1 .. Len(t) : t[i] = s[d + i]

LEMMA TotalOfEnd ==
    ASSUME NEW s \in Seq(Nat), NEW t \in Seq(Nat), NEW d \in Nat, Ends(t, s, d)
    PROVE  Total(t) <= Total(s)
  <1>1. PICK f : Sums(f, s) /\ Total(s) = f[DOMAIN s]
    BY TotalIsSum
  <1>2. PICK g : Sums(g, t) /\ Total(t) = g[DOMAIN t]
    BY TotalIsSum
  <1>3. /\ Len(s) = d + Len(t) /\ Len(t) \in Nat
        /\ DOMAIN s = 1 .. Len(s) /\ DOMAIN t = 1 .. Len(t)
        /\ \A i \in 1 .. Len(t) : t[i] = s[d + i] /\ t[i] \in Nat
    BY DEF Ends
  <1> DEFINE right(k) == f[1 .. (d + k)] = f[1 .. d] + g[1 .. k]
             bad == {k \in 0 .. Len(t) : ~right(k)}
  <1>4. /\ \A T \in SUBSET (1 .. Len(s)) : f[T] \in Nat
        /\ \A T \in SUBSET (1 .. Len(t)) : g[T] \in Nat
        /\ g[{}] = 0
    BY <1>1, <1>2, <1>3 DEF Sums
  <1>5. bad = {}
    <2> SUFFICES ASSUME bad # {} PROVE FALSE
      OBVIOUS
    <2>1. bad \subseteq Nat
      BY <1>3
    <2>2. PICK n \in bad : \A m \in bad : n <= m
      <3> HIDE DEF bad
      <3> QED BY <2>1, Minimum
    <2>3. n \in 0 .. Len(t) /\ ~right(n)
      BY <2>2
    <2>4. n # 0
      <3>1. ASSUME n = 0 PROVE right(n)
        <4>1. d + n = d /\ 1 .. n = {} /\ 1 .. d \in SUBSET (1 .. Len(s))
          BY <1>3, <3>1
        <4>2. f[1 .. d] \in Nat
          BY <1>4, <4>1
        <4> QED BY <1>4, <4>1, <4>2
      <3> QED BY <2>3, <3>1
    <2>5. PICK k \in 0 .. Len(t) : n = k + 1
      BY <1>3, <2>3, <2>4
    <2>6. right(k)
      <3>1. k \notin bad
        BY <1>3, <2>2, <2>5
      <3> QED BY <3>1
    <2>7. n \in 1 .. Len(t) /\ d + n \in 1 .. Len(s)
      BY <1>3, <2>3, <2>4
    <2>8. f[1 .. (d + n)] = s[d + n] + f[(1 .. (d + n)) \ {d + n}]
      <3>1. 1 .. (d + n) \in SUBSET DOMAIN s /\ d + n \in 1 .. (d + n)
        BY <1>3, <2>7
      <3>2. InAnyOrder(f, s)
        BY <1>1, AnyOrder
      <3> QED BY <3>1, <3>2 DEF InAnyOrder
    <2>9. g[1 .. n] = t[n] + g[(1 .. n) \ {n}]
      <3>1. 1 .. n \in SUBSET DOMAIN t /\ n \in 1 .. n
        BY <1>3, <2>7
      <3>2. InAnyOrder(g, t)
        BY <1>2, AnyOrder
      <3> QED BY <3>1, <3>2 DEF InAnyOrder
    <2>10. (1 .. (d + n)) \ {d + n} = 1 .. (d + k) /\ (1 .. n) \ {n} = 1 .. k
      <3>1. n \in Nat /\ k \in Nat /\ d + n = d + k + 1
        BY <2>3, <2>5
      <3>2. (1 .. (d + n)) \ {d + n} = 1 .. (d + k)
        <4>1. PICK m \in Nat : m = d + k /\ d + n = m + 1
          BY <3>1
        <4>2. (1 .. (m + 1)) \ {m + 1} = 1 .. m
          OBVIOUS
        <4> QED BY <4>1, <4>2
      <3> QED BY <2>5, <3>1, <3>2
    <2>11. t[n] = s[d + n] /\ t[n] \in Nat
      BY <1>3, <2>7
    <2>12. 1 .. d \in SUBSET (1 .. Len(s)) /\ 1 .. k \in SUBSET (1 .. Len(t))
      BY <1>3
    <2>13. f[1 .. d] \in Nat /\ g[1 .. k] \in Nat
      BY <1>4, <2>12
    <2>14. f[1 .. (d + k)] = f[1 .. d] + g[1 .. k]
      BY <2>6
    <2>15. f[1 .. (d + n)] = t[n] + (f[1 .. d] + g[1 .. k]) /\ g[1 .. n] = t[n] + g[1 .. k]
      BY <2>8, <2>9, <2>10, <2>11, <2>14
    <2>16. right(n)
      BY <2>11, <2>13, <2>15
    <2> QED BY <2>3, <2>16
  <1>6. right(Len(t))
    <2>1. Len(t) \in 0 .. Len(t)
      BY <1>3
    <2> QED BY <1>5, <2>1
  <1>7. f[1 .. d] \in Nat /\ g[1 .. Len(t)] \in Nat
    <2>1. 1 .. d \in SUBSET (1 .. Len(s))
      BY <1>3
    <2> QED BY <1>4, <2>1
  <1> QED BY <1>1, <1>2, <1>3, <1>6, <1>7

LEMMA TotalIsNat ==
    ASSUME NEW s \in Seq(Nat)
    PROVE  Total(s) \in Nat /\ (s = <<>> => Total(s) = 0)
  <1>1. PICK f : Sums(f, s) /\ Total(s) = f[DOMAIN s]
    BY TotalIsSum
  <1>2. s = <<>> => DOMAIN s = {}
    OBVIOUS
  <1> QED BY <1>1, <1>2 DEF Sums

-----------------------------------------------------------------------------
(* From the left                                                            *)

LEMMA GreatestIn ==
    ASSUME NEW n \in Nat, NEW T \in SUBSET (1 .. n), T # {}
    PROVE  Max(T) \in T /\ \A y \in T : y <= Max(T)
  <1> DEFINE U == {n - x : x \in T}
  <1>1. U \subseteq Nat /\ U # {}
    <2>1. \A x \in T : x \in 1 .. n /\ n - x \in Nat
      OBVIOUS
    <2>2. PICK x \in T : TRUE
      OBVIOUS
    <2>3. n - x \in U
      BY <2>2
    <2> QED BY <2>1, <2>3
  <1>2. PICK u \in U : \A v \in U : u <= v
    <2> HIDE DEF U
    <2> QED BY <1>1, Minimum
  <1>3. PICK x \in T : u = n - x
    OBVIOUS
  <1>4. \A y \in T : x >= y
    <2>1. ASSUME NEW y \in T PROVE x >= y
      <3>1. n - y \in U
        OBVIOUS
      <3>2. n - x <= n - y
        BY <1>2, <1>3, <3>1
      <3> QED BY <3>2
    <2> QED BY <2>1
  <1>5. Max(T) \in T /\ \A y \in T : Max(T) >= y
    BY <1>4 DEF Max
  <1> QED BY <1>5

\* l goes through the n values of a fold from the left.
InTurn(l, n, V, base, st) ==
    /\ l \in [0 .. n -> V]
    /\ l[0] = base
    /\ \A k \in 0 .. n : k # 0 => l[k] = st[<<k, l[k - 1]>>]

Greatest(n) == [T \in SUBSET (1 .. n) |-> Max(T)]

LEMMA TakenInTurn ==
    ASSUME NEW f, NEW n, NEW V, NEW base, NEW st, Folding(f, 1 .. n, V, base, st, Greatest(n)), n \in Nat
    PROVE  \E l : InTurn(l, n, V, base, st) /\ f[1 .. n] = l[n]
  <1> DEFINE l == [k \in 0 .. n |-> f[1 .. k]]
  <1>1. /\ f \in [SUBSET (1 .. n) -> V]
        /\ \A T \in SUBSET (1 .. n) :
              f[T] = IF T = {} THEN base ELSE st[<<Greatest(n)[T], f[T \ {Greatest(n)[T]}]>>]
    BY DEF Folding
  <1>2. \A k \in 0 .. n : 1 .. k \in SUBSET (1 .. n)
    OBVIOUS
  <1>3. l \in [0 .. n -> V]
    BY <1>1, <1>2
  <1>4. l[0] = base
    <2>1. 1 .. 0 = {} /\ 0 \in 0 .. n
      OBVIOUS
    <2>2. f[1 .. 0] = base
      BY <1>1, <2>1
    <2> QED BY <2>1, <2>2
  <1>5. ASSUME NEW k \in 0 .. n, k # 0 PROVE l[k] = st[<<k, l[k - 1]>>]
    <2>1. PICK m \in Nat : k = m + 1
      BY <1>5
    <2>2. 1 .. k \in SUBSET (1 .. n) /\ 1 .. k # {} /\ m \in 0 .. n /\ k - 1 = m
      <3>1. 1 .. k \in SUBSET (1 .. n)
        BY <1>2
      <3>2. k \in 1 .. k
        BY <1>5
      <3>3. m \in 0 .. n /\ k - 1 = m
        BY <2>1
      <3> QED BY <3>1, <3>2, <3>3
    <2>3. (1 .. (m + 1)) \ {m + 1} = 1 .. m
      OBVIOUS
    <2>4. Max(1 .. k) = k
      <3>1. Max(1 .. k) \in 1 .. k /\ \A y \in 1 .. k : y <= Max(1 .. k)
        BY <2>2, GreatestIn
      <3>2. k \in 1 .. k
        BY <1>5
      <3>3. k <= Max(1 .. k)
        BY <3>1, <3>2
      <3> HIDE DEF l
      <3> QED BY <3>1, <3>3
    <2>5. Greatest(n)[1 .. k] = k
      BY <2>2, <2>4 DEF Greatest
    <2>6. f[1 .. k] = st[<<k, f[1 .. m]>>]
      BY <1>1, <2>1, <2>2, <2>3, <2>5
    <2> QED BY <2>2, <2>6
  <1>6. f[1 .. n] = l[n]
    OBVIOUS
  <1> HIDE DEF l
  <1>7. InTurn(l, n, V, base, st)
    BY <1>3, <1>4, <1>5 DEF InTurn
  <1> QED BY <1>6, <1>7

-----------------------------------------------------------------------------
(* The sections                                                             *)

Keys == ToSet(LowestFirst)
\* A record of sections, at any time and when all have been emptied.
Contents == [Keys -> Nat \cup Seq(Nat)]

Sections ==
    [decision_log : Nat, profile : Nat, rag_chunks : Nat, session_snapshot : Nat,
     conversation_history : Seq(Nat), web_results : Nat]

LEMMA KeysAre ==
    /\ Keys = {"web_results", "conversation_history", "session_snapshot",
               "rag_chunks", "profile", "decision_log"}
    /\ LowestFirst \in Seq(Keys) /\ Len(LowestFirst) = 6
  <1>1. DOMAIN LowestFirst = 1 .. 6 /\ Len(LowestFirst) = 6
    BY DEF LowestFirst
  <1>2. 1 .. 6 = {1, 2, 3, 4, 5, 6}
    OBVIOUS
  <1>3. Keys = {LowestFirst[1], LowestFirst[2], LowestFirst[3], LowestFirst[4], LowestFirst[5], LowestFirst[6]}
    BY <1>1, <1>2 DEF Keys, ToSet
  <1>4. Keys = {"web_results", "conversation_history", "session_snapshot",
               "rag_chunks", "profile", "decision_log"}
    BY <1>3 DEF LowestFirst
  <1>5. LowestFirst \in Seq(Keys)
    BY <1>4 DEF LowestFirst
  <1> QED BY <1>1, <1>4, <1>5

LEMMA SectionsAreContents == ASSUME NEW s \in Sections PROVE s \in Contents
  <1>1. s = [k \in {"web_results", "conversation_history", "session_snapshot",
               "rag_chunks", "profile", "decision_log"} |-> s[k]]
    BY DEF Sections
  <1> QED BY <1>1, KeysAre DEF Sections, Contents

\* Sections that go one by one, from the left.
LEMMA LoweredInTurn ==
    ASSUME NEW q \in Seq(Keys), NEW s \in Contents
    PROVE  \E l : /\ l \in [0 .. Len(q) -> Contents] /\ l[0] = s
                  /\ \A k \in 0 .. Len(q) : k # 0 => l[k] = Without(l[k - 1], q[k])
                  /\ FoldLeft(Without, s, q) = l[Len(q)]
  <1> DEFINE n == Len(q)
             st == [p \in (1 .. n) \X Contents |-> Without(p[2], q[p[1]])]
             eq(f) == f = [T \in SUBSET DOMAIN q |-> IF T = {} THEN s
                              ELSE LET x == Max(T) IN Without(f[T \ {x}], q[x])]
             fold == CHOOSE f : eq(f)
  <1>1. n \in Nat /\ DOMAIN q = 1 .. n /\ IsFiniteSet(1 .. n) /\ \A k \in 1 .. n : q[k] \in Keys
    BY FS_Interval
  <1>2. \A c \in Contents : \A k \in Keys : Without(c, k) \in Contents
    BY DEF Without, Contents
  <1>3. st \in [(1 .. n) \X Contents -> Contents]
    <2> HIDE DEF n
    <2> QED BY <1>1, <1>2
  <1>4. \A T \in SUBSET (1 .. n) : T # {} => Greatest(n)[T] \in T /\ Greatest(n)[T] = Max(T)
    BY <1>1, GreatestIn DEF Greatest
  <1>5. PICK f : Folding(f, 1 .. n, Contents, s, st, Greatest(n))
    <2> HIDE DEF n, st
    <2> QED BY <1>1, <1>3, <1>4, FoldExists
  <1> HIDE DEF n
  <1>6. f \in [SUBSET (1 .. n) -> Contents]
    BY <1>5 DEF Folding
  <1>7. ASSUME NEW T \in SUBSET (1 .. n), T # {} PROVE f[T] = Without(f[T \ {Max(T)}], q[Max(T)])
    <2>1. f[T] = st[<<Greatest(n)[T], f[T \ {Greatest(n)[T]}]>>]
      <3> HIDE DEF st
      <3> QED BY <1>5, <1>7 DEF Folding
    <2>2. Max(T) \in 1 .. n /\ f[T \ {Max(T)}] \in Contents /\ Greatest(n)[T] = Max(T)
      BY <1>4, <1>6, <1>7
    <2> QED BY <2>1, <2>2
  <1>8. f[{}] = s
    BY <1>5 DEF Folding
  <1>9. eq(f)
    BY <1>1, <1>6, <1>7, <1>8
  <1>10. eq(fold)
    BY <1>9
  <1>11. Follows(fold, f, 1 .. n, Greatest(n))
    <2> HIDE DEF fold
    <2>1. fold[{}] = s /\ \A T \in SUBSET (1 .. n) : T # {} => fold[T] = Without(fold[T \ {Max(T)}], q[Max(T)])
      BY <1>1, <1>10
    <2>2. ASSUME NEW T \in SUBSET (1 .. n), T = {} \/ fold[T \ {Greatest(n)[T]}] = f[T \ {Greatest(n)[T]}]
          PROVE  fold[T] = f[T]
      <3>1. CASE T = {}
        BY <1>8, <2>1, <3>1
      <3>2. CASE T # {}
        <4>1. fold[T] = Without(fold[T \ {Max(T)}], q[Max(T)]) /\ f[T] = Without(f[T \ {Max(T)}], q[Max(T)])
          BY <1>7, <2>1, <3>2
        <4>2. fold[T \ {Max(T)}] = f[T \ {Max(T)}]
          BY <1>4, <2>2, <3>2
        <4> QED BY <4>1, <4>2
      <3> QED BY <3>1, <3>2
    <2> QED BY <2>2 DEF Follows
  <1>12. fold[1 .. n] = f[1 .. n]
    <2> HIDE DEF fold
    <2>1. \A T \in SUBSET (1 .. n) : T # {} => Greatest(n)[T] \in T
      BY <1>4
    <2> QED BY <1>1, <1>11, <2>1, FoldsAgree
  <1>13. FoldLeft(Without, s, q) = fold[1 .. n]
    BY <1>1 DEF FoldLeft, MapThenFoldSet
  <1>14. PICK l : InTurn(l, n, Contents, s, st) /\ f[1 .. n] = l[n]
    <2> HIDE DEF st
    <2> QED BY <1>1, <1>5, TakenInTurn
  <1>15. l \in [0 .. n -> Contents] /\ l[0] = s
    BY <1>14 DEF InTurn
  <1>16. ASSUME NEW k \in 0 .. n, k # 0 PROVE l[k] = Without(l[k - 1], q[k])
    <2>1. l[k] = st[<<k, l[k - 1]>>]
      <3> HIDE DEF st
      <3> QED BY <1>14, <1>16 DEF InTurn
    <2>2. k \in 1 .. n /\ k - 1 \in 0 .. n
      BY <1>1, <1>16
    <2>3. l[k - 1] \in Contents
      BY <1>15, <2>2
    <2> QED BY <2>1, <2>2, <2>3
  <1>17. FoldLeft(Without, s, q) = l[n]
    BY <1>12, <1>13, <1>14
  <1> HIDE DEF st, fold
  <1> QED BY <1>15, <1>16, <1>17 DEF n

-----------------------------------------------------------------------------
(* Histories                                                                *)

\* What is shown, section by section.
Shown(d, f, r, p, h, w) ==
    [decision_log |-> d, profile |-> f, rag_chunks |-> r, session_snapshot |-> p,
     conversation_history |-> h, web_results |-> w]

LEMMA WordsOfShown ==
    ASSUME NEW d \in Nat, NEW f \in Nat, NEW r \in Nat, NEW p \in Nat, NEW w \in Nat, NEW h \in Seq(Nat)
    PROVE  /\ Shown(d, f, r, p, h, w) \in Sections
           /\ Words(Shown(d, f, r, p, h, w)) = d + f + r + p + w + Total(h)
           /\ Total(h) \in Nat /\ Total(<<>>) = 0
  <1>1. Shown(d, f, r, p, h, w) \in Sections
    BY DEF Shown, Sections
  <1>2. Words(Shown(d, f, r, p, h, w)) = d + f + r + p + w + Total(h)
    BY DEF Words, Shown
  <1>3. Total(h) \in Nat /\ Total(<<>>) = 0
    <2>1. <<>> \in Seq(Nat)
      OBVIOUS
    <2> QED BY <2>1, TotalIsNat
  <1> QED BY <1>1, <1>2, <1>3

LEMMA WithoutShown ==
    ASSUME NEW d, NEW f, NEW r, NEW p, NEW w, NEW h
    PROVE  /\ Without(Shown(d, f, r, p, h, w), "web_results") = Shown(d, f, r, p, h, 0)
           /\ Without(Shown(d, f, r, p, h, w), "conversation_history") = Shown(d, f, r, p, <<>>, w)
           /\ Without(Shown(d, f, r, p, h, w), "session_snapshot") = Shown(d, f, r, 0, h, w)
           /\ Without(Shown(d, f, r, p, h, w), "rag_chunks") = Shown(d, f, 0, p, h, w)
           /\ Without(Shown(d, f, r, p, h, w), "profile") = Shown(d, 0, r, p, h, w)
           /\ Without(Shown(d, f, r, p, h, w), "decision_log") = Shown(0, f, r, p, h, w)
  <1>1. Without(Shown(d, f, r, p, h, w), "web_results") = Shown(d, f, r, p, h, 0)
    BY DEF Without, Shown
  <1>2. Without(Shown(d, f, r, p, h, w), "conversation_history") = Shown(d, f, r, p, <<>>, w)
    BY DEF Without, Shown
  <1>3. Without(Shown(d, f, r, p, h, w), "session_snapshot") = Shown(d, f, r, 0, h, w)
    BY DEF Without, Shown
  <1>4. Without(Shown(d, f, r, p, h, w), "rag_chunks") = Shown(d, f, 0, p, h, w)
    BY DEF Without, Shown
  <1>5. Without(Shown(d, f, r, p, h, w), "profile") = Shown(d, 0, r, p, h, w)
    BY DEF Without, Shown
  <1>6. Without(Shown(d, f, r, p, h, w), "decision_log") = Shown(0, f, r, p, h, w)
    BY DEF Without, Shown
  <1> QED BY <1>1, <1>2, <1>3, <1>4, <1>5, <1>6

\* The end of a history, from its place i on.
From(h, i) == SubSeq(h, i, Len(h))

LEMMA EndOfHistory ==
    ASSUME NEW h \in Seq(Nat), NEW i \in 1 .. (Len(h) + 1)
    PROVE  /\ From(h, i) \in Seq(Nat) /\ Len(From(h, i)) = Len(h) - i + 1
           /\ \A k \in 1 .. Len(From(h, i)) : From(h, i)[k] = h[i + k - 1]
           /\ Total(From(h, i)) \in Nat
           /\ i = 1 => From(h, i) = h
           /\ i = Len(h) + 1 => From(h, i) = <<>>
  <1>1. Len(h) \in Nat /\ i \in Nat /\ \A k \in i .. Len(h) : h[k] \in Nat
    OBVIOUS
  <1>2. /\ From(h, i) \in Seq(Nat)
        /\ Len(From(h, i)) = IF i <= Len(h) THEN Len(h) - i + 1 ELSE 0
        /\ \A k \in 1 .. (Len(h) - i + 1) : From(h, i)[k] = h[i + k - 1]
    BY <1>1, SubSeqProperties DEF From
  <1>3. Len(From(h, i)) = Len(h) - i + 1
    BY <1>1, <1>2
  <1>4. Total(From(h, i)) \in Nat
    BY <1>2, TotalIsNat
  <1>5. i = 1 => From(h, i) = h
    <2>1. ASSUME i = 1 PROVE From(h, i) = h
      <3>1. Len(From(h, i)) = Len(h) /\ \A k \in 1 .. Len(h) : From(h, i)[k] = h[k]
        BY <1>1, <1>2, <1>3, <2>1
      <3>2. From(h, i) \in Seq(Nat)
        BY <1>2
      <3> QED BY <3>1, <3>2
    <2> QED BY <2>1
  <1>6. i = Len(h) + 1 => From(h, i) = <<>>
    BY <1>1, <1>2, <1>3
  <1> QED BY <1>2, <1>3, <1>4, <1>5, <1>6

\* A shorter end has no more words.
LEMMA ShorterEnd ==
    ASSUME NEW h \in Seq(Nat), NEW i \in 1 .. (Len(h) + 1), NEW j \in 1 .. (Len(h) + 1), i <= j
    PROVE  Total(From(h, j)) <= Total(From(h, i))
  <1>1. PICK d \in Nat : j = i + d
    <2>1. j - i \in Nat /\ j = i + (j - i)
      OBVIOUS
    <2> QED BY <2>1
  <1> DEFINE s == From(h, i)
             t == From(h, j)
  <1>2. /\ s \in Seq(Nat) /\ Len(s) = Len(h) - i + 1 /\ \A k \in 1 .. Len(s) : s[k] = h[i + k - 1]
        /\ t \in Seq(Nat) /\ Len(t) = Len(h) - j + 1 /\ \A k \in 1 .. Len(t) : t[k] = h[j + k - 1]
    BY EndOfHistory
  <1>3. Len(h) \in Nat
    OBVIOUS
  <1> HIDE DEF s, t
  <1>4. Len(s) = d + Len(t)
    BY <1>1, <1>2, <1>3
  <1>5. ASSUME NEW k \in 1 .. Len(t) PROVE t[k] = s[d + k]
    <2>1. d + k \in 1 .. Len(s) /\ i + (d + k) - 1 = j + k - 1
      BY <1>1, <1>2, <1>3, <1>4
    <2> QED BY <1>2, <2>1
  <1>6. Ends(t, s, d)
    BY <1>4, <1>5 DEF Ends
  <1>7. Total(t) <= Total(s)
    BY <1>2, <1>6, TotalOfEnd
  <1> QED BY <1>7 DEF s, t

\* What is kept of a history is the longest end of it that fits.
LEMMA TrimKeepsTheMost ==
    ASSUME NEW h \in Seq(Nat), NEW most \in Int
    PROVE  /\ Trim(h, most) \in Seq(Nat)
           /\ most < 0 => Trim(h, most) = <<>>
           /\ \E i \in 1 .. (Len(h) + 1) : Trim(h, most) = From(h, i)
           /\ most >= 0 => \E i \in 1 .. (Len(h) + 1) :
                  /\ Trim(h, most) = From(h, i) /\ Total(From(h, i)) <= most
                  /\ \A j \in 1 .. (Len(h) + 1) : Total(From(h, j)) <= most => i <= j
  <1> DEFINE fit == {i \in 1 .. (Len(h) + 1) : Total(From(h, i)) <= most}
             k == CHOOSE i \in fit : \A j \in fit : i <= j
  <1>1. Trim(h, most) = IF fit = {} THEN <<>> ELSE From(h, k)
    BY DEF Trim, From
  <1>2. Len(h) \in Nat /\ Len(h) + 1 \in 1 .. (Len(h) + 1) /\ fit \subseteq 1 .. (Len(h) + 1)
    OBVIOUS
  <1>3. \A i \in 1 .. (Len(h) + 1) : From(h, i) \in Seq(Nat) /\ Total(From(h, i)) \in Nat
    BY EndOfHistory
  <1>4. From(h, Len(h) + 1) = <<>> /\ Total(From(h, Len(h) + 1)) = 0
    <2>1. From(h, Len(h) + 1) = <<>>
      BY <1>2, EndOfHistory
    <2> QED BY <1>2, <1>3, <2>1, TotalIsNat
  <1>5. most < 0 => fit = {}
    BY <1>3
  <1>6. most >= 0 => Len(h) + 1 \in fit
    BY <1>2, <1>4
  <1>7. ASSUME most >= 0
        PROVE  k \in fit /\ \A j \in fit : k <= j
    <2>1. fit \subseteq Nat /\ fit # {}
      BY <1>2, <1>6, <1>7
    <2>2. \E i \in fit : \A j \in fit : i <= j
      <3> HIDE DEF fit
      <3> QED BY <2>1, Minimum
    <2> HIDE DEF fit
    <2> QED BY <2>2
  <1>8. CASE most < 0
    <2>1. Trim(h, most) = <<>>
      BY <1>1, <1>5, <1>8
    <2> QED BY <1>2, <1>4, <1>8, <2>1
  <1>9. CASE most >= 0
    <2>1. Trim(h, most) = From(h, k) /\ k \in 1 .. (Len(h) + 1)
      <3> HIDE DEF k
      <3> QED BY <1>1, <1>6, <1>7, <1>9
    <2>2. Total(From(h, k)) <= most /\ \A j \in 1 .. (Len(h) + 1) : Total(From(h, j)) <= most => k <= j
      <3> HIDE DEF k
      <3> QED BY <1>7, <1>9
    <2>3. Trim(h, most) \in Seq(Nat)
      BY <1>3, <2>1
    <2> HIDE DEF k
    <2> QED BY <1>9, <2>1, <2>2, <2>3
  <1> QED BY <1>8, <1>9

LEMMA SectionsAreShown ==
    ASSUME NEW s \in Sections
    PROVE  \E d, f, r, p, w \in Nat : \E h \in Seq(Nat) : s = Shown(d, f, r, p, h, w)
  <1>1. s = Shown(s.decision_log, s.profile, s.rag_chunks, s.session_snapshot,
                  s.conversation_history, s.web_results)
    BY DEF Shown, Sections
  <1>2. /\ s.decision_log \in Nat /\ s.profile \in Nat /\ s.rag_chunks \in Nat
        /\ s.session_snapshot \in Nat /\ s.web_results \in Nat /\ s.conversation_history \in Seq(Nat)
    BY DEF Sections
  <1> QED BY <1>1, <1>2

-----------------------------------------------------------------------------
(* The loop                                                                 *)

\* One turn of the loop, for each section.
LEMMA CutShown ==
    ASSUME NEW d \in Nat, NEW f \in Nat, NEW r \in Nat, NEW p \in Nat, NEW w \in Nat, NEW h \in Seq(Nat),
           NEW k \in Keys, NEW room \in Int
    PROVE  /\ Words(Shown(d, f, r, p, h, w)) <= room =>
                Cut(Shown(d, f, r, p, h, w), k, room) = Shown(d, f, r, p, h, w)
           /\ ~(Words(Shown(d, f, r, p, h, w)) <= room) /\ k = "conversation_history" =>
                Cut(Shown(d, f, r, p, h, w), k, room)
                    = Shown(d, f, r, p, Trim(h, room - (d + f + r + p + w)), w)
           /\ ~(Words(Shown(d, f, r, p, h, w)) <= room) /\ k # "conversation_history" =>
                Cut(Shown(d, f, r, p, h, w), k, room) = Without(Shown(d, f, r, p, h, w), k)
           /\ Cut(Shown(d, f, r, p, h, w), k, room) \in Sections
  <1> DEFINE s == Shown(d, f, r, p, h, w)
  <1>1. s \in Sections
    BY WordsOfShown
  <1>2. CASE Words(s) <= room
    <2>1. Cut(s, k, room) = s
      BY <1>2 DEF Cut
    <2> QED BY <1>1, <1>2, <2>1
  <1>3. CASE ~(Words(s) <= room) /\ k = "conversation_history"
    <2>1. Without(s, k) = Shown(d, f, r, p, <<>>, w)
      BY <1>3, WithoutShown
    <2>2. Words(Without(s, k)) = d + f + r + p + w
      <3> DEFINE e == <<>>
      <3>1. e \in Seq(Nat)
        BY EmptySeq
      <3>2. Total(e) = 0
        BY <3>1, TotalIsNat
      <3>3. Without(s, k) = Shown(d, f, r, p, e, w)
        BY <2>1
      <3> HIDE DEF e
      <3>4. Words(Shown(d, f, r, p, e, w)) = d + f + r + p + w + Total(e)
        BY <3>1, WordsOfShown
      <3> QED BY <3>2, <3>3, <3>4
    <2>3. s[k] = h
      BY <1>3 DEF Shown
    <2>4. Cut(s, k, room) = [s EXCEPT ![k] = Trim(h, room - (d + f + r + p + w))]
      <3> HIDE DEF s
      <3> QED BY <1>3, <2>2, <2>3 DEF Cut
    <2>5. Cut(s, k, room) = Shown(d, f, r, p, Trim(h, room - (d + f + r + p + w)), w)
      BY <1>3, <2>4 DEF Shown
    <2>6. Trim(h, room - (d + f + r + p + w)) \in Seq(Nat)
      BY TrimKeepsTheMost
    <2>7. Cut(s, k, room) \in Sections
      BY <2>5, <2>6, WordsOfShown
    <2> QED BY <1>3, <2>5, <2>7
  <1>4. CASE ~(Words(s) <= room) /\ k # "conversation_history"
    <2>1. Cut(s, k, room) = Without(s, k)
      BY <1>4 DEF Cut
    <2>2. Without(s, k) \in Sections
      <3>1. k \in {"web_results", "session_snapshot", "rag_chunks", "profile", "decision_log"}
        BY <1>4, KeysAre
      <3>2. Without(s, k) \in {Shown(d, f, r, p, h, 0), Shown(d, f, r, 0, h, w), Shown(d, f, 0, p, h, w),
                               Shown(d, 0, r, p, h, w), Shown(0, f, r, p, h, w)}
        BY <3>1, WithoutShown
      <3>3. \A a, b, c, e, g \in Nat : Shown(a, b, c, e, h, g) \in Sections
        BY WordsOfShown
      <3> HIDE DEF s
      <3> QED BY <3>2, <3>3
    <2> QED BY <1>4, <2>1, <2>2
  <1> QED BY <1>2, <1>3, <1>4

LEMMA CutStays ==
    ASSUME NEW s \in Sections, NEW k \in Keys, NEW room \in Int
    PROVE  Cut(s, k, room) \in Sections
  <1>1. PICK d \in Nat, f \in Nat, r \in Nat, p \in Nat, w \in Nat, h \in Seq(Nat) : s = Shown(d, f, r, p, h, w)
    BY SectionsAreShown
  <1> QED BY <1>1, CutShown

\* Its turns, one by one.
LEMMA FittedInTurn ==
    ASSUME NEW s \in Sections, NEW room \in Int
    PROVE  \E l : /\ l \in [0 .. 6 -> Sections] /\ l[0] = s
                  /\ \A k \in 0 .. 6 : k # 0 => l[k] = Cut(l[k - 1], LowestFirst[k], room)
                  /\ Fitted(s, room) = l[6]
  <1> DEFINE n == 6
             st == [p \in (1 .. n) \X Sections |-> Cut(p[2], LowestFirst[p[1]], room)]
             eq(f) == f = [T \in SUBSET DOMAIN LowestFirst |-> IF T = {} THEN s
                              ELSE LET x == Max(T) IN Cut(f[T \ {x}], LowestFirst[x], room)]
             fold == CHOOSE f : eq(f)
  <1>1. n \in Nat /\ DOMAIN LowestFirst = 1 .. n /\ IsFiniteSet(1 .. n) /\ \A k \in 1 .. n : LowestFirst[k] \in Keys
    <2>1. LowestFirst \in Seq(Keys) /\ Len(LowestFirst) = 6
      BY KeysAre
    <2>2. n \in Nat
      OBVIOUS
    <2>3. \A k \in 1 .. n : LowestFirst[k] \in Keys
      BY <2>1
    <2>4. DOMAIN LowestFirst = 1 .. n
      BY <2>1
    <2> HIDE DEF n
    <2>5. IsFiniteSet(1 .. n)
      BY <2>2, FS_Interval
    <2> QED BY <2>2, <2>3, <2>4, <2>5
  <1>2. \A c \in Sections : \A k \in Keys : Cut(c, k, room) \in Sections
    BY CutStays
  <1>3. st \in [(1 .. n) \X Sections -> Sections]
    <2> HIDE DEF n
    <2> QED BY <1>1, <1>2
  <1>4. \A T \in SUBSET (1 .. n) : T # {} => Greatest(n)[T] \in T /\ Greatest(n)[T] = Max(T)
    BY <1>1, GreatestIn DEF Greatest
  <1>5. PICK f : Folding(f, 1 .. n, Sections, s, st, Greatest(n))
    <2> HIDE DEF n, st
    <2> QED BY <1>1, <1>3, <1>4, FoldExists
  <1> HIDE DEF n
  <1>6. f \in [SUBSET (1 .. n) -> Sections]
    BY <1>5 DEF Folding
  <1>7. ASSUME NEW T \in SUBSET (1 .. n), T # {} PROVE f[T] = Cut(f[T \ {Max(T)}], LowestFirst[Max(T)], room)
    <2>1. f[T] = st[<<Greatest(n)[T], f[T \ {Greatest(n)[T]}]>>]
      <3> HIDE DEF st
      <3> QED BY <1>5, <1>7 DEF Folding
    <2>2. Max(T) \in 1 .. n /\ f[T \ {Max(T)}] \in Sections /\ Greatest(n)[T] = Max(T)
      BY <1>4, <1>6, <1>7
    <2> QED BY <2>1, <2>2
  <1>8. f[{}] = s
    BY <1>5 DEF Folding
  <1>9. eq(f)
    BY <1>1, <1>6, <1>7, <1>8
  <1>10. eq(fold)
    BY <1>9
  <1>11. Follows(fold, f, 1 .. n, Greatest(n))
    <2> HIDE DEF fold
    <2>1. fold[{}] = s /\ \A T \in SUBSET (1 .. n) : T # {} => fold[T] = Cut(fold[T \ {Max(T)}], LowestFirst[Max(T)], room)
      BY <1>1, <1>10
    <2>2. ASSUME NEW T \in SUBSET (1 .. n), T = {} \/ fold[T \ {Greatest(n)[T]}] = f[T \ {Greatest(n)[T]}]
          PROVE  fold[T] = f[T]
      <3>1. CASE T = {}
        BY <1>8, <2>1, <3>1
      <3>2. CASE T # {}
        <4>1. fold[T] = Cut(fold[T \ {Max(T)}], LowestFirst[Max(T)], room) /\ f[T] = Cut(f[T \ {Max(T)}], LowestFirst[Max(T)], room)
          BY <1>7, <2>1, <3>2
        <4>2. fold[T \ {Max(T)}] = f[T \ {Max(T)}]
          BY <1>4, <2>2, <3>2
        <4> QED BY <4>1, <4>2
      <3> QED BY <3>1, <3>2
    <2> QED BY <2>2 DEF Follows
  <1>12. fold[1 .. n] = f[1 .. n]
    <2> HIDE DEF fold
    <2>1. \A T \in SUBSET (1 .. n) : T # {} => Greatest(n)[T] \in T
      BY <1>4
    <2> QED BY <1>1, <1>11, <2>1, FoldsAgree
  <1>13. Fitted(s, room) = fold[1 .. n]
    BY <1>1 DEF Fitted, FoldLeft, MapThenFoldSet
  <1>14. PICK l : InTurn(l, n, Sections, s, st) /\ f[1 .. n] = l[n]
    <2> HIDE DEF st
    <2> QED BY <1>1, <1>5, TakenInTurn
  <1>15. l \in [0 .. n -> Sections] /\ l[0] = s
    BY <1>14 DEF InTurn
  <1>16. ASSUME NEW k \in 0 .. n, k # 0 PROVE l[k] = Cut(l[k - 1], LowestFirst[k], room)
    <2>1. l[k] = st[<<k, l[k - 1]>>]
      <3> HIDE DEF st
      <3> QED BY <1>14, <1>16 DEF InTurn
    <2>2. k \in 1 .. n /\ k - 1 \in 0 .. n
      BY <1>1, <1>16
    <2>3. l[k - 1] \in Sections
      BY <1>15, <2>2
    <2> QED BY <2>1, <2>2, <2>3
  <1>17. Fitted(s, room) = l[n]
    BY <1>12, <1>13, <1>14
  <1> HIDE DEF st, fold
  <1> QED BY <1>15, <1>16, <1>17 DEF n

-----------------------------------------------------------------------------
(* What may be kept                                                         *)

\* The first n sections that go are gone.
Lowered(s, n) == FoldLeft(Without, s, SubSeq(LowestFirst, 1, n))

\* Whole sections from the top of the ranks, in one form and the other.
AllLowered(s) == {Lowered(s, n) : n \in 0 .. Len(LowestFirst)}

WholeSections(d, f, r, p, h, w) ==
    {Shown(d, f, r, p, h, w), Shown(d, f, r, p, h, 0), Shown(d, f, r, p, <<>>, 0),
     Shown(d, f, r, 0, <<>>, 0), Shown(d, f, 0, 0, <<>>, 0), Shown(d, 0, 0, 0, <<>>, 0),
     Shown(0, 0, 0, 0, <<>>, 0)}

LEMMA LowestFirstAre ==
    /\ LowestFirst[1] = "web_results" /\ LowestFirst[2] = "conversation_history"
    /\ LowestFirst[3] = "session_snapshot" /\ LowestFirst[4] = "rag_chunks"
    /\ LowestFirst[5] = "profile" /\ LowestFirst[6] = "decision_log"
    /\ \A k \in 1 .. 6 : LowestFirst[k] \in Keys
  <1>1. \A k \in 1 .. 6 : LowestFirst[k] \in Keys
    <2>1. DOMAIN LowestFirst = 1 .. 6
      BY DEF LowestFirst
    <2>2. Keys = {LowestFirst[k] : k \in DOMAIN LowestFirst}
      BY DEF Keys, ToSet
    <2> QED BY <2>1, <2>2
  <1> QED BY <1>1 DEF LowestFirst

LEMMA LoweredAre ==
    ASSUME NEW d \in Nat, NEW f \in Nat, NEW r \in Nat, NEW p \in Nat, NEW w \in Nat, NEW h \in Seq(Nat)
    PROVE  /\ AllLowered(Shown(d, f, r, p, h, w)) = WholeSections(d, f, r, p, h, w)
           /\ Lowered(Shown(d, f, r, p, h, w), 1) = Shown(d, f, r, p, h, 0)
  <1> DEFINE s == Shown(d, f, r, p, h, w)
  <1>1. s \in Contents
    BY WordsOfShown, SectionsAreContents
  <1>2. ASSUME NEW n \in 0 .. 6
        PROVE  \E l : /\ l[0] = s
                      /\ \A k \in 0 .. n : k # 0 => l[k] = Without(l[k - 1], LowestFirst[k])
                      /\ Lowered(s, n) = l[n]
    <2> DEFINE q == SubSeq(LowestFirst, 1, n)
    <2>1. LowestFirst \in Seq(Keys) /\ Len(LowestFirst) = 6
      BY KeysAre
    <2>2. q \in Seq(Keys) /\ Len(q) = n /\ \A k \in 1 .. n : q[k] = LowestFirst[k]
      <3>1. n \in Int /\ \A k \in 1 .. n : k \in 1 .. 6 /\ LowestFirst[k] \in Keys
        <4>1. \A k \in 1 .. 6 : LowestFirst[k] \in Keys
          BY LowestFirstAre
        <4>2. n \in Int /\ \A k \in 1 .. n : k \in 1 .. 6
          OBVIOUS
        <4> QED BY <4>1, <4>2
      <3>2. /\ q \in Seq(Keys) /\ Len(q) = IF 1 <= n THEN n - 1 + 1 ELSE 0
            /\ \A k \in 1 .. (n - 1 + 1) : q[k] = LowestFirst[1 + k - 1]
        BY <2>1, <3>1, SubSeqProperties
      <3> HIDE DEF q
      <3>3. n - 1 + 1 = n /\ n \in 0 .. 6
        BY <3>1
      <3>4. Len(q) = n
        BY <3>2, <3>3
      <3>5. \A k \in 1 .. n : 1 + k - 1 = k
        BY <3>1
      <3>6. \A k \in 1 .. n : q[k] = LowestFirst[k]
        BY <3>2, <3>3, <3>5
      <3> QED BY <3>2, <3>4, <3>6
    <2> HIDE DEF q, s
    <2>3. PICK l : /\ l \in [0 .. Len(q) -> Contents] /\ l[0] = s
                   /\ \A k \in 0 .. Len(q) : k # 0 => l[k] = Without(l[k - 1], q[k])
                   /\ FoldLeft(Without, s, q) = l[Len(q)]
      BY <1>1, <2>2, LoweredInTurn
    <2>4. \A k \in 0 .. n : k # 0 => l[k] = Without(l[k - 1], LowestFirst[k])
      BY <2>2, <2>3
    <2>5. Lowered(s, n) = l[n]
      BY <2>2, <2>3 DEF Lowered, q
    <2> QED BY <2>3, <2>4, <2>5
  <1>3. ASSUME NEW l, NEW n \in 0 .. 6, l[0] = s,
               \A k \in 0 .. n : k # 0 => l[k] = Without(l[k - 1], LowestFirst[k])
        PROVE  /\ n >= 1 => l[1] = Shown(d, f, r, p, h, 0)
               /\ n >= 2 => l[2] = Shown(d, f, r, p, <<>>, 0)
               /\ n >= 3 => l[3] = Shown(d, f, r, 0, <<>>, 0)
               /\ n >= 4 => l[4] = Shown(d, f, 0, 0, <<>>, 0)
               /\ n >= 5 => l[5] = Shown(d, 0, 0, 0, <<>>, 0)
               /\ n >= 6 => l[6] = Shown(0, 0, 0, 0, <<>>, 0)
    <2>1. /\ n >= 1 => l[1] = Without(l[0], "web_results")
          /\ n >= 2 => l[2] = Without(l[1], "conversation_history")
          /\ n >= 3 => l[3] = Without(l[2], "session_snapshot")
          /\ n >= 4 => l[4] = Without(l[3], "rag_chunks")
          /\ n >= 5 => l[5] = Without(l[4], "profile")
          /\ n >= 6 => l[6] = Without(l[5], "decision_log")
      BY <1>3, LowestFirstAre
    <2>2. n >= 1 => l[1] = Shown(d, f, r, p, h, 0)
      BY <1>3, <2>1, WithoutShown
    <2>3. n >= 2 => l[2] = Shown(d, f, r, p, <<>>, 0)
      BY <2>1, <2>2, WithoutShown
    <2>4. n >= 3 => l[3] = Shown(d, f, r, 0, <<>>, 0)
      BY <2>1, <2>3, WithoutShown
    <2>5. n >= 4 => l[4] = Shown(d, f, 0, 0, <<>>, 0)
      BY <2>1, <2>4, WithoutShown
    <2>6. n >= 5 => l[5] = Shown(d, 0, 0, 0, <<>>, 0)
      BY <2>1, <2>5, WithoutShown
    <2>7. n >= 6 => l[6] = Shown(0, 0, 0, 0, <<>>, 0)
      BY <2>1, <2>6, WithoutShown
    <2> QED BY <2>2, <2>3, <2>4, <2>5, <2>6, <2>7
  <1> HIDE DEF s
  <1>4. Lowered(s, 0) = s
    BY <1>2
  <1>5. Lowered(s, 1) = Shown(d, f, r, p, h, 0)
    BY <1>2, <1>3
  <1>6. Lowered(s, 2) = Shown(d, f, r, p, <<>>, 0)
    BY <1>2, <1>3
  <1>7. Lowered(s, 3) = Shown(d, f, r, 0, <<>>, 0)
    BY <1>2, <1>3
  <1>8. Lowered(s, 4) = Shown(d, f, 0, 0, <<>>, 0)
    BY <1>2, <1>3
  <1>9. Lowered(s, 5) = Shown(d, 0, 0, 0, <<>>, 0)
    BY <1>2, <1>3
  <1>10. Lowered(s, 6) = Shown(0, 0, 0, 0, <<>>, 0)
    BY <1>2, <1>3
  <1>11. 0 .. Len(LowestFirst) = {0, 1, 2, 3, 4, 5, 6}
    BY KeysAre
  <1>12. {Lowered(s, n) : n \in 0 .. Len(LowestFirst)} =
            {Lowered(s, 0), Lowered(s, 1), Lowered(s, 2), Lowered(s, 3), Lowered(s, 4), Lowered(s, 5), Lowered(s, 6)}
    BY <1>11
  <1>13. {Lowered(s, n) : n \in 0 .. Len(LowestFirst)} =
             {s, Shown(d, f, r, p, h, 0), Shown(d, f, r, p, <<>>, 0),
              Shown(d, f, r, 0, <<>>, 0), Shown(d, f, 0, 0, <<>>, 0), Shown(d, 0, 0, 0, <<>>, 0),
              Shown(0, 0, 0, 0, <<>>, 0)}
    BY <1>4, <1>5, <1>6, <1>7, <1>8, <1>9, <1>10, <1>12
  <1> QED BY <1>5, <1>13 DEF s, AllLowered, WholeSections

LEMMA NothingShown == Nothing = Shown(0, 0, 0, 0, <<>>, 0)
  <1> DEFINE s == [k \in ToSet(LowestFirst) |-> 0]
  <1>1. s \in Contents
    BY DEF Contents, Keys
  <1>2. s = Shown(0, 0, 0, 0, 0, 0)
    <2>1. s = [k \in {"web_results", "conversation_history", "session_snapshot",
                      "rag_chunks", "profile", "decision_log"} |-> 0]
      BY KeysAre DEF Keys
    <2> QED BY <2>1 DEF Shown
  <1>3. LowestFirst \in Seq(Keys) /\ Len(LowestFirst) = 6
    BY KeysAre
  <1> HIDE DEF s
  <1>4. PICK l : /\ l[0] = s
                 /\ \A k \in 0 .. 6 : k # 0 => l[k] = Without(l[k - 1], LowestFirst[k])
                 /\ FoldLeft(Without, s, LowestFirst) = l[6]
    <2>1. PICK q \in Seq(Keys) : q = LowestFirst
      BY <1>3
    <2>2. PICK l : /\ l[0] = s
                   /\ \A k \in 0 .. Len(q) : k # 0 => l[k] = Without(l[k - 1], q[k])
                   /\ FoldLeft(Without, s, q) = l[Len(q)]
      BY <1>1, LoweredInTurn
    <2>3. Len(q) = 6
      BY <1>3, <2>1
    <2> QED BY <2>1, <2>2, <2>3
  <1>5. /\ l[1] = Without(l[0], "web_results")
        /\ l[2] = Without(l[1], "conversation_history")
        /\ l[3] = Without(l[2], "session_snapshot")
        /\ l[4] = Without(l[3], "rag_chunks")
        /\ l[5] = Without(l[4], "profile")
        /\ l[6] = Without(l[5], "decision_log")
    BY <1>4, LowestFirstAre
  <1>6. l[1] = Shown(0, 0, 0, 0, 0, 0)
    BY <1>2, <1>4, <1>5, WithoutShown
  <1>7. l[2] = Shown(0, 0, 0, 0, <<>>, 0)
    BY <1>5, <1>6, WithoutShown
  <1>8. l[4] = Shown(0, 0, 0, 0, <<>>, 0)
    BY <1>5, <1>7, WithoutShown
  <1>9. l[6] = Shown(0, 0, 0, 0, <<>>, 0)
    BY <1>5, <1>8, WithoutShown
  <1> QED BY <1>4, <1>9 DEF Nothing, s

\* What the ranks allow to be kept, and its words.
LEMMA KeepingsAre ==
    ASSUME NEW d \in Nat, NEW f \in Nat, NEW r \in Nat, NEW p \in Nat, NEW w \in Nat, NEW h \in Seq(Nat)
    PROVE  Keepings(Shown(d, f, r, p, h, w)) =
               WholeSections(d, f, r, p, h, w)
               \cup {Shown(d, f, r, p, From(h, i), 0) : i \in DOMAIN h}
  <1> DEFINE s == Shown(d, f, r, p, h, w)
             ends == {[Lowered(s, 1) EXCEPT !.conversation_history = From(h, i)] : i \in DOMAIN h}
  <1>1. Keepings(s) = AllLowered(s) \cup ends
    <2>1. s.conversation_history = h
      BY DEF Shown
    <2> HIDE DEF s
    <2> QED BY <2>1 DEF Keepings, Lowered, AllLowered, From
  <1>2. AllLowered(s) = WholeSections(d, f, r, p, h, w)
    BY LoweredAre
  <1>3. ends = {Shown(d, f, r, p, From(h, i), 0) : i \in DOMAIN h}
    <2>1. Lowered(s, 1) = Shown(d, f, r, p, h, 0)
      BY LoweredAre
    <2>2. \A t : [Shown(d, f, r, p, h, 0) EXCEPT !.conversation_history = t] = Shown(d, f, r, p, t, 0)
      BY DEF Shown
    <2> HIDE DEF s
    <2> QED BY <2>1, <2>2
  <1> HIDE DEF ends
  <1> QED BY <1>1, <1>2, <1>3

\* The words of everything that may be kept.
WordsKept(d, f, r, p, h, w) ==
    /\ Total(h) \in Nat
    /\ Words(Shown(d, f, r, p, h, w)) = d + f + r + p + w + Total(h)
    /\ Words(Shown(d, f, r, p, h, 0)) = d + f + r + p + Total(h)
    /\ Words(Shown(d, f, r, p, <<>>, 0)) = d + f + r + p
    /\ Words(Shown(d, f, r, 0, <<>>, 0)) = d + f + r
    /\ Words(Shown(d, f, 0, 0, <<>>, 0)) = d + f
    /\ Words(Shown(d, 0, 0, 0, <<>>, 0)) = d
    /\ Words(Shown(0, 0, 0, 0, <<>>, 0)) = 0
    /\ \A i \in 1 .. (Len(h) + 1) :
          /\ Total(From(h, i)) \in Nat
          /\ Words(Shown(d, f, r, p, From(h, i), 0)) = d + f + r + p + Total(From(h, i))

LEMMA KeptWords ==
    ASSUME NEW d \in Nat, NEW f \in Nat, NEW r \in Nat, NEW p \in Nat, NEW w \in Nat, NEW h \in Seq(Nat)
    PROVE  WordsKept(d, f, r, p, h, w)
  <1> DEFINE e == <<>>
             z == 0
  <1>1. e \in Seq(Nat) /\ z \in Nat
    BY EmptySeq
  <1>2. Total(e) = z
    BY <1>1, TotalIsNat
  <1>3. \A n \in Nat : n + z = n
    OBVIOUS
  <1> HIDE DEF e, z
  <1>4. Words(Shown(d, f, r, p, h, w)) = d + f + r + p + w + Total(h)
    BY WordsOfShown
  <1>5. Total(h) \in Nat
    BY WordsOfShown
  <1>6. Words(Shown(d, f, r, p, h, z)) = d + f + r + p + Total(h)
    <2>1. Words(Shown(d, f, r, p, h, z)) = d + f + r + p + z + Total(h)
      BY <1>1, WordsOfShown
    <2> QED BY <1>3, <2>1
  <1>7. Words(Shown(d, f, r, p, e, z)) = d + f + r + p
    <2>1. Words(Shown(d, f, r, p, e, z)) = d + f + r + p + z + Total(e)
      BY <1>1, WordsOfShown
    <2> QED BY <1>2, <1>3, <2>1
  <1>8. Words(Shown(d, f, r, z, e, z)) = d + f + r
    <2>1. Words(Shown(d, f, r, z, e, z)) = d + f + r + z + z + Total(e)
      BY <1>1, WordsOfShown
    <2> QED BY <1>2, <1>3, <2>1
  <1>9. Words(Shown(d, f, z, z, e, z)) = d + f
    <2>1. Words(Shown(d, f, z, z, e, z)) = d + f + z + z + z + Total(e)
      BY <1>1, WordsOfShown
    <2> QED BY <1>2, <1>3, <2>1
  <1>10. ASSUME NEW a \in Nat PROVE Words(Shown(a, z, z, z, e, z)) = a
    <2>1. Words(Shown(a, z, z, z, e, z)) = a + z + z + z + z + Total(e)
      BY <1>1, WordsOfShown, SMTT(30)
    <2> QED BY <1>2, <1>3, <2>1
  <1>11. Words(Shown(d, z, z, z, e, z)) = d /\ Words(Shown(z, z, z, z, e, z)) = z
    BY <1>1, <1>10
  <1>12. ASSUME NEW t \in Seq(Nat)
         PROVE  Words(Shown(d, f, r, p, t, z)) = d + f + r + p + Total(t) /\ Total(t) \in Nat
    <2>1. Total(t) \in Nat
      BY TotalIsNat
    <2>2. Words(Shown(d, f, r, p, t, z)) = d + f + r + p + z + Total(t)
      BY <1>1, WordsOfShown
    <2> QED BY <1>3, <2>1, <2>2
  <1>13. \A i \in 1 .. (Len(h) + 1) : From(h, i) \in Seq(Nat)
    BY EndOfHistory
  <1> QED BY <1>4, <1>5, <1>6, <1>7, <1>8, <1>9, <1>11, <1>12, <1>13 DEF WordsKept, e, z

\* What the loop leaves is the best of what may be kept, whatever was offered and
\* whatever room there is: it all fits, or the web results go, or the history is
\* cut to its longest end, or the sections go from the lowest rank on.
THEOREM FittedIsBest ==
    ASSUME NEW s \in Sections, NEW room \in Int
    PROVE  /\ IsBest(Fitted(s, room), s, room)
           /\ \E i \in 1 .. (Len(s.conversation_history) + 1) :
                 Fitted(s, room).conversation_history = From(s.conversation_history, i)
  <1>1. PICK d \in Nat, f \in Nat, r \in Nat, p \in Nat, w \in Nat, h \in Seq(Nat) : s = Shown(d, f, r, p, h, w)
    BY SectionsAreShown
  <1> DEFINE c1 == Shown(d, f, r, p, h, 0)
             c2 == Shown(d, f, r, p, <<>>, 0)
             c3 == Shown(d, f, r, 0, <<>>, 0)
             c4 == Shown(d, f, 0, 0, <<>>, 0)
             c5 == Shown(d, 0, 0, 0, <<>>, 0)
             c6 == Shown(0, 0, 0, 0, <<>>, 0)
             end(i) == Shown(d, f, r, p, From(h, i), 0)
             W == d + f + r + p
             T(i) == Total(From(h, i))
             left == Fitted(s, room)
  <1>2. /\ Total(h) \in Nat
        /\ Words(s) = W + w + Total(h) /\ Words(c1) = W + Total(h)
        /\ Words(c2) = W /\ Words(c3) = d + f + r /\ Words(c4) = d + f /\ Words(c5) = d /\ Words(c6) = 0
        /\ \A i \in 1 .. (Len(h) + 1) : T(i) \in Nat /\ Words(end(i)) = W + T(i)
    <2>1. /\ Total(h) \in Nat
          /\ Words(Shown(d, f, r, p, h, w)) = d + f + r + p + w + Total(h)
          /\ Words(c1) = d + f + r + p + Total(h)
          /\ Words(c2) = d + f + r + p /\ Words(c3) = d + f + r /\ Words(c4) = d + f /\ Words(c5) = d /\ Words(c6) = 0
          /\ \A i \in 1 .. (Len(h) + 1) : T(i) \in Nat /\ Words(end(i)) = d + f + r + p + T(i)
      <3>1. WordsKept(d, f, r, p, h, w)
        BY KeptWords
      <3> QED BY <3>1 DEF WordsKept
    <2> HIDE DEF c1, c2, c3, c4, c5, c6, end, T
    <2> QED BY <1>1, <2>1
  <1>3. Keepings(s) = {s, c1, c2, c3, c4, c5, c6} \cup {end(i) : i \in DOMAIN h}
    BY <1>1, KeepingsAre DEF WholeSections
  <1>4. /\ s.conversation_history = h /\ c1.conversation_history = h
        /\ \A k \in {c2, c3, c4, c5, c6} : k.conversation_history = <<>>
        /\ \A i : end(i).conversation_history = From(h, i)
    BY <1>1 DEF Shown
  <1>5. /\ Len(h) \in Nat /\ DOMAIN h = 1 .. Len(h)
        /\ From(h, 1) = h /\ From(h, Len(h) + 1) = <<>>
    <2>1. Len(h) \in Nat /\ DOMAIN h = 1 .. Len(h)
      OBVIOUS
    <2>2. 1 \in 1 .. (Len(h) + 1) /\ Len(h) + 1 \in 1 .. (Len(h) + 1)
      BY <2>1
    <2> QED BY <2>1, <2>2, EndOfHistory
  <1>6. Nothing = c6
    BY NothingShown
  <1>7. /\ T(1) = Total(h) /\ T(Len(h) + 1) = 0 /\ end(1) = c1 /\ end(Len(h) + 1) = c2
    <2>1. T(1) = Total(h) /\ end(1) = c1 /\ end(Len(h) + 1) = c2
      BY <1>5
    <2>2. T(Len(h) + 1) = 0
      <3> DEFINE e == <<>>
      <3>1. e \in Seq(Nat)
        BY EmptySeq
      <3>2. Total(e) = 0
        BY <3>1, TotalIsNat
      <3> QED BY <1>5, <3>2
    <2> QED BY <2>1, <2>2
  \* The loop, turn by turn.
  <1>8. PICK l : /\ l[0] = s
                 /\ \A k \in 0 .. 6 : k # 0 => l[k] = Cut(l[k - 1], LowestFirst[k], room)
                 /\ left = l[6]
    <2> HIDE DEF left
    <2>1. PICK l : /\ l \in [0 .. 6 -> Sections] /\ l[0] = s
                   /\ \A k \in 0 .. 6 : k # 0 => l[k] = Cut(l[k - 1], LowestFirst[k], room)
                   /\ left = l[6]
      BY FittedInTurn DEF left
    <2> QED BY <2>1
  <1>9. /\ l[1] = Cut(s, "web_results", room)
        /\ l[2] = Cut(l[1], "conversation_history", room)
        /\ l[3] = Cut(l[2], "session_snapshot", room)
        /\ l[4] = Cut(l[3], "rag_chunks", room)
        /\ l[5] = Cut(l[4], "profile", room)
        /\ left = Cut(l[5], "decision_log", room)
    BY <1>8, LowestFirstAre
  <1>10. \A t, k : Words(t) <= room => Cut(t, k, room) = t
    BY DEF Cut
  <1>11. \A t, k : ~(Words(t) <= room) /\ k # "conversation_history" => Cut(t, k, room) = Without(t, k)
    BY DEF Cut
  <1>12. /\ Without(s, "web_results") = c1
         /\ Without(c2, "session_snapshot") = c3 /\ Without(c3, "rag_chunks") = c4
         /\ Without(c4, "profile") = c5 /\ Without(c5, "decision_log") = c6
    BY <1>1, WithoutShown
  <1>13. ~(Words(c1) <= room) => Cut(c1, "conversation_history", room) = Shown(d, f, r, p, Trim(h, room - W), 0)
    <2> DEFINE z == 0
    <2>1. z \in Nat /\ room - (d + f + r + p + z) = room - W
      OBVIOUS
    <2>2. "conversation_history" \in Keys
      BY KeysAre
    <2> HIDE DEF z, W
    <2>3. ~(Words(Shown(d, f, r, p, h, z)) <= room) =>
            Cut(Shown(d, f, r, p, h, z), "conversation_history", room)
              = Shown(d, f, r, p, Trim(h, room - (d + f + r + p + z)), z)
      BY <2>1, <2>2, CutShown, SMTT(30)
    <2> QED BY <2>1, <2>3 DEF z
  <1> DEFINE best(k) == /\ k \in Keepings(s) /\ Words(k) <= room
                        /\ \A j \in Keepings(s) : Words(j) <= room => Words(j) <= Words(k)
  <1>14. \A k : best(k) => IsBest(k, s, room)
    BY DEF IsBest
  <1>15. W \in Nat /\ d + f + r \in Nat /\ d + f \in Nat /\ d + f + r <= W /\ d + f <= d + f + r /\ d <= d + f
    OBVIOUS
  <1>16. \A j \in Keepings(s) : Words(j) <= Words(s)
    <2>1. \A i \in DOMAIN h : T(i) <= T(1)
      <3>1. \A i \in DOMAIN h : i \in 1 .. (Len(h) + 1) /\ 1 \in 1 .. (Len(h) + 1) /\ 1 <= i
        BY <1>5
      <3> QED BY <3>1, ShorterEnd
    <2> HIDE DEF c1, c2, c3, c4, c5, c6, end, W, T
    <2>2. \A i \in DOMAIN h : Words(end(i)) <= Words(s)
      <3> TAKE i \in DOMAIN h
      <3>1. /\ Words(end(i)) = W + T(i) /\ T(i) \in Nat /\ T(i) <= T(1) /\ T(1) \in Nat /\ T(1) = Total(h)
            /\ Words(s) = W + w + T(1)
        BY <1>2, <1>5, <1>7, <2>1
      <3> QED BY <1>15, <3>1
    <2>3. \A k \in {s, c1, c2, c3, c4, c5, c6} : Words(k) <= Words(s)
      BY <1>2, <1>15
    <2> QED BY <1>3, <2>2, <2>3
  <1> HIDE DEF c1, c2, c3, c4, c5, c6, end, W, T, left
  <1>17. CASE Words(s) <= room
    <2>1. left = s
      BY <1>9, <1>10, <1>17
    <2>2. best(s)
      BY <1>3, <1>16, <1>17
    <2>3. 1 \in 1 .. (Len(h) + 1)
      BY <1>5
    <2> QED BY <1>4, <1>5, <1>14, <2>1, <2>2, <2>3 DEF left
  <1>18. CASE ~(Words(s) <= room) /\ Words(c1) <= room
    <2>1. left = c1
      BY <1>9, <1>10, <1>11, <1>12, <1>18
    <2>2. best(c1)
      <3>1. \A i \in DOMAIN h : Words(end(i)) <= Words(c1)
        <4>1. \A i \in DOMAIN h : T(i) <= T(1)
          <5>1. \A i \in DOMAIN h : i \in 1 .. (Len(h) + 1) /\ 1 \in 1 .. (Len(h) + 1) /\ 1 <= i
            BY <1>5
          <5> QED BY <5>1, ShorterEnd DEF T
        <4> QED BY <1>2, <1>5, <1>7, <1>15, <4>1
      <3>2. \A k \in {c1, c2, c3, c4, c5, c6} : Words(k) <= Words(c1)
        BY <1>2, <1>15
      <3> QED BY <1>3, <1>18, <3>1, <3>2
    <2>3. 1 \in 1 .. (Len(h) + 1)
      BY <1>5
    <2> QED BY <1>4, <1>5, <1>14, <2>1, <2>2, <2>3 DEF left
  <1>19. CASE ~(Words(c1) <= room) /\ W <= room
    <2>1. ~(Words(s) <= room)
      BY <1>2, <1>15, <1>19
    <2>2. PICK i \in 1 .. (Len(h) + 1) :
             /\ Trim(h, room - W) = From(h, i) /\ T(i) <= room - W
             /\ \A j \in 1 .. (Len(h) + 1) : T(j) <= room - W => i <= j
      <3>1. room - W \in Int /\ room - W >= 0
        BY <1>15, <1>19
      <3> QED BY <3>1, TrimKeepsTheMost DEF T
    <2>3. Words(end(i)) = W + T(i) /\ Words(end(i)) <= room
      BY <1>2, <1>15, <2>2
    <2>4. left = end(i)
      <3>1. l[1] = c1
        BY <1>9, <1>11, <1>12, <2>1
      <3>2. l[2] = end(i)
        BY <1>9, <1>13, <1>19, <2>2, <3>1 DEF end
      <3> QED BY <1>9, <1>10, <2>3, <3>2
    <2>5. best(end(i))
      <3>1. end(i) \in Keepings(s)
        <4>1. CASE i = Len(h) + 1
          BY <1>3, <1>7, <4>1
        <4>2. CASE i # Len(h) + 1
          <5>1. i \in DOMAIN h
            BY <1>5, <4>2
          <5> QED BY <1>3, <5>1
        <4> QED BY <4>1, <4>2
      <3>2. ASSUME NEW j \in DOMAIN h, Words(end(j)) <= room PROVE Words(end(j)) <= Words(end(i))
        <4>1. j \in 1 .. (Len(h) + 1)
          BY <1>5
        <4>2. Words(end(j)) = W + T(j) /\ T(j) \in Nat /\ T(i) \in Nat
          BY <1>2, <4>1
        <4>3. T(j) <= room - W
          BY <1>15, <3>2, <4>2
        <4>4. i <= j
          BY <2>2, <4>1, <4>3
        <4>5. T(j) <= T(i)
          BY <4>1, <4>4, ShorterEnd DEF T
        <4> QED BY <1>15, <2>3, <4>2, <4>5
      <3>3. \A k \in {c2, c3, c4, c5, c6} : Words(k) <= Words(end(i))
        <4>1. T(i) \in Nat
          BY <1>2
        <4> QED BY <1>2, <1>15, <2>3, <4>1
      <3> QED BY <1>3, <1>19, <2>1, <2>3, <3>1, <3>2, <3>3
    <2> QED BY <1>4, <1>14, <2>4, <2>5 DEF left
  <1>20. CASE ~(W <= room)
    <2>1. ~(Words(s) <= room) /\ ~(Words(c1) <= room) /\ ~(Words(c2) <= room)
      BY <1>2, <1>15, <1>20
    <2>2. \A i \in DOMAIN h : ~(Words(end(i)) <= room)
      <3>1. \A i \in DOMAIN h : i \in 1 .. (Len(h) + 1)
        BY <1>5
      <3> QED BY <1>2, <1>15, <1>20, <3>1
    <2>3. Trim(h, room - W) = <<>>
      <3>1. room - W \in Int /\ room - W < 0
        BY <1>15, <1>20
      <3> QED BY <3>1, TrimKeepsTheMost
    <2>4. l[1] = c1
      BY <1>9, <1>11, <1>12, <2>1
    <2>5. l[2] = c2
      BY <1>9, <1>13, <2>1, <2>3, <2>4 DEF c2
    <2>6. l[3] = c3
      BY <1>9, <1>11, <1>12, <2>1, <2>5
    <2>7. ASSUME NEW k \in {c3, c4, c5, c6}, left = k, k = c6 \/ Words(k) <= room,
                 \A j \in Keepings(s) : Words(j) <= room => Words(j) <= Words(k)
          PROVE  IsBest(left, s, room) /\ left.conversation_history = From(h, Len(h) + 1)
      <3>1. k \in Keepings(s)
        BY <1>3
      <3>2. left.conversation_history = <<>>
        BY <1>4, <2>7
      <3>3. CASE Words(k) <= room
        BY <1>5, <1>14, <2>7, <3>1, <3>2, <3>3
      <3>4. CASE ~(Words(k) <= room)
        <4>1. k = c6 /\ left = Nothing /\ ~(0 <= room)
          BY <1>2, <1>6, <2>7, <3>4
        <4>2. \A j \in Keepings(s) : Words(j) <= room => Words(j) = 0
          <5>1. \A j \in Keepings(s) : Words(j) \in Nat
            <6>1. \A i \in DOMAIN h : i \in 1 .. (Len(h) + 1)
              BY <1>5
            <6>2. \A i \in DOMAIN h : Words(end(i)) \in Nat
              BY <1>2, <1>15, <6>1
            <6>3. \A j \in {s, c1, c2, c3, c4, c5, c6} : Words(j) \in Nat
              BY <1>2, <1>15
            <6> QED BY <1>3, <6>2, <6>3
          <5> QED BY <4>1, <5>1
        <4> QED BY <1>5, <3>2, <4>1, <4>2 DEF IsBest
      <3> QED BY <3>3, <3>4
    <2>8. \A j \in Keepings(s) : Words(j) <= room => j \in {c3, c4, c5, c6}
      BY <1>3, <2>1, <2>2
    <2>9. CASE Words(c3) <= room
      <3>1. left = c3
        BY <1>9, <1>10, <2>6, <2>9
      <3>2. \A j \in {c3, c4, c5, c6} : Words(j) <= Words(c3)
        BY <1>2, <1>15
      <3> QED BY <1>4, <1>5, <2>7, <2>8, <2>9, <3>1, <3>2 DEF left
    <2>10. CASE ~(Words(c3) <= room) /\ Words(c4) <= room
      <3>1. left = c4
        BY <1>9, <1>10, <1>11, <1>12, <2>6, <2>10
      <3>2. \A j \in {c4, c5, c6} : Words(j) <= Words(c4)
        BY <1>2, <1>15
      <3> QED BY <1>4, <1>5, <2>7, <2>8, <2>10, <3>1, <3>2 DEF left
    <2>11. CASE ~(Words(c3) <= room) /\ ~(Words(c4) <= room) /\ Words(c5) <= room
      <3>1. left = c5
        BY <1>9, <1>10, <1>11, <1>12, <2>6, <2>11
      <3>2. \A j \in {c5, c6} : Words(j) <= Words(c5)
        BY <1>2, <1>15
      <3> QED BY <1>4, <1>5, <2>7, <2>8, <2>11, <3>1, <3>2 DEF left
    <2>12. CASE ~(Words(c3) <= room) /\ ~(Words(c4) <= room) /\ ~(Words(c5) <= room)
      <3>1. left = c6
        BY <1>9, <1>11, <1>12, <2>6, <2>12
      <3> QED BY <1>2, <1>4, <1>5, <2>7, <2>8, <2>12, <3>1 DEF left
    <2> QED BY <2>9, <2>10, <2>11, <2>12
  <1> QED BY <1>17, <1>18, <1>19, <1>20

-----------------------------------------------------------------------------
(* What is offered                                                          *)

Budgets ==
    /\ Room \in Nat /\ SystemWords \in Nat /\ Heading \in Nat /\ HistoryWords \in Nat
    /\ SnapshotWords \in Nat \ {0} /\ ProfileWords \in Nat \ {0} /\ DecisionWords \in Nat \ {0}
    /\ RagWords \in Nat \ {0} /\ WebWords \in Nat \ {0}

LEMMA BudgetsAre == Budgets
  BY BudgetAssumption DEF Budgets

LEMMA SectionIsNat ==
    ASSUME NEW words \in Nat, NEW most \in Nat
    PROVE  Section(words, most) \in Nat /\ (words > 0 /\ most > 0 => Section(words, most) > 0)
  <1>1. Heading \in Nat
    BY BudgetsAre DEF Budgets
  <1> QED BY <1>1 DEF Section, Truncate

LEMMA ScaledIsNat ==
    ASSUME NEW gap \in Int
    PROVE  (SnapshotWords * Modifier(gap)) \div 2 \in Nat
  <1>1. SnapshotWords \in Nat
    BY BudgetsAre DEF Budgets
  <1>2. Modifier(gap) \in {0, 1, 2, 3}
    BY DEF Modifier
  <1>3. CASE Modifier(gap) = 0
    <2>1. SnapshotWords * 0 = 0 /\ 0 \div 2 \in Nat
      BY <1>1
    <2> QED BY <1>3, <2>1
  <1>4. CASE Modifier(gap) = 1
    <2>1. (SnapshotWords * 1) \div 2 \in Nat
      BY <1>1
    <2> QED BY <1>4, <2>1
  <1>5. CASE Modifier(gap) = 2
    <2>1. (SnapshotWords * 2) \div 2 \in Nat
      BY <1>1
    <2> QED BY <1>5, <2>1
  <1>6. CASE Modifier(gap) = 3
    <2>1. (SnapshotWords * 3) \div 2 \in Nat
      BY <1>1
    <2> QED BY <1>6, <2>1
  <1> QED BY <1>2, <1>3, <1>4, <1>5, <1>6

LEMMA SnapshotIsShown ==
    ASSUME NEW gap \in Int, NEW continuation, NEW h, NEW recap \in Nat
    PROVE  /\ Snapshot(recap, SnapshotBudget(Modifier(gap), continuation, h)) \in Nat
           /\ recap > 0 /\ h = <<>> => Snapshot(recap, SnapshotBudget(Modifier(gap), continuation, h)) > 0
  <1> DEFINE scaled == (SnapshotWords * Modifier(gap)) \div 2
             most == SnapshotBudget(Modifier(gap), continuation, h)
  <1>1. scaled \in Nat /\ SnapshotWords \in Nat \ {0}
    BY ScaledIsNat, BudgetsAre DEF Budgets
  <1>2. most = IF (continuation \/ h = <<>>) /\ scaled < SnapshotWords THEN SnapshotWords ELSE scaled
    BY DEF SnapshotBudget
  <1> HIDE DEF most, scaled
  <1>3. most \in Nat
    BY <1>1, <1>2
  <1>4. h = <<>> => most > 0
    BY <1>1, <1>2
  <1>5. Snapshot(recap, most) = IF most <= 0 THEN 0 ELSE Section(recap, most)
    BY DEF Snapshot
  <1>6. Section(recap, most) \in Nat /\ (recap > 0 /\ most > 0 => Section(recap, most) > 0)
    BY <1>3, SectionIsNat
  <1>7. Snapshot(recap, most) \in Nat /\ (recap > 0 /\ h = <<>> => Snapshot(recap, most) > 0)
    BY <1>3, <1>4, <1>5, <1>6
  <1> QED BY <1>7 DEF most

LEMMA DecisionsAreNat ==
    ASSUME NEW entries \in Seq(Nat)
    PROVE  Decisions(entries) \in Nat
  <1> DEFINE fits(n) == n = 1 \/ Heading + Total(SubSeq(entries, 1, n)) <= DecisionWords
             fit == {k \in DOMAIN entries : fits(k)}
             n == CHOOSE k \in DOMAIN entries : fits(k) /\ \A j \in DOMAIN entries : fits(j) => j <= k
  <1>1. Decisions(entries) = IF entries = <<>> THEN 0 ELSE Section(Total(SubSeq(entries, 1, n)), DecisionWords)
    BY DEF Decisions
  <1>2. DecisionWords \in Nat
    BY BudgetsAre DEF Budgets
  <1>3. CASE entries = <<>>
    BY <1>1, <1>3
  <1>4. CASE entries # <<>>
    <2>1. Len(entries) \in Nat /\ DOMAIN entries = 1 .. Len(entries) /\ 1 \in DOMAIN entries
      BY <1>4
    <2>2. fit \in SUBSET (1 .. Len(entries)) /\ fit # {}
      BY <2>1
    <2>3. Max(fit) \in fit /\ \A j \in fit : j <= Max(fit)
      <3> HIDE DEF fit
      <3> QED BY <2>1, <2>2, GreatestIn
    <2>4. \E k \in DOMAIN entries : fits(k) /\ \A j \in DOMAIN entries : fits(j) => j <= k
      <3> PICK k \in fit : \A j \in fit : j <= k
        BY <2>3
      <3> HIDE DEF fits
      <3> QED OBVIOUS
    <2>5. n \in DOMAIN entries
      <3> HIDE DEF fits
      <3> QED BY <2>4
    <2> HIDE DEF n
    <2>6. SubSeq(entries, 1, n) \in Seq(Nat)
      BY <2>1, <2>5
    <2>7. Total(SubSeq(entries, 1, n)) \in Nat
      BY <2>6, TotalIsNat
    <2>8. Section(Total(SubSeq(entries, 1, n)), DecisionWords) \in Nat
      BY <1>2, <2>7, SectionIsNat
    <2> QED BY <1>1, <1>4, <2>8
  <1> QED BY <1>3, <1>4

LEMMA OfferedIs ==
    ASSUME NEW in \in Inputs, NEW h \in Seq(Nat), NEW recap \in Nat
    PROVE  /\ Offered(in, h, recap) \in Sections
           /\ recap > 0 /\ h = <<>> => Offered(in, h, recap).session_snapshot > 0
           /\ \E i \in 1 .. (Len(h) + 1) : Offered(in, h, recap).conversation_history = From(h, i)
           /\ Room - SystemWords - in.message \in Int
  <1>1. /\ in.message \in Nat /\ in.decisions \in Seq(Nat) /\ in.rows \in Nat /\ in.rag \in Nat
        /\ in.web \in Nat /\ in.gap \in Int
    <2>1. in \in [message : Nat, decisions : Seq(Nat), rows : Nat, rag : Nat,
                  web : Nat, gap : Int, continuation : BOOLEAN]
      BY InputsAssumption
    <2> QED BY <2>1
  <1> DEFINE none == IF in.continuation /\ in.rows = 0 THEN 2 ELSE 0
             budget == SnapshotBudget(Modifier(in.gap), in.continuation, h)
             offered == Offered(in, h, recap)
  <1>2. Room \in Nat /\ SystemWords \in Nat /\ HistoryWords \in Nat /\ ProfileWords \in Nat /\ RagWords \in Nat /\ WebWords \in Nat
    BY BudgetsAre DEF Budgets
  <1>3. offered = [decision_log |-> Decisions(in.decisions), profile |-> Profile(in.rows, none),
                   rag_chunks |-> Section(in.rag, RagWords), session_snapshot |-> Snapshot(recap, budget),
                   conversation_history |-> Trim(h, HistoryWords), web_results |-> Section(in.web, WebWords)]
    BY DEF Offered
  <1>4. Decisions(in.decisions) \in Nat
    BY <1>1, DecisionsAreNat
  <1>5. Profile(in.rows, none) \in Nat
    <2>1. in.rows + none \in Nat
      BY <1>1
    <2> HIDE DEF none
    <2> QED BY <1>2, <2>1, SectionIsNat DEF Profile
  <1>6. Section(in.rag, RagWords) \in Nat /\ Section(in.web, WebWords) \in Nat
    BY <1>1, <1>2, SectionIsNat
  <1>7. Snapshot(recap, budget) \in Nat /\ (recap > 0 /\ h = <<>> => Snapshot(recap, budget) > 0)
    BY <1>1, SnapshotIsShown
  <1>8. HistoryWords \in Int
    BY <1>2
  <1>9. /\ Trim(h, HistoryWords) \in Seq(Nat)
        /\ \E i \in 1 .. (Len(h) + 1) : Trim(h, HistoryWords) = From(h, i)
    BY <1>8, TrimKeepsTheMost
  <1> HIDE DEF offered, budget, none
  <1>10. offered \in Sections
    BY <1>3, <1>4, <1>5, <1>6, <1>7, <1>9 DEF Sections
  <1>11. offered.session_snapshot = Snapshot(recap, budget) /\ offered.conversation_history = Trim(h, HistoryWords)
    BY <1>3
  <1>12. Room - SystemWords - in.message \in Int
    BY <1>1, <1>2
  <1> QED BY <1>7, <1>9, <1>10, <1>11, <1>12 DEF offered

\* An end of an end of a history is an end of it.
LEMMA EndIsSuffix ==
    ASSUME NEW h \in Seq(Nat), NEW i \in 1 .. (Len(h) + 1), NEW g, g = From(h, i),
           NEW j \in 1 .. (Len(g) + 1)
    PROVE  IsSuffix(From(g, j), h)
  <1> DEFINE s == From(g, j)
  <1>1. /\ g \in Seq(Nat) /\ Len(g) = Len(h) - i + 1 /\ \A k \in 1 .. Len(g) : g[k] = h[i + k - 1]
    BY EndOfHistory
  <1>2. /\ s \in Seq(Nat) /\ Len(s) = Len(g) - j + 1 /\ \A k \in 1 .. Len(s) : s[k] = g[j + k - 1]
    BY <1>1, EndOfHistory
  <1>3. Len(h) \in Nat /\ Len(s) \in Nat /\ Len(g) \in Nat
    BY <1>1, <1>2
  <1> HIDE DEF s
  <1>4. Len(s) <= Len(h)
    BY <1>1, <1>2, <1>3
  <1>5. ASSUME NEW k \in 1 .. Len(s) PROVE s[Len(s) - k + 1] = h[Len(h) - k + 1]
    <2>1. PICK m \in 1 .. Len(s) : m = Len(s) - k + 1
      <3>1. Len(s) - k + 1 \in 1 .. Len(s)
        BY <1>3
      <3> QED BY <3>1
    <2>2. PICK n \in 1 .. Len(g) : n = j + m - 1
      <3>1. j \in Nat /\ j >= 1 /\ m \in Nat /\ m >= 1 /\ m <= Len(g) - j + 1
        BY <1>2, <1>3
      <3>2. j + m - 1 \in 1 .. Len(g)
        BY <1>3, <3>1
      <3> QED BY <3>2
    <2>3. s[m] = g[n]
      BY <1>2, <2>2
    <2>4. g[n] = h[i + n - 1]
      BY <1>1
    <2>5. i + n - 1 = Len(h) - k + 1
      BY <1>1, <1>2, <1>3, <2>1, <2>2
    <2> QED BY <2>1, <2>3, <2>4, <2>5
  <1>6. /\ Reverse(s) = [k \in 1 .. Len(s) |-> s[Len(s) - k + 1]]
        /\ Reverse(h) = [k \in 1 .. Len(h) |-> h[Len(h) - k + 1]]
    BY DEF Reverse
  <1>7. /\ Reverse(s) \in Seq(Nat) /\ Len(Reverse(s)) = Len(s)
        /\ Reverse(h) \in Seq(Nat) /\ Len(Reverse(h)) = Len(h)
    BY <1>2, <1>6
  <1>8. \A k \in 1 .. Len(s) : Reverse(s)[k] = Reverse(h)[k]
    <2>1. \A k \in 1 .. Len(s) : k \in 1 .. Len(h)
      BY <1>3, <1>4
    <2> QED BY <1>5, <1>6, <2>1
  <1>9. SubSeq(Reverse(s), 1, Len(s)) = SubSeq(Reverse(h), 1, Len(s))
    BY <1>4, <1>7, <1>8
  <1>10. IsSuffix(s, h)
    BY <1>4, <1>7, <1>9 DEF IsSuffix, IsPrefix
  <1> QED BY <1>10 DEF s

-----------------------------------------------------------------------------
(* The prompt                                                               *)

LEMMA PromptAssembled ==
    ASSUME NEW in \in Inputs, NEW h \in Seq(Nat), NEW recap \in Nat,
           NEW room, room = Room - SystemWords - in.message
    PROVE  /\ IsBest(Assembled(in, h, recap), Offered(in, h, recap), room)
           /\ IsSuffix(Assembled(in, h, recap).conversation_history, h)
           /\ recap > 0 /\ h = <<>> => Offered(in, h, recap).session_snapshot > 0
  <1> DEFINE offered == Offered(in, h, recap)
             g == offered.conversation_history
  <1>1. /\ offered \in Sections /\ room \in Int
        /\ recap > 0 /\ h = <<>> => offered.session_snapshot > 0
        /\ \E i \in 1 .. (Len(h) + 1) : g = From(h, i)
    BY OfferedIs
  <1>2. Assembled(in, h, recap) = Fitted(offered, room)
    BY DEF Assembled
  <1> HIDE DEF offered
  <1>3. /\ IsBest(Fitted(offered, room), offered, room)
        /\ \E j \in 1 .. (Len(g) + 1) : Fitted(offered, room).conversation_history = From(g, j)
    BY <1>1, FittedIsBest
  <1> HIDE DEF g
  <1>4. PICK i \in 1 .. (Len(h) + 1) : g = From(h, i)
    BY <1>1
  <1>5. PICK j \in 1 .. (Len(g) + 1) : Fitted(offered, room).conversation_history = From(g, j)
    BY <1>3
  <1>6. IsSuffix(From(g, j), h)
    BY <1>4, EndIsSuffix
  <1> QED BY <1>1, <1>2, <1>3, <1>5, <1>6 DEF offered

LEMMA AskKeepsPrompt ==
    ASSUME TypeOK, Ask
    PROVE  PromptIsBest'
  <1>1. PICK in \in Inputs :
          LET recap == IF snapshot = None THEN 0 ELSE RecapWords
              offered == Offered(in, WordsOf(history), recap)
          IN  \E kept \in {Assembled(in, WordsOf(history), recap), Nothing} :
                 prompt' = [offered |-> offered, kept |-> kept,
                            recap |-> recap > 0, failed |-> kept # Assembled(in, WordsOf(history), recap),
                            room |-> Room - SystemWords - in.message]
    BY DEF Ask
  <1> DEFINE recap == IF snapshot = None THEN 0 ELSE RecapWords
             h == WordsOf(history)
             room == Room - SystemWords - in.message
  <1>2. history' = history
    BY DEF Ask, socket
  <1>3. recap \in Nat
    BY InputsAssumption
  <1>4. h \in Seq(Nat) /\ (history = <<>> => h = <<>>)
    <2>1. history \in Seq(Turn)
      BY DEF TypeOK
    <2>2. Len(history) \in Nat /\ \A k \in 1 .. Len(history) : history[k].words \in Nat
      <3>1. Len(history) \in Nat /\ \A k \in 1 .. Len(history) : history[k] \in Turn
        BY <2>1
      <3> QED BY <3>1 DEF Turn
    <2>3. h = [k \in 1 .. Len(history) |-> history[k].words]
      BY <2>1 DEF WordsOf
    <2> QED BY <2>1, <2>2, <2>3
  <1>5. PICK kept \in {Assembled(in, h, recap), Nothing} :
           prompt' = [offered |-> Offered(in, h, recap), kept |-> kept,
                      recap |-> recap > 0, failed |-> kept # Assembled(in, h, recap), room |-> room]
    BY <1>1
  <1> HIDE DEF recap, h
  <1>6. /\ IsBest(Assembled(in, h, recap), Offered(in, h, recap), room)
        /\ IsSuffix(Assembled(in, h, recap).conversation_history, h)
        /\ recap > 0 /\ h = <<>> => Offered(in, h, recap).session_snapshot > 0
    BY <1>3, <1>4, PromptAssembled
  <1> HIDE DEF room
  <1>7. /\ prompt'.offered = Offered(in, h, recap) /\ prompt'.kept = kept /\ prompt'.room = room
        /\ prompt'.recap = (recap > 0) /\ prompt'.failed = (kept # Assembled(in, h, recap))
    BY <1>5
  <1>8. WordsOf(history)' = h
    BY <1>2 DEF WordsOf, h
  <1>9. ASSUME ~prompt'.failed
        PROVE  /\ IsBest(prompt'.kept, prompt'.offered, prompt'.room)
               /\ IsSuffix(prompt'.kept.conversation_history, h)
               /\ prompt'.recap /\ history' = <<>> => prompt'.offered.session_snapshot > 0
    <2>1. kept = Assembled(in, h, recap)
      BY <1>7, <1>9
    <2> QED BY <1>2, <1>4, <1>6, <1>7, <2>1
  <1>10. PromptIsBest' = (prompt' # None /\ ~prompt'.failed =>
            /\ IsBest(prompt'.kept, prompt'.offered, prompt'.room)
            /\ IsSuffix(prompt'.kept.conversation_history, WordsOf(history)')
            /\ prompt'.recap /\ history' = <<>> => prompt'.offered.session_snapshot > 0)
    BY DEF PromptIsBest
  <1> QED BY <1>8, <1>9, <1>10

LEMMA StepKeepsPrompt == TypeOK /\ PromptIsBest /\ [Next]_vars => PromptIsBest'
  <1> SUFFICES ASSUME TypeOK, PromptIsBest, [Next]_vars PROVE PromptIsBest'
    OBVIOUS
  <1>1. CASE Ask
    BY <1>1, AskKeepsPrompt
  <1>2. CASE prompt' = None
    BY <1>2 DEF PromptIsBest
  <1>3. CASE prompt' = prompt /\ history' = history
    BY <1>3 DEF PromptIsBest, WordsOf
  <1>4. CASE OpenNew \/ Resume
    <2>1. ~open /\ prompt' = prompt
      BY <1>4 DEF OpenNew, Resume, Opened
    <2>2. prompt' = None
      BY <2>1 DEF TypeOK
    <2> QED BY <1>2, <2>2
  <1>5. CASE Start \/ Lock \/ List \/ Recover \/ RecoverMarks \/ DrainRuns \/ DrainCompletes
    BY <1>3, <1>5 DEF Start, Lock, List, Recover, RecoverMarks, DrainRuns, DrainCompletes, socket
  <1>6. CASE Observe \/ ClearSnapshot \/ UNCHANGED vars
    BY <1>3, <1>6 DEF Observe, ClearSnapshot, vars, socket
  <1>7. CASE Stop \/ Kill \/ Reply \/ Idle \/ Leave
    BY <1>2, <1>7 DEF Stop, Kill, Closed, Reply, Idle, Leave
  <1> QED BY <1>1, <1>4, <1>5, <1>6, <1>7 DEF Next

\* What a model is shown is the most that the ranks and the room allow: whatever
\* was said, found and configured, no section is kept while a higher one is cut,
\* nothing that would have fitted is left out, the history keeps its newest
\* messages, and a chat without a live history starts from the recap there is.
THEOREM PromptHolds == Spec => []PromptIsBest
  <1>1. Init => PromptIsBest
    BY DEF Init, PromptIsBest
  <1> QED BY <1>1, Typing, StepKeepsPrompt, PTL DEF Spec

=============================================================================
