------------------------- MODULE DocumentIndexProofs -------------------------
(***************************************************************************)
(* What DocumentIndex keeps for any number of threads, paths, contents,      *)
(* requests, edits, starts and failures: its types, an index that agrees     *)
(* with the registry, bytes that were indexed; and what a start that nothing *)
(* disturbs repairs, where the profile's directory is inside the root.       *)
(***************************************************************************)
EXTENDS DocumentIndex, FiniteSetTheorems, TLAPS

-----------------------------------------------------------------------------
(* The invariants                                                           *)

Working == IngestStep \cup DeleteStep
Reading == {"clear", "embed", "record", "store"}
Holding == Reading \cup {"unindex", "remove"}

\* What a thread may be about, and what it has looked up by then.
Shape ==
    /\ \A t \in Thread :
         /\ thread[t].step \in Working => On(t) \in Path
         /\ thread[t].step \in Reading => thread[t].content \in Content /\ Inside(On(t))
         /\ thread[t].step \in {"clear", "store", "unindex", "remove"} => thread[t].existing # 0
    /\ \A t \in Worker : thread[t].step \notin CatchUpStep
    /\ thread[CatchUp].step \notin DeleteStep
    /\ ~up => moved = <<>> /\ \A t \in Thread : At(t, "idle")

TypeInv == TypeOK /\ Shape

\* One active row of a path, in the tables and in the open transaction.
KeyInv ==
    /\ \A i, j \in DOMAIN registry :
         registry[i].active /\ registry[j].active /\ i # j =>
           /\ registry[i].path # registry[j].path
           /\ PathNow(i) # PathNow(j)
    /\ \A i \in DOMAIN moved : moved[i][2] = registry[i].path[2]

\* Two at work on one path are known, and so is a thread whose row has been
\* given another path under it.
PutBackOver == thread[CatchUp].step \notin {"check", "putBack"}
Mixed == astray \cap torn
Alone == \A t, u \in Thread, p \in Path :
    WorksOn(t, p) /\ WorksOn(u, p) /\ t # u => p \in Mixed
HoldsRow == \A t \in Thread :
    thread[t].step \in Holding /\ thread[t].existing # 0 =>
      LET i == thread[t].existing IN
      /\ i \in DOMAIN registry
      /\ \/ registry[i].path = On(t)
         \/ PutBackOver /\ On(t) \in Mixed /\ registry[i].path \in Mixed
TouchInv == Alone /\ HoldsRow

\* A step of an ingest or a deletion leaves the chunks of its path as
\* IndexAgrees wants them, or so that its next step does.
Agrees(p) == index[p] = Empty \/ AsRecorded(p)
KnowsRow(t) == IF thread[t].existing = 0 THEN ~Registered(On(t))
          ELSE thread[t].existing \in DOMAIN registry /\ ActiveAt(thread[t].existing, On(t))
Whole(t) == index[On(t)] = ChunksOf(thread[t].content)
Recorded(t) == registry[thread[t].existing].content = thread[t].content
StepAgrees(t) ==
    /\ thread[t].step \in Holding => KnowsRow(t)
    /\ thread[t].step \in {"read", "find", "clear", "unindex"} => Agrees(On(t))
    /\ thread[t].step \in {"embed", "remove"} => index[On(t)] = Empty
    /\ thread[t].step \in {"record", "store"} => Whole(t)
    /\ At(t, "store") => Recorded(t)
IndexInv ==
    /\ \A t \in Thread : thread[t].step \in Working /\ On(t) \notin astray => StepAgrees(t)
    /\ \A p \in Path : ~Busy(p) /\ p \notin astray => Agrees(p)

\* The file is still the one that was read; only a row whose new bytes are
\* about to be stored has other bytes than its content.
Storing(t, i) == At(t, "store") /\ thread[t].existing = i /\ On(t) = registry[i].path
BytesInv ==
    /\ \A t \in Thread : thread[t].step \in Reading /\ On(t) \notin torn =>
         /\ file[On(t)] = thread[t].content
         /\ At(t, "store") => Recorded(t)
    /\ \A i \in DOMAIN registry : registry[i].active /\ registry[i].path \notin torn =>
         registry[i].bytes = registry[i].content \/ \E t \in Thread : Storing(t, i)

\* A start that nothing disturbs.
OwnDirIsInside == OwnDir \in {"root", "sub"}
Quiet == calm /\ NamesDiffer
HomeInside ==
    /\ \A i \in DOMAIN registry : Inside(registry[i].path)
    /\ \A i \in DOMAIN moved : Inside(moved[i])
NobodyElse == calm => \A t \in Worker : At(t, "idle")
HasFile(i, p) == registry[i].active /\ registry[i].bytes # None => file[p] # None
PuttingBack == calm /\ At(CatchUp, "putBack") =>
    /\ Len(moved) = Len(registry)
    /\ thread[CatchUp].existing > 0 /\ thread[CatchUp].force
    /\ \A i \in DOMAIN registry : i < thread[CatchUp].existing => HasFile(i, moved[i])
Found(i) == LET p == registry[i].path IN
    registry[i].active => \/ p \in todo \/ file[p] = None \/ WorksOn(CatchUp, p)
                          \/ /\ file[p] = registry[i].content
                             /\ index[p] = ChunksOf(file[p])
AllFound ==
    /\ \A p \in todo : Registered(p)
    /\ \A i \in DOMAIN registry : HasFile(i, registry[i].path) /\ Found(i)
InRebuild ==
    \/ thread[CatchUp].step \in IngestStep \cup {"next"}
    \/ At(CatchUp, "done") /\ thread[CatchUp].force
CatchUpWork ==
    /\ thread[CatchUp].step \in IngestStep =>
         thread[CatchUp].force /\ Registered(On(CatchUp)) /\ file[On(CatchUp)] # None
    /\ thread[CatchUp].step \in Reading =>
         /\ thread[CatchUp].existing # 0 /\ KnowsRow(CatchUp)
         /\ file[On(CatchUp)] = thread[CatchUp].content
    /\ At(CatchUp, "embed") => index[On(CatchUp)] = Empty
    /\ thread[CatchUp].step \in {"record", "store"} => Whole(CatchUp)
    /\ At(CatchUp, "store") => Recorded(CatchUp)
Rebuilding == Quiet =>
    /\ At(CatchUp, "check") => ~thread[CatchUp].force
    /\ At(CatchUp, "done") /\ thread[CatchUp].force => todo = {}
    /\ InRebuild => AllFound
    /\ CatchUpWork
NothingDrifted == calm /\ At(CatchUp, "done") /\ ~thread[CatchUp].force =>
    \A i \in DOMAIN registry : registry[i].active =>
      Indexed(registry[i].path) = Chunks[registry[i].content]
StartInv == HomeInside /\ NobodyElse /\ PuttingBack /\ Rebuilding /\ NothingDrifted

-----------------------------------------------------------------------------
(* Types                                                                    *)

LEMMA Paths ==
    /\ Path \subseteq STRING \X Nat
    /\ \A p \in Path : <<OwnDir, p[2]>> \in Path
    /\ \A p \in Path : p[2] \in Nat
  <1>1. /\ Path \subseteq STRING \X Nat
        /\ \A p \in Path : <<OwnDir, p[2]>> \in Path
    BY PathAssumption, Zenon
  <1> QED BY <1>1, SMT

\* Facts of the types, in the form the provers use best.
LEMMA Kinds ==
    ASSUME TypeOK
    PROVE  /\ \A t \in Thread : thread[t] \in Stage
           /\ \A i \in DOMAIN registry : i \in Nat /\ i # 0 /\ registry[i] \in Row
           /\ \A i \in DOMAIN moved : i \in DOMAIN registry /\ moved[i] \in Path
           /\ CatchUp \in Thread /\ CatchUp \notin Worker
  <1>1. CatchUp \in Thread /\ CatchUp \notin Worker
    BY CatchUpIsNoWorker, Zenon DEF Thread
  <1>2. /\ \A i \in DOMAIN registry : i \in Nat /\ i # 0 /\ registry[i] \in Row
        /\ \A i \in DOMAIN moved : i \in DOMAIN registry /\ moved[i] \in Path
    BY DEF TypeOK
  <1> QED BY <1>1, <1>2 DEF TypeOK

LEMMA IdleIsAStage == Idle \in Stage
  BY DEF Idle, Stage, IngestStep, DeleteStep, CatchUpStep

LEMMA InitTypes == Init => TypeInv
  <1> SUFFICES ASSUME Init PROVE TypeInv
    OBVIOUS
  <1>1. TypeOK
    <2>1. thread \in [Thread -> Stage]
      BY IdleIsAStage DEF Init
    <2>2. index \in [Path -> [1 .. MaxChunk -> Content \cup {None}]]
      <3> DEFINE Chunked == [1 .. MaxChunk -> Content \cup {None}]
      <3>1. Empty \in Chunked
        BY DEF Empty
      <3>2. index = [p \in Path |-> Empty]
        BY DEF Init
      <3> HIDE DEF Chunked
      <3>3. index \in [Path -> Chunked]
        BY <3>1, <3>2
      <3> QED BY <3>3 DEF Chunked
    <2>3. /\ file \in [Path -> Content \cup {None}]
          /\ registry \in Seq(Row)
          /\ moved \in Seq(Path) /\ Len(moved) <= Len(registry)
      BY DEF Init
    <2>4. todo \subseteq Path /\ astray \subseteq Path /\ torn \subseteq Path
      BY DEF Init
    <2>5. up \in BOOLEAN /\ calm \in BOOLEAN
      BY DEF Init
    <2>6. {requests, edits, starts, fails} \subseteq Nat
      BY DEF Init
    <2> QED BY <2>1, <2>2, <2>3, <2>4, <2>5, <2>6 DEF TypeOK
  <1>2. Shape
    BY CatchUpIsNoWorker DEF Init, Shape, Thread, Idle, At, Working, Reading, IngestStep,
       DeleteStep, CatchUpStep
  <1> QED BY <1>1, <1>2 DEF TypeInv

\* What an action does to the tables, to the index and to the threads, each by
\* itself, keeps the type.
LEMMA BackfilledTypes ==
    ASSUME TypeOK
    PROVE  /\ Backfilled \in Seq(Row) /\ Len(Backfilled) = Len(registry)
           /\ \A i \in DOMAIN registry :
                /\ Backfilled[i].path = registry[i].path
                /\ Backfilled[i].active = registry[i].active
                /\ Backfilled[i].content = registry[i].content
                /\ \/ Backfilled[i].bytes = registry[i].bytes
                   \/ /\ registry[i].active /\ registry[i].bytes = None
                      /\ Backfilled[i].bytes = file[registry[i].path]
  <1> DEFINE B(i) == IF registry[i].active /\ registry[i].bytes = None
                       THEN [registry[i] EXCEPT !.bytes = file[registry[i].path]]
                       ELSE registry[i]
  <1>1. ASSUME NEW i \in DOMAIN registry
        PROVE  /\ B(i) \in Row
               /\ B(i).path = registry[i].path /\ B(i).active = registry[i].active
               /\ B(i).content = registry[i].content
               /\ \/ B(i).bytes = registry[i].bytes
                  \/ /\ registry[i].active /\ registry[i].bytes = None
                     /\ B(i).bytes = file[registry[i].path]
    <2>1. registry[i] \in Row
      BY Kinds
    <2>2. file[registry[i].path] \in Content \cup {None}
      BY <2>1 DEF TypeOK, Row
    <2> QED BY <2>1, <2>2 DEF Row
  <1>2. Backfilled = [i \in 1 .. Len(registry) |-> B(i)]
    BY DEF Backfilled, TypeOK
  <1> HIDE DEF B
  <1> QED BY <1>1, <1>2 DEF TypeOK

LEMMA ThreadTypes ==
    ASSUME TypeOK, NEW t \in Thread, NEW x \in Stage
    PROVE  [thread EXCEPT ![t] = x] \in [Thread -> Stage]
  BY DEF TypeOK

LEMMA GoesTypes ==
    ASSUME TypeOK, NEW t \in Thread,
           NEW s \in {"idle"} \cup IngestStep \cup DeleteStep \cup CatchUpStep, Goes(t, s)
    PROVE  /\ thread' \in [Thread -> Stage]
           /\ thread'[t].step = s /\ thread'[t].path = On(t)
           /\ thread'[t].content = thread[t].content
           /\ thread'[t].existing = thread[t].existing
           /\ thread'[t].force = thread[t].force
           /\ \A u \in Thread \ {t} : thread'[u] = thread[u]
  <1>1. [thread[t] EXCEPT !.step = s] \in Stage
    BY DEF TypeOK, Stage
  <1> QED BY <1>1 DEF TypeOK, Goes, Stage, On

LEMMA LeavesTypes ==
    ASSUME TypeOK, NEW t \in Thread, Leaves(t)
    PROVE  /\ thread' \in [Thread -> Stage]
           /\ thread'[t].step = IF t = CatchUp THEN "next" ELSE "idle"
           /\ thread'[t].existing = 0
           /\ ~thread'[t].force
           /\ \A u \in Thread \ {t} : thread'[u] = thread[u]
  <1>1. IF t = CatchUp THEN [Idle EXCEPT !.step = "next"] \in Stage ELSE Idle \in Stage
    BY IdleIsAStage DEF Idle, Stage, CatchUpStep
  <1>2. thread' = [thread EXCEPT ![t] = IF t = CatchUp THEN [Idle EXCEPT !.step = "next"] ELSE Idle]
    BY DEF Leaves
  <1> QED BY <1>1, <1>2 DEF TypeOK, Idle

\* Whoever is not idle is in a backend that runs.
LEMMA UpIsUp ==
    ASSUME TypeInv, NEW t \in Thread, ~At(t, "idle")
    PROVE  up = TRUE
  BY DEF TypeInv, TypeOK, Shape

\* Shape is about threads one by one.
LEMMA ShapeKept ==
    ASSUME TypeInv, NEW t \in Thread, up' = up, up = TRUE,
           \A u \in Thread \ {t} : thread'[u] = thread[u],
           thread'[t].step \in Working => thread'[t].path \in Path,
           thread'[t].step \in Reading =>
             thread'[t].content \in Content /\ Inside(thread'[t].path),
           thread'[t].step \in {"clear", "store", "unindex", "remove"} => thread'[t].existing # 0,
           t \in Worker => thread'[t].step \notin CatchUpStep,
           t = CatchUp => thread'[t].step \notin DeleteStep
    PROVE  Shape'
  <1>1. /\ Shape /\ CatchUp \in Thread /\ CatchUp \notin Worker /\ Worker \subseteq Thread
    BY Kinds DEF TypeInv, Thread
  <1>2. ASSUME NEW u \in Thread
        PROVE  /\ thread'[u].step \in Working => thread'[u].path \in Path
               /\ thread'[u].step \in Reading =>
                    thread'[u].content \in Content /\ Inside(thread'[u].path)
               /\ thread'[u].step \in {"clear", "store", "unindex", "remove"} =>
                    thread'[u].existing # 0
               /\ u \in Worker => thread'[u].step \notin CatchUpStep
               /\ u = CatchUp => thread'[u].step \notin DeleteStep
    <2>1. CASE u = t
      BY <2>1, <1>1
    <2>2. CASE u # t
      BY <2>2, <1>1 DEF Shape, On
    <2> QED BY <2>1, <2>2
  <1> QED BY <1>1, <1>2 DEF Shape, On, Inside

\* A step to s of a thread that goes on with what it has.
LEMMA GoesShape ==
    ASSUME TypeInv, NEW t \in Thread, ~At(t, "idle"), up' = up,
           NEW s \in {"idle"} \cup IngestStep \cup DeleteStep \cup CatchUpStep, Goes(t, s),
           s \in Working => thread[t].step \in Working,
           s \in Reading => thread[t].step \in Reading,
           s \in {"clear", "store", "unindex", "remove"} => thread[t].existing # 0,
           t \in Worker => s \notin CatchUpStep,
           t = CatchUp => s \notin DeleteStep
    PROVE  Shape'
  <1>1. Shape /\ TypeOK /\ up = TRUE
    BY UpIsUp DEF TypeInv
  <1>2. /\ thread'[t].step = s /\ thread'[t].path = On(t)
        /\ thread'[t].content = thread[t].content
        /\ thread'[t].existing = thread[t].existing
        /\ \A u \in Thread \ {t} : thread'[u] = thread[u]
    BY <1>1, GoesTypes
  <1>3. /\ thread[t].step \in Working => On(t) \in Path
        /\ thread[t].step \in Reading => thread[t].content \in Content /\ Inside(On(t))
    BY <1>1 DEF Shape
  <1> QED BY <1>1, <1>2, <1>3, ShapeKept

LEMMA LeavesShape ==
    ASSUME TypeInv, NEW t \in Thread, ~At(t, "idle"), up' = up, Leaves(t)
    PROVE  Shape'
  <1>1. Shape /\ TypeOK /\ up = TRUE
    BY UpIsUp DEF TypeInv
  <1>2. /\ thread'[t].step = IF t = CatchUp THEN "next" ELSE "idle"
        /\ \A u \in Thread \ {t} : thread'[u] = thread[u]
    BY <1>1, LeavesTypes
  <1>3. CatchUp \notin Worker
    BY CatchUpIsNoWorker
  <1> QED
    BY <1>1, <1>2, <1>3, ShapeKept DEF Working, Reading, IngestStep, DeleteStep, CatchUpStep

\* An action that touches the threads, the registry and the index only.
LEMMA TypesKept ==
    ASSUME TypeOK, thread' \in [Thread -> Stage], registry' \in Seq(Row),
           Len(registry') >= Len(registry),
           index' \in [Path -> [1 .. MaxChunk -> Content \cup {None}]],
           UNCHANGED <<file, moved, todo, up, history, counters>>
    PROVE  TypeOK'
  <1>1. /\ file \in [Path -> Content \cup {None}]
        /\ moved \in Seq(Path) /\ Len(moved) <= Len(registry)
        /\ Len(registry) \in Nat /\ Len(registry') \in Nat /\ Len(moved) \in Nat
        /\ todo \subseteq Path /\ astray \subseteq Path /\ torn \subseteq Path
        /\ up \in BOOLEAN /\ calm \in BOOLEAN
        /\ {requests, edits, starts, fails} \subseteq Nat
    BY DEF TypeOK
  <1>2. /\ file' = file /\ moved' = moved /\ todo' = todo /\ up' = up
        /\ astray' = astray /\ torn' = torn /\ calm' = calm
        /\ requests' = requests /\ edits' = edits /\ starts' = starts /\ fails' = fails
    BY DEF history, counters
  <1>3. Len(moved) <= Len(registry')
    BY <1>1
  <1> QED BY <1>1, <1>2, <1>3 DEF TypeOK

LEMMA ThreadOnly ==
    ASSUME TypeOK, thread' \in [Thread -> Stage],
           UNCHANGED <<file, tables, index, todo, up, history, counters>>
    PROVE  TypeOK'
  BY TypesKept DEF TypeOK, tables

LEMMA IndexOnly ==
    ASSUME TypeOK, thread' \in [Thread -> Stage],
           index' \in [Path -> [1 .. MaxChunk -> Content \cup {None}]],
           UNCHANGED <<file, tables, todo, up, history, counters>>
    PROVE  TypeOK'
  BY TypesKept DEF TypeOK, tables

LEMMA RegistryOnly ==
    ASSUME TypeOK, thread' \in [Thread -> Stage], registry' \in Seq(Row),
           Len(registry') >= Len(registry),
           UNCHANGED <<file, moved, index, todo, up, history, counters>>
    PROVE  TypeOK'
  BY TypesKept DEF TypeOK

LEMMA RowTypes ==
    ASSUME TypeOK, NEW i, NEW r, i \in DOMAIN registry => r \in Row
    PROVE  /\ [registry EXCEPT ![i] = r] \in Seq(Row)
           /\ Len([registry EXCEPT ![i] = r]) = Len(registry)
  <1>1. registry \in [1 .. Len(registry) -> Row] /\ Len(registry) \in Nat
    BY DEF TypeOK
  <1>2. [registry EXCEPT ![i] = r] \in [1 .. Len(registry) -> Row]
    BY <1>1
  <1> QED BY <1>1, <1>2

LEMMA RowChanged ==
    ASSUME TypeOK, NEW i, NEW r, i \in DOMAIN registry => r \in Row,
           registry' = [registry EXCEPT ![i] = r]
    PROVE  /\ registry' \in Seq(Row)
           /\ Len(registry') = Len(registry) /\ Len(registry') >= Len(registry)
           /\ DOMAIN registry' = DOMAIN registry
           /\ \A j \in DOMAIN registry : registry'[j] = IF j = i THEN r ELSE registry[j]
  <1>1. Len(registry) \in Nat
    BY DEF TypeOK
  <1>2. /\ [registry EXCEPT ![i] = r] \in Seq(Row)
        /\ Len([registry EXCEPT ![i] = r]) = Len(registry)
    BY RowTypes
  <1> QED BY <1>1, <1>2

LEMMA EmptyTypes == Empty \in [1 .. MaxChunk -> Content \cup {None}]
  BY DEF Empty

LEMMA IndexTypes ==
    ASSUME TypeOK, NEW p \in Path, NEW x \in [1 .. MaxChunk -> Content \cup {None}]
    PROVE  [index EXCEPT ![p] = x] \in [Path -> [1 .. MaxChunk -> Content \cup {None}]]
  BY DEF TypeOK

LEMMA OpensTypes ==
    ASSUME TypeInv, NEW t \in Worker, NEW p \in Path, NEW s \in {"read", "find"}, Opens(t, s, p),
           file' \in [Path -> Content \cup {None}]
    PROVE  TypeInv'
  <1> DEFINE x == [Idle EXCEPT !.step = s, !.path = p]
  <1>1. TypeOK /\ t \in Thread /\ t # CatchUp
    BY CatchUpIsNoWorker DEF TypeInv, Thread
  <1>2. x \in Stage /\ x.step = s /\ x.path = p
    BY DEF Stage, Idle, IngestStep, DeleteStep
  <1>3. thread' = [thread EXCEPT ![t] = x] /\ up = TRUE /\ up' = up
    BY <1>1 DEF Opens, TypeOK
  <1> HIDE DEF x
  <1>4. thread' \in [Thread -> Stage]
    BY <1>1, <1>2, <1>3, ThreadTypes
  <1>5. Shape'
    <2>1. thread'[t] = x /\ \A u \in Thread \ {t} : thread'[u] = thread[u]
      BY <1>1, <1>3 DEF TypeOK
    <2>2. s \notin Reading /\ s \notin {"clear", "store", "unindex", "remove"} /\ s \notin CatchUpStep
      BY DEF Reading, CatchUpStep
    <2> QED BY <2>1, <2>2, <1>1, <1>2, <1>3, ShapeKept
  <1>6. TypeOK'
    <2>1. registry' \in Seq(Row) /\ Len(registry') = Len(registry)
      BY <1>1, BackfilledTypes DEF Opens
    <2>2. /\ moved' = moved /\ index' = index /\ todo' = todo
          /\ astray' \in {astray, astray \cup {p}} /\ torn' \in {torn, torn \cup {p}}
          /\ calm' = FALSE
          /\ requests' = requests + 1 /\ edits' = edits /\ starts' = starts /\ fails' = fails
      BY DEF Opens
    <2>3. {requests, edits, starts, fails}' \subseteq Nat
      BY <1>1, <2>2 DEF TypeOK
    <2> QED BY <1>1, <1>3, <1>4, <2>1, <2>2, <2>3 DEF TypeOK
  <1> QED BY <1>5, <1>6 DEF TypeInv

LEMMA AskTypes ==
    ASSUME TypeInv, NEW t \in Worker, NEW p \in Path,
           AskIngest(t, p) \/ AskDelete(t, p) \/ \E c \in Content : Upload(t, p, c)
    PROVE  TypeInv'
  <1>1. file' \in [Path -> Content \cup {None}]
    BY DEF AskIngest, AskDelete, Upload, TypeInv, TypeOK
  <1> QED BY <1>1, OpensTypes DEF AskIngest, AskDelete, Upload

LEMMA ReadTypes ==
    ASSUME TypeInv, NEW t \in Thread, Read(t)
    PROVE  TypeInv'
  <1>1. /\ TypeOK /\ Shape /\ ~At(t, "idle") /\ up' = up /\ up = TRUE /\ On(t) \in Path
        /\ thread[t] \in Stage
    BY UpIsUp, Kinds DEF TypeInv, Shape, Read, At, Working, IngestStep
  <1>0. UNCHANGED <<file, tables, index, todo, up, history, counters>>
    BY DEF Read
  <1>2. CASE Leaves(t)
    <2>1. thread' \in [Thread -> Stage] /\ Shape'
      <3>1. thread' \in [Thread -> Stage]
        BY <1>1, <1>2, LeavesTypes
      <3>2. Shape'
        BY <1>1, <1>2, LeavesShape
      <3> QED BY <3>1, <3>2
    <2> QED BY <2>1, <1>0, <1>1, ThreadOnly DEF TypeInv
  <1>3. ASSUME NEW s \in {"embed", "clear"}, NEW i \in Nat, s = "clear" => i # 0,
               Inside(On(t)), file[On(t)] # None,
               thread' = [thread EXCEPT
                 ![t] = [@ EXCEPT !.step = s, !.content = file[On(t)], !.existing = i]]
        PROVE  TypeInv'
    <2> DEFINE x == [thread[t] EXCEPT !.step = s, !.content = file[On(t)], !.existing = i]
    <2>1. file[On(t)] \in Content
      BY <1>1, <1>3 DEF TypeOK
    <2>2. /\ x \in Stage /\ x.step = s /\ x.path = On(t)
          /\ x.content = file[On(t)] /\ x.existing = i
      BY <1>1, <2>1 DEF Stage, On, IngestStep
    <2>3. thread' = [thread EXCEPT ![t] = x]
      BY <1>3
    <2> HIDE DEF x
    <2>4. /\ thread' \in [Thread -> Stage] /\ thread'[t] = x
          /\ \A u \in Thread \ {t} : thread'[u] = thread[u]
      BY <1>1, <2>2, <2>3 DEF TypeOK
    <2>5. Shape'
      <3>1. s \notin CatchUpStep /\ s \notin DeleteStep /\ s \notin {"store", "unindex", "remove"}
        BY DEF CatchUpStep, DeleteStep
      <3>2. /\ thread'[t].path \in Path
            /\ thread'[t].content \in Content /\ Inside(thread'[t].path)
        BY <1>1, <1>3, <2>1, <2>2, <2>4
      <3>3. thread'[t].step = s /\ (thread'[t].step \in {"clear", "store", "unindex", "remove"} => thread'[t].existing # 0)
        BY <1>3, <2>2, <2>4, <3>1
      <3> QED BY <1>1, <2>4, <3>1, <3>2, <3>3, ShapeKept
    <2> QED BY <2>4, <2>5, <1>0, <1>1, ThreadOnly DEF TypeInv
  <1>4. \/ Leaves(t)
        \/ \E s \in {"embed", "clear"}, i \in Nat :
             /\ s = "clear" => i # 0
             /\ Inside(On(t)) /\ file[On(t)] # None
             /\ thread' = [thread EXCEPT
                  ![t] = [@ EXCEPT !.step = s, !.content = file[On(t)], !.existing = i]]
    BY <1>1, Kinds DEF Read
  <1> QED BY <1>2, <1>3, <1>4

LEMMA IndexingTypes ==
    ASSUME TypeInv, NEW t \in Thread,
           Clear(t) \/ Embed(t) \/ (t \in Worker /\ Unindex(t))
    PROVE  TypeInv'
  <1>1. TypeOK /\ Shape /\ thread[t] \in Stage
    BY Kinds DEF TypeInv
  <1>2. PICK s \in {"embed", "record", "remove"} :
          /\ Goes(t, s)
          /\ thread[t].step \in Working /\ ~At(t, "idle")
          /\ s # "remove" => thread[t].step \in Reading
          /\ s = "remove" => t # CatchUp /\ thread[t].existing # 0
          /\ UNCHANGED <<file, tables, todo, up, history, counters>>
    <2>1. CASE Clear(t)
      BY <2>1 DEF Clear, At, Working, Reading, IngestStep
    <2>2. CASE Embed(t)
      BY <2>2 DEF Embed, At, Working, Reading, IngestStep
    <2>3. CASE t \in Worker /\ Unindex(t)
      BY <2>3, <1>1, CatchUpIsNoWorker DEF Unindex, At, Working, DeleteStep, Shape
    <2> QED BY <2>1, <2>2, <2>3
  <1>3. s \in {"idle"} \cup IngestStep \cup DeleteStep \cup CatchUpStep /\ s \notin CatchUpStep
    BY DEF IngestStep, DeleteStep, CatchUpStep
  <1>4. thread' \in [Thread -> Stage]
    BY <1>1, <1>2, <1>3, GoesTypes
  <1>5. Shape'
    <2>1. s \in DeleteStep => s = "remove"
      BY DEF DeleteStep
    <2>2. s \in Reading => s # "remove"
      BY DEF Reading
    <2>3. up' = up
      BY <1>2
    <2> QED BY <1>2, <1>3, <2>1, <2>2, <2>3, GoesShape
  <1>6. index' \in [Path -> [1 .. MaxChunk -> Content \cup {None}]]
    <2>1. On(t) \in Path /\ index[On(t)] \in [1 .. MaxChunk -> Content \cup {None}]
      BY <1>1, <1>2 DEF Shape, TypeOK
    <2>2. CASE index' = [index EXCEPT ![On(t)] = Empty]
      BY <2>1, <2>2, <1>1, EmptyTypes, IndexTypes
    <2>3. CASE Embed(t)
      <3> DEFINE c == thread[t].content
                 x == [k \in 1 .. MaxChunk |-> IF k <= Chunks[c] THEN c ELSE index[On(t)][k]]
      <3>1. x \in [1 .. MaxChunk -> Content \cup {None}]
        BY <1>1, <2>1 DEF Stage
      <3>2. index' = [index EXCEPT ![On(t)] = x]
        BY <2>3 DEF Embed
      <3> HIDE DEF x
      <3> QED BY <3>1, <3>2, <2>1, <1>1, IndexTypes
    <2> QED BY <2>2, <2>3 DEF Clear, Unindex
  <1> QED BY <1>1, <1>2, <1>4, <1>5, <1>6, IndexOnly DEF TypeInv

LEMMA RecordTypes ==
    ASSUME TypeInv, NEW t \in Thread, Record(t)
    PROVE  TypeInv'
  <1> DEFINE c == thread[t].content
             i == thread[t].existing
             new == [path |-> On(t), content |-> c, active |-> TRUE, bytes |-> None]
  <1>1. /\ TypeOK /\ Shape /\ ~At(t, "idle") /\ up' = up /\ up = TRUE /\ thread[t] \in Stage
        /\ thread[t].step \in Working /\ thread[t].step \in Reading
        /\ UNCHANGED <<file, moved, index, todo, up, history, counters>>
    BY UpIsUp, Kinds DEF TypeInv, Record, At, Working, Reading, IngestStep
  <1>2. On(t) \in Path /\ c \in Content /\ Inside(On(t)) /\ Len(registry) \in Nat
    BY <1>1 DEF Shape, TypeOK
  <1>3. CASE i # 0 /\ registry' = [registry EXCEPT ![i] = [@ EXCEPT !.content = c]]
                   /\ Goes(t, "store")
    <2> DEFINE r == [registry[i] EXCEPT !.content = c]
    <2>1. i \in DOMAIN registry => r \in Row
      BY <1>1, <1>2, Kinds DEF Row
    <2>2. registry' = [registry EXCEPT ![i] = r]
      BY <1>3
    <2> HIDE DEF r
    <2>3. registry' \in Seq(Row) /\ Len(registry') >= Len(registry)
      BY <1>1, <2>1, <2>2, RowChanged
    <2>4. thread' \in [Thread -> Stage]
      BY <1>1, <1>3, GoesTypes DEF IngestStep
    <2>5. Shape'
      BY <1>1, <1>3, GoesShape DEF Working, Reading, IngestStep, DeleteStep, CatchUpStep
    <2> QED BY <1>1, <2>3, <2>4, <2>5, RegistryOnly DEF TypeInv
  <1>4. CASE /\ registry' = Append(registry, new)
             /\ thread' = [thread EXCEPT
                  ![t] = [@ EXCEPT !.step = "store", !.existing = Len(registry) + 1]]
    <2> DEFINE x == [thread[t] EXCEPT !.step = "store", !.existing = Len(registry) + 1]
    <2>1. new \in Row
      BY <1>2 DEF Row
    <2>2. registry' \in Seq(Row) /\ Len(registry') >= Len(registry)
      <3> HIDE DEF new
      <3> QED BY <1>1, <1>2, <1>4, <2>1 DEF TypeOK
    <2>3. x \in Stage /\ x.step = "store" /\ x.path = On(t) /\ x.content = c /\ x.existing # 0
      <3>1. Len(registry) + 1 \in Nat /\ Len(registry) + 1 # 0
        BY <1>2
      <3> QED BY <1>1, <3>1 DEF Stage, On, IngestStep
    <2>4. thread' = [thread EXCEPT ![t] = x]
      BY <1>4
    <2> HIDE DEF x
    <2>5. /\ thread' \in [Thread -> Stage] /\ thread'[t] = x
          /\ \A u \in Thread \ {t} : thread'[u] = thread[u]
      BY <1>1, <2>3, <2>4 DEF TypeOK
    <2>6. Shape'
      <3>1. "store" \notin CatchUpStep /\ "store" \notin DeleteStep
        BY DEF CatchUpStep, DeleteStep
      <3> QED BY <1>1, <1>2, <2>3, <2>5, <3>1, ShapeKept
    <2> QED BY <1>1, <2>2, <2>5, <2>6, RegistryOnly DEF TypeInv
  <1> QED BY <1>3, <1>4 DEF Record

LEMMA RefusedTypes ==
    ASSUME TypeInv, NEW t \in Thread, Refused(t)
    PROVE  TypeInv'
  <1>1. /\ TypeOK /\ ~At(t, "idle") /\ up' = up /\ On(t) \in Path /\ Leaves(t)
        /\ UNCHANGED <<file, tables, index, todo, up, torn, calm, counters>>
        /\ astray' = astray \cup {On(t)}
    BY DEF TypeInv, Refused, At, Shape, Working, IngestStep
  <1>2. thread' \in [Thread -> Stage]
    BY <1>1, LeavesTypes
  <1>3. Shape'
    BY <1>1, LeavesShape
  <1>4. TypeOK'
    BY <1>1, <1>2 DEF TypeOK, tables, counters
  <1> QED BY <1>3, <1>4 DEF TypeInv

LEMMA StoreTypes ==
    ASSUME TypeInv, NEW t \in Thread, Store(t) \/ (t \in Worker /\ Remove(t))
    PROVE  TypeInv'
  <1> DEFINE i == thread[t].existing
             f == file[On(t)]
  <1>1. /\ TypeOK /\ Shape /\ ~At(t, "idle") /\ up' = up /\ Leaves(t)
        /\ On(t) \in Path
        /\ UNCHANGED <<file, moved, index, todo, up, history, counters>>
    BY DEF TypeInv, Shape, Store, Remove, At, Working, IngestStep, DeleteStep
  <1>2. registry' \in Seq(Row) /\ Len(registry') >= Len(registry)
    <2>1. CASE registry' = registry
      BY <2>1, <1>1 DEF TypeOK
    <2>2. CASE Store(t) /\ f # None
      <3> DEFINE r == [registry[i] EXCEPT !.bytes = f]
      <3>1. i \in DOMAIN registry => r \in Row
        BY <1>1, <2>2, Kinds DEF Row, TypeOK
      <3>2. registry' = [registry EXCEPT ![i] = r]
        BY <2>2 DEF Store
      <3> QED BY <1>1, <3>1, <3>2, RowChanged
    <2>3. CASE Remove(t)
      <3> DEFINE r == [registry[i] EXCEPT !.active = FALSE]
      <3>1. i \in DOMAIN registry => r \in Row
        BY <1>1, Kinds DEF Row
      <3>2. registry' = [registry EXCEPT ![i] = r]
        BY <2>3 DEF Remove
      <3> QED BY <1>1, <3>1, <3>2, RowChanged
    <2> QED BY <2>1, <2>2, <2>3 DEF Store
  <1>3. thread' \in [Thread -> Stage]
    BY <1>1, LeavesTypes
  <1>4. Shape'
    BY <1>1, LeavesShape
  <1> QED BY <1>1, <1>2, <1>3, <1>4, RegistryOnly DEF TypeInv

LEMMA FindTypes ==
    ASSUME TypeInv, NEW t \in Worker, Find(t)
    PROVE  TypeInv'
  <1>1. /\ TypeOK /\ Shape /\ ~At(t, "idle") /\ up' = up /\ up = TRUE
        /\ t \in Thread /\ t # CatchUp /\ thread[t] \in Stage /\ On(t) \in Path
        /\ UNCHANGED <<file, tables, index, todo, up, history, counters>>
    <2>1. t \in Thread /\ t # CatchUp /\ TypeOK /\ Shape
      BY CatchUpIsNoWorker DEF Thread, TypeInv
    <2> QED BY <2>1, UpIsUp, Kinds DEF TypeInv, Find, At, Shape, Working, DeleteStep
  <1>2. CASE Leaves(t)
    <2>1. thread' \in [Thread -> Stage]
      BY <1>1, <1>2, LeavesTypes
    <2>2. Shape'
      BY <1>1, <1>2, LeavesShape
    <2> QED BY <1>1, <2>1, <2>2, ThreadOnly DEF TypeInv
  <1>3. ASSUME NEW i \in DOMAIN registry,
               thread' = [thread EXCEPT ![t] = [@ EXCEPT !.step = "unindex", !.existing = i]]
        PROVE  TypeInv'
    <2> DEFINE x == [thread[t] EXCEPT !.step = "unindex", !.existing = i]
    <2>1. i \in Nat /\ i # 0
      BY <1>1, Kinds
    <2>2. x \in Stage /\ x.step = "unindex" /\ x.path = On(t) /\ x.existing # 0
      BY <1>1, <2>1 DEF Stage, On, DeleteStep
    <2>3. thread' = [thread EXCEPT ![t] = x]
      BY <1>3
    <2> HIDE DEF x
    <2>4. /\ thread' \in [Thread -> Stage] /\ thread'[t] = x
          /\ \A u \in Thread \ {t} : thread'[u] = thread[u]
      BY <1>1, <2>2, <2>3 DEF TypeOK
    <2>5. "unindex" \notin CatchUpStep /\ "unindex" \notin Reading
      BY DEF CatchUpStep, Reading
    <2>6. Shape'
      BY <1>1, <2>2, <2>4, <2>5, ShapeKept
    <2> QED BY <1>1, <2>4, <2>6, ThreadOnly DEF TypeInv
  <1> QED BY <1>2, <1>3 DEF Find

LEMMA CatchUpShape ==
    ASSUME TypeInv, ~At(CatchUp, "idle"), up' = up, NEW x \in Stage,
           x.step \in CatchUpStep \cup {"idle", "read"}, x.step = "read" => x.path \in Path,
           thread' = [thread EXCEPT ![CatchUp] = x]
    PROVE  thread' \in [Thread -> Stage] /\ Shape'
  <1>1. TypeOK /\ CatchUp \in Thread /\ CatchUp \notin Worker /\ up = TRUE
    BY Kinds, UpIsUp DEF TypeInv
  <1>2. /\ thread' \in [Thread -> Stage] /\ thread'[CatchUp] = x
        /\ \A u \in Thread \ {CatchUp} : thread'[u] = thread[u]
    BY <1>1 DEF TypeOK
  <1>3. /\ x.step \notin Reading /\ x.step \notin DeleteStep
        /\ x.step \notin {"clear", "store", "unindex", "remove"}
        /\ x.step \in Working => x.path \in Path
    BY DEF Reading, Working, IngestStep, DeleteStep, CatchUpStep
  <1>4. Shape'
    BY <1>1, <1>2, <1>3, ShapeKept
  <1> QED BY <1>2, <1>4

LEMMA CatchUpGoes ==
    ASSUME TypeInv, ~At(CatchUp, "idle"), up' = up, NEW s \in CatchUpStep, Goes(CatchUp, s)
    PROVE  thread' \in [Thread -> Stage] /\ Shape'
  <1> DEFINE x == [thread[CatchUp] EXCEPT !.step = s]
  <1>1. x \in Stage /\ x.step \in CatchUpStep \cup {"idle", "read"} /\ x.step # "read"
    BY Kinds DEF TypeInv, Stage, CatchUpStep
  <1>2. thread' = [thread EXCEPT ![CatchUp] = x]
    BY DEF Goes
  <1> HIDE DEF x
  <1> QED BY <1>1, <1>2, CatchUpShape

LEMMA CheckTypes ==
    ASSUME TypeInv, Check
    PROVE  TypeInv'
  <1>1. /\ TypeOK /\ ~At(CatchUp, "idle") /\ up' = up
        /\ UNCHANGED <<file, registry, index, todo, up, history, counters>>
    BY DEF Check, At, TypeInv
  <1>2. CASE Goes(CatchUp, "done") /\ moved' = moved
    <2>1. thread' \in [Thread -> Stage] /\ Shape'
      BY <1>1, <1>2, CatchUpGoes DEF CatchUpStep
    <2> QED BY <1>1, <1>2, <2>1, ThreadOnly DEF TypeInv, tables
  <1>3. CASE /\ thread' = [thread EXCEPT ![CatchUp] =
                   [Idle EXCEPT !.step = "putBack", !.existing = 1, !.force = TRUE]]
             /\ moved' = [i \in DOMAIN registry |-> registry[i].path]
    <2> DEFINE x == [Idle EXCEPT !.step = "putBack", !.existing = 1, !.force = TRUE]
    <2>1. x \in Stage /\ x.step \in CatchUpStep \cup {"idle", "read"} /\ x.step # "read"
      BY DEF Idle, Stage, CatchUpStep
    <2>a. thread' = [thread EXCEPT ![CatchUp] = x]
      BY <1>3
    <2>2. thread' \in [Thread -> Stage] /\ Shape'
      <3> HIDE DEF x
      <3> QED BY <1>1, <2>1, <2>a, CatchUpShape
    <2>3. /\ moved' \in Seq(Path) /\ Len(moved') = Len(registry) /\ Len(registry) \in Nat
          /\ \A i \in DOMAIN registry : moved'[i] = registry[i].path
      <3>1. \A i \in DOMAIN registry : registry[i].path \in Path
        BY <1>1, Kinds DEF Row
      <3>2. moved' = [i \in 1 .. Len(registry) |-> registry[i].path] /\ Len(registry) \in Nat
        BY <1>1, <1>3 DEF TypeOK
      <3>3. DOMAIN registry = 1 .. Len(registry)
        BY <1>1 DEF TypeOK
      <3>4. moved' \in [1 .. Len(registry) -> Path]
        BY <3>1, <3>2, <3>3
      <3> QED BY <3>2, <3>3, <3>4
    <2>4. TypeOK'
      BY <1>1, <2>2, <2>3 DEF TypeOK, history, counters
    <2> QED BY <2>2, <2>4 DEF TypeInv
  <1> QED BY <1>2, <1>3 DEF Check

LEMMA GoOnTypes ==
    ASSUME TypeInv, Rebuilt \/ GoOn
    PROVE  TypeInv'
  <1>1. /\ TypeOK /\ ~At(CatchUp, "idle") /\ up' = up
        /\ UNCHANGED <<file, tables, index, todo, up, history, counters>>
    BY DEF Rebuilt, GoOn, At, TypeInv
  <1>2. PICK x \in Stage : /\ x.step \in CatchUpStep \cup {"idle", "read"}
                           /\ x.step # "read"
                           /\ thread' = [thread EXCEPT ![CatchUp] = x]
    <2>1. CASE Rebuilt
      <3>1. [Idle EXCEPT !.step = "done", !.force = TRUE] \in Stage
        BY DEF Idle, Stage, CatchUpStep
      <3>2. /\ [Idle EXCEPT !.step = "done", !.force = TRUE].step \in CatchUpStep
            /\ [Idle EXCEPT !.step = "done", !.force = TRUE].step # "read"
        BY DEF Idle, CatchUpStep
      <3> QED BY <2>1, <3>1, <3>2 DEF Rebuilt
    <2>2. CASE GoOn
      BY <2>2, IdleIsAStage DEF GoOn, Idle
    <2> QED BY <2>1, <2>2
  <1>3. thread' \in [Thread -> Stage] /\ Shape'
    BY <1>1, <1>2, CatchUpShape
  <1> QED BY <1>1, <1>3, ThreadOnly DEF TypeInv

LEMMA NextTypes ==
    ASSUME TypeInv, NEW p \in Path, NextDocument(p)
    PROVE  TypeInv'
  <1>1. /\ TypeOK /\ Shape /\ ~At(CatchUp, "idle") /\ up' = up
        /\ todo' \subseteq Path /\ astray' \subseteq Path /\ torn' \subseteq Path
        /\ UNCHANGED <<file, tables, index, up, calm, counters>>
    BY DEF NextDocument, At, TypeInv, TypeOK
  <1>2. thread' \in [Thread -> Stage] /\ Shape'
    <2>1. CASE file[p] = None
      <3>1. thread' = thread
        BY <2>1 DEF NextDocument
      <3> QED BY <3>1, <1>1 DEF TypeOK, Shape, tables, At, On, Inside
    <2>2. CASE file[p] # None
      <3> DEFINE x == [Idle EXCEPT !.step = "read", !.path = p, !.force = TRUE]
      <3>1. x \in Stage /\ x.step \in CatchUpStep \cup {"idle", "read"} /\ x.path = p
        BY DEF Idle, Stage, IngestStep, CatchUpStep
      <3>2. thread' = [thread EXCEPT ![CatchUp] = x]
        BY <2>2 DEF NextDocument
      <3> HIDE DEF x
      <3> QED BY <1>1, <3>1, <3>2, CatchUpShape
    <2> QED BY <2>1, <2>2
  <1>3. TypeOK'
    BY <1>1, <1>2 DEF TypeOK, tables, counters
  <1> QED BY <1>2, <1>3 DEF TypeInv

LEMMA HomeIsAPath ==
    ASSUME TypeOK, NEW i \in DOMAIN moved
    PROVE  Home(i) \in Path /\ Home(i)[2] = moved[i][2] /\ Home(i)[1] = OwnDir
  <1>1. moved[i] \in Path
    BY Kinds
  <1>2. <<OwnDir, moved[i][2]>> \in Path
    BY <1>1, Paths
  <1> QED BY <1>2 DEF Home

LEMMA PutBackTypes ==
    ASSUME TypeInv, PutBack
    PROVE  TypeInv'
  <1> DEFINE i == thread[CatchUp].existing
             x == [thread[CatchUp] EXCEPT !.existing = i + 1]
  <1>1. /\ TypeOK /\ ~At(CatchUp, "idle") /\ up' = up /\ i \in DOMAIN moved
        /\ thread[CatchUp] \in Stage /\ thread[CatchUp].step = "putBack"
        /\ UNCHANGED <<registry, index, todo, up, history, counters>>
    BY Kinds DEF PutBack, At, TypeInv, Cursor
  <1>2. thread' \in [Thread -> Stage] /\ Shape'
    <2>1. /\ x \in Stage /\ x.step \in CatchUpStep \cup {"idle", "read"} /\ x.step # "read"
      BY <1>1 DEF Stage, CatchUpStep
    <2>2. thread' = [thread EXCEPT ![CatchUp] = x]
      BY DEF PutBack, Cursor
    <2> HIDE DEF x
    <2> QED BY <1>1, <2>1, <2>2, CatchUpShape
  <1>3. /\ file' \in [Path -> Content \cup {None}]
        /\ moved' \in Seq(Path) /\ Len(moved') = Len(moved)
    <2>1. CASE Lost(i)
      <3>1. Home(i) \in Path /\ registry[i] \in Row
        BY <1>1, HomeIsAPath, Kinds
      <3>2. /\ moved' = [moved EXCEPT ![i] = Home(i)]
            /\ file' = [file EXCEPT ![Home(i)] = IF @ = None THEN registry[i].bytes ELSE @]
        BY <2>1 DEF PutBack, Cursor
      <3>3. file' \in [Path -> Content \cup {None}]
        BY <1>1, <3>1, <3>2 DEF TypeOK, Row
      <3> QED BY <1>1, <3>1, <3>2, <3>3 DEF TypeOK
    <2>2. CASE ~Lost(i)
      BY <2>2, <1>1 DEF PutBack, Cursor, TypeOK
    <2> QED BY <2>1, <2>2
  <1>4. TypeOK'
    BY <1>1, <1>2, <1>3 DEF TypeOK, history, counters
  <1> QED BY <1>2, <1>4 DEF TypeInv

\* The rows of S get their new paths; the rest of them stays.
LEMMA CommitRows ==
    ASSUME TypeOK, NEW S, S \subseteq DOMAIN moved, Commit(S)
    PROVE  /\ registry' \in Seq(Row) /\ Len(registry') = Len(registry)
           /\ DOMAIN registry' = DOMAIN registry
           /\ \A i \in DOMAIN registry :
                /\ registry'[i].path = IF i \in S THEN moved[i] ELSE registry[i].path
                /\ registry'[i].active = registry[i].active
                /\ registry'[i].content = registry[i].content
                /\ registry'[i].bytes = registry[i].bytes
           /\ moved' = <<>>
  <1> DEFINE B(i) == IF i \in S THEN [registry[i] EXCEPT !.path = moved[i]] ELSE registry[i]
  <1>1. ASSUME NEW i \in DOMAIN registry
        PROVE  /\ B(i) \in Row
               /\ B(i).path = IF i \in S THEN moved[i] ELSE registry[i].path
               /\ B(i).active = registry[i].active
               /\ B(i).content = registry[i].content
               /\ B(i).bytes = registry[i].bytes
    <2>1. registry[i] \in Row /\ (i \in S => moved[i] \in Path)
      BY Kinds
    <2> QED BY <2>1 DEF Row
  <1>2. registry' = [i \in 1 .. Len(registry) |-> B(i)]
    BY DEF Commit, TypeOK
  <1>3. DOMAIN registry = 1 .. Len(registry) /\ Len(registry) \in Nat
    BY DEF TypeOK
  <1>4. moved' = <<>>
    BY DEF Commit
  <1> HIDE DEF B
  <1> QED BY <1>1, <1>2, <1>3, <1>4

\* Paths of rows that are moved, before and after, and what is known of them then.
Gone(S) == {registry[i].path : i \in S}
NewPaths(S) == {moved[i] : i \in S}
LEMMA CommitHistory ==
    ASSUME TypeOK, NEW S, S \subseteq DOMAIN moved, Commit(S)
    PROVE  /\ astray \subseteq astray' /\ torn \subseteq torn'
           /\ astray' \subseteq Path /\ torn' \subseteq Path
           /\ \A p \in Gone(S) : index[p] # Empty => p \in astray'
           /\ \A i \in S : registry[i].path \in torn => moved[i] \in torn'
           /\ (\E p \in Gone(S) \cup NewPaths(S) : Busy(p)) =>
                Gone(S) \cup NewPaths(S) \subseteq astray' \cap torn'
  <1>1. Gone(S) \subseteq Path /\ NewPaths(S) \subseteq Path /\ astray \subseteq Path /\ torn \subseteq Path
    BY Kinds DEF TypeOK, Row, Gone, NewPaths
  <1> DEFINE raced == \E p \in Gone(S) \cup NewPaths(S) : Busy(p)
             A == {p \in Gone(S) : index[p] # Empty}
             T == {moved[i] : i \in {j \in S : registry[j].path \in torn}}
             R == IF raced THEN Gone(S) \cup NewPaths(S) ELSE {}
  <1>2. astray' = astray \cup A \cup R /\ torn' = torn \cup T \cup R
    BY DEF Commit, Gone, NewPaths
  <1>3. A \subseteq Gone(S) /\ T \subseteq NewPaths(S) /\ R \subseteq Gone(S) \cup NewPaths(S)
    BY DEF NewPaths
  <1>4. \A i \in S : registry[i].path \in torn => moved[i] \in T
    OBVIOUS
  <1>5. raced => R = Gone(S) \cup NewPaths(S)
    OBVIOUS
  <1>6. \A p \in Gone(S) : index[p] # Empty => p \in A
    OBVIOUS
  <1> HIDE DEF A, T, R, raced
  <1>7. raced => Gone(S) \cup NewPaths(S) \subseteq astray' \cap torn'
    BY <1>2, <1>5
  <1>8. astray' \subseteq Path /\ torn' \subseteq Path
    BY <1>1, <1>2, <1>3
  <1> QED BY <1>2, <1>4, <1>6, <1>7, <1>8 DEF raced

LEMMA CommitTypes ==
    ASSUME TypeInv, CommitPutBack \/ PutBackRaises
    PROVE  TypeInv'
  <1>1. /\ TypeOK /\ ~At(CatchUp, "idle") /\ up' = up /\ CatchUp \in Thread
        /\ UNCHANGED <<index, up, calm, counters>>
    BY Kinds DEF CommitPutBack, PutBackRaises, At, TypeInv
  <1>2. thread' \in [Thread -> Stage] /\ Shape'
    <2>1. CASE CommitPutBack
      <3>1. Leaves(CatchUp)
        BY <2>1 DEF CommitPutBack
      <3> QED BY <3>1, <1>1, LeavesTypes, LeavesShape
    <2>2. CASE PutBackRaises
      <3>1. Goes(CatchUp, "done") /\ "done" \in CatchUpStep
        BY <2>2 DEF PutBackRaises, CatchUpStep
      <3> QED BY <3>1, <1>1, CatchUpGoes
    <2> QED BY <2>1, <2>2
  <1>3. PICK S : S \subseteq DOMAIN moved /\ Commit(S)
    BY DEF CommitPutBack, PutBackRaises, Repointed
  <1>4. /\ registry' \in Seq(Row) /\ moved' = <<>>
        /\ astray' \subseteq Path /\ torn' \subseteq Path
        /\ \A i \in DOMAIN registry : registry'[i].path \in Path
    <2>1. /\ registry' \in Seq(Row) /\ moved' = <<>> /\ DOMAIN registry' = DOMAIN registry
      BY <1>1, <1>3, CommitRows
    <2>2. astray' \subseteq Path /\ torn' \subseteq Path
      BY <1>1, <1>3, CommitHistory
    <2>3. \A i \in DOMAIN registry' : registry'[i] \in Row
      BY <2>1
    <2> QED BY <2>1, <2>2, <2>3 DEF Row
  <1>5. moved' \in Seq(Path) /\ Len(moved') <= Len(registry')
    BY <1>4
  <1>6. file' \in [Path -> Content \cup {None}] /\ todo' \subseteq Path
    <2>1. CASE CommitPutBack
      BY <2>1, <1>1, <1>4 DEF CommitPutBack, TypeOK
    <2>2. CASE PutBackRaises
      <3> DEFINE i == thread[CatchUp].existing
      <3>1. i \in DOMAIN moved /\ Lost(i)
        BY <2>2 DEF PutBackRaises, Cursor
      <3>2. Home(i) \in Path /\ registry[i] \in Row
        BY <1>1, <3>1, HomeIsAPath, Kinds
      <3>3. /\ file' = [file EXCEPT ![Home(i)] = IF @ = None THEN registry[i].bytes ELSE @]
            /\ todo' = todo
        BY <2>2 DEF PutBackRaises, Cursor
      <3> QED BY <1>1, <3>2, <3>3 DEF TypeOK, Row
    <2> QED BY <2>1, <2>2
  <1>7. TypeOK'
    BY <1>1, <1>2, <1>4, <1>5, <1>6 DEF TypeOK, counters
  <1> QED BY <1>2, <1>7 DEF TypeInv

LEMMA StartTypes ==
    ASSUME TypeInv, Start
    PROVE  TypeInv'
  <1> DEFINE x == [Idle EXCEPT !.step = "check"]
  <1>1. /\ TypeOK /\ Shape /\ up = FALSE /\ up' = TRUE /\ calm' = TRUE /\ starts' = starts + 1
        /\ UNCHANGED <<file, moved, index, todo, astray, torn, requests, edits, fails>>
        /\ registry' = Backfilled
        /\ thread' = [thread EXCEPT ![CatchUp] = x]
    BY DEF Start, TypeInv, TypeOK
  <1>2. x \in Stage /\ x.step = "check"
    BY DEF Idle, Stage, CatchUpStep
  <1>3. CatchUp \in Thread /\ CatchUp \notin Worker /\ Worker \subseteq Thread
    BY Kinds, <1>1 DEF Thread
  <1> HIDE DEF x
  <1>4. thread' \in [Thread -> Stage]
    BY <1>1, <1>2, <1>3, ThreadTypes
  <1>5. Shape'
    <2>1. thread'[CatchUp] = x /\ \A t \in Thread \ {CatchUp} : thread'[t].step = "idle"
      BY <1>1, <1>3 DEF Shape, At, TypeOK
    <2>2. \A s \in {"idle", "check"} : s \notin Working /\ s \notin Reading /\ s \notin DeleteStep
            /\ s \notin {"clear", "store", "unindex", "remove"}
      BY DEF Working, Reading, IngestStep, DeleteStep
    <2>3. "idle" \notin CatchUpStep
      BY DEF CatchUpStep
    <2>4. \A t \in Thread : thread'[t].step \in {"idle", "check"}
      BY <1>2, <2>1
    <2>5. \A t \in Worker : thread'[t].step = "idle"
      BY <1>3, <2>1
    <2> QED BY <1>1, <1>3, <2>2, <2>3, <2>4, <2>5 DEF Shape
  <1>6. registry' \in Seq(Row) /\ Len(registry') = Len(registry)
    BY <1>1, BackfilledTypes
  <1>7. {requests, edits, starts, fails}' \subseteq Nat
    BY <1>1 DEF TypeOK
  <1>8. TypeOK'
    BY <1>1, <1>4, <1>6, <1>7 DEF TypeOK
  <1> QED BY <1>5, <1>8 DEF TypeInv

LEMMA RaiseTypes ==
    ASSUME TypeInv, NEW t \in Thread, Raise(t)
    PROVE  TypeInv'
  <1>1. /\ TypeOK /\ ~At(t, "idle") /\ up' = up /\ On(t) \in Path /\ Leaves(t)
        /\ UNCHANGED <<file, tables, index, todo, up, requests, edits, starts>>
        /\ fails' = fails + 1 /\ calm' = FALSE
        /\ astray' \subseteq astray \cup {On(t)} /\ torn' \subseteq torn \cup {On(t)}
    BY DEF Raise, TypeInv, Shape, Working, At, IngestStep, DeleteStep, LeavesAstray, LeavesTorn
  <1>2. thread' \in [Thread -> Stage] /\ Shape'
    BY <1>1, LeavesTypes, LeavesShape
  <1>3. {requests, edits, starts, fails}' \subseteq Nat
    BY <1>1 DEF TypeOK
  <1>4. TypeOK'
    BY <1>1, <1>2, <1>3 DEF TypeOK, tables
  <1> QED BY <1>2, <1>4 DEF TypeInv

LEMMA KillTypes ==
    ASSUME TypeInv, Kill
    PROVE  TypeInv'
  <1>1. /\ TypeOK /\ Shape /\ up' = FALSE /\ fails' = fails + 1 /\ moved' = <<>> /\ todo' = {}
        /\ thread' = [t \in Thread |-> Idle]
        /\ UNCHANGED <<file, registry, index, calm, requests, edits, starts>>
    BY DEF Kill, TypeInv
  <1>2. \A t \in Thread : LeavesAstray(t) \subseteq Path /\ LeavesTorn(t) \subseteq Path
    BY <1>1 DEF LeavesAstray, LeavesTorn, Shape, At, Working, IngestStep
  <1>3. astray' \subseteq Path /\ torn' \subseteq Path
    BY <1>1, <1>2 DEF Kill, TypeOK
  <1>4. thread' \in [Thread -> Stage]
    BY <1>1, IdleIsAStage
  <1>5. Shape'
    <2>1. \A t \in Thread : thread'[t].step = "idle"
      BY <1>1 DEF Idle
    <2>2. "idle" \notin Working \cup Reading \cup CatchUpStep \cup DeleteStep
      BY DEF Working, Reading, IngestStep, DeleteStep, CatchUpStep
    <2>3. Worker \subseteq Thread /\ CatchUp \in Thread
      BY DEF Thread
    <2> QED BY <1>1, <2>1, <2>2, <2>3 DEF Shape, At
  <1>6. {requests, edits, starts, fails}' \subseteq Nat
    BY <1>1 DEF TypeOK
  <1>7. moved' \in Seq(Path) /\ Len(moved') <= Len(registry')
    BY <1>1 DEF TypeOK
  <1>8. TypeOK'
    BY <1>1, <1>3, <1>4, <1>6, <1>7 DEF TypeOK
  <1> QED BY <1>5, <1>8 DEF TypeInv

\* What leaves the threads and the tables alone.
LEMMA OutsideTypes ==
    ASSUME TypeInv,
           LoseIndex \/ \E p \in Path, c \in Content \cup {None} : Edit(p, c)
    PROVE  TypeInv'
  <1>1. /\ TypeOK /\ Shape
        /\ UNCHANGED <<tables, thread, todo, up, astray, requests, starts>>
        /\ torn' \subseteq Path /\ calm' \in BOOLEAN
    BY DEF LoseIndex, Edit, TypeInv, TypeOK, history
  <1>2. Shape'
    BY <1>1 DEF Shape, tables, At, On, Inside
  <1>3. index' \in [Path -> [1 .. MaxChunk -> Content \cup {None}]]
    <2>1. CASE LoseIndex
      <3> DEFINE Chunked == [1 .. MaxChunk -> Content \cup {None}]
      <3>1. Empty \in Chunked
        BY EmptyTypes
      <3>2. index' = [p \in Path |-> Empty]
        BY <2>1 DEF LoseIndex
      <3> HIDE DEF Chunked
      <3>3. index' \in [Path -> Chunked]
        BY <3>1, <3>2
      <3> QED BY <3>3 DEF Chunked
    <2>2. CASE ~LoseIndex
      BY <2>2, <1>1 DEF Edit, TypeOK
    <2> QED BY <2>1, <2>2
  <1>4. file' \in [Path -> Content \cup {None}]
    <2>1. CASE LoseIndex
      BY <2>1, <1>1 DEF LoseIndex, TypeOK
    <2>2. CASE ~LoseIndex
      BY <2>2, <1>1 DEF Edit, TypeOK
    <2> QED BY <2>1, <2>2
  <1>5. {requests, edits, starts, fails}' \subseteq Nat
    BY <1>1 DEF LoseIndex, Edit, TypeOK
  <1>6. TypeOK'
    BY <1>1, <1>3, <1>4, <1>5 DEF TypeOK, tables
  <1> QED BY <1>2, <1>6 DEF TypeInv

LEMMA TypesStep == TypeInv /\ [Next]_vars => TypeInv'
  <1> SUFFICES ASSUME TypeInv, [Next]_vars PROVE TypeInv'
    OBVIOUS
  <1>1. CASE \E t \in Worker, p \in Path :
               AskIngest(t, p) \/ AskDelete(t, p) \/ \E c \in Content : Upload(t, p, c)
    BY <1>1, AskTypes
  <1>2. CASE \E t \in Thread : Ingest(t) \/ Raise(t)
    <2>1. PICK t \in Thread : Ingest(t) \/ Raise(t)
      BY <1>2
    <2>2. CASE Read(t) \/ Record(t) \/ Refused(t) \/ Raise(t)
      BY <2>2, ReadTypes, RecordTypes, RefusedTypes, RaiseTypes
    <2>3. CASE Clear(t) \/ Embed(t)
      BY <2>1, <2>3, IndexingTypes
    <2>4. CASE Store(t)
      BY <2>1, <2>4, StoreTypes
    <2> QED BY <2>1, <2>2, <2>3, <2>4 DEF Ingest
  <1>3. CASE \E t \in Worker : Delete(t)
    BY <1>3, FindTypes, IndexingTypes, StoreTypes DEF Delete, Thread
  <1>4. CASE Rebuild
    BY <1>4, CheckTypes, PutBackTypes, CommitTypes, GoOnTypes, NextTypes DEF Rebuild
  <1>5. CASE Start \/ Kill
    BY <1>5, StartTypes, KillTypes
  <1>6. CASE LoseIndex \/ \E p \in Path, c \in Content \cup {None} : Edit(p, c)
    BY <1>6, OutsideTypes
  <1>7. CASE UNCHANGED vars
    BY <1>7 DEF vars, tables, history, counters, TypeInv, TypeOK, Shape, At, On, Inside
  <1> QED BY <1>1, <1>2, <1>3, <1>4, <1>5, <1>6, <1>7 DEF Next

\* The tables, the index and the threads hold what their types say, whatever is
\* in them when a request, a kill or a start comes.
THEOREM Typing == Spec => []TypeOK
  <1>1. TypeInv => TypeOK
    BY DEF TypeInv
  <1> QED BY <1>1, InitTypes, TypesStep, PTL DEF Spec

-----------------------------------------------------------------------------
(* What each action does to the rows                                        *)

\* The row of an ingest is written, or there is one more.
WritesRow(t) == LET i == thread[t].existing IN
    /\ i # 0
    /\ DOMAIN registry' = DOMAIN registry
    /\ \A j \in DOMAIN registry :
         /\ registry'[j].path = registry[j].path
         /\ registry'[j].active = registry[j].active
         /\ registry'[j].bytes = registry[j].bytes
         /\ registry'[j].content = IF j = i THEN thread[t].content ELSE registry[j].content
    /\ thread'[t].existing = i
AddsRow(t) == LET n == Len(registry) + 1 IN
    /\ thread[t].existing = 0 /\ ~Registered(On(t))
    /\ n \notin DOMAIN registry /\ n # 0 /\ n \notin DOMAIN moved
    /\ DOMAIN registry' = DOMAIN registry \cup {n}
    /\ \A j \in DOMAIN registry : registry'[j] = registry[j]
    /\ registry'[n] = [path |-> On(t), content |-> thread[t].content, active |-> TRUE, bytes |-> None]
    /\ thread'[t].existing = n

LEMMA RecordRows ==
    ASSUME TypeInv, NEW t \in Thread, Record(t)
    PROVE  /\ WritesRow(t) \/ AddsRow(t)
           /\ ~WriteLocked /\ At(t, "record")
           /\ thread'[t].step = "store" /\ thread'[t].path = On(t)
           /\ thread'[t].content = thread[t].content
           /\ \A u \in Thread \ {t} : thread'[u] = thread[u]
           /\ UNCHANGED <<file, moved, index, todo, up, history, counters>>
  <1> DEFINE c == thread[t].content
             i == thread[t].existing
             n == Len(registry) + 1
             new == [path |-> On(t), content |-> c, active |-> TRUE, bytes |-> None]
  <1>1. /\ TypeOK /\ Shape /\ thread[t] \in Stage /\ ~WriteLocked /\ At(t, "record")
        /\ UNCHANGED <<file, moved, index, todo, up, history, counters>>
    BY Kinds DEF TypeInv, Record
  <1>2. c \in Content
    BY <1>1 DEF Shape, At, Reading
  <1>3. CASE i # 0 /\ registry' = [registry EXCEPT ![i] = [@ EXCEPT !.content = c]]
                   /\ Goes(t, "store")
    <2> DEFINE r == [registry[i] EXCEPT !.content = c]
    <2>1. i \in DOMAIN registry =>
            /\ r \in Row /\ r.path = registry[i].path /\ r.active = registry[i].active
            /\ r.bytes = registry[i].bytes /\ r.content = c
      BY <1>1, <1>2, Kinds DEF Row
    <2>2. registry' = [registry EXCEPT ![i] = r]
      BY <1>3
    <2> HIDE DEF r
    <2>3. /\ DOMAIN registry' = DOMAIN registry
          /\ \A j \in DOMAIN registry : registry'[j] = IF j = i THEN r ELSE registry[j]
      BY <1>1, <2>1, <2>2, RowChanged
    <2>4. /\ thread'[t].step = "store" /\ thread'[t].path = On(t)
          /\ thread'[t].content = c /\ thread'[t].existing = i
          /\ \A u \in Thread \ {t} : thread'[u] = thread[u]
      BY <1>1, <1>3, GoesTypes DEF IngestStep
    <2>5. WritesRow(t)
      BY <1>3, <2>1, <2>3, <2>4 DEF WritesRow
    <2> QED BY <1>1, <2>4, <2>5
  <1>4. CASE /\ i = 0 /\ ~Registered(On(t))
             /\ registry' = Append(registry, new)
             /\ thread' = [thread EXCEPT
                  ![t] = [@ EXCEPT !.step = "store", !.existing = Len(registry) + 1]]
    <2> DEFINE x == [thread[t] EXCEPT !.step = "store", !.existing = n]
    <2>1. x.step = "store" /\ x.path = On(t) /\ x.content = c /\ x.existing = n
      BY <1>1 DEF Stage, On
    <2>2. thread' = [thread EXCEPT ![t] = x]
      BY <1>4
    <2> HIDE DEF x
    <2>3. thread'[t] = x /\ \A u \in Thread \ {t} : thread'[u] = thread[u]
      BY <1>1, <2>2 DEF TypeOK
    <2>4. /\ n \notin DOMAIN registry /\ n # 0 /\ n \notin DOMAIN moved
          /\ DOMAIN registry' = DOMAIN registry \cup {n}
          /\ \A j \in DOMAIN registry : registry'[j] = registry[j]
          /\ registry'[n] = new
      <3> HIDE DEF new
      <3> QED BY <1>1, <1>4 DEF TypeOK
    <2>5. AddsRow(t)
      BY <1>4, <2>1, <2>3, <2>4 DEF AddsRow
    <2> QED BY <1>1, <2>1, <2>3, <2>5
  <1> QED BY <1>3, <1>4 DEF Record

LEMMA StoreRows ==
    ASSUME TypeInv, NEW t \in Thread, Store(t)
    PROVE  /\ DOMAIN registry' = DOMAIN registry
           /\ \A j \in DOMAIN registry :
                /\ registry'[j].path = registry[j].path
                /\ registry'[j].active = registry[j].active
                /\ registry'[j].content = registry[j].content
                /\ registry'[j].bytes = IF j = thread[t].existing /\ file[On(t)] # None
                                          THEN file[On(t)] ELSE registry[j].bytes
  <1> DEFINE i == thread[t].existing
             f == file[On(t)]
             r == [registry[i] EXCEPT !.bytes = f]
  <1>1. TypeOK /\ Shape /\ On(t) \in Path
    BY DEF TypeInv, Shape, Store, At, Working, IngestStep
  <1>2. CASE f = None
    <2>1. registry' = registry
      BY <1>2 DEF Store
    <2> QED BY <2>1, <1>2
  <1>3. CASE f # None
    <2>1. i \in DOMAIN registry =>
            /\ r \in Row /\ r.path = registry[i].path /\ r.active = registry[i].active
            /\ r.content = registry[i].content /\ r.bytes = f
      BY <1>1, <1>3, Kinds DEF Row, TypeOK
    <2>2. registry' = [registry EXCEPT ![i] = r]
      BY <1>3 DEF Store
    <2> HIDE DEF r
    <2>3. /\ DOMAIN registry' = DOMAIN registry
          /\ \A j \in DOMAIN registry : registry'[j] = IF j = i THEN r ELSE registry[j]
      BY <1>1, <2>1, <2>2, RowChanged
    <2> QED BY <1>3, <2>1, <2>3
  <1> QED BY <1>2, <1>3

LEMMA RemoveRows ==
    ASSUME TypeInv, NEW t \in Thread, Remove(t)
    PROVE  /\ DOMAIN registry' = DOMAIN registry
           /\ \A j \in DOMAIN registry :
                /\ registry'[j].path = registry[j].path
                /\ registry'[j].active = (registry[j].active /\ j # thread[t].existing)
                /\ registry'[j].content = registry[j].content
                /\ registry'[j].bytes = registry[j].bytes
  <1> DEFINE i == thread[t].existing
             r == [registry[i] EXCEPT !.active = FALSE]
  <1>1. TypeOK
    BY DEF TypeInv
  <1>2. i \in DOMAIN registry =>
          /\ r \in Row /\ r.path = registry[i].path /\ r.active = FALSE
          /\ r.content = registry[i].content /\ r.bytes = registry[i].bytes
    BY <1>1, Kinds DEF Row
  <1>3. registry' = [registry EXCEPT ![i] = r]
    BY DEF Remove
  <1> HIDE DEF r
  <1>4. /\ DOMAIN registry' = DOMAIN registry
        /\ \A j \in DOMAIN registry : registry'[j] = IF j = i THEN r ELSE registry[j]
    BY <1>1, <1>2, <1>3, RowChanged
  <1>5. \A j \in DOMAIN registry : registry[j].active \in BOOLEAN
    BY <1>1, Kinds DEF Row
  <1> QED BY <1>2, <1>4, <1>5

-----------------------------------------------------------------------------
(* One active row of a path                                                 *)

\* The rows stay where they are; none becomes active.
SamePaths ==
    /\ DOMAIN registry' = DOMAIN registry
    /\ \A i \in DOMAIN registry :
         /\ registry'[i].path = registry[i].path
         /\ registry'[i].active => registry[i].active

LEMMA BackfilledKeeps ==
    ASSUME TypeOK, registry' = Backfilled
    PROVE  SamePaths
  <1>1. /\ Backfilled \in Seq(Row) /\ Len(Backfilled) = Len(registry)
        /\ \A i \in DOMAIN registry : /\ Backfilled[i].path = registry[i].path
                                      /\ Backfilled[i].active = registry[i].active
    BY BackfilledTypes
  <1>2. DOMAIN Backfilled = DOMAIN registry
    BY <1>1 DEF TypeOK
  <1> QED BY <1>1, <1>2 DEF SamePaths

LEMMA KeysKept ==
    ASSUME TypeInv, KeyInv, SamePaths, moved' \in {moved, <<>>}
    PROVE  KeyInv'
  <1>1. /\ DOMAIN registry' = DOMAIN registry
        /\ \A i \in DOMAIN registry :
             /\ registry'[i].path = registry[i].path
             /\ registry'[i].active => registry[i].active
    BY DEF SamePaths
  <1>2. CASE moved' = moved
    <2>1. \A i \in DOMAIN registry : PathNow(i)' = PathNow(i)
      BY <1>1, <1>2 DEF PathNow
    <2>2. \A i \in DOMAIN moved' : moved'[i][2] = registry'[i].path[2]
      BY <1>1, <1>2, Kinds DEF KeyInv, TypeInv
    <2> QED BY <1>1, <2>1, <2>2 DEF KeyInv
  <1>3. CASE moved' = <<>>
    <2>1. DOMAIN moved' = {}
      BY <1>3
    <2> QED BY <1>1, <2>1 DEF KeyInv, PathNow
  <1> QED BY <1>2, <1>3

LEMMA AddKeys ==
    ASSUME TypeInv, KeyInv, NEW t \in Thread, AddsRow(t), ~WriteLocked, moved' = moved
    PROVE  KeyInv'
  <1> DEFINE n == Len(registry) + 1
  <1>1. /\ n \notin DOMAIN registry /\ n \notin DOMAIN moved
        /\ DOMAIN registry' = DOMAIN registry \cup {n}
        /\ \A j \in DOMAIN registry : registry'[j] = registry[j]
        /\ registry'[n].path = On(t)
        /\ \A j \in DOMAIN registry : registry[j].active => registry[j].path # On(t)
        /\ \A j \in DOMAIN moved : j \in DOMAIN registry /\ moved[j] = registry[j].path
    BY Kinds DEF AddsRow, Registered, ActiveAt, WriteLocked, TypeInv
  <1> HIDE DEF n
  <1>2. \A j \in DOMAIN registry' : PathNow(j)' = registry'[j].path
    BY <1>1 DEF PathNow
  <1>3. \A i, j \in DOMAIN registry' :
          registry'[i].active /\ registry'[j].active /\ i # j => registry'[i].path # registry'[j].path
    BY <1>1 DEF KeyInv
  <1>4. \A i \in DOMAIN moved' : moved'[i][2] = registry'[i].path[2]
    BY <1>1
  <1> QED BY <1>2, <1>3, <1>4 DEF KeyInv

LEMMA CheckKeys ==
    ASSUME TypeInv, KeyInv, Check
    PROVE  KeyInv'
  <1>1. CASE moved' = moved
    BY <1>1, KeysKept DEF Check, SamePaths
  <1>2. CASE moved' = [i \in DOMAIN registry |-> registry[i].path]
    <2>1. registry' = registry
      BY DEF Check
    <2>2. \A i \in DOMAIN registry' : PathNow(i)' = registry'[i].path
      BY <1>2, <2>1 DEF PathNow
    <2> QED BY <1>2, <2>1, <2>2 DEF KeyInv
  <1> QED BY <1>1, <1>2 DEF Check

LEMMA PutBackKeys ==
    ASSUME TypeInv, KeyInv, PutBack
    PROVE  KeyInv'
  <1> DEFINE i == thread[CatchUp].existing
  <1>1. /\ TypeOK /\ i \in DOMAIN moved /\ registry' = registry
    BY DEF TypeInv, PutBack, Cursor
  <1>2. CASE ~Lost(i)
    BY <1>2, KeysKept DEF PutBack, Cursor, SamePaths
  <1>3. CASE Lost(i)
    <2>1. /\ ~Taken(i) /\ moved' = [moved EXCEPT ![i] = Home(i)] /\ registry[i].active
          /\ Home(i)[2] = moved[i][2]
      BY <1>1, <1>3, HomeIsAPath DEF PutBack, Cursor, Lost
    <2>2. /\ DOMAIN moved' = DOMAIN moved /\ i \in DOMAIN registry
          /\ \A j \in DOMAIN moved : moved'[j] = IF j = i THEN Home(i) ELSE moved[j]
      BY <1>1, <2>1, Kinds DEF TypeOK
    <2>3. \A j \in DOMAIN registry : PathNow(j)' = IF j = i THEN Home(i) ELSE PathNow(j)
      BY <1>1, <2>2 DEF PathNow
    <2>4. \A j \in DOMAIN registry : registry[j].active /\ j # i => PathNow(j) # Home(i)
      BY <2>1 DEF Taken
    <2>5. \A j, k \in DOMAIN registry' :
            registry'[j].active /\ registry'[k].active /\ j # k =>
              registry'[j].path # registry'[k].path /\ PathNow(j)' # PathNow(k)'
      BY <1>1, <2>3, <2>4 DEF KeyInv
    <2>6. \A j \in DOMAIN moved' : moved'[j][2] = registry'[j].path[2]
      BY <1>1, <2>1, <2>2 DEF KeyInv
    <2> QED BY <2>5, <2>6 DEF KeyInv
  <1> QED BY <1>2, <1>3

LEMMA CommitKeys ==
    ASSUME TypeInv, KeyInv, NEW S \in {{}, Repointed}, Commit(S)
    PROVE  KeyInv'
  <1>1. TypeOK /\ S \subseteq DOMAIN moved
    BY DEF TypeInv, Repointed
  <1>2. /\ DOMAIN registry' = DOMAIN registry /\ moved' = <<>> /\ DOMAIN moved' = {}
        /\ \A i \in DOMAIN registry :
             /\ registry'[i].path = IF i \in S THEN moved[i] ELSE registry[i].path
             /\ registry'[i].active = registry[i].active
    BY <1>1, CommitRows
  <1>3. \A i \in DOMAIN registry : PathNow(i)' = registry'[i].path
    BY <1>2 DEF PathNow
  <1>4. CASE S = {}
    BY <1>2, <1>3, <1>4 DEF KeyInv
  <1>5. CASE S = Repointed
    <2>1. \A i \in DOMAIN registry : registry'[i].path = PathNow(i)
      BY <1>2, <1>5 DEF Repointed, PathNow
    <2> QED BY <1>2, <1>3, <2>1 DEF KeyInv
  <1> QED BY <1>4, <1>5

LEMMA AsksOpen ==
    ASSUME NEW t \in Worker, NEW p \in Path,
           AskIngest(t, p) \/ AskDelete(t, p) \/ \E c \in Content : Upload(t, p, c)
    PROVE  \E s \in {"read", "find"} : Opens(t, s, p)
  BY DEF AskIngest, AskDelete, Upload

LEMMA KeyStep == TypeInv /\ KeyInv /\ [Next]_vars => KeyInv'
  <1> SUFFICES ASSUME TypeInv, KeyInv, [Next]_vars PROVE KeyInv'
    OBVIOUS
  <1>1. CASE SamePaths /\ moved' \in {moved, <<>>}
    BY <1>1, KeysKept
  <1>2. TypeOK
    BY DEF TypeInv
  <1>3. registry' = registry => SamePaths
    BY DEF SamePaths
  <1>4. CASE \E t \in Worker, p \in Path, s \in {"read", "find"} : Opens(t, s, p)
    BY <1>1, <1>2, <1>4, BackfilledKeeps DEF Opens
  <1>5. CASE \E t \in Thread : Record(t)
    <2>1. PICK t \in Thread : Record(t)
      BY <1>5
    <2>2. /\ WritesRow(t) \/ AddsRow(t)
          /\ ~WriteLocked /\ moved' = moved
      BY <2>1, RecordRows
    <2>3. CASE WritesRow(t)
      BY <1>1, <2>2, <2>3 DEF WritesRow, SamePaths
    <2> QED BY <2>2, <2>3, AddKeys
  <1>6. CASE \E t \in Thread : Store(t) \/ Remove(t)
    <2>1. PICK t \in Thread : Store(t) \/ Remove(t)
      BY <1>6
    <2>2. CASE Store(t)
      BY <1>1, <2>2, StoreRows DEF SamePaths, Store
    <2>3. CASE Remove(t)
      BY <1>1, <2>3, RemoveRows DEF SamePaths, Remove
    <2> QED BY <2>1, <2>2, <2>3
  <1>7. CASE \E t \in Thread : \/ Read(t) \/ Clear(t) \/ Embed(t) \/ Refused(t) \/ Raise(t)
                               \/ Find(t) \/ Unindex(t)
    BY <1>1, <1>3, <1>7 DEF Read, Clear, Embed, Refused, Raise, Find, Unindex, tables
  <1>8. CASE Check \/ PutBack
    BY <1>8, CheckKeys, PutBackKeys
  <1>9. CASE CommitPutBack \/ PutBackRaises
    BY <1>9, CommitKeys DEF CommitPutBack, PutBackRaises
  <1>10. CASE Rebuilt \/ GoOn \/ (\E p \in Path : NextDocument(p)) \/ Kill \/ LoseIndex
              \/ (\E p \in Path, c \in Content \cup {None} : Edit(p, c)) \/ UNCHANGED vars
    BY <1>1, <1>3, <1>10 DEF Rebuilt, GoOn, NextDocument, Kill, LoseIndex, Edit, vars, tables
  <1>11. CASE Start
    BY <1>1, <1>2, <1>11, BackfilledKeeps DEF Start
  <1>12. Worker \subseteq Thread
    BY DEF Thread
  <1>13. CASE \E t \in Thread : Ingest(t) \/ Raise(t)
    BY <1>5, <1>6, <1>7, <1>13 DEF Ingest
  <1>14. CASE \E t \in Worker : Delete(t)
    BY <1>6, <1>7, <1>12, <1>14 DEF Delete
  <1>15. CASE \E t \in Worker, p \in Path :
               AskIngest(t, p) \/ AskDelete(t, p) \/ \E c \in Content : Upload(t, p, c)
    BY <1>4, <1>15, AsksOpen
  <1>16. CASE Rebuild
    BY <1>8, <1>9, <1>10, <1>16 DEF Rebuild
  <1> QED BY <1>10, <1>11, <1>13, <1>14, <1>15, <1>16 DEF Next

-----------------------------------------------------------------------------
(* Who works on a path, and whose row it is                                 *)

\* A step of one thread that is no request's first: it goes on with its path or
\* leaves it, and what it has in hand is a row of that path.
StepOf(t) ==
    /\ \A u \in Thread \ {t} : thread'[u] = thread[u]
    /\ thread'[t].step \in Working => thread[t].step \in Working /\ thread'[t].path = On(t)
    /\ PutBackOver => PutBackOver'
    /\ thread'[t].step \in Holding /\ thread'[t].existing # 0 =>
         LET i == thread'[t].existing IN
         \/ thread[t].step \in Holding /\ thread[t].existing = i
         \/ i \in DOMAIN registry' /\ registry'[i].path = On(t)
    /\ astray \subseteq astray' /\ torn \subseteq torn'
    /\ \A i \in DOMAIN registry : i \in DOMAIN registry' /\ registry'[i].path = registry[i].path

LEMMA GoesSteps ==
    ASSUME TypeInv, NEW t \in Thread,
           NEW s \in {"idle"} \cup IngestStep \cup DeleteStep \cup CatchUpStep, Goes(t, s),
           s \in Working => thread[t].step \in Working,
           s \in Holding => thread[t].step \in Holding,
           t = CatchUp /\ PutBackOver => s \notin {"check", "putBack"},
           SamePaths, astray \subseteq astray', torn \subseteq torn'
    PROVE  StepOf(t)
  <1>1. /\ thread'[t].step = s /\ thread'[t].path = On(t)
        /\ thread'[t].existing = thread[t].existing
        /\ \A u \in Thread \ {t} : thread'[u] = thread[u]
    BY GoesTypes DEF TypeInv
  <1>2. PutBackOver => PutBackOver'
    BY <1>1, Kinds DEF PutBackOver, TypeInv
  <1> QED BY <1>1, <1>2 DEF StepOf, SamePaths

LEMMA LeavesSteps ==
    ASSUME TypeInv, NEW t \in Thread, Leaves(t), SamePaths, astray \subseteq astray', torn \subseteq torn'
    PROVE  StepOf(t)
  <1>1. /\ thread'[t].step \in {"next", "idle"}
        /\ \A u \in Thread \ {t} : thread'[u] = thread[u]
    BY LeavesTypes DEF TypeInv
  <1>2. "next" \notin Working \cup Holding /\ "idle" \notin Working \cup Holding
    BY DEF Working, IngestStep, DeleteStep, Holding, Reading
  <1>3. PutBackOver => PutBackOver'
    BY <1>1, Kinds DEF PutBackOver, TypeInv
  <1> QED BY <1>1, <1>2, <1>3 DEF StepOf, SamePaths

\* A thread that has looked up row i of its path.
LEMMA LookUpSteps ==
    ASSUME TypeInv, NEW t \in Thread, thread[t].step \in Working,
           NEW x \in Stage, thread' = [thread EXCEPT ![t] = x],
           x.step \in Holding, x.path = On(t),
           x.existing # 0 => x.existing \in DOMAIN registry /\ registry[x.existing].path = On(t),
           UNCHANGED <<tables, history>>
    PROVE  StepOf(t)
  <1>1. thread'[t] = x /\ \A u \in Thread \ {t} : thread'[u] = thread[u]
    BY DEF TypeInv, TypeOK
  <1>2. PutBackOver => PutBackOver'
    <2>1. x.step \notin {"check", "putBack"}
      BY DEF Holding, Reading
    <2> QED BY <1>1, <2>1, Kinds DEF PutBackOver, TypeInv
  <1> QED BY <1>1, <1>2 DEF StepOf, tables, history

LEMMA ReadSteps ==
    ASSUME TypeInv, NEW t \in Thread, Read(t)
    PROVE  StepOf(t)
  <1>1. /\ TypeOK /\ thread[t] \in Stage /\ thread[t].step \in Working /\ On(t) \in Path
        /\ UNCHANGED <<tables, history>> /\ SamePaths
        /\ astray \subseteq astray' /\ torn \subseteq torn'
    BY Kinds DEF TypeInv, Shape, Read, At, Working, IngestStep, SamePaths, tables, history
  <1>2. CASE Leaves(t)
    BY <1>1, <1>2, LeavesSteps
  <1>3. ASSUME NEW s \in {"embed", "clear"}, NEW i \in Nat, file[On(t)] # None,
               i # 0 => i \in DOMAIN registry /\ registry[i].path = On(t),
               thread' = [thread EXCEPT
                 ![t] = [@ EXCEPT !.step = s, !.content = file[On(t)], !.existing = i]]
        PROVE  StepOf(t)
    <2> DEFINE x == [thread[t] EXCEPT !.step = s, !.content = file[On(t)], !.existing = i]
    <2>1. file[On(t)] \in Content
      BY <1>1, <1>3 DEF TypeOK
    <2>2. x \in Stage /\ x.step \in Holding /\ x.path = On(t) /\ x.existing = i
      BY <1>1, <2>1 DEF Stage, On, IngestStep, Holding, Reading
    <2>3. thread' = [thread EXCEPT ![t] = x]
      BY <1>3
    <2> HIDE DEF x
    <2> QED BY <1>1, <1>3, <2>2, <2>3, LookUpSteps
  <1>4. \/ Leaves(t)
        \/ \E s \in {"embed", "clear"}, i \in Nat :
             /\ i # 0 => i \in DOMAIN registry /\ registry[i].path = On(t)
             /\ file[On(t)] # None
             /\ thread' = [thread EXCEPT
                  ![t] = [@ EXCEPT !.step = s, !.content = file[On(t)], !.existing = i]]
    BY <1>1, Kinds DEF Read, ActiveAt
  <1> QED BY <1>2, <1>3, <1>4

LEMMA FindSteps ==
    ASSUME TypeInv, NEW t \in Thread, Find(t)
    PROVE  StepOf(t)
  <1>1. /\ TypeOK /\ thread[t] \in Stage /\ thread[t].step \in Working
        /\ UNCHANGED <<tables, history>> /\ SamePaths
        /\ astray \subseteq astray' /\ torn \subseteq torn'
    BY Kinds DEF TypeInv, Find, At, Working, DeleteStep, SamePaths, tables, history
  <1>2. CASE Leaves(t)
    BY <1>1, <1>2, LeavesSteps
  <1>3. ASSUME NEW i \in DOMAIN registry, registry[i].path = On(t),
               thread' = [thread EXCEPT ![t] = [@ EXCEPT !.step = "unindex", !.existing = i]]
        PROVE  StepOf(t)
    <2> DEFINE x == [thread[t] EXCEPT !.step = "unindex", !.existing = i]
    <2>1. i \in Nat
      BY <1>1, Kinds
    <2>2. x \in Stage /\ x.step \in Holding /\ x.path = On(t) /\ x.existing = i
      BY <1>1, <2>1 DEF Stage, On, DeleteStep, Holding
    <2>3. thread' = [thread EXCEPT ![t] = x]
      BY <1>3
    <2> HIDE DEF x
    <2> QED BY <1>1, <1>3, <2>2, <2>3, LookUpSteps
  <1> QED BY <1>2, <1>3 DEF Find, ActiveAt

LEMMA RecordSteps ==
    ASSUME TypeInv, NEW t \in Thread, Record(t)
    PROVE  StepOf(t)
  <1>1. /\ WritesRow(t) \/ AddsRow(t)
        /\ At(t, "record") /\ thread'[t].step = "store" /\ thread'[t].path = On(t)
        /\ \A u \in Thread \ {t} : thread'[u] = thread[u]
        /\ UNCHANGED history
    BY RecordRows
  <1>2. thread[t].step \in Holding /\ thread[t].step \in Working
    BY <1>1 DEF At, Holding, Reading, Working, IngestStep
  <1>3. PutBackOver => PutBackOver'
    BY <1>1, Kinds DEF PutBackOver, TypeInv
  <1>4. CASE WritesRow(t)
    BY <1>1, <1>2, <1>3, <1>4 DEF WritesRow, StepOf, history
  <1>5. CASE AddsRow(t)
    BY <1>1, <1>2, <1>3, <1>5 DEF AddsRow, StepOf, history
  <1> QED BY <1>1, <1>4, <1>5

LEMMA WorkSteps ==
    ASSUME TypeInv, NEW t \in Thread, Ingest(t) \/ Raise(t) \/ Delete(t)
    PROVE  StepOf(t)
  <1>1. CASE Read(t) \/ Record(t) \/ Find(t)
    BY <1>1, ReadSteps, RecordSteps, FindSteps
  <1>2. CASE Clear(t) \/ Embed(t) \/ Unindex(t)
    <2>1. SamePaths /\ astray \subseteq astray' /\ torn \subseteq torn'
      BY <1>2 DEF Clear, Embed, Unindex, SamePaths, tables, history
    <2>2. PICK s \in {"embed", "record", "remove"} : /\ Goes(t, s)
                                                     /\ thread[t].step \in Working \cap Holding
      BY <1>2 DEF Clear, Embed, Unindex, At, Working, Holding, Reading, IngestStep, DeleteStep
    <2>3. /\ s \in {"idle"} \cup IngestStep \cup DeleteStep \cup CatchUpStep
          /\ s \notin {"check", "putBack"}
      BY DEF IngestStep, DeleteStep
    <2> QED BY <2>1, <2>2, <2>3, GoesSteps
  <1>3. CASE Refused(t) \/ Raise(t)
    BY <1>3, LeavesSteps DEF Refused, Raise, SamePaths, tables
  <1>4. CASE Store(t)
    BY <1>4, StoreRows, LeavesSteps DEF Store, SamePaths, history
  <1>5. CASE Remove(t)
    BY <1>5, RemoveRows, LeavesSteps DEF Remove, SamePaths, history
  <1> QED BY <1>1, <1>2, <1>3, <1>4, <1>5 DEF Ingest, Delete

LEMMA CatchUpSteps ==
    ASSUME TypeInv, Check \/ PutBack \/ Rebuilt \/ GoOn
    PROVE  StepOf(CatchUp)
  <1>1. /\ TypeOK /\ registry' = registry /\ UNCHANGED history
        /\ CatchUp \in Thread
    BY Kinds DEF TypeInv, Check, PutBack, Rebuilt, GoOn, tables
  <1>2. /\ \A u \in Thread \ {CatchUp} : thread'[u] = thread[u]
        /\ thread'[CatchUp].step \in CatchUpStep \cup {"idle"}
        /\ PutBackOver => thread'[CatchUp].step \notin {"check", "putBack"}
    <2>1. CASE PutBack
      BY <1>1, <2>1, Kinds DEF PutBack, TypeOK, Stage, At, CatchUpStep, PutBackOver
    <2>2. CASE Check /\ Goes(CatchUp, "done")
      <3>1. "done" \in CatchUpStep
        BY DEF CatchUpStep
      <3> QED BY <1>1, <2>2, <3>1, GoesTypes
    <2>3. ASSUME NEW x \in Stage, x.step \in CatchUpStep \cup {"idle"},
                 thread' = [thread EXCEPT ![CatchUp] = x],
                 PutBackOver => x.step \notin {"check", "putBack"}
          PROVE  /\ \A u \in Thread \ {CatchUp} : thread'[u] = thread[u]
                 /\ thread'[CatchUp].step \in CatchUpStep \cup {"idle"}
                 /\ PutBackOver => thread'[CatchUp].step \notin {"check", "putBack"}
      BY <1>1, <2>3 DEF TypeOK
    <2>4. CASE Check /\ ~Goes(CatchUp, "done")
      <3> DEFINE x == [Idle EXCEPT !.step = "putBack", !.existing = 1, !.force = TRUE]
      <3>1. x \in Stage /\ x.step \in CatchUpStep
        BY DEF Idle, Stage, CatchUpStep
      <3>2. thread' = [thread EXCEPT ![CatchUp] = x] /\ ~PutBackOver
        BY <2>4 DEF Check, At, PutBackOver
      <3> HIDE DEF x
      <3> QED BY <2>3, <3>1, <3>2
    <2>5. CASE Rebuilt
      <3> DEFINE x == [Idle EXCEPT !.step = "done", !.force = TRUE]
      <3>1. x \in Stage /\ x.step \in CatchUpStep /\ x.step = "done"
        BY DEF Idle, Stage, CatchUpStep
      <3>2. thread' = [thread EXCEPT ![CatchUp] = x]
        BY <2>5 DEF Rebuilt
      <3> HIDE DEF x
      <3> QED BY <2>3, <3>1, <3>2
    <2>6. CASE GoOn
      BY <2>3, <2>6, IdleIsAStage DEF GoOn, Idle
    <2> QED BY <2>1, <2>2, <2>4, <2>5, <2>6
  <1>3. \A s \in CatchUpStep \cup {"idle"} : s \notin Working /\ s \notin Holding
    BY DEF CatchUpStep, Working, Holding, Reading, IngestStep, DeleteStep
  <1> QED BY <1>1, <1>2, <1>3 DEF StepOf, history, PutBackOver

LEMMA StepTouch ==
    ASSUME TypeInv, TouchInv, NEW t \in Thread, StepOf(t)
    PROVE  TouchInv'
  <1>1. \A u \in Thread, p \in Path : WorksOn(u, p)' => WorksOn(u, p)
    BY DEF StepOf, WorksOn, Working, On
  <1>2. \A p : p \in Mixed => p \in Mixed'
    BY DEF StepOf, Mixed
  <1>3. Alone'
    BY <1>1, <1>2 DEF TouchInv, Alone
  <1>4. ASSUME NEW u \in Thread, thread'[u].step \in Holding, thread'[u].existing # 0
        PROVE  LET i == thread'[u].existing IN
               /\ i \in DOMAIN registry'
               /\ \/ registry'[i].path = thread'[u].path
                  \/ PutBackOver' /\ thread'[u].path \in Mixed' /\ registry'[i].path \in Mixed'
    <2> DEFINE i == thread'[u].existing
    <2>1. thread'[u].step \in Working
      BY <1>4 DEF Holding, Reading, Working, IngestStep, DeleteStep
    <2>2. thread'[u].path = On(u)
      BY <2>1 DEF StepOf, On
    <2>3. CASE thread[u].step \in Holding /\ thread[u].existing = i
      BY <1>2, <1>4, <2>2, <2>3 DEF StepOf, TouchInv, HoldsRow, On
    <2>4. CASE ~(thread[u].step \in Holding /\ thread[u].existing = i)
      BY <1>4, <2>2, <2>4 DEF StepOf
    <2> QED BY <2>3, <2>4
  <1>5. HoldsRow'
    BY <1>4 DEF HoldsRow, On
  <1> QED BY <1>3, <1>5 DEF TouchInv

\* t begins to work on p.
Begins(t, p) ==
    /\ \A u \in Thread \ {t} : thread'[u] = thread[u]
    /\ thread[t].step \notin {"check", "putBack"} \cup Working
    /\ thread'[t].step \in {"read", "find"} /\ thread'[t].path = p
    /\ astray \subseteq astray' /\ torn \subseteq torn' /\ (Busy(p) => p \in Mixed')
    /\ SamePaths

LEMMA BeginsTouch ==
    ASSUME TypeInv, TouchInv, NEW t \in Thread, NEW p \in Path, Begins(t, p)
    PROVE  TouchInv'
  <1>1. \A u \in Thread, q \in Path : WorksOn(u, q)' => WorksOn(u, q) \/ (u = t /\ q = p)
    BY DEF Begins, WorksOn, Working, On
  <1>2. \A q : q \in Mixed => q \in Mixed'
    BY DEF Begins, Mixed
  <1>3. Alone'
    BY <1>1, <1>2 DEF TouchInv, Alone, Begins, Busy
  <1>4. PutBackOver => PutBackOver'
    BY Kinds DEF Begins, PutBackOver, TypeInv
  <1>5. thread'[t].step \notin Holding
    BY DEF Begins, Holding, Reading
  <1>6. HoldsRow'
    BY <1>2, <1>4, <1>5 DEF TouchInv, HoldsRow, Begins, SamePaths, On
  <1> QED BY <1>3, <1>6 DEF TouchInv

LEMMA OpensBegins ==
    ASSUME TypeInv, NEW t \in Worker, NEW p \in Path, NEW s \in {"read", "find"}, Opens(t, s, p)
    PROVE  t \in Thread /\ Begins(t, p)
  <1> DEFINE x == [Idle EXCEPT !.step = s, !.path = p]
  <1>1. TypeOK /\ t \in Thread /\ t # CatchUp
    BY CatchUpIsNoWorker DEF TypeInv, Thread
  <1>2. x.step = s /\ x.path = p
    BY DEF Idle
  <1>3. thread' = [thread EXCEPT ![t] = x]
    BY DEF Opens
  <1> HIDE DEF x
  <1>4. thread'[t] = x /\ \A u \in Thread \ {t} : thread'[u] = thread[u]
    BY <1>1, <1>3 DEF TypeOK
  <1>5. SamePaths
    BY <1>1, BackfilledKeeps DEF Opens
  <1>6. thread[t].step = "idle" /\ "idle" \notin {"check", "putBack"} \cup Working
    BY DEF Opens, At, Working, IngestStep, DeleteStep
  <1>7. astray \subseteq astray' /\ torn \subseteq torn' /\ (Busy(p) => p \in Mixed')
    BY DEF Opens, Mixed
  <1> QED BY <1>1, <1>2, <1>4, <1>5, <1>6, <1>7 DEF Begins

LEMMA NextBegins ==
    ASSUME TypeInv, NEW p \in Path, NextDocument(p), file[p] # None
    PROVE  Begins(CatchUp, p) /\ thread'[CatchUp].step = "read" /\ thread'[CatchUp].force
  <1> DEFINE x == [Idle EXCEPT !.step = "read", !.path = p, !.force = TRUE]
  <1>1. TypeOK /\ CatchUp \in Thread
    BY DEF TypeInv, Thread
  <1>2. x.step = "read" /\ x.path = p /\ x.force
    BY DEF Idle
  <1>3. thread' = [thread EXCEPT ![CatchUp] = x]
    BY DEF NextDocument
  <1> HIDE DEF x
  <1>4. thread'[CatchUp] = x /\ \A u \in Thread \ {CatchUp} : thread'[u] = thread[u]
    BY <1>1, <1>3 DEF TypeOK
  <1>5. SamePaths
    BY DEF NextDocument, SamePaths, tables
  <1>6. thread[CatchUp].step = "next" /\ "next" \notin {"check", "putBack"} \cup Working
    BY DEF NextDocument, At, Working, IngestStep, DeleteStep
  <1>7. astray \subseteq astray' /\ torn \subseteq torn' /\ (Busy(p) => p \in Mixed')
    BY DEF NextDocument, Mixed
  <1> QED BY <1>2, <1>4, <1>5, <1>6, <1>7 DEF Begins

LEMMA CommitSteps ==
    ASSUME TypeInv, CommitPutBack \/ PutBackRaises
    PROVE  \E S \in {{}, Repointed} :
             /\ Commit(S)
             /\ S \subseteq DOMAIN moved
             /\ \A u \in Thread \ {CatchUp} : thread'[u] = thread[u]
             /\ thread[CatchUp].step = "putBack" /\ thread'[CatchUp].step \in {"next", "done"}
             /\ UNCHANGED <<index, up, calm>>
  <1>1. TypeOK /\ CatchUp \in Thread
    BY DEF TypeInv, Thread
  <1>2. CASE CommitPutBack
    BY <1>1, <1>2, LeavesTypes DEF CommitPutBack, At, Repointed
  <1>3. CASE PutBackRaises
    BY <1>1, <1>3, GoesTypes DEF PutBackRaises, At, Repointed, CatchUpStep
  <1> QED BY <1>2, <1>3

LEMMA CommitTouch ==
    ASSUME TypeInv, TouchInv, CommitPutBack \/ PutBackRaises
    PROVE  TouchInv'
  <1>1. PICK S \in {{}, Repointed} :
          /\ Commit(S)
          /\ S \subseteq DOMAIN moved
          /\ \A u \in Thread \ {CatchUp} : thread'[u] = thread[u]
          /\ thread[CatchUp].step = "putBack" /\ thread'[CatchUp].step \in {"next", "done"}
    BY CommitSteps
  <1>2. /\ TypeOK /\ ~PutBackOver /\ PutBackOver'
    BY <1>1 DEF TypeInv, PutBackOver
  <1>3. /\ DOMAIN registry' = DOMAIN registry
        /\ \A i \in DOMAIN registry :
             registry'[i].path = IF i \in S THEN moved[i] ELSE registry[i].path
    BY <1>1, <1>2, CommitRows
  <1>4. /\ astray \subseteq astray' /\ torn \subseteq torn'
        /\ (\E p \in Gone(S) \cup NewPaths(S) : Busy(p)) => Gone(S) \cup NewPaths(S) \subseteq Mixed'
    BY <1>1, <1>2, CommitHistory DEF Mixed
  <1>5. \A s \in {"next", "done"} : s \notin Working /\ s \notin Holding
    BY DEF Working, Holding, Reading, IngestStep, DeleteStep
  <1>6. \A u \in Thread, p \in Path : WorksOn(u, p)' => WorksOn(u, p)
    BY <1>1, <1>5 DEF WorksOn, Working, On
  <1>7. Alone'
    BY <1>4, <1>6 DEF TouchInv, Alone, Mixed
  <1>8. ASSUME NEW u \in Thread, thread'[u].step \in Holding, thread'[u].existing # 0
        PROVE  LET i == thread'[u].existing IN
               /\ i \in DOMAIN registry'
               /\ \/ registry'[i].path = thread'[u].path
                  \/ PutBackOver' /\ thread'[u].path \in Mixed' /\ registry'[i].path \in Mixed'
    <2> DEFINE i == thread'[u].existing
    <2>1. thread'[u] = thread[u]
      BY <1>1, <1>5, <1>8
    <2>2. i \in DOMAIN registry /\ registry[i].path = On(u)
      BY <1>2, <1>8, <2>1 DEF TouchInv, HoldsRow
    <2>3. CASE i \in S
      <3>1. On(u) \in Gone(S) /\ moved[i] \in NewPaths(S)
        BY <2>2, <2>3 DEF Gone, NewPaths
      <3>2. Busy(On(u))
        BY <1>8, <2>1 DEF Busy, WorksOn, On, Holding, Reading, IngestStep, DeleteStep
      <3>3. On(u) \in Mixed' /\ moved[i] \in Mixed'
        BY <1>4, <3>1, <3>2
      <3>4. On(u) = thread'[u].path
        BY <2>1 DEF On
      <3> HIDE DEF i
      <3> QED BY <1>2, <1>3, <2>2, <2>3, <3>3, <3>4 DEF i
    <2>4. CASE i \notin S
      BY <1>3, <2>1, <2>2, <2>4 DEF On
    <2> QED BY <2>3, <2>4
  <1>9. HoldsRow'
    BY <1>8 DEF HoldsRow, On
  <1> QED BY <1>7, <1>9 DEF TouchInv

\* Nobody works when the backend starts or has been killed.
NobodyWorks == \A t \in Thread : thread[t].step \notin Working
LEMMA StartKillWork ==
    ASSUME TypeInv, Start \/ Kill
    PROVE  NobodyWorks'
  <1>1. /\ "idle" \notin Working /\ "check" \notin Working
    BY DEF Working, IngestStep, DeleteStep
  <1>2. CASE Kill
    BY <1>1, <1>2 DEF Kill, NobodyWorks, Idle
  <1>3. CASE Start
    <2> DEFINE x == [Idle EXCEPT !.step = "check"]
    <2>1. x.step = "check" /\ thread' = [thread EXCEPT ![CatchUp] = x]
      BY <1>3 DEF Start, Idle
    <2> HIDE DEF x
    <2>2. \A t \in Thread : thread[t].step = "idle"
      BY <1>3 DEF Start, TypeInv, Shape, At
    <2>3. \A t \in Thread : thread'[t].step \in {"idle", "check"}
      BY <2>1, <2>2 DEF TypeInv, TypeOK
    <2> QED BY <1>1, <2>3 DEF NobodyWorks
  <1> QED BY <1>2, <1>3

LEMMA TouchStep == TypeInv /\ TouchInv /\ [Next]_vars => TouchInv'
  <1> SUFFICES ASSUME TypeInv, TouchInv, [Next]_vars PROVE TouchInv'
    OBVIOUS
  <1>1. CASE \E t \in Worker, p \in Path :
               AskIngest(t, p) \/ AskDelete(t, p) \/ \E c \in Content : Upload(t, p, c)
    BY <1>1, AsksOpen, OpensBegins, BeginsTouch
  <1>2. CASE \E t \in Thread : Ingest(t) \/ Raise(t) \/ Delete(t)
    BY <1>2, WorkSteps, StepTouch
  <1>3. CASE Check \/ PutBack \/ Rebuilt \/ GoOn
    BY <1>3, CatchUpSteps, StepTouch DEF Thread
  <1>4. CASE CommitPutBack \/ PutBackRaises
    BY <1>4, CommitTouch
  <1>5. CASE /\ thread' = thread /\ registry' = registry
             /\ astray \subseteq astray' /\ torn \subseteq torn'
    <2>1. StepOf(CatchUp)
      BY <1>5 DEF StepOf, PutBackOver, On
    <2> QED BY <2>1, StepTouch DEF Thread
  <1>6. CASE \E p \in Path : NextDocument(p)
    <2>1. PICK p \in Path : NextDocument(p)
      BY <1>6
    <2>2. CASE file[p] = None
      BY <1>5, <2>1, <2>2 DEF NextDocument, tables
    <2>3. CASE file[p] # None
      BY <2>1, <2>3, NextBegins, BeginsTouch DEF Thread
    <2> QED BY <2>2, <2>3
  <1>7. CASE Start \/ Kill
    <2>1. NobodyWorks'
      BY <1>7, StartKillWork
    <2> QED
      BY <2>1 DEF NobodyWorks, TouchInv, Alone, HoldsRow, WorksOn, Working, Holding, Reading,
         IngestStep, DeleteStep
  <1>8. CASE LoseIndex \/ (\E p \in Path, c \in Content \cup {None} : Edit(p, c)) \/ UNCHANGED vars
    BY <1>5, <1>8 DEF LoseIndex, Edit, vars, tables, history
  <1>9. Worker \subseteq Thread
    BY DEF Thread
  <1> QED BY <1>1, <1>2, <1>3, <1>4, <1>6, <1>7, <1>8, <1>9 DEF Next, Rebuild

-----------------------------------------------------------------------------
(* The index agrees with the registry                                       *)

\* Nothing about the rows and the chunks of p has changed.
SameAt(p) ==
    /\ index'[p] = index[p]
    /\ \A i \in DOMAIN registry :
         /\ i \in DOMAIN registry'
         /\ ActiveAt(i, p)' <=> ActiveAt(i, p)
         /\ ActiveAt(i, p) => registry'[i].content = registry[i].content
    /\ \A i \in DOMAIN registry' : ActiveAt(i, p)' => i \in DOMAIN registry

LEMMA AgreesKept ==
    ASSUME NEW p, SameAt(p)
    PROVE  /\ Agrees(p) => Agrees(p)'
           /\ Registered(p)' <=> Registered(p)
  <1>1. Registered(p)' <=> Registered(p)
    BY DEF SameAt, Registered
  <1>2. ASSUME AsRecorded(p) PROVE AsRecorded(p)'
    <2>1. PICK i \in DOMAIN registry : ActiveAt(i, p) /\ index[p] = ChunksOf(registry[i].content)
      BY <1>2 DEF AsRecorded
    <2>2. /\ i \in DOMAIN registry' /\ ActiveAt(i, p)' /\ index'[p] = index[p]
          /\ registry'[i].content = registry[i].content
      BY <2>1 DEF SameAt
    <2> QED BY <2>1, <2>2 DEF AsRecorded, ChunksOf
  <1> QED BY <1>1, <1>2 DEF Agrees, SameAt, Empty

LEMMA StepKept ==
    ASSUME TypeInv, NEW t \in Thread, NEW p, On(t) = p, thread'[t] = thread[t], SameAt(p),
           StepAgrees(t)
    PROVE  StepAgrees(t)'
  <1> DEFINE i == thread[t].existing
  <1>1. /\ On(t)' = p /\ thread'[t].existing = i /\ thread'[t].step = thread[t].step
        /\ thread'[t].content = thread[t].content
    BY DEF On
  <1>2. Registered(p)' <=> Registered(p)
    BY AgreesKept
  <1>3. Agrees(p) => Agrees(p)'
    BY AgreesKept
  <1>4. thread[t].step \in Holding => KnowsRow(t)'
    <2>1. thread[t].step \in Holding => KnowsRow(t)
      BY DEF StepAgrees
    <2>2. KnowsRow(t) => KnowsRow(t)'
      BY <1>1, <1>2 DEF KnowsRow, SameAt, Registered, ActiveAt
    <2> QED BY <2>1, <2>2
  <1>5. thread[t].step \in {"read", "find", "clear", "unindex"} => Agrees(p)'
    BY <1>3 DEF StepAgrees
  <1>6. thread[t].step \in {"embed", "remove"} => index'[p] = Empty
    BY DEF StepAgrees, SameAt
  <1>7. thread[t].step \in {"record", "store"} => Whole(t)'
    BY <1>1 DEF StepAgrees, Whole, SameAt, ChunksOf
  <1>8. At(t, "store") => Recorded(t)'
    <2>1. At(t, "store") => KnowsRow(t) /\ Recorded(t) /\ i # 0
      BY DEF StepAgrees, At, Holding, Reading, TypeInv, Shape
    <2>2. At(t, "store") => registry'[i].content = registry[i].content
      BY <2>1 DEF KnowsRow, SameAt
    <2> QED BY <1>1, <2>1, <2>2 DEF Recorded
  <1> QED BY <1>1, <1>4, <1>5, <1>6, <1>7, <1>8 DEF StepAgrees, Agrees, Empty, At

\* A step that keeps the rows and the chunks keeps what is known of them.
LEMMA NothingMoved ==
    ASSUME NEW p, index' = index, registry' = registry
    PROVE  SameAt(p)
  BY DEF SameAt, ActiveAt

LEMMA BackfilledSame ==
    ASSUME TypeOK, NEW p, index' = index, registry' = Backfilled
    PROVE  SameAt(p)
  <1>1. /\ Backfilled \in Seq(Row) /\ Len(Backfilled) = Len(registry)
        /\ \A i \in DOMAIN registry :
             /\ Backfilled[i].path = registry[i].path
             /\ Backfilled[i].active = registry[i].active
             /\ Backfilled[i].content = registry[i].content
    BY BackfilledTypes
  <1>2. DOMAIN Backfilled = DOMAIN registry
    BY <1>1 DEF TypeOK
  <1> QED BY <1>1, <1>2 DEF SameAt, ActiveAt

\* An ingest or a deletion that ends anywhere but between chunks and row.
LEMMA EndsWell ==
    ASSUME TypeInv, NEW t \in Thread, thread[t].step \in Working, ~At(t, "record"), StepAgrees(t)
    PROVE  Agrees(On(t))
  <1>1. CASE thread[t].step \in {"read", "find", "clear", "unindex", "embed", "remove"}
    BY <1>1 DEF StepAgrees, Agrees
  <1>2. CASE At(t, "store")
    <2>1. KnowsRow(t) /\ Whole(t) /\ Recorded(t) /\ thread[t].existing # 0
      BY <1>2 DEF StepAgrees, At, Holding, Reading, TypeInv, Shape
    <2> QED BY <2>1 DEF KnowsRow, Whole, Recorded, Agrees, AsRecorded
  <1> QED BY <1>1, <1>2 DEF Working, IngestStep, DeleteStep, At

\* What the step of t, at work on p, has to leave.
OwnStep(t, p) ==
    /\ thread'[t].step \in Working => StepAgrees(t)'
    /\ thread'[t].step \notin Working => Agrees(p)'

LEMMA LeavesOwn ==
    ASSUME TypeInv, NEW t \in Thread, NEW p, On(t) = p, thread[t].step \in Working,
           ~At(t, "record"), StepAgrees(t), Leaves(t), SameAt(p)
    PROVE  OwnStep(t, p)
  <1>1. Agrees(p)
    BY EndsWell
  <1>2. Agrees(p)'
    BY <1>1, AgreesKept
  <1>3. thread'[t].step \in {"next", "idle"}
    BY LeavesTypes DEF TypeInv
  <1> QED BY <1>2, <1>3 DEF OwnStep, Working, IngestStep, DeleteStep

LEMMA ReadIndex ==
    ASSUME TypeInv, NEW t \in Thread, NEW p, On(t) = p, Read(t), StepAgrees(t)
    PROVE  OwnStep(t, p)
  <1>1. /\ TypeOK /\ thread[t] \in Stage /\ At(t, "read") /\ thread[t].step \in Working
        /\ UNCHANGED <<tables, index>>
        /\ Agrees(p)
    BY Kinds DEF TypeInv, Read, At, Working, IngestStep, StepAgrees
  <1>2. SameAt(p)
    BY <1>1, NothingMoved DEF tables
  <1>3. Agrees(p)' /\ (Registered(p)' <=> Registered(p))
    BY <1>1, <1>2, AgreesKept
  <1>4. CASE Leaves(t)
    BY <1>1, <1>2, <1>4, LeavesOwn DEF At
  <1>5. ASSUME NEW s \in {"embed", "clear"}, NEW i \in Nat,
               s = "embed" => i = 0 /\ ~Registered(p),
               s = "clear" => i \in DOMAIN registry /\ ActiveAt(i, p),
               thread' = [thread EXCEPT
                 ![t] = [@ EXCEPT !.step = s, !.content = file[p], !.existing = i]]
        PROVE  OwnStep(t, p)
    <2> DEFINE x == [thread[t] EXCEPT !.step = s, !.content = file[p], !.existing = i]
    <2>1. x.step = s /\ x.path = p /\ x.existing = i
      BY <1>1 DEF Stage, On
    <2>2. thread' = [thread EXCEPT ![t] = x]
      BY <1>5
    <2> HIDE DEF x
    <2>3. thread'[t].step = s /\ On(t)' = p /\ thread'[t].existing = i
      BY <1>1, <2>1, <2>2 DEF TypeOK, On
    <2>4. s = "clear" => i # 0 /\ i \in DOMAIN registry' /\ ActiveAt(i, p)'
      BY <1>1, <1>2, <1>5, Kinds DEF SameAt
    <2>5. s = "embed" => index'[p] = Empty'
      BY <1>1, <1>5 DEF Agrees, AsRecorded, Registered, Empty
    <2>6. KnowsRow(t)'
      <3>1. CASE s = "clear"
        BY <2>3, <2>4, <3>1 DEF KnowsRow
      <3>2. CASE s = "embed"
        BY <1>3, <1>5, <2>3, <3>2 DEF KnowsRow
      <3> QED BY <3>1, <3>2
    <2>7. thread'[t].step \in {"clear"} => Agrees(p)'
      BY <1>3
    <2>8. StepAgrees(t)'
      BY <2>3, <2>5, <2>6, <2>7 DEF StepAgrees, At
    <2> QED BY <2>3, <2>8 DEF OwnStep, Working, IngestStep
  <1>6. \/ Leaves(t)
        \/ \E s \in {"embed", "clear"}, i \in Nat :
             /\ s = "embed" => i = 0 /\ ~Registered(p)
             /\ s = "clear" => i \in DOMAIN registry /\ ActiveAt(i, p)
             /\ thread' = [thread EXCEPT
                  ![t] = [@ EXCEPT !.step = s, !.content = file[p], !.existing = i]]
    BY <1>1, Kinds DEF Read
  <1> QED BY <1>4, <1>5, <1>6

LEMMA FindIndex ==
    ASSUME TypeInv, NEW t \in Thread, NEW p, On(t) = p, Find(t), StepAgrees(t)
    PROVE  OwnStep(t, p)
  <1>1. /\ TypeOK /\ thread[t] \in Stage /\ At(t, "find") /\ thread[t].step \in Working
        /\ UNCHANGED <<tables, index>>
        /\ Agrees(p)
    BY Kinds DEF TypeInv, Find, At, Working, DeleteStep, StepAgrees
  <1>2. SameAt(p)
    BY <1>1, NothingMoved DEF tables
  <1>3. Agrees(p)'
    BY <1>1, <1>2, AgreesKept
  <1>4. CASE Leaves(t)
    BY <1>1, <1>2, <1>4, LeavesOwn DEF At
  <1>5. ASSUME NEW i \in DOMAIN registry, ActiveAt(i, p),
               thread' = [thread EXCEPT ![t] = [@ EXCEPT !.step = "unindex", !.existing = i]]
        PROVE  OwnStep(t, p)
    <2> DEFINE x == [thread[t] EXCEPT !.step = "unindex", !.existing = i]
    <2>1. x.step = "unindex" /\ x.path = p /\ x.existing = i
      BY <1>1 DEF Stage, On
    <2>2. thread' = [thread EXCEPT ![t] = x]
      BY <1>5
    <2> HIDE DEF x
    <2>3. thread'[t].step = "unindex" /\ On(t)' = p /\ thread'[t].existing = i
      BY <1>1, <2>1, <2>2 DEF TypeOK, On
    <2>4. KnowsRow(t)'
      BY <1>1, <1>2, <1>5, <2>3, Kinds DEF KnowsRow, SameAt
    <2>5. StepAgrees(t)'
      BY <1>3, <2>3, <2>4 DEF StepAgrees, At
    <2> QED BY <2>3, <2>5 DEF OwnStep, Working, DeleteStep
  <1> QED BY <1>4, <1>5 DEF Find

LEMMA EmbedsWhole ==
    ASSUME TypeOK, NEW p \in Path, NEW c, index[p] = Empty,
           index' = [index EXCEPT ![p] =
             [k \in 1 .. MaxChunk |-> IF k <= Chunks[c] THEN c ELSE @[k]]]
    PROVE  index'[p] = ChunksOf(c)
  <1> DEFINE x == [k \in 1 .. MaxChunk |-> IF k <= Chunks[c] THEN c ELSE index[p][k]]
  <1>1. x = [k \in 1 .. MaxChunk |-> IF k <= Chunks[c] THEN c ELSE None]
    BY DEF Empty
  <1>2. index' = [index EXCEPT ![p] = x]
    OBVIOUS
  <1> HIDE DEF x
  <1> QED BY <1>1, <1>2 DEF TypeOK, ChunksOf

LEMMA IndexingIndex ==
    ASSUME TypeInv, NEW t \in Thread, NEW p \in Path, On(t) = p, StepAgrees(t),
           Clear(t) \/ Embed(t) \/ Unindex(t)
    PROVE  /\ OwnStep(t, p)
           /\ \A q \in Path : q # p => SameAt(q)
  <1>1. /\ TypeOK /\ UNCHANGED tables /\ registry' = registry
    BY DEF TypeInv, Clear, Embed, Unindex, tables
  <1>2. \A q \in Path : q # p => SameAt(q)
    <2>1. \A q \in Path : q # p => index'[q] = index[q]
      BY <1>1 DEF Clear, Embed, Unindex, TypeOK
    <2> QED BY <1>1, <2>1 DEF SameAt, ActiveAt
  <1>3. thread[t].step \in {"clear", "embed", "unindex"} /\ KnowsRow(t)
    BY DEF Clear, Embed, Unindex, At, StepAgrees, Holding, Reading
  <1>4. PICK s \in {"embed", "record", "remove"} :
          /\ Goes(t, s)
          /\ s \in {"embed", "remove"} => index'[p] = Empty
          /\ s = "record" => Embed(t)
    BY <1>1 DEF Clear, Embed, Unindex, TypeOK
  <1>5. /\ thread'[t].step = s /\ On(t)' = p
        /\ thread'[t].content = thread[t].content
        /\ thread'[t].existing = thread[t].existing
    BY <1>1, <1>4, GoesTypes DEF On, IngestStep, DeleteStep
  <1>6. KnowsRow(t)'
    BY <1>1, <1>3, <1>5 DEF KnowsRow, Registered, ActiveAt
  <1>7. s = "record" => Whole(t)'
    <2>1. s = "record" => index[p] = Empty
      BY <1>4 DEF Embed, StepAgrees, At
    <2>2. s = "record" => index'[p] = ChunksOf(thread[t].content)
      BY <1>1, <1>4, <2>1, EmbedsWhole DEF Embed
    <2> QED BY <1>5, <2>2 DEF Whole, ChunksOf
  <1>8. s \in {"embed", "remove"} => index'[p] = Empty'
    BY <1>4 DEF Empty
  <1>9. StepAgrees(t)'
    BY <1>5, <1>6, <1>7, <1>8 DEF StepAgrees, At
  <1> QED BY <1>2, <1>5, <1>9 DEF OwnStep, Working, IngestStep, DeleteStep

LEMMA RecordIndex ==
    ASSUME TypeInv, TouchInv, NEW t \in Thread, NEW p \in Path, On(t) = p, Record(t)
    PROVE  /\ StepAgrees(t) => OwnStep(t, p)
           /\ \A q \in Path : q # p /\ q \notin Mixed => SameAt(q)
  <1> DEFINE i == thread[t].existing
             n == Len(registry) + 1
  <1>1. /\ WritesRow(t) \/ AddsRow(t)
        /\ At(t, "record") /\ thread'[t].step = "store" /\ thread'[t].path = p
        /\ thread'[t].content = thread[t].content
        /\ UNCHANGED index
    BY RecordRows
  <1>2. /\ i # 0 => i \in DOMAIN registry /\ (registry[i].path = p \/ registry[i].path \in Mixed)
        /\ StepAgrees(t) => KnowsRow(t) /\ Whole(t)
    BY <1>1 DEF TouchInv, HoldsRow, At, Holding, Reading, StepAgrees
  <1>3. CASE WritesRow(t)
    <2>1. /\ i # 0 /\ DOMAIN registry' = DOMAIN registry /\ thread'[t].existing = i
          /\ \A j \in DOMAIN registry :
               /\ registry'[j].path = registry[j].path
               /\ registry'[j].active = registry[j].active
               /\ registry'[j].content = IF j = i THEN thread[t].content ELSE registry[j].content
      BY <1>3 DEF WritesRow
    <2>2. \A q \in Path : q # p /\ q \notin Mixed => SameAt(q)
      BY <1>1, <1>2, <2>1 DEF SameAt, ActiveAt
    <2>3. ASSUME StepAgrees(t) PROVE StepAgrees(t)'
      <3>1. KnowsRow(t)'
        BY <1>1, <1>2, <2>1, <2>3 DEF KnowsRow, ActiveAt, On
      <3>2. Whole(t)'
        BY <1>1, <1>2, <2>3 DEF Whole, On, ChunksOf
      <3>3. Recorded(t)'
        BY <1>1, <1>2, <2>1 DEF Recorded
      <3> QED BY <1>1, <3>1, <3>2, <3>3 DEF StepAgrees
    <2> QED BY <1>1, <2>2, <2>3 DEF OwnStep, Working, IngestStep
  <1>4. CASE AddsRow(t)
    <2>1. /\ n \notin DOMAIN registry /\ n # 0 /\ thread'[t].existing = n
          /\ DOMAIN registry' = DOMAIN registry \cup {n}
          /\ \A j \in DOMAIN registry : registry'[j] = registry[j]
          /\ registry'[n].path = p /\ registry'[n].active
          /\ registry'[n].content = thread[t].content
      BY <1>4 DEF AddsRow
    <2> HIDE DEF n
    <2>2. \A q \in Path : q # p /\ q \notin Mixed => SameAt(q)
      BY <1>1, <2>1 DEF SameAt, ActiveAt
    <2>3. ASSUME StepAgrees(t) PROVE StepAgrees(t)'
      <3>1. KnowsRow(t)'
        BY <1>1, <2>1 DEF KnowsRow, ActiveAt, On
      <3>2. Whole(t)'
        BY <1>1, <1>2, <2>3 DEF Whole, On, ChunksOf
      <3>3. Recorded(t)'
        BY <1>1, <2>1 DEF Recorded
      <3> QED BY <1>1, <3>1, <3>2, <3>3 DEF StepAgrees
    <2> QED BY <1>1, <2>2, <2>3 DEF OwnStep, Working, IngestStep
  <1> QED BY <1>1, <1>3, <1>4

LEMMA StoreIndex ==
    ASSUME TypeInv, NEW t \in Thread, NEW p, On(t) = p, Store(t)
    PROVE  /\ StepAgrees(t) => OwnStep(t, p)
           /\ \A q : SameAt(q)
  <1>1. \A q : SameAt(q)
    BY StoreRows DEF SameAt, ActiveAt, Store
  <1>2. thread[t].step \in Working /\ ~At(t, "record") /\ Leaves(t)
    BY DEF Store, At, Working, IngestStep
  <1> QED BY <1>1, <1>2, LeavesOwn

LEMMA RemoveIndex ==
    ASSUME TypeInv, TouchInv, NEW t \in Thread, NEW p, On(t) = p, Remove(t)
    PROVE  /\ StepAgrees(t) => OwnStep(t, p)
           /\ \A q \in Path : q # p /\ q \notin Mixed => SameAt(q)
  <1> DEFINE i == thread[t].existing
  <1>1. /\ DOMAIN registry' = DOMAIN registry /\ index' = index
        /\ \A j \in DOMAIN registry :
             /\ registry'[j].path = registry[j].path
             /\ registry'[j].active = (registry[j].active /\ j # i)
             /\ registry'[j].content = registry[j].content
    BY RemoveRows DEF Remove
  <1>2. /\ i # 0 /\ i \in DOMAIN registry
        /\ registry[i].path = p \/ registry[i].path \in Mixed
    BY DEF Remove, At, TouchInv, HoldsRow, Holding, TypeInv, Shape
  <1>3. \A q \in Path : q # p /\ q \notin Mixed => SameAt(q)
    BY <1>1, <1>2 DEF SameAt, ActiveAt
  <1>4. StepAgrees(t) => index'[p] = Empty'
    BY <1>1 DEF StepAgrees, Remove, At, Empty
  <1>5. thread'[t].step \in {"next", "idle"}
    BY LeavesTypes DEF TypeInv, Remove
  <1> QED BY <1>3, <1>4, <1>5 DEF OwnStep, Agrees, Working, IngestStep, DeleteStep

\* The step of one thread keeps what it is to keep of its own path, and the
\* rest of the paths as they are.
LEMMA StepIndex ==
    ASSUME TypeInv, TouchInv, IndexInv, NEW t \in Thread, StepOf(t),
           \A q \in Path : q \notin astray' /\ ~WorksOn(t, q) => SameAt(q),
           \A q \in Path : q \notin astray' /\ WorksOn(t, q) /\ StepAgrees(t) => OwnStep(t, q)
    PROVE  IndexInv'
  <1>1. \A q : q \notin astray' => q \notin astray /\ q \notin Mixed
    BY DEF StepOf, Mixed
  <1>2. /\ \A u \in Thread : thread[u].step \in Working /\ On(u) \notin astray => StepAgrees(u)
        /\ \A q \in Path : ~Busy(q) /\ q \notin astray => Agrees(q)
    BY DEF IndexInv
  <1>3. ASSUME NEW u \in Thread, thread'[u].step \in Working, thread'[u].path \notin astray'
        PROVE  StepAgrees(u)'
    <2>1. PICK q : q = On(u)
      OBVIOUS
    <2>2. thread[u].step \in Working /\ thread'[u].path = q
      BY <1>3, <2>1 DEF StepOf, On
    <2>3. q \in Path /\ WorksOn(u, q) /\ StepAgrees(u)
      BY <1>1, <1>2, <1>3, <2>1, <2>2 DEF WorksOn, On, Working, TypeInv, Shape
    <2>4. CASE u = t
      BY <1>3, <2>2, <2>3, <2>4 DEF OwnStep
    <2>5. CASE u # t
      <3>1. ~WorksOn(t, q)
        BY <1>1, <1>3, <2>2, <2>3, <2>5 DEF TouchInv, Alone
      <3>2. SameAt(q) /\ thread'[u] = thread[u]
        BY <1>3, <2>2, <2>3, <2>5, <3>1 DEF StepOf
      <3> QED BY <2>1, <2>3, <3>2, StepKept
    <2> QED BY <2>4, <2>5
  <1>4. ASSUME NEW q \in Path, ~Busy(q)', q \notin astray'
        PROVE  Agrees(q)'
    <2>1. CASE WorksOn(t, q)
      <3>1. thread'[t].step \notin Working
        BY <1>4, <2>1 DEF StepOf, Busy, WorksOn, Working, On
      <3>2. StepAgrees(t)
        BY <1>1, <1>2, <1>4, <2>1 DEF WorksOn, Working, On
      <3> QED BY <1>4, <2>1, <3>1, <3>2 DEF OwnStep
    <2>2. CASE ~WorksOn(t, q)
      <3>1. ~Busy(q)
        BY <1>4, <2>2 DEF StepOf, Busy, WorksOn, On
      <3>2. Agrees(q) /\ SameAt(q)
        BY <1>1, <1>2, <1>4, <2>2, <3>1
      <3> QED BY <3>2, AgreesKept
    <2> QED BY <2>1, <2>2
  <1> QED BY <1>3, <1>4 DEF IndexInv, On

LEMMA WorkIndex ==
    ASSUME TypeInv, TouchInv, IndexInv, NEW t \in Thread, Ingest(t) \/ Raise(t) \/ Delete(t)
    PROVE  IndexInv'
  <1>1. StepOf(t)
    BY WorkSteps
  <1>2. \A q : q \notin astray' => q \notin Mixed
    BY <1>1 DEF StepOf, Mixed
  <1>3. thread[t].step \in Working
    BY DEF Ingest, Raise, Delete, Read, Clear, Embed, Record, Refused, Store, Find, Unindex, Remove,
       At, Working, IngestStep, DeleteStep
  <1>4. PICK p \in Path : On(t) = p
    BY <1>3 DEF TypeInv, Shape
  <1>5. \A q : WorksOn(t, q) <=> q = p
    BY <1>3, <1>4 DEF WorksOn, Working, On
  <1>6. ASSUME /\ \A q \in Path : q # p /\ q \notin astray' => SameAt(q)
               /\ p \notin astray' /\ StepAgrees(t) => OwnStep(t, p)
        PROVE  IndexInv'
    BY <1>1, <1>5, <1>6, StepIndex
  <1>7. CASE Read(t) \/ Find(t)
    <2>1. \A q : SameAt(q)
      BY <1>7, NothingMoved DEF Read, Find, tables
    <2>2. StepAgrees(t) => OwnStep(t, p)
      BY <1>4, <1>7, ReadIndex, FindIndex
    <2> QED BY <1>6, <2>1, <2>2
  <1>8. CASE Clear(t) \/ Embed(t) \/ Unindex(t)
    <2>1. ASSUME StepAgrees(t)
          PROVE  OwnStep(t, p) /\ \A q \in Path : q # p => SameAt(q)
      BY <1>4, <1>8, <2>1, IndexingIndex
    <2>2. \A q \in Path : q # p => SameAt(q)
      <3>1. registry' = registry
        BY <1>8 DEF Clear, Embed, Unindex, tables
      <3>2. \A q \in Path : q # p => index'[q] = index[q]
        BY <1>4, <1>8 DEF Clear, Embed, Unindex, TypeInv, TypeOK
      <3> QED BY <3>1, <3>2 DEF SameAt, ActiveAt
    <2> QED BY <1>6, <2>1, <2>2
  <1>9. CASE Record(t)
    BY <1>2, <1>4, <1>6, <1>9, RecordIndex
  <1>10. CASE Store(t)
    BY <1>4, <1>6, <1>10, StoreIndex
  <1>11. CASE Remove(t)
    BY <1>2, <1>4, <1>6, <1>11, RemoveIndex
  <1>12. CASE Refused(t)
    <2>1. p \in astray' /\ \A q : SameAt(q)
      BY <1>4, <1>12, NothingMoved DEF Refused, tables
    <2> QED BY <1>6, <2>1
  <1>13. CASE Raise(t)
    <2>1. \A q : SameAt(q)
      BY <1>13, NothingMoved DEF Raise, tables
    <2>2. p \notin astray' => ~At(t, "record")
      BY <1>4, <1>13 DEF Raise, LeavesAstray
    <2>3. p \notin astray' /\ StepAgrees(t) => OwnStep(t, p)
      BY <1>3, <1>4, <1>13, <2>1, <2>2, LeavesOwn DEF Raise
    <2> QED BY <1>6, <2>1, <2>3
  <1> QED BY <1>7, <1>8, <1>9, <1>10, <1>11, <1>12, <1>13 DEF Ingest, Delete

LEMMA BeginsIndex ==
    ASSUME TypeInv, IndexInv, NEW t \in Thread, NEW p \in Path, Begins(t, p),
           \A q \in Path : SameAt(q)
    PROVE  IndexInv'
  <1>1. /\ \A u \in Thread : thread[u].step \in Working /\ On(u) \notin astray => StepAgrees(u)
        /\ \A q \in Path : ~Busy(q) /\ q \notin astray => Agrees(q)
    BY DEF IndexInv
  <1>2. \A q : q \notin astray' => q \notin astray /\ q \notin Mixed'
    BY DEF Begins, Mixed
  <1>3. \A q \in Path : Agrees(q) => Agrees(q)'
    BY AgreesKept
  <1>4. ASSUME NEW u \in Thread, thread'[u].step \in Working, thread'[u].path \notin astray'
        PROVE  StepAgrees(u)'
    <2>1. CASE u = t
      <3>1. p \notin astray' /\ thread'[t].path = p /\ thread'[t].step \in {"read", "find"}
        BY <1>4, <2>1 DEF Begins
      <3>2. Agrees(p)'
        BY <1>1, <1>2, <1>3, <3>1 DEF Begins
      <3> QED BY <2>1, <3>1, <3>2 DEF StepAgrees, On, Holding, Reading, At
    <2>2. CASE u # t
      <3>1. thread'[u] = thread[u]
        BY <2>2 DEF Begins
      <3>2. PICK q : q = On(u)
        OBVIOUS
      <3>3. q \in Path /\ StepAgrees(u)
        BY <1>1, <1>2, <1>4, <3>1, <3>2 DEF On, TypeInv, Shape
      <3> QED BY <3>1, <3>2, <3>3, StepKept
    <2> QED BY <2>1, <2>2
  <1>5. ASSUME NEW q \in Path, ~Busy(q)', q \notin astray'
        PROVE  Agrees(q)'
    <2>1. ~Busy(q)
      BY <1>5 DEF Begins, Busy, WorksOn, On, Working
    <2> QED BY <1>1, <1>2, <1>3, <1>5, <2>1
  <1> QED BY <1>4, <1>5 DEF IndexInv, On

LEMMA CommitIndex ==
    ASSUME TypeInv, IndexInv, CommitPutBack \/ PutBackRaises
    PROVE  IndexInv'
  <1>1. PICK S \in {{}, Repointed} :
          /\ Commit(S)
          /\ S \subseteq DOMAIN moved
          /\ \A u \in Thread \ {CatchUp} : thread'[u] = thread[u]
          /\ thread[CatchUp].step = "putBack" /\ thread'[CatchUp].step \in {"next", "done"}
          /\ index' = index
    BY CommitSteps
  <1>2. /\ TypeOK /\ \A s \in {"next", "done", "putBack"} : s \notin Working
        /\ \A i \in S : i \in DOMAIN registry
    BY <1>1, Kinds DEF TypeInv, Working, IngestStep, DeleteStep
  <1>3. /\ DOMAIN registry' = DOMAIN registry
        /\ \A i \in DOMAIN registry :
             /\ registry'[i].path = IF i \in S THEN moved[i] ELSE registry[i].path
             /\ registry'[i].active = registry[i].active
             /\ registry'[i].content = registry[i].content
    BY <1>1, <1>2, CommitRows
  <1>4. /\ astray \subseteq astray'
        /\ \A p \in Gone(S) : index[p] # Empty => p \in astray'
        /\ (\E p \in Gone(S) \cup NewPaths(S) : Busy(p)) => Gone(S) \cup NewPaths(S) \subseteq astray'
    BY <1>1, <1>2, CommitHistory
  <1>5. /\ \A u \in Thread : thread[u].step \in Working /\ On(u) \notin astray => StepAgrees(u)
        /\ \A q \in Path : ~Busy(q) /\ q \notin astray => Agrees(q)
    BY DEF IndexInv
  <1>6. /\ \A i \in S : registry[i].path \in Gone(S)
        /\ \A i \in S : moved[i] \in NewPaths(S)
    BY DEF Gone, NewPaths
  <1>7. ASSUME NEW u \in Thread, thread'[u].step \in Working, thread'[u].path \notin astray'
        PROVE  StepAgrees(u)'
    <2>1. u # CatchUp /\ thread'[u] = thread[u]
      BY <1>1, <1>2, <1>7
    <2>2. PICK q : q = On(u)
      OBVIOUS
    <2>3. q \in Path /\ Busy(q) /\ StepAgrees(u) /\ q \notin astray'
      BY <1>4, <1>5, <1>7, <2>1, <2>2 DEF On, TypeInv, Shape, Busy, WorksOn, Working
    <2>4. q \notin Gone(S) /\ q \notin NewPaths(S)
      BY <1>4, <2>3
    <2>5. SameAt(q)
      BY <1>1, <1>3, <1>6, <2>4 DEF SameAt, ActiveAt
    <2> QED BY <2>1, <2>2, <2>3, <2>5, StepKept
  <1>8. ASSUME NEW q \in Path, ~Busy(q)', q \notin astray'
        PROVE  Agrees(q)'
    <2>1. ~Busy(q)
      BY <1>1, <1>2, <1>8 DEF Busy, WorksOn, On, Working
    <2>2. Agrees(q)
      BY <1>4, <1>5, <1>8, <2>1
    <2>3. CASE index[q] = Empty
      BY <1>1, <2>3 DEF Agrees, Empty
    <2>4. CASE index[q] # Empty
      <3>1. q \notin Gone(S)
        BY <1>4, <1>8, <2>4
      <3>2. PICK i \in DOMAIN registry : ActiveAt(i, q) /\ index[q] = ChunksOf(registry[i].content)
        BY <2>2, <2>4 DEF Agrees, AsRecorded
      <3>3. i \notin S
        BY <1>6, <3>1, <3>2 DEF ActiveAt
      <3>4. i \in DOMAIN registry' /\ ActiveAt(i, q)' /\ registry'[i].content = registry[i].content
        BY <1>3, <3>2, <3>3 DEF ActiveAt
      <3> QED BY <1>1, <3>2, <3>4 DEF Agrees, AsRecorded, ChunksOf
    <2> QED BY <2>3, <2>4
  <1> QED BY <1>7, <1>8 DEF IndexInv, On

\* With nobody at work left it is about the paths only.
LEMMA RestIndex ==
    ASSUME NobodyWorks', \A q \in Path : q \notin astray' => Agrees(q)'
    PROVE  IndexInv'
  BY DEF IndexInv, NobodyWorks

LEMMA DownIndex ==
    ASSUME TypeInv, IndexInv, Start \/ Kill \/ LoseIndex
    PROVE  IndexInv'
  <1>1. /\ \A u \in Thread : thread[u].step \in Working /\ On(u) \notin astray => StepAgrees(u)
        /\ \A q \in Path : ~Busy(q) /\ q \notin astray => Agrees(q)
        /\ TypeOK
    BY DEF IndexInv, TypeInv
  <1>2. CASE LoseIndex
    <2>1. NobodyWorks'
      BY <1>2 DEF LoseIndex, NobodyWorks, TypeInv, Shape, At, Working, IngestStep, DeleteStep
    <2>2. \A q \in Path : index'[q] = Empty
      BY <1>2 DEF LoseIndex
    <2> QED BY <2>1, <2>2, RestIndex DEF Agrees, Empty
  <1>3. CASE Start
    <2>1. \A q : ~Busy(q)
      BY <1>3 DEF Start, TypeInv, Shape, At, Busy, WorksOn, IngestStep, DeleteStep
    <2>2. \A q \in Path : SameAt(q)
      BY <1>1, <1>3, BackfilledSame DEF Start
    <2>3. \A q \in Path : q \notin astray' => Agrees(q)'
      BY <1>1, <1>3, <2>1, <2>2, AgreesKept DEF Start
    <2> QED BY <1>3, <2>3, StartKillWork, RestIndex
  <1>4. CASE Kill
    <2>1. \A q \in Path : SameAt(q)
      BY <1>4, NothingMoved DEF Kill
    <2>2. astray \subseteq astray' /\ \A t \in Thread : LeavesAstray(t) \subseteq astray'
      BY <1>4 DEF Kill
    <2>3. ASSUME NEW q \in Path, q \notin astray'
          PROVE  Agrees(q)
      <3>1. CASE Busy(q)
        <4>1. PICK t \in Thread : WorksOn(t, q)
          BY <3>1 DEF Busy
        <4>2. thread[t].step \in Working /\ On(t) = q
          BY <4>1 DEF WorksOn, Working, On
        <4>3. ~At(t, "record") /\ StepAgrees(t)
          BY <1>1, <2>2, <2>3, <4>2 DEF LeavesAstray
        <4> QED BY <4>2, <4>3, EndsWell
      <3>2. CASE ~Busy(q)
        BY <1>1, <2>2, <2>3, <3>2
      <3> QED BY <3>1, <3>2
    <2>4. \A q \in Path : q \notin astray' => Agrees(q)'
      BY <2>1, <2>3, AgreesKept
    <2> QED BY <1>4, <2>4, StartKillWork, RestIndex
  <1> QED BY <1>2, <1>3, <1>4

LEMMA IndexStep == TypeInv /\ TouchInv /\ IndexInv /\ [Next]_vars => IndexInv'
  <1> SUFFICES ASSUME TypeInv, TouchInv, IndexInv, [Next]_vars PROVE IndexInv'
    OBVIOUS
  <1>0. TypeOK /\ Worker \subseteq Thread /\ CatchUp \in Thread
    BY DEF TypeInv, Thread
  <1>1. CASE \E t \in Worker, p \in Path :
               AskIngest(t, p) \/ AskDelete(t, p) \/ \E c \in Content : Upload(t, p, c)
    <2>1. PICK t \in Worker, p \in Path, s \in {"read", "find"} : Opens(t, s, p)
      BY <1>1, AsksOpen
    <2>2. Begins(t, p)
      BY <2>1, OpensBegins
    <2>3. \A q \in Path : SameAt(q)
      BY <1>0, <2>1, BackfilledSame DEF Opens
    <2> QED BY <1>0, <2>2, <2>3, BeginsIndex
  <1>2. CASE \E t \in Thread : Ingest(t) \/ Raise(t) \/ Delete(t)
    BY <1>2, WorkIndex
  <1>3. ASSUME StepOf(CatchUp), \A q : SameAt(q), \A q : ~WorksOn(CatchUp, q) \/ thread' = thread
        PROVE  IndexInv'
    <2>1. CASE \A q : ~WorksOn(CatchUp, q)
      BY <1>0, <1>3, <2>1, StepIndex
    <2>2. CASE thread' = thread
      <3>1. \A q \in Path : WorksOn(CatchUp, q) /\ StepAgrees(CatchUp) => OwnStep(CatchUp, q)
        BY <1>0, <1>3, <2>2, StepKept DEF OwnStep, WorksOn, Working, On
      <3> QED BY <1>0, <1>3, <3>1, StepIndex
    <2> QED BY <1>3, <2>1, <2>2
  <1>4. CASE Check \/ PutBack \/ Rebuilt \/ GoOn
    <2>1. \A q : SameAt(q)
      BY <1>4, NothingMoved DEF Check, PutBack, Rebuilt, GoOn, tables
    <2>2. \A q : ~WorksOn(CatchUp, q)
      BY <1>4 DEF Check, PutBack, Rebuilt, GoOn, At, WorksOn, IngestStep, DeleteStep
    <2> QED BY <1>3, <1>4, <2>1, <2>2, CatchUpSteps
  <1>5. CASE CommitPutBack \/ PutBackRaises
    BY <1>5, CommitIndex
  <1>6. CASE /\ thread' = thread /\ registry' = registry /\ index' = index
             /\ astray \subseteq astray' /\ torn \subseteq torn'
    <2>1. StepOf(CatchUp)
      BY <1>6 DEF StepOf, PutBackOver, On
    <2> QED BY <1>3, <1>6, <2>1, NothingMoved
  <1>7. CASE \E p \in Path : NextDocument(p)
    <2>1. PICK p \in Path : NextDocument(p)
      BY <1>7
    <2>2. CASE file[p] = None
      BY <1>6, <2>1, <2>2 DEF NextDocument, tables
    <2>3. CASE file[p] # None
      <3>1. \A q : SameAt(q)
        BY <2>1, NothingMoved DEF NextDocument, tables
      <3> QED BY <1>0, <2>1, <2>3, <3>1, NextBegins, BeginsIndex
    <2> QED BY <2>2, <2>3
  <1>8. CASE Start \/ Kill \/ LoseIndex
    BY <1>8, DownIndex
  <1>9. CASE (\E p \in Path, c \in Content \cup {None} : Edit(p, c)) \/ UNCHANGED vars
    BY <1>6, <1>9 DEF Edit, vars, tables, history
  <1> QED BY <1>0, <1>1, <1>2, <1>4, <1>5, <1>7, <1>8, <1>9 DEF Next, Rebuild

LEMMA InitIndex == Init => TouchInv /\ IndexInv /\ KeyInv
  <1> SUFFICES ASSUME Init PROVE TouchInv /\ IndexInv /\ KeyInv
    OBVIOUS
  <1>1. \A t \in Thread : thread[t].step \notin Working \cup Holding
    BY DEF Init, Idle, Working, Holding, Reading, IngestStep, DeleteStep
  <1>2. registry = <<>> /\ moved = <<>> /\ \A q \in Path : index[q] = Empty
    BY DEF Init
  <1> QED
    BY <1>1, <1>2 DEF TouchInv, Alone, HoldsRow, WorksOn, Working, IndexInv, Agrees, KeyInv

\* What search can find of a path is what the registry records of it, or
\* nothing, for any number of requests, edits, failures and rebuilds: outside
\* of what astray names, a removed document is never searchable.
THEOREM IndexHolds == Spec => []IndexAgrees
  <1>1. IndexInv => IndexAgrees
    BY DEF IndexInv, IndexAgrees, Agrees
  <1> QED BY <1>1, InitTypes, InitIndex, TypesStep, TouchStep, IndexStep, PTL DEF Spec

-----------------------------------------------------------------------------
(* The bytes of a row are those of its content                              *)

\* The threads of M move on, none of them past a store; the rows keep what they say.
LEMMA BytesKept ==
    ASSUME TypeInv, TouchInv, BytesInv, NEW M \in SUBSET Thread,
           \A u \in Thread \ M : thread'[u] = thread[u],
           \A p : p \notin torn' /\ Busy(p) /\ file[p] # None => file'[p] = file[p],
           SamePaths,
           \A i \in DOMAIN registry :
             /\ registry'[i].content = registry[i].content
             /\ \/ registry'[i].bytes = registry[i].bytes
                \/ registry[i].bytes = None,
           torn \subseteq torn',
           \A t \in M :
             /\ At(t, "store") => On(t) \in torn'
             /\ thread'[t].step \in Reading =>
                  /\ thread'[t].step # "store"
                  /\ \/ /\ thread[t].step \in Reading /\ thread'[t].path = On(t)
                        /\ thread'[t].content = thread[t].content
                     \/ file'[thread'[t].path] = thread'[t].content
    PROVE  BytesInv'
  <1>1. /\ \A u \in Thread : thread[u].step \in Reading /\ On(u) \notin torn =>
             /\ file[On(u)] = thread[u].content
             /\ At(u, "store") => Recorded(u)
        /\ \A i \in DOMAIN registry : registry[i].active /\ registry[i].path \notin torn =>
             registry[i].bytes = registry[i].content \/ \E t \in Thread : Storing(t, i)
    BY DEF BytesInv
  <1>2. ASSUME NEW u \in Thread, thread[u].step \in Reading, On(u) \notin torn'
        PROVE  file'[On(u)] = thread[u].content
    <2>1. file[On(u)] = thread[u].content /\ thread[u].content \in Content
      BY <1>1, <1>2 DEF TypeInv, Shape
    <2>2. Busy(On(u)) /\ file[On(u)] # None
      BY <1>2, <2>1, NoneIsNoContent DEF Busy, WorksOn, On, Reading, IngestStep
    <2> QED BY <1>2, <2>1, <2>2
  <1>3. ASSUME NEW u \in Thread, thread'[u].step \in Reading, thread'[u].path \notin torn'
        PROVE  /\ file'[thread'[u].path] = thread'[u].content
               /\ thread'[u].step = "store" => registry'[thread'[u].existing].content = thread'[u].content
    <2>1. CASE u \in M
      BY <1>2, <1>3, <2>1
    <2>2. CASE u \notin M
      <3>1. thread'[u] = thread[u]
        BY <2>2
      <3>2. At(u, "store") => Recorded(u) /\ thread[u].existing \in DOMAIN registry
        BY <1>1, <1>3, <3>1 DEF TouchInv, HoldsRow, TypeInv, Shape, At, Holding, Reading, On
      <3> QED BY <1>2, <1>3, <3>1, <3>2 DEF On, At, Recorded
    <2> QED BY <2>1, <2>2
  <1>4. ASSUME NEW i \in DOMAIN registry', registry'[i].active, registry'[i].path \notin torn'
        PROVE  registry'[i].bytes = registry'[i].content \/ \E t \in Thread : Storing(t, i)'
    <2>1. i \in DOMAIN registry /\ registry[i].active /\ registry[i].path = registry'[i].path
      BY <1>4 DEF SamePaths
    <2>2. CASE registry[i].bytes = registry[i].content
      <3>1. registry[i].content \in Content
        BY <2>1, Kinds DEF TypeInv, Row
      <3> QED BY <2>1, <2>2, <3>1, NoneIsNoContent
    <2>3. CASE \E t \in Thread : Storing(t, i)
      <3>1. PICK t \in Thread : Storing(t, i)
        BY <2>3
      <3>2. t \notin M
        BY <1>4, <2>1, <3>1 DEF Storing
      <3> QED BY <2>1, <3>1, <3>2 DEF Storing, At, On
    <2> QED BY <1>1, <1>4, <2>1, <2>2, <2>3
  <1> QED BY <1>3, <1>4 DEF BytesInv, On, At, Recorded

LEMMA RecordBytes ==
    ASSUME TypeInv, TouchInv, BytesInv, NEW t \in Thread, Record(t)
    PROVE  BytesInv'
  <1> DEFINE k == thread[t].existing
             n == Len(registry) + 1
  <1>1. /\ WritesRow(t) \/ AddsRow(t)
        /\ At(t, "record") /\ thread'[t].step = "store" /\ thread'[t].path = On(t)
        /\ thread'[t].content = thread[t].content
        /\ \A u \in Thread \ {t} : thread'[u] = thread[u]
        /\ file' = file /\ torn' = torn
    BY RecordRows DEF history
  <1>2. /\ \A u \in Thread : thread[u].step \in Reading /\ On(u) \notin torn =>
             /\ file[On(u)] = thread[u].content
             /\ At(u, "store") => Recorded(u)
        /\ \A i \in DOMAIN registry : registry[i].active /\ registry[i].path \notin torn =>
             registry[i].bytes = registry[i].content \/ \E u \in Thread : Storing(u, i)
    BY DEF BytesInv
  <1>3. /\ \A u \in Thread : At(u, "store") /\ On(u) \notin torn =>
             /\ thread[u].existing \in DOMAIN registry
             /\ registry[thread[u].existing].path = On(u)
        /\ k # 0 => k \in DOMAIN registry /\ (registry[k].path = On(t) \/ registry[k].path \in torn)
    BY <1>1 DEF TouchInv, HoldsRow, TypeInv, Shape, At, Holding, Reading, Mixed
  <1>4. \A u \in Thread : At(u, "store") /\ On(u) \notin torn => u # t /\ On(u) # On(t)
    <2>1. \A u \in Thread : At(u, "store") => WorksOn(u, On(u))
      BY DEF At, WorksOn, On, IngestStep
    <2>2. WorksOn(t, On(t)) /\ On(t) \in Path
      BY <1>1 DEF At, WorksOn, On, IngestStep, TypeInv, Shape, Working
    <2> QED BY <1>1, <2>1, <2>2 DEF At, TouchInv, Alone, Mixed
  <1>5. thread[t].step \in Reading /\ "store" \in Reading
    BY <1>1 DEF At, Reading
  <1>6. CASE WritesRow(t)
    <2>1. /\ k # 0 /\ DOMAIN registry' = DOMAIN registry /\ thread'[t].existing = k
          /\ \A j \in DOMAIN registry :
               /\ registry'[j].path = registry[j].path
               /\ registry'[j].active = registry[j].active
               /\ registry'[j].bytes = registry[j].bytes
               /\ registry'[j].content = IF j = k THEN thread[t].content ELSE registry[j].content
      BY <1>6 DEF WritesRow
    <2>2. ASSUME NEW u \in Thread, thread'[u].step \in Reading, thread'[u].path \notin torn'
          PROVE  /\ file'[thread'[u].path] = thread'[u].content
                 /\ thread'[u].step = "store" =>
                      registry'[thread'[u].existing].content = thread'[u].content
      <3>1. CASE u = t
        BY <1>1, <1>2, <1>3, <1>5, <2>1, <2>2, <3>1
      <3>2. CASE u # t
        <4>1. thread'[u] = thread[u]
          BY <1>1, <3>2
        <4>2. At(u, "store") => thread[u].existing # k
          BY <1>1, <1>3, <1>4, <2>1, <2>2, <4>1 DEF On
        <4> QED BY <1>1, <1>2, <1>3, <2>1, <2>2, <4>1, <4>2 DEF On, At, Recorded
      <3> QED BY <3>1, <3>2
    <2>3. ASSUME NEW i \in DOMAIN registry', registry'[i].active, registry'[i].path \notin torn'
          PROVE  registry'[i].bytes = registry'[i].content \/ \E u \in Thread : Storing(u, i)'
      <3>1. CASE i = k
        <4>1. Storing(t, i)'
          BY <1>1, <1>3, <2>1, <2>3, <3>1 DEF Storing, At, On
        <4> QED BY <4>1
      <3>2. CASE i # k
        <4>1. \A u \in Thread : Storing(u, i) => Storing(u, i)'
          BY <1>1, <2>1, <2>3 DEF Storing, At, On
        <4> QED BY <1>1, <1>2, <2>1, <2>3, <3>2, <4>1
      <3> QED BY <3>1, <3>2
    <2> QED BY <2>2, <2>3 DEF BytesInv, On, At, Recorded
  <1>7. CASE AddsRow(t)
    <2>1. /\ n \notin DOMAIN registry /\ n # 0 /\ thread'[t].existing = n
          /\ DOMAIN registry' = DOMAIN registry \cup {n}
          /\ \A j \in DOMAIN registry : registry'[j] = registry[j]
          /\ registry'[n].path = On(t) /\ registry'[n].active
          /\ registry'[n].content = thread[t].content
      BY <1>7 DEF AddsRow
    <2> HIDE DEF n
    <2>2. ASSUME NEW u \in Thread, thread'[u].step \in Reading, thread'[u].path \notin torn'
          PROVE  /\ file'[thread'[u].path] = thread'[u].content
                 /\ thread'[u].step = "store" =>
                      registry'[thread'[u].existing].content = thread'[u].content
      <3>1. CASE u = t
        BY <1>1, <1>2, <1>5, <2>1, <2>2, <3>1
      <3>2. CASE u # t
        <4>1. thread'[u] = thread[u]
          BY <1>1, <3>2
        <4> QED BY <1>1, <1>2, <1>3, <2>1, <2>2, <4>1 DEF On, At, Recorded
      <3> QED BY <3>1, <3>2
    <2>3. ASSUME NEW i \in DOMAIN registry', registry'[i].active, registry'[i].path \notin torn'
          PROVE  registry'[i].bytes = registry'[i].content \/ \E u \in Thread : Storing(u, i)'
      <3>1. CASE i = n
        <4>1. Storing(t, i)'
          BY <1>1, <2>1, <3>1 DEF Storing, At, On
        <4> QED BY <4>1
      <3>2. CASE i # n
        <4>1. \A u \in Thread : Storing(u, i) => Storing(u, i)'
          BY <1>1, <2>1, <2>3, <3>2 DEF Storing, At, On
        <4> QED BY <1>1, <1>2, <2>1, <2>3, <3>2, <4>1
      <3> QED BY <3>1, <3>2
    <2> QED BY <2>2, <2>3 DEF BytesInv, On, At, Recorded
  <1> QED BY <1>1, <1>6, <1>7

LEMMA StoreBytes ==
    ASSUME TypeInv, TouchInv, BytesInv, NEW t \in Thread, Store(t)
    PROVE  BytesInv'
  <1> DEFINE k == thread[t].existing
  <1>1. /\ DOMAIN registry' = DOMAIN registry
        /\ \A j \in DOMAIN registry :
             /\ registry'[j].path = registry[j].path
             /\ registry'[j].active = registry[j].active
             /\ registry'[j].content = registry[j].content
             /\ registry'[j].bytes = IF j = k /\ file[On(t)] # None
                                       THEN file[On(t)] ELSE registry[j].bytes
    BY StoreRows
  <1>2. /\ At(t, "store") /\ file' = file /\ torn' = torn
        /\ thread'[t].step \notin Reading
        /\ \A u \in Thread \ {t} : thread'[u] = thread[u]
    BY LeavesTypes DEF Store, history, TypeInv, Reading
  <1>3. /\ \A u \in Thread : thread[u].step \in Reading /\ On(u) \notin torn =>
             /\ file[On(u)] = thread[u].content
             /\ At(u, "store") => Recorded(u)
        /\ \A i \in DOMAIN registry : registry[i].active /\ registry[i].path \notin torn =>
             registry[i].bytes = registry[i].content \/ \E u \in Thread : Storing(u, i)
    BY DEF BytesInv
  <1>4. /\ \A u \in Thread : At(u, "store") => thread[u].existing \in DOMAIN registry
        /\ registry[k].path = On(t) \/ registry[k].path \in torn
        /\ thread[t].content \in Content
    BY <1>2 DEF TouchInv, HoldsRow, TypeInv, Shape, At, Holding, Reading, Mixed
  <1>5. ASSUME NEW u \in Thread, thread'[u].step \in Reading, thread'[u].path \notin torn'
        PROVE  /\ file'[thread'[u].path] = thread'[u].content
               /\ thread'[u].step = "store" =>
                    registry'[thread'[u].existing].content = thread'[u].content
    <2>1. u # t /\ thread'[u] = thread[u]
      BY <1>2, <1>5
    <2> QED BY <1>1, <1>2, <1>3, <1>4, <1>5, <2>1 DEF On, At, Recorded
  <1>6. ASSUME NEW i \in DOMAIN registry', registry'[i].active, registry'[i].path \notin torn'
        PROVE  registry'[i].bytes = registry'[i].content \/ \E u \in Thread : Storing(u, i)'
    <2>1. CASE i = k
      <3>1. On(t) \notin torn
        BY <1>1, <1>2, <1>4, <1>6, <2>1
      <3>2. file[On(t)] = thread[t].content /\ Recorded(t)
        BY <1>2, <1>3, <3>1 DEF At, Reading
      <3>3. file[On(t)] # None
        BY <1>4, <3>2, NoneIsNoContent
      <3> QED BY <1>1, <1>6, <2>1, <3>2, <3>3 DEF Recorded
    <2>2. CASE i # k
      <3>1. \A u \in Thread : Storing(u, i) => Storing(u, i)'
        BY <1>1, <1>2, <1>6, <2>2 DEF Storing, At, On
      <3> QED BY <1>1, <1>2, <1>3, <1>6, <2>2, <3>1
    <2> QED BY <2>1, <2>2
  <1> QED BY <1>5, <1>6 DEF BytesInv, On, At, Recorded

LEMMA PutBackFiles ==
    ASSUME TypeInv, PutBack \/ PutBackRaises
    PROVE  \A p : file[p] # None => file'[p] = file[p]
  <1> DEFINE i == thread[CatchUp].existing
  <1>1. CASE file' = file
    BY <1>1
  <1>2. CASE file' = [file EXCEPT ![Home(i)] = IF @ = None THEN registry[i].bytes ELSE @]
    BY <1>2 DEF TypeInv, TypeOK
  <1> QED BY <1>1, <1>2 DEF PutBack, PutBackRaises, Cursor

LEMMA CommitBytes ==
    ASSUME TypeInv, TouchInv, BytesInv, CommitPutBack \/ PutBackRaises
    PROVE  BytesInv'
  <1>1. PICK S \in {{}, Repointed} :
          /\ Commit(S)
          /\ S \subseteq DOMAIN moved
          /\ \A u \in Thread \ {CatchUp} : thread'[u] = thread[u]
          /\ thread[CatchUp].step = "putBack" /\ thread'[CatchUp].step \in {"next", "done"}
          /\ index' = index
    BY CommitSteps
  <1>2. /\ TypeOK /\ \A s \in {"next", "done", "putBack"} : s \notin Reading
        /\ \A i \in S : i \in DOMAIN registry
    BY <1>1, Kinds DEF TypeInv, Reading
  <1>3. /\ DOMAIN registry' = DOMAIN registry
        /\ \A i \in DOMAIN registry :
             /\ registry'[i].path = IF i \in S THEN moved[i] ELSE registry[i].path
             /\ registry'[i].active = registry[i].active
             /\ registry'[i].content = registry[i].content
             /\ registry'[i].bytes = registry[i].bytes
    BY <1>1, <1>2, CommitRows
  <1>4. /\ torn \subseteq torn'
        /\ \A i \in S : registry[i].path \in torn => moved[i] \in torn'
        /\ (\E p \in Gone(S) \cup NewPaths(S) : Busy(p)) => Gone(S) \cup NewPaths(S) \subseteq torn'
    BY <1>1, <1>2, CommitHistory
  <1>5. /\ \A u \in Thread : thread[u].step \in Reading /\ On(u) \notin torn =>
             /\ file[On(u)] = thread[u].content
             /\ At(u, "store") => Recorded(u)
        /\ \A i \in DOMAIN registry : registry[i].active /\ registry[i].path \notin torn =>
             registry[i].bytes = registry[i].content \/ \E u \in Thread : Storing(u, i)
    BY DEF BytesInv
  <1>6. \A p : file[p] # None => file'[p] = file[p]
    <2>1. CASE CommitPutBack
      BY <2>1 DEF CommitPutBack
    <2> QED BY <2>1, PutBackFiles
  <1>7. ASSUME NEW u \in Thread, thread'[u].step \in Reading, thread'[u].path \notin torn'
        PROVE  /\ file'[thread'[u].path] = thread'[u].content
               /\ thread'[u].step = "store" =>
                    registry'[thread'[u].existing].content = thread'[u].content
    <2>1. thread'[u] = thread[u] /\ u # CatchUp
      BY <1>1, <1>2, <1>7
    <2>2. file[On(u)] = thread[u].content /\ thread[u].content # None
      BY <1>4, <1>5, <1>7, <2>1, NoneIsNoContent DEF On, TypeInv, Shape
    <2>3. At(u, "store") => Recorded(u) /\ thread[u].existing \in DOMAIN registry
      BY <1>4, <1>5, <1>7, <2>1 DEF On, TouchInv, HoldsRow, TypeInv, Shape, At, Holding, Reading
    <2> QED BY <1>3, <1>6, <2>1, <2>2, <2>3 DEF On, At, Recorded
  <1>8. ASSUME NEW i \in DOMAIN registry', registry'[i].active, registry'[i].path \notin torn'
        PROVE  registry'[i].bytes = registry'[i].content \/ \E u \in Thread : Storing(u, i)'
    <2>1. /\ i \in DOMAIN registry /\ registry[i].active /\ registry[i].path \notin torn
      BY <1>3, <1>4, <1>8
    <2>2. CASE registry[i].bytes = registry[i].content
      BY <1>3, <2>1, <2>2
    <2>3. CASE \E u \in Thread : Storing(u, i)
      <3>1. PICK u \in Thread : Storing(u, i)
        BY <2>3
      <3>2. u # CatchUp /\ thread'[u] = thread[u]
        BY <1>1, <3>1 DEF Storing, At
      <3>3. Busy(registry[i].path)
        BY <3>1 DEF Storing, At, Busy, WorksOn, On, IngestStep
      <3>4. i \notin S
        BY <1>3, <1>4, <1>8, <2>1, <3>3 DEF Gone, NewPaths
      <3> QED BY <1>3, <2>1, <3>1, <3>2, <3>4 DEF Storing, At, On
    <2> QED BY <1>5, <2>1, <2>2, <2>3
  <1> QED BY <1>7, <1>8 DEF BytesInv, On, At, Recorded

LEMMA BytesStep == TypeInv /\ TouchInv /\ BytesInv /\ [Next]_vars => BytesInv'
  <1> SUFFICES ASSUME TypeInv, TouchInv, BytesInv, [Next]_vars PROVE BytesInv'
    OBVIOUS
  <1>0. TypeOK /\ Worker \subseteq Thread /\ CatchUp \in Thread
    BY DEF TypeInv, Thread
  <1> DEFINE RowsSay == \A i \in DOMAIN registry :
               /\ registry'[i].content = registry[i].content
               /\ \/ registry'[i].bytes = registry[i].bytes
                  \/ registry[i].bytes = None
             FilesStay == \A p : p \notin torn' /\ Busy(p) /\ file[p] # None => file'[p] = file[p]
  <1>1. ASSUME NEW t \in Thread, \A u \in Thread \ {t} : thread'[u] = thread[u],
               FilesStay, SamePaths, RowsSay, torn \subseteq torn',
               At(t, "store") => On(t) \in torn',
               thread'[t].step \in Reading =>
                  /\ thread'[t].step # "store"
                  /\ \/ /\ thread[t].step \in Reading /\ thread'[t].path = On(t)
                        /\ thread'[t].content = thread[t].content
                     \/ file'[thread'[t].path] = thread'[t].content
        PROVE  BytesInv'
    <2>1. {t} \in SUBSET Thread
      OBVIOUS
    <2> QED BY <1>1, <2>1, BytesKept
  <1>2. registry' = registry => SamePaths /\ RowsSay
    BY DEF SamePaths
  <1>3. registry' = Backfilled => SamePaths /\ RowsSay
    BY <1>0, BackfilledKeeps, BackfilledTypes
  <1>4. CASE \E t \in Worker, p \in Path :
               AskIngest(t, p) \/ AskDelete(t, p) \/ \E c \in Content : Upload(t, p, c)
    <2>1. PICK t \in Worker, p \in Path :
            AskIngest(t, p) \/ AskDelete(t, p) \/ \E c \in Content : Upload(t, p, c)
      BY <1>4
    <2>2. PICK s \in {"read", "find"} : Opens(t, s, p)
      BY <2>1, AsksOpen
    <2>3. t \in Thread /\ Begins(t, p) /\ registry' = Backfilled /\ At(t, "idle")
      BY <2>2, OpensBegins DEF Opens
    <2>4. FilesStay
      <3>1. CASE file' = file
        BY <3>1
      <3>2. CASE \E c \in Content : Upload(t, p, c)
        BY <1>0, <3>2 DEF Upload, IsFree, TypeOK
      <3> QED BY <2>1, <3>1, <3>2 DEF AskIngest, AskDelete
    <2>5. thread'[t].step \notin Reading /\ ~At(t, "store")
      BY <2>3 DEF Begins, Reading, At
    <2> QED BY <1>1, <1>3, <2>3, <2>4, <2>5 DEF Begins
  <1>5. CASE \E t \in Thread : Refused(t) \/ Raise(t) \/ Remove(t)
    <2>1. PICK t \in Thread : Refused(t) \/ Raise(t) \/ Remove(t)
      BY <1>5
    <2>2. Leaves(t) /\ file' = file /\ torn \subseteq torn'
      BY <2>1 DEF Refused, Raise, Remove, history
    <2>3. /\ thread'[t].step \notin Reading
          /\ \A u \in Thread \ {t} : thread'[u] = thread[u]
      BY <1>0, <2>2, LeavesTypes DEF Reading
    <2>4. SamePaths /\ RowsSay
      <3>1. CASE Remove(t)
        BY <3>1, RemoveRows DEF SamePaths
      <3> QED BY <1>2, <2>1, <3>1 DEF Refused, Raise, tables
    <2>5. At(t, "store") => On(t) \in torn'
      BY <2>1 DEF Refused, Raise, Remove, At, LeavesTorn
    <2> QED BY <1>1, <2>2, <2>3, <2>4, <2>5
  <1>6. CASE \E t \in Thread : Clear(t) \/ Embed(t) \/ Unindex(t)
    <2>1. PICK t \in Thread : Clear(t) \/ Embed(t) \/ Unindex(t)
      BY <1>6
    <2>2. PICK s \in {"embed", "record", "remove"} :
            /\ Goes(t, s) /\ ~At(t, "store")
            /\ s \in Reading => thread[t].step \in Reading
      BY <2>1 DEF Clear, Embed, Unindex, At, Reading
    <2>3. /\ thread'[t].step = s /\ thread'[t].path = On(t)
          /\ thread'[t].content = thread[t].content
          /\ \A u \in Thread \ {t} : thread'[u] = thread[u]
      BY <1>0, <2>2, GoesTypes DEF IngestStep, DeleteStep
    <2>4. file' = file /\ torn' = torn /\ registry' = registry
      BY <2>1 DEF Clear, Embed, Unindex, tables, history
    <2> QED BY <1>1, <1>2, <2>2, <2>3, <2>4
  <1>7. CASE \E t \in Thread : Read(t) \/ Find(t)
    <2>1. PICK t \in Thread : Read(t) \/ Find(t)
      BY <1>7
    <2>2. file' = file /\ torn' = torn /\ registry' = registry /\ ~At(t, "store")
      BY <2>1 DEF Read, Find, tables, history, At
    <2>3. \A u \in Thread \ {t} : thread'[u] = thread[u]
      BY <2>1, ReadSteps, FindSteps DEF StepOf
    <2>4. thread'[t].step \in Reading =>
            thread'[t].step # "store" /\ file'[thread'[t].path] = thread'[t].content
      <3>1. CASE Leaves(t)
        BY <1>0, <3>1, LeavesTypes DEF Reading
      <3>2. ASSUME NEW s \in {"embed", "clear"}, NEW i,
                   thread' = [thread EXCEPT
                     ![t] = [@ EXCEPT !.step = s, !.content = file[On(t)], !.existing = i]]
            PROVE  thread'[t].step # "store" /\ file'[thread'[t].path] = thread'[t].content
        BY <1>0, <2>2, <3>2 DEF TypeOK, Stage, On
      <3>3. ASSUME NEW i,
                   thread' = [thread EXCEPT ![t] = [@ EXCEPT !.step = "unindex", !.existing = i]]
            PROVE  thread'[t].step \notin Reading
        BY <1>0, <3>3 DEF TypeOK, Stage, Reading
      <3>4. CASE Read(t)
        BY <3>1, <3>2, <3>4 DEF Read
      <3>5. CASE Find(t)
        BY <3>1, <3>3, <3>5 DEF Find
      <3> QED BY <2>1, <3>4, <3>5
    <2> QED BY <1>1, <1>2, <2>2, <2>3, <2>4
  <1>8. CASE \E t \in Thread : Record(t) \/ Store(t)
    BY <1>8, RecordBytes, StoreBytes
  <1>9. CASE Check \/ PutBack \/ Rebuilt \/ GoOn
    <2>1. /\ registry' = registry /\ torn' = torn /\ ~At(CatchUp, "store")
          /\ thread[CatchUp].step \in CatchUpStep
      BY <1>9 DEF Check, PutBack, Rebuilt, GoOn, tables, history, At, CatchUpStep
    <2>2. FilesStay
      BY <1>9, PutBackFiles DEF Check, Rebuilt, GoOn
    <2>3. StepOf(CatchUp)
      BY <1>9, CatchUpSteps
    <2>4. thread'[CatchUp].step \notin Reading
      BY <2>1, <2>3 DEF StepOf, Reading, Working, IngestStep, DeleteStep, CatchUpStep
    <2> QED BY <1>0, <1>1, <1>2, <2>1, <2>2, <2>3, <2>4 DEF StepOf
  <1>10. CASE CommitPutBack \/ PutBackRaises
    BY <1>10, CommitBytes
  <1>11. CASE thread' = thread /\ registry' = registry /\ torn \subseteq torn' /\ FilesStay
    <2>1. {} \in SUBSET Thread
      OBVIOUS
    <2>2. /\ \A u \in Thread \ {} : thread'[u] = thread[u]
          /\ SamePaths /\ RowsSay /\ torn \subseteq torn' /\ FilesStay
      BY <1>2, <1>11
    <2> QED BY <2>1, <2>2, BytesKept
  <1>12. CASE \E p \in Path : NextDocument(p)
    <2>1. PICK p \in Path : NextDocument(p)
      BY <1>12
    <2>2. file' = file /\ registry' = registry /\ torn \subseteq torn' /\ ~At(CatchUp, "store")
      BY <2>1 DEF NextDocument, tables, At
    <2>3. CASE file[p] = None
      BY <1>11, <2>1, <2>2, <2>3 DEF NextDocument
    <2>4. CASE file[p] # None
      <3>1. Begins(CatchUp, p)
        BY <2>1, <2>4, NextBegins
      <3>2. thread'[CatchUp].step \notin Reading
        BY <3>1 DEF Begins, Reading
      <3> QED BY <1>0, <1>1, <1>2, <2>2, <3>1, <3>2 DEF Begins
    <2> QED BY <2>3, <2>4
  <1>13. CASE Start
    <2>1. /\ file' = file /\ torn' = torn /\ registry' = Backfilled
          /\ \A u \in Thread \ {CatchUp} : thread'[u] = thread[u]
          /\ ~At(CatchUp, "store")
      BY <1>0, <1>13 DEF Start, TypeOK, TypeInv, Shape, At
    <2>2. thread'[CatchUp].step \notin Reading
      BY <1>0, <1>13, StartKillWork DEF NobodyWorks, Reading, Working, IngestStep
    <2> QED BY <1>0, <1>1, <1>3, <2>1, <2>2
  <1>14. CASE Kill
    <2>1. /\ file' = file /\ registry' = registry /\ torn \subseteq torn'
          /\ \A t \in Thread : LeavesTorn(t) \subseteq torn'
      BY <1>14 DEF Kill
    <2>2. \A t \in Thread : (At(t, "store") => On(t) \in torn') /\ thread'[t].step \notin Reading
      BY <1>14, <2>1, StartKillWork DEF LeavesTorn, NobodyWorks, Reading, Working, IngestStep
    <2>3. Thread \in SUBSET Thread /\ \A u \in Thread \ Thread : thread'[u] = thread[u]
      OBVIOUS
    <2>4. SamePaths /\ RowsSay /\ FilesStay
      BY <1>2, <2>1
    <2> QED BY <2>1, <2>2, <2>3, <2>4, BytesKept
  <1>15. CASE LoseIndex
    <2>1. \A q : ~Busy(q)
      BY <1>15 DEF LoseIndex, TypeInv, Shape, At, Busy, WorksOn, IngestStep, DeleteStep
    <2> QED BY <1>11, <1>15, <2>1 DEF LoseIndex, tables, history
  <1>16. CASE \E p \in Path, c \in Content \cup {None} : Edit(p, c)
    <2>1. FilesStay
      BY <1>0, <1>16 DEF Edit, TypeOK
    <2> QED BY <1>11, <1>16, <2>1 DEF Edit, tables
  <1>17. CASE UNCHANGED vars
    BY <1>11, <1>17 DEF vars, tables, history
  <1>18. CASE \E t \in Thread : Ingest(t) \/ Raise(t) \/ Delete(t)
    BY <1>5, <1>6, <1>7, <1>8, <1>18 DEF Ingest, Delete
  <1> QED BY <1>0, <1>4, <1>9, <1>10, <1>12, <1>13, <1>14, <1>15, <1>16, <1>17, <1>18 DEF Next, Rebuild

\* A backup carries the file that was indexed, for any number of requests,
\* edits, failures and rebuilds: outside of what torn names, the bytes of a row
\* are its content.
THEOREM BytesHold == Spec => []BytesAreIndexed
  <1>1. Init => BytesInv
    <2>1. Init => \A t \in Thread : thread[t].step \notin Reading
      BY DEF Init, Idle, Reading
    <2> QED BY <2>1 DEF Init, BytesInv
  <1>2. BytesInv => BytesAreIndexed
    BY DEF BytesInv, BytesAreIndexed, Storing, At, Busy, WorksOn, On, IngestStep
  <1> QED BY <1>1, <1>2, InitTypes, InitIndex, TypesStep, TouchStep, BytesStep, PTL DEF Spec

-----------------------------------------------------------------------------
(* A start that nothing disturbs                                            *)

LEMMA HomeStep ==
    ASSUME OwnDirIsInside, TypeInv, HomeInside, [Next]_vars
    PROVE  HomeInside'
  <1>1. /\ \A i \in DOMAIN registry : Inside(registry[i].path)
        /\ \A i \in DOMAIN moved : Inside(moved[i])
        /\ TypeOK /\ Worker \subseteq Thread
    BY DEF HomeInside, TypeInv, Thread
  <1>2. CASE SamePaths /\ moved' \in {moved, <<>>}
    <2>1. DOMAIN moved' \subseteq DOMAIN moved /\ \A i \in DOMAIN moved' : moved'[i] = moved[i]
      BY <1>2
    <2> QED BY <1>1, <1>2, <2>1 DEF SamePaths, HomeInside, Inside
  <1>3. registry' = registry => SamePaths
    BY DEF SamePaths
  <1>4. CASE \E t \in Worker, p \in Path :
               AskIngest(t, p) \/ AskDelete(t, p) \/ \E c \in Content : Upload(t, p, c)
    <2>1. PICK t \in Worker, p \in Path, s \in {"read", "find"} : Opens(t, s, p)
      BY <1>4, AsksOpen
    <2> QED BY <1>1, <1>2, <2>1, BackfilledKeeps DEF Opens
  <1>5. CASE \E t \in Thread : Record(t)
    <2>1. PICK t \in Thread : Record(t)
      BY <1>5
    <2>2. /\ WritesRow(t) \/ AddsRow(t)
          /\ At(t, "record") /\ moved' = moved
      BY <2>1, RecordRows
    <2>3. CASE WritesRow(t)
      BY <1>2, <2>2, <2>3 DEF WritesRow, SamePaths
    <2>4. CASE AddsRow(t)
      <3>1. Inside(On(t))
        BY <2>2 DEF TypeInv, Shape, At, Reading
      <3> QED BY <1>1, <2>2, <2>4, <3>1 DEF AddsRow, HomeInside, Inside
    <2> QED BY <2>2, <2>3, <2>4
  <1>6. CASE \E t \in Thread : Store(t) \/ Remove(t)
    <2>1. PICK t \in Thread : Store(t) \/ Remove(t)
      BY <1>6
    <2>2. CASE Store(t)
      BY <1>2, <2>2, StoreRows DEF SamePaths, Store
    <2>3. CASE Remove(t)
      BY <1>2, <2>3, RemoveRows DEF SamePaths, Remove
    <2> QED BY <2>1, <2>2, <2>3
  <1>7. CASE \E t \in Thread : \/ Read(t) \/ Clear(t) \/ Embed(t) \/ Refused(t) \/ Raise(t)
                               \/ Find(t) \/ Unindex(t)
    BY <1>2, <1>3, <1>7 DEF Read, Clear, Embed, Refused, Raise, Find, Unindex, tables
  <1>8. CASE Check
    <2>1. CASE moved' = moved
      BY <1>2, <1>3, <1>8, <2>1 DEF Check
    <2>2. CASE moved' = [i \in DOMAIN registry |-> registry[i].path]
      BY <1>1, <1>8, <2>2 DEF Check, HomeInside, Inside
    <2> QED BY <1>8, <2>1, <2>2 DEF Check
  <1>9. CASE PutBack
    <2> DEFINE i == thread[CatchUp].existing
    <2>1. i \in DOMAIN moved /\ registry' = registry /\ moved' \in {moved, [moved EXCEPT ![i] = Home(i)]}
      BY <1>9 DEF PutBack, Cursor
    <2>2. Inside(Home(i))
      BY <1>1, <2>1, HomeIsAPath DEF OwnDirIsInside, Inside
    <2>3. \A j \in DOMAIN moved' : j \in DOMAIN moved /\ moved'[j] \in {moved[j], Home(i)}
      BY <1>1, <2>1 DEF TypeOK
    <2> QED BY <1>1, <2>1, <2>2, <2>3 DEF HomeInside, Inside
  <1>10. CASE CommitPutBack \/ PutBackRaises
    <2>1. PICK S \in {{}, Repointed} : Commit(S) /\ S \subseteq DOMAIN moved
      BY <1>10, CommitSteps
    <2>2. /\ DOMAIN registry' = DOMAIN registry /\ moved' = <<>> /\ DOMAIN moved' = {}
          /\ \A i \in DOMAIN registry :
               registry'[i].path = IF i \in S THEN moved[i] ELSE registry[i].path
      BY <1>1, <2>1, CommitRows
    <2> QED BY <1>1, <2>1, <2>2 DEF HomeInside, Inside
  <1>11. CASE Rebuilt \/ GoOn \/ (\E p \in Path : NextDocument(p)) \/ Kill \/ LoseIndex
              \/ (\E p \in Path, c \in Content \cup {None} : Edit(p, c)) \/ UNCHANGED vars
    BY <1>2, <1>3, <1>11 DEF Rebuilt, GoOn, NextDocument, Kill, LoseIndex, Edit, vars, tables
  <1>12. CASE Start
    BY <1>1, <1>2, <1>12, BackfilledKeeps DEF Start
  <1>13. CASE \E t \in Thread : Ingest(t) \/ Raise(t) \/ Delete(t)
    BY <1>5, <1>6, <1>7, <1>13 DEF Ingest, Delete
  <1>14. CASE Rebuild
    BY <1>8, <1>9, <1>10, <1>11, <1>14 DEF Rebuild
  <1> QED BY <1>1, <1>4, <1>11, <1>12, <1>13, <1>14 DEF Next

\* In a quiet start only the catch-up acts.
LEMMA QuietSteps ==
    ASSUME TypeInv, NobodyElse, [Next]_vars, calm'
    PROVE  /\ NobodyElse'
           /\ \/ Start \/ Kill \/ LoseIndex \/ UNCHANGED vars
              \/ calm /\ (Ingest(CatchUp) \/ Rebuild)
  <1>1. TypeOK /\ Worker \subseteq Thread /\ CatchUp \in Thread /\ CatchUp \notin Worker
    BY Kinds DEF TypeInv, Thread
  <1>2. CASE Start
    <2>1. \A t \in Worker : thread'[t] = thread[t] /\ At(t, "idle")
      BY <1>1, <1>2 DEF Start, TypeInv, Shape, TypeOK
    <2> QED BY <1>2, <2>1 DEF NobodyElse, At
  <1>3. CASE Kill
    BY <1>1, <1>3 DEF Kill, NobodyElse, At, Idle
  <1>4. CASE LoseIndex \/ UNCHANGED vars
    BY <1>4 DEF LoseIndex, vars, history, NobodyElse, At
  <1>5. CASE Ingest(CatchUp) \/ Rebuild
    <2>1. calm' = calm
      BY <1>5 DEF Ingest, Rebuild, Read, Clear, Embed, Record, Refused, Store, Check, PutBack,
         CommitPutBack, PutBackRaises, Rebuilt, GoOn, NextDocument, history
    <2>2. \A t \in Worker : thread'[t] = thread[t]
      <3>1. CASE Ingest(CatchUp)
        BY <1>1, <3>1, WorkSteps DEF StepOf
      <3>2. CASE Check \/ PutBack \/ Rebuilt \/ GoOn
        BY <1>1, <3>2, CatchUpSteps DEF StepOf
      <3>3. CASE CommitPutBack \/ PutBackRaises
        BY <1>1, <3>3, CommitSteps
      <3>4. CASE \E p \in Path : NextDocument(p)
        BY <1>1, <3>4, NextBegins DEF Begins, NextDocument
      <3> QED BY <1>5, <3>1, <3>2, <3>3, <3>4 DEF Rebuild
    <2> QED BY <1>5, <2>1, <2>2 DEF NobodyElse, At
  <1>6. ASSUME NEW t \in Worker, Ingest(t) \/ Delete(t)
        PROVE  FALSE
    <2>1. calm' = calm /\ ~At(t, "idle")
      BY <1>6 DEF Ingest, Delete, Read, Clear, Embed, Record, Refused, Store, Find, Unindex, Remove,
         history, At
    <2> QED BY <2>1 DEF NobodyElse
  <1>7. ASSUME \/ \E t \in Thread : Raise(t)
               \/ \E t \in Worker, p \in Path, s \in {"read", "find"} : Opens(t, s, p)
               \/ \E p \in Path, c \in Content \cup {None} : Edit(p, c)
        PROVE  FALSE
    BY <1>7 DEF Raise, Opens, Edit
  <1>8. CASE \E t \in Worker, p \in Path :
               AskIngest(t, p) \/ AskDelete(t, p) \/ \E c \in Content : Upload(t, p, c)
    BY <1>7, <1>8, AsksOpen
  <1>9. CASE \E t \in Thread : Ingest(t)
    BY <1>5, <1>6, <1>9 DEF Thread, Ingest, Read, Clear, Embed, Record, Refused, Store, history
  <1>10. (Ingest(CatchUp) \/ Rebuild) => calm' = calm
    BY DEF Ingest, Rebuild, Read, Clear, Embed, Record, Refused, Store, Check, PutBack,
       CommitPutBack, PutBackRaises, Rebuilt, GoOn, NextDocument, history
  <1> QED BY <1>2, <1>3, <1>4, <1>5, <1>6, <1>7, <1>8, <1>9, <1>10 DEF Next

\* Names that differ after a step of the catch-up differed before it.
LEMMA NamesDiffered ==
    ASSUME TypeInv, KeyInv, Ingest(CatchUp) \/ Rebuild, NamesDiffer'
    PROVE  NamesDiffer
  <1>0. TypeOK /\ CatchUp \in Thread
    BY Kinds DEF TypeInv
  <1>1. ASSUME \A i \in DOMAIN registry :
                 /\ i \in DOMAIN registry'
                 /\ registry'[i].active = registry[i].active
                 /\ registry'[i].path[2] = registry[i].path[2]
        PROVE  NamesDiffer
    BY <1>1 DEF NamesDiffer
  <1>2. CASE registry' = registry
    BY <1>1, <1>2
  <1>3. CASE Record(CatchUp)
    <2>1. WritesRow(CatchUp) \/ AddsRow(CatchUp)
      BY <1>0, <1>3, RecordRows
    <2> QED BY <1>1, <2>1 DEF WritesRow, AddsRow
  <1>4. CASE Store(CatchUp)
    BY <1>0, <1>1, <1>4, StoreRows
  <1>5. CASE CommitPutBack \/ PutBackRaises
    <2>1. PICK S \in {{}, Repointed} : Commit(S) /\ S \subseteq DOMAIN moved
      BY <1>5, CommitSteps
    <2>2. /\ DOMAIN registry' = DOMAIN registry
          /\ \A i \in DOMAIN registry :
               /\ registry'[i].path = IF i \in S THEN moved[i] ELSE registry[i].path
               /\ registry'[i].active = registry[i].active
      BY <1>0, <2>1, CommitRows
    <2>3. \A i \in DOMAIN moved : moved[i][2] = registry[i].path[2]
      BY DEF KeyInv
    <2> QED BY <1>1, <2>1, <2>2, <2>3
  <1> QED BY <1>2, <1>3, <1>4, <1>5 DEF Ingest, Rebuild, Read, Clear, Embed, Refused, Check, PutBack,
            Rebuilt, GoOn, NextDocument, tables

\* Where names differ, the rows are put back without a clash.
LEMMA NamesAreFree ==
    ASSUME TypeInv, KeyInv, NamesDiffer, NEW i \in DOMAIN moved, Lost(i)
    PROVE  ~Taken(i)
  <1>0. TypeOK /\ i \in DOMAIN registry /\ registry[i].active
    BY Kinds DEF TypeInv, Lost
  <1>1. /\ Home(i)[2] = registry[i].path[2]
        /\ \A j \in DOMAIN moved : moved[j][2] = registry[j].path[2]
    BY <1>0, HomeIsAPath DEF KeyInv
  <1>2. \A j \in DOMAIN registry : PathNow(j)[2] = registry[j].path[2]
    BY <1>1 DEF PathNow
  <1> QED BY <1>0, <1>1, <1>2 DEF NamesDiffer, Taken

LEMMA PutBackHolds ==
    ASSUME TypeInv, PuttingBack, calm, PutBack
    PROVE  PuttingBack'
  <1> DEFINE c == thread[CatchUp].existing
  <1>0. TypeOK /\ CatchUp \in Thread /\ thread[CatchUp] \in Stage
    BY Kinds DEF TypeInv
  <1>1. /\ At(CatchUp, "putBack") /\ c \in DOMAIN moved /\ registry' = registry
        /\ thread' = [thread EXCEPT ![CatchUp] = [@ EXCEPT !.existing = c + 1]]
    BY DEF PutBack, Cursor
  <1>2. /\ Len(moved) = Len(registry) /\ c > 0 /\ thread[CatchUp].force
        /\ \A i \in DOMAIN registry : i < c => HasFile(i, moved[i])
    BY <1>1 DEF PuttingBack
  <1>3. thread'[CatchUp].existing = c + 1 /\ thread'[CatchUp].force = thread[CatchUp].force
    BY <1>0, <1>1 DEF TypeOK, Stage
  <1>4. /\ moved' \in Seq(Path) /\ Len(moved') = Len(moved)
        /\ \A i \in DOMAIN moved : i # c => moved'[i] = moved[i]
        /\ registry[c].active /\ registry[c].bytes # None => file'[moved'[c]] # None
    <2>1. CASE Lost(c)
      <3>1. /\ Home(c) \in Path /\ registry[c].bytes # None
            /\ moved' = [moved EXCEPT ![c] = Home(c)]
            /\ file' = [file EXCEPT ![Home(c)] = IF @ = None THEN registry[c].bytes ELSE @]
        BY <1>0, <1>1, <2>1, HomeIsAPath DEF PutBack, Cursor, Lost
      <3>2. file'[Home(c)] # None /\ moved'[c] = Home(c)
        BY <1>0, <1>1, <3>1 DEF TypeOK
      <3> QED BY <1>0, <1>1, <3>1, <3>2 DEF HasFile, TypeOK
    <2>2. CASE ~Lost(c)
      <3>1. moved' = moved /\ file' = file
        BY <2>2 DEF PutBack, Cursor
      <3> QED BY <1>0, <1>1, <2>2, <3>1 DEF HasFile, Lost, TypeOK
    <2> QED BY <2>1, <2>2
  <1>5. \A p : file[p] # None => file'[p] # None
    BY PutBackFiles
  <1>6. ASSUME NEW i \in DOMAIN registry', i < c + 1
        PROVE  registry[i].active /\ registry[i].bytes # None => file'[moved'[i]] # None
    <2>1. CASE i = c
      BY <1>4, <2>1
    <2>2. CASE i # c
      <3>1. i < c /\ i \in DOMAIN moved /\ i \in DOMAIN registry
        BY <1>0, <1>1, <1>2, <1>6, <2>2 DEF TypeOK
      <3> QED BY <1>1, <1>2, <1>4, <1>5, <2>2, <3>1 DEF HasFile
    <2> QED BY <2>1, <2>2
  <1>7. c + 1 > 0
    BY <1>0, <1>2 DEF Stage
  <1> QED BY <1>1, <1>2, <1>3, <1>4, <1>6, <1>7 DEF PuttingBack, HasFile

LEMMA CheckPutsBack ==
    ASSUME TypeInv, Check
    PROVE  PuttingBack'
  <1>0. TypeOK /\ CatchUp \in Thread /\ thread[CatchUp] \in Stage
    BY Kinds DEF TypeInv
  <1>1. CASE Goes(CatchUp, "done")
    <2>1. thread'[CatchUp].step = "done"
      BY <1>0, <1>1, GoesTypes DEF CatchUpStep
    <2> QED BY <2>1 DEF PuttingBack, At
  <1>2. CASE /\ thread' = [thread EXCEPT ![CatchUp] =
                  [Idle EXCEPT !.step = "putBack", !.existing = 1, !.force = TRUE]]
             /\ moved' = [i \in DOMAIN registry |-> registry[i].path]
    <2>1. registry' = registry /\ registry \in Seq(Row)
      BY <1>0 DEF Check, TypeOK
    <2>2. thread'[CatchUp].existing = 1 /\ thread'[CatchUp].force
      BY <1>0, <1>2 DEF TypeOK, Idle
    <2>3. Len(moved') = Len(registry')
      BY <1>2, <2>1
    <2>4. \A i \in DOMAIN registry' : ~(i < 1)
      BY <2>1
    <2> QED BY <2>2, <2>3, <2>4 DEF PuttingBack
  <1> QED BY <1>1, <1>2 DEF Check

\* The rows have their paths: each is to be read, and its file is there.
LEMMA RebuildBegins ==
    ASSUME TypeInv, PuttingBack, calm, CommitPutBack
    PROVE  Rebuilding'
  <1>0. TypeOK /\ CatchUp \in Thread
    BY Kinds DEF TypeInv
  <1> DEFINE c == thread[CatchUp].existing
  <1>1. /\ At(CatchUp, "putBack") /\ c \notin DOMAIN moved /\ Commit(Repointed)
        /\ todo' = {registry'[i].path : i \in {j \in DOMAIN registry : registry[j].active}}
        /\ Leaves(CatchUp) /\ file' = file
    BY DEF CommitPutBack, Cursor
  <1>2. /\ Len(moved) = Len(registry) /\ c > 0
        /\ \A i \in DOMAIN registry : i < c => HasFile(i, moved[i])
    BY <1>1 DEF PuttingBack
  <1>3. /\ DOMAIN registry' = DOMAIN registry
        /\ \A i \in DOMAIN registry :
             /\ registry'[i].path = IF i \in Repointed THEN moved[i] ELSE registry[i].path
             /\ registry'[i].active = registry[i].active
             /\ registry'[i].bytes = registry[i].bytes
    <2>1. Repointed \subseteq DOMAIN moved
      BY DEF Repointed
    <2> QED BY <1>0, <1>1, <2>1, CommitRows
  <1>4. thread'[CatchUp].step = "next"
    BY <1>0, <1>1, LeavesTypes
  <1>5. \A i \in DOMAIN registry : i \in DOMAIN moved /\ i < c
    <2>1. DOMAIN registry = 1 .. Len(registry) /\ DOMAIN moved = 1 .. Len(moved)
          /\ Len(registry) \in Nat /\ c \in Nat
      BY <1>0, Kinds DEF TypeOK, Stage
    <2> QED BY <1>1, <1>2, <2>1
  <1>6. \A i \in DOMAIN registry : registry'[i].path = moved[i]
    BY <1>3, <1>5 DEF Repointed
  <1>7. \A i \in DOMAIN registry' : HasFile(i, registry[i].path)'
    <2>1. \A i \in DOMAIN registry' :
            registry'[i].active /\ registry'[i].bytes # None => file'[registry'[i].path] # None
      BY <1>1, <1>2, <1>3, <1>5, <1>6 DEF HasFile
    <2> QED BY <2>1 DEF HasFile
  <1>8. \A i \in DOMAIN registry' : registry'[i].active => registry'[i].path \in todo'
    BY <1>1, <1>3
  <1>9. \A p \in todo' : \E i \in DOMAIN registry' : registry'[i].active /\ registry'[i].path = p
    BY <1>1, <1>3
  <1>10. AllFound'
    BY <1>7, <1>8, <1>9 DEF AllFound, Found, Registered, ActiveAt
  <1> QED BY <1>4, <1>10 DEF Rebuilding, CatchUpWork, At, IngestStep, Reading

\* Steps of the catch-up's own ingest change nothing but its document.
WorksOnItsOwn ==
    LET p == On(CatchUp) IN
    /\ thread'[CatchUp].step \in IngestStep /\ thread'[CatchUp].path = p
    /\ thread'[CatchUp].force = thread[CatchUp].force
    /\ file' = file /\ todo' = todo
    /\ DOMAIN registry' = DOMAIN registry
    /\ \A i \in DOMAIN registry :
         /\ registry'[i].path = registry[i].path
         /\ registry'[i].active = registry[i].active
         /\ registry'[i].bytes = registry[i].bytes
         /\ registry[i].path # p => registry'[i].content = registry[i].content
    /\ \A q \in Path : q # p => index'[q] = index[q]
LEMMA OthersStayFound ==
    ASSUME TypeInv, AllFound, thread[CatchUp].step \in IngestStep, thread[CatchUp].force,
           Registered(On(CatchUp)), file[On(CatchUp)] # None, WorksOnItsOwn
    PROVE  /\ AllFound'
           /\ thread'[CatchUp].force /\ Registered(On(CatchUp))'
           /\ file'[thread'[CatchUp].path] # None
  <1>1. \A i \in DOMAIN registry : registry[i].path \in Path
    BY Kinds DEF TypeInv, Row
  <1>2. \A p : Registered(p) => Registered(p)'
    BY DEF WorksOnItsOwn, Registered, ActiveAt
  <1>3. \A p \in todo' : Registered(p)'
    BY <1>2 DEF AllFound, WorksOnItsOwn
  <1>4. ASSUME NEW i \in DOMAIN registry'
        PROVE  HasFile(i, registry[i].path)' /\ Found(i)'
    <2>1. /\ i \in DOMAIN registry /\ HasFile(i, registry[i].path) /\ Found(i)
          /\ registry'[i].path = registry[i].path
          /\ registry'[i].active = registry[i].active
          /\ registry'[i].bytes = registry[i].bytes
      BY <1>4 DEF WorksOnItsOwn, AllFound
    <2>2. HasFile(i, registry[i].path)'
      <3>1. registry'[i].active /\ registry'[i].bytes # None => file'[registry'[i].path] # None
        BY <2>1 DEF HasFile, WorksOnItsOwn
      <3> QED BY <3>1 DEF HasFile
    <2>3. CASE registry[i].path = On(CatchUp)
      <3>1. WorksOn(CatchUp, On(CatchUp))'
        BY DEF WorksOnItsOwn, WorksOn, On
      <3>2. thread'[CatchUp].step \in IngestStep /\ thread'[CatchUp].path = registry'[i].path
        BY <2>1, <2>3 DEF WorksOnItsOwn
      <3> QED BY <2>2, <3>2 DEF Found, WorksOn
    <2>4. CASE registry[i].path # On(CatchUp)
      <3>1. /\ registry'[i].content = registry[i].content
            /\ index'[registry[i].path] = index[registry[i].path]
            /\ file' = file /\ todo' = todo
        BY <1>1, <2>1, <2>4 DEF WorksOnItsOwn
      <3>2. ~WorksOn(CatchUp, registry[i].path)
        BY <2>4 DEF WorksOn, On
      <3> QED BY <2>1, <2>2, <3>1, <3>2 DEF Found
    <2> QED BY <2>2, <2>3, <2>4
  <1>5. Registered(On(CatchUp))'
    <2>1. PICK p : p = On(CatchUp)
      OBVIOUS
    <2>2. Registered(p)' /\ thread'[CatchUp].path = p
      BY <1>2, <2>1 DEF WorksOnItsOwn
    <2> QED BY <2>2 DEF Registered, ActiveAt, On
  <1> QED BY <1>3, <1>4, <1>5 DEF AllFound, WorksOnItsOwn

LEMMA RebuildReads ==
    ASSUME TypeInv, HomeInside, AllFound, CatchUpWork, Read(CatchUp)
    PROVE  Rebuilding'
  <1> DEFINE p == thread[CatchUp].path
  <1>0. /\ TypeOK /\ CatchUp \in Thread /\ thread[CatchUp] \in Stage /\ At(CatchUp, "read")
        /\ p = On(CatchUp)
    BY Kinds DEF TypeInv, Read, On
  <1>1. thread[CatchUp].force /\ Registered(p) /\ file[p] # None /\ p \in Path
    BY <1>0 DEF CatchUpWork, IngestStep, At, On, TypeInv, Shape, Working
  <1>2. Inside(p)
    BY <1>1 DEF HomeInside, Registered, ActiveAt
  <1>3. PICK i \in DOMAIN registry :
          /\ ActiveAt(i, p)
          /\ thread' = [thread EXCEPT
               ![CatchUp] = [@ EXCEPT !.step = "clear", !.content = file[p], !.existing = i]]
    BY <1>0, <1>1, <1>2 DEF Read
  <1>4. /\ thread'[CatchUp].step = "clear" /\ thread'[CatchUp].content = file[p]
        /\ thread'[CatchUp].existing = i /\ thread'[CatchUp].path = p
        /\ thread'[CatchUp].force = thread[CatchUp].force
    BY <1>0, <1>3 DEF TypeOK, Stage, On
  <1>5. file' = file /\ registry' = registry /\ index' = index /\ todo' = todo
    BY DEF Read, tables
  <1>6. WorksOnItsOwn
    BY <1>0, <1>4, <1>5 DEF WorksOnItsOwn, IngestStep
  <1>7. /\ AllFound'
        /\ thread'[CatchUp].force /\ Registered(On(CatchUp))' /\ file'[thread'[CatchUp].path] # None
    <2>1. thread[CatchUp].step \in IngestStep
      BY <1>0 DEF At, IngestStep
    <2> QED BY <1>0, <1>1, <1>6, <2>1, OthersStayFound
  <1>8. i # 0 /\ KnowsRow(CatchUp)'
    <2>1. i # 0
      BY <1>0, Kinds
    <2> QED BY <1>3, <1>4, <1>5, <2>1 DEF KnowsRow, ActiveAt, On
  <1> QED BY <1>4, <1>5, <1>7, <1>8 DEF Rebuilding, CatchUpWork, At, On

LEMMA RebuildIndexes ==
    ASSUME TypeInv, AllFound, CatchUpWork, Clear(CatchUp) \/ Embed(CatchUp)
    PROVE  Rebuilding'
  <1> DEFINE p == thread[CatchUp].path
             c == thread[CatchUp].content
  <1>0. /\ TypeOK /\ CatchUp \in Thread /\ thread[CatchUp].step \in {"clear", "embed"}
        /\ p = On(CatchUp)
    BY Kinds DEF TypeInv, Clear, Embed, At, On
  <1>1. /\ thread[CatchUp].force /\ Registered(p) /\ file[p] # None /\ p \in Path
        /\ thread[CatchUp].existing # 0 /\ KnowsRow(CatchUp) /\ file[p] = c
    BY <1>0 DEF CatchUpWork, IngestStep, Reading, On, TypeInv, Shape, Working
  <1>2. /\ file' = file /\ registry' = registry /\ todo' = todo
        /\ \A q \in Path : q # p => index'[q] = index[q]
    BY <1>0 DEF Clear, Embed, tables, TypeOK
  <1>3. /\ thread'[CatchUp].path = p /\ thread'[CatchUp].content = c
        /\ thread'[CatchUp].existing = thread[CatchUp].existing
        /\ thread'[CatchUp].force = thread[CatchUp].force
        /\ \/ thread'[CatchUp].step = "embed" /\ index'[p] = Empty
           \/ thread'[CatchUp].step = "record" /\ index'[p] = ChunksOf(c)
    <2>1. CASE Clear(CatchUp)
      <3>1. Goes(CatchUp, "embed") /\ index'[p] = Empty
        BY <1>0, <1>1, <2>1 DEF Clear, TypeOK
      <3> QED BY <1>0, <3>1, GoesTypes DEF IngestStep
    <2>2. CASE Embed(CatchUp)
      <3>1. index[p] = Empty
        BY <1>0, <2>2 DEF Embed, CatchUpWork
      <3>2. index'[p] = ChunksOf(c)
        BY <1>0, <1>1, <2>2, <3>1, EmbedsWhole DEF Embed
      <3>3. Goes(CatchUp, "record")
        BY <2>2 DEF Embed
      <3> QED BY <1>0, <3>2, <3>3, GoesTypes DEF IngestStep
    <2> QED BY <2>1, <2>2
  <1>4. WorksOnItsOwn
    BY <1>0, <1>2, <1>3 DEF WorksOnItsOwn, IngestStep
  <1>5. /\ AllFound'
        /\ thread'[CatchUp].force /\ Registered(On(CatchUp))' /\ file'[thread'[CatchUp].path] # None
    <2>1. thread[CatchUp].step \in IngestStep
      BY <1>0 DEF IngestStep
    <2> QED BY <1>0, <1>1, <1>4, <2>1, OthersStayFound
  <1>6. KnowsRow(CatchUp)'
    BY <1>1, <1>2, <1>3 DEF KnowsRow, ActiveAt, On
  <1> QED BY <1>1, <1>2, <1>3, <1>5, <1>6 DEF Rebuilding, CatchUpWork, At, On, Whole, ChunksOf

LEMMA RebuildRecords ==
    ASSUME TypeInv, AllFound, CatchUpWork, Record(CatchUp)
    PROVE  Rebuilding'
  <1> DEFINE p == thread[CatchUp].path
             c == thread[CatchUp].content
             i == thread[CatchUp].existing
  <1>0. TypeOK /\ CatchUp \in Thread /\ At(CatchUp, "record") /\ p = On(CatchUp)
    BY Kinds DEF TypeInv, Record, On
  <1>1. /\ thread[CatchUp].force /\ Registered(p) /\ file[p] # None
        /\ i # 0 /\ KnowsRow(CatchUp) /\ file[p] = c /\ index[p] = ChunksOf(c)
    BY <1>0 DEF CatchUpWork, IngestStep, Reading, On, At, Whole
  <1>2. /\ WritesRow(CatchUp)
        /\ thread'[CatchUp].step = "store" /\ thread'[CatchUp].path = p
        /\ thread'[CatchUp].content = c
        /\ UNCHANGED <<file, index, todo>>
    BY <1>0, <1>1, RecordRows DEF AddsRow
  <1>3. thread'[CatchUp].force = thread[CatchUp].force
    <2>1. Goes(CatchUp, "store")
      BY <1>1 DEF Record
    <2> QED BY <1>0, <2>1, GoesTypes DEF IngestStep
  <1>4. i \in DOMAIN registry /\ registry[i].path = p /\ registry[i].active
    BY <1>0, <1>1 DEF KnowsRow, ActiveAt
  <1>5. WorksOnItsOwn
    BY <1>0, <1>2, <1>3, <1>4 DEF WorksOnItsOwn, IngestStep, WritesRow
  <1>6. /\ AllFound'
        /\ thread'[CatchUp].force /\ Registered(On(CatchUp))' /\ file'[thread'[CatchUp].path] # None
    <2>1. thread[CatchUp].step \in IngestStep
      BY <1>0 DEF IngestStep, At
    <2> QED BY <1>0, <1>1, <1>5, <2>1, OthersStayFound
  <1>7. KnowsRow(CatchUp)' /\ Recorded(CatchUp)' /\ Whole(CatchUp)' /\ thread'[CatchUp].existing = i
    <2>1. /\ thread'[CatchUp].existing = i /\ DOMAIN registry' = DOMAIN registry
          /\ registry'[i].path = p /\ registry'[i].active /\ registry'[i].content = c
      BY <1>2, <1>4 DEF WritesRow
    <2> QED BY <1>1, <1>2, <1>4, <2>1 DEF KnowsRow, Recorded, Whole, ActiveAt, On, ChunksOf
  <1> QED BY <1>1, <1>2, <1>6, <1>7 DEF Rebuilding, CatchUpWork, At, On

LEMMA RebuildStores ==
    ASSUME TypeInv, KeyInv, AllFound, CatchUpWork, Store(CatchUp)
    PROVE  Rebuilding'
  <1> DEFINE p == thread[CatchUp].path
             c == thread[CatchUp].content
             i == thread[CatchUp].existing
  <1>0. TypeOK /\ CatchUp \in Thread /\ At(CatchUp, "store") /\ p = On(CatchUp)
    BY Kinds DEF TypeInv, Store, On
  <1>1. /\ file[p] # None /\ i # 0 /\ KnowsRow(CatchUp) /\ file[p] = c
        /\ index[p] = ChunksOf(c) /\ Recorded(CatchUp)
    BY <1>0 DEF CatchUpWork, IngestStep, Reading, On, At, Whole
  <1>2. /\ i \in DOMAIN registry /\ registry[i].path = p /\ registry[i].active
        /\ registry[i].content = c
    BY <1>0, <1>1 DEF KnowsRow, ActiveAt, Recorded
  <1>3. /\ DOMAIN registry' = DOMAIN registry
        /\ \A j \in DOMAIN registry :
             /\ registry'[j].path = registry[j].path
             /\ registry'[j].active = registry[j].active
             /\ registry'[j].content = registry[j].content
             /\ j # i => registry'[j].bytes = registry[j].bytes
    BY <1>0, StoreRows
  <1>4. file' = file /\ index' = index /\ todo' = todo /\ Leaves(CatchUp)
    BY DEF Store
  <1>5. thread'[CatchUp].step = "next"
    BY <1>0, <1>4, LeavesTypes
  <1>6. \A q \in todo' : Registered(q)'
    BY <1>3, <1>4 DEF AllFound, Registered, ActiveAt
  <1>7. ASSUME NEW j \in DOMAIN registry'
        PROVE  HasFile(j, registry[j].path)' /\ Found(j)'
    <2>1. j \in DOMAIN registry /\ HasFile(j, registry[j].path) /\ Found(j)
      BY <1>3, <1>7 DEF AllFound
    <2>2. CASE j = i
      <3>1. /\ registry'[j].path = p /\ registry'[j].content = c
            /\ file'[p] = c /\ file'[p] # None /\ index'[p] = ChunksOf(file'[p])
        BY <1>1, <1>2, <1>3, <1>4, <2>2
      <3>2. HasFile(j, registry[j].path)'
        BY <3>1 DEF HasFile
      <3> QED BY <3>1, <3>2 DEF Found, ChunksOf
    <2>3. CASE j # i
      <3>1. registry[j].active => registry[j].path # p
        BY <1>2, <2>1, <2>3 DEF KeyInv
      <3>2. registry[j].active => ~WorksOn(CatchUp, registry[j].path)
        BY <3>1 DEF WorksOn
      <3> QED BY <1>3, <1>4, <2>1, <2>3, <3>2 DEF HasFile, Found, ChunksOf
    <2> QED BY <2>2, <2>3
  <1>8. AllFound'
    BY <1>6, <1>7 DEF AllFound
  <1> QED BY <1>5, <1>8 DEF Rebuilding, CatchUpWork, At, IngestStep, Reading

LEMMA RebuildGoesOn ==
    ASSUME TypeInv, AllFound,
           Rebuilt \/ \E p \in Path : NextDocument(p)
    PROVE  Rebuilding'
  <1>0. /\ TypeOK /\ CatchUp \in Thread /\ At(CatchUp, "next")
        /\ file' = file /\ registry' = registry /\ index' = index
    BY Kinds DEF TypeInv, Rebuilt, NextDocument, tables
  <1>1. \A p : ~WorksOn(CatchUp, p)
    BY <1>0 DEF WorksOn, At, IngestStep, DeleteStep
  <1>2. ASSUME \A q \in todo' : q \in todo,
               \A i \in DOMAIN registry : registry[i].active =>
                 \/ registry[i].path \notin todo \/ registry[i].path \in todo'
                 \/ file[registry[i].path] = None \/ WorksOn(CatchUp, registry[i].path)'
        PROVE  AllFound'
    <2>1. \A q \in todo' : Registered(q)'
      BY <1>0, <1>2 DEF AllFound, Registered, ActiveAt
    <2>2. ASSUME NEW i \in DOMAIN registry'
          PROVE  HasFile(i, registry[i].path)' /\ Found(i)'
      BY <1>0, <1>1, <1>2, <2>2 DEF AllFound, HasFile, Found, ChunksOf
    <2> QED BY <2>1, <2>2 DEF AllFound
  <1>3. CASE Rebuilt
    <2>1. todo' = todo /\ todo = {} /\ thread'[CatchUp].step = "done"
      BY <1>0, <1>3 DEF Rebuilt, TypeOK, Idle
    <2>2. AllFound'
      BY <1>2, <2>1
    <2> QED BY <2>1, <2>2 DEF Rebuilding, CatchUpWork, At, IngestStep, Reading
  <1>4. CASE \E p \in Path : NextDocument(p)
    <2>1. PICK p \in Path : NextDocument(p)
      BY <1>4
    <2>2. p \in todo /\ todo' = todo \ {p}
      BY <2>1 DEF NextDocument
    <2>3. CASE file[p] = None
      <3>1. thread' = thread
        BY <2>1, <2>3 DEF NextDocument
      <3>2. AllFound'
        BY <1>2, <2>2, <2>3
      <3> QED BY <1>0, <3>1, <3>2 DEF Rebuilding, CatchUpWork, At, IngestStep, Reading
    <2>4. CASE file[p] # None
      <3>1. thread'[CatchUp].step = "read" /\ thread'[CatchUp].path = p /\ thread'[CatchUp].force
        BY <1>0, <2>1, <2>4 DEF NextDocument, TypeOK, Idle
      <3>2. WorksOn(CatchUp, p)' /\ Registered(p)'
        BY <1>0, <2>2, <3>1 DEF WorksOn, IngestStep, AllFound, Registered, ActiveAt
      <3>3. AllFound'
        BY <1>0, <1>2, <2>2, <3>1 DEF WorksOn, IngestStep
      <3>4. Registered(On(CatchUp))' /\ file'[On(CatchUp)'] # None
        BY <1>0, <2>4, <3>1, <3>2 DEF On, Registered, ActiveAt
      <3> QED BY <3>1, <3>3, <3>4 DEF Rebuilding, CatchUpWork, At, Reading
    <2> QED BY <2>3, <2>4
  <1> QED BY <1>3, <1>4

\* Where the catch-up is after the steps that are not its own phases.
LEMMA NextStage ==
    ASSUME TypeInv
    PROVE  /\ Start => thread'[CatchUp].step = "check" /\ ~thread'[CatchUp].force
           /\ Kill \/ LoseIndex \/ GoOn => thread'[CatchUp].step = "idle"
           /\ Rebuilt => thread'[CatchUp].step = "done" /\ thread'[CatchUp].force
           /\ Ingest(CatchUp) => thread'[CatchUp].step \in {"clear", "embed", "record", "store", "next"}
  <1>0. TypeOK /\ CatchUp \in Thread /\ thread[CatchUp] \in Stage
    BY Kinds DEF TypeInv
  <1>1. ASSUME NEW s, thread' = [thread EXCEPT ![CatchUp] = [Idle EXCEPT !.step = s]]
        PROVE  thread'[CatchUp].step = s /\ ~thread'[CatchUp].force
    BY <1>0, <1>1 DEF TypeOK, Idle
  <1>2. Start => thread'[CatchUp].step = "check" /\ ~thread'[CatchUp].force
    BY <1>1 DEF Start
  <1>3. Kill => thread'[CatchUp].step = "idle"
    BY <1>0 DEF Kill, Idle
  <1>4. LoseIndex => thread'[CatchUp].step = "idle"
    BY <1>0 DEF LoseIndex, TypeInv, Shape, At
  <1>5. GoOn => thread'[CatchUp].step = "idle"
    BY <1>0 DEF GoOn, TypeOK, Idle
  <1>6. Rebuilt => thread'[CatchUp].step = "done" /\ thread'[CatchUp].force
    <2>1. Rebuilt => thread'[CatchUp] = [Idle EXCEPT !.step = "done", !.force = TRUE]
      BY <1>0 DEF Rebuilt, TypeOK
    <2> QED BY <2>1 DEF Idle
  <1> DEFINE s == thread'[CatchUp].step
  <1>7. Read(CatchUp) => s \in {"clear", "embed", "next"}
    <2>1. Leaves(CatchUp) => s = "next"
      BY <1>0, LeavesTypes
    <2>2. ASSUME NEW x, NEW i, thread' = [thread EXCEPT
                   ![CatchUp] = [@ EXCEPT !.step = x, !.content = file[On(CatchUp)], !.existing = i]]
          PROVE  s = x
      BY <1>0, <2>2 DEF TypeOK, Stage
    <2> QED BY <2>1, <2>2 DEF Read
  <1>8. Clear(CatchUp) => s = "embed"
    BY <1>0, GoesTypes DEF Clear, IngestStep
  <1>9. Embed(CatchUp) => s = "record"
    BY <1>0, GoesTypes DEF Embed, IngestStep
  <1>10. Record(CatchUp) => s = "store"
    BY <1>0, RecordRows
  <1>11. Refused(CatchUp) \/ Store(CatchUp) => s = "next"
    BY <1>0, LeavesTypes DEF Refused, Store
  <1>12. Ingest(CatchUp) => s \in {"clear", "embed", "record", "store", "next"}
    BY <1>7, <1>8, <1>9, <1>10, <1>11 DEF Ingest
  <1> QED BY <1>2, <1>3, <1>4, <1>5, <1>6, <1>12

LEMMA RebuildStep ==
    ASSUME TypeInv, KeyInv, HomeInside, NobodyElse, PuttingBack, Rebuilding, [Next]_vars
    PROVE  Rebuilding'
  <1>0. TypeOK /\ CatchUp \in Thread
    BY Kinds DEF TypeInv
  <1> SUFFICES ASSUME calm', NamesDiffer' PROVE Rebuilding'
    BY DEF Rebuilding, Quiet
  <1>1. ASSUME /\ thread'[CatchUp].step \in {"idle", "check", "putBack", "done"}
               /\ thread'[CatchUp].step \in {"check", "done"} => ~thread'[CatchUp].force
        PROVE  Rebuilding'
    BY <1>1 DEF Rebuilding, CatchUpWork, InRebuild, At, IngestStep, Reading
  <1>2. CASE Start
    BY <1>1, <1>2, NextStage
  <1>3. CASE Kill \/ LoseIndex
    BY <1>1, <1>3, NextStage
  <1>4. CASE UNCHANGED vars
    <2>1. /\ file' = file /\ registry' = registry /\ index' = index /\ thread' = thread /\ todo' = todo
          /\ calm' = calm
      BY <1>4 DEF vars, tables, history
    <2> QED BY <2>1 DEF Rebuilding, Quiet, NamesDiffer, CatchUpWork, InRebuild, AllFound, HasFile, Found,
              Registered, ActiveAt, KnowsRow, Whole, Recorded, WorksOn, At, On, ChunksOf
  <1>5. CASE calm /\ (Ingest(CatchUp) \/ Rebuild)
    <2>1. calm /\ NamesDiffer /\ Quiet
      BY <1>5, NamesDiffered DEF Quiet
    <2>2. /\ At(CatchUp, "check") => ~thread[CatchUp].force
          /\ InRebuild => AllFound
          /\ CatchUpWork
      BY <2>1 DEF Rebuilding
    <2>3. CASE Ingest(CatchUp)
      <3>1. AllFound
        BY <2>2, <2>3 DEF InRebuild, IngestStep, At, Ingest, Read, Clear, Embed, Record, Refused, Store
      <3>2. ~Refused(CatchUp)
        BY <2>2 DEF Refused, CatchUpWork, At, Reading
      <3> QED BY <1>0, <2>2, <2>3, <3>1, <3>2, RebuildReads, RebuildIndexes, RebuildRecords,
                RebuildStores DEF Ingest
    <2>4. CASE Check
      <3>1. CASE Goes(CatchUp, "done")
        <4>1. thread'[CatchUp].step = "done" /\ ~thread'[CatchUp].force
          BY <1>0, <2>2, <2>4, <3>1, GoesTypes DEF CatchUpStep, Check
        <4> QED BY <1>1, <4>1
      <3>2. CASE thread' = [thread EXCEPT ![CatchUp] =
                   [Idle EXCEPT !.step = "putBack", !.existing = 1, !.force = TRUE]]
        <4>1. thread'[CatchUp].step = "putBack"
          BY <1>0, <3>2 DEF TypeOK, Idle
        <4> QED BY <1>1, <4>1
      <3> QED BY <2>4, <3>1, <3>2 DEF Check
    <2>5. CASE PutBack \/ GoOn
      <3>1. thread'[CatchUp].step \in {"putBack", "idle"}
        <4>1. CASE PutBack
          BY <1>0, <4>1, Kinds DEF PutBack, At, TypeOK, Stage
        <4>2. CASE GoOn
          BY <1>0, <4>2 DEF GoOn, TypeOK, Idle
        <4> QED BY <2>5, <4>1, <4>2
      <3> QED BY <1>1, <3>1
    <2>6. CASE PutBackRaises
      <3>1. /\ thread[CatchUp].existing \in DOMAIN moved
            /\ Lost(thread[CatchUp].existing) /\ Taken(thread[CatchUp].existing)
        BY <2>6 DEF PutBackRaises, Cursor
      <3> QED BY <2>1, <3>1, NamesAreFree
    <2>7. CASE CommitPutBack
      BY <2>1, <2>7, RebuildBegins
    <2>8. CASE Rebuilt \/ \E p \in Path : NextDocument(p)
      <3>1. AllFound
        BY <2>2, <2>8 DEF InRebuild, At, Rebuilt, NextDocument
      <3> QED BY <2>8, <3>1, RebuildGoesOn
    <2> QED BY <1>5, <2>3, <2>4, <2>5, <2>6, <2>7, <2>8 DEF Rebuild
  <1> QED BY <1>2, <1>3, <1>4, <1>5, QuietSteps

LEMMA PuttingBackStep ==
    ASSUME TypeInv, NobodyElse, PuttingBack, [Next]_vars
    PROVE  PuttingBack'
  <1>0. TypeOK /\ CatchUp \in Thread
    BY Kinds DEF TypeInv
  <1> SUFFICES ASSUME calm' PROVE PuttingBack'
    BY DEF PuttingBack
  <1>1. ASSUME thread'[CatchUp].step # "putBack"
        PROVE  PuttingBack'
    BY <1>1 DEF PuttingBack, At
  <1>2. CASE Start \/ Kill \/ LoseIndex
    BY <1>1, <1>2, NextStage
  <1>3. CASE UNCHANGED vars
    BY <1>3 DEF vars, tables, history, PuttingBack, HasFile, At
  <1>4. CASE calm /\ Ingest(CatchUp)
    BY <1>1, <1>4, NextStage
  <1>5. CASE calm /\ PutBack
    BY <1>5, PutBackHolds
  <1>6. CASE Check
    BY <1>6, CheckPutsBack
  <1>7. CASE CommitPutBack \/ PutBackRaises
    BY <1>1, <1>7, CommitSteps
  <1>8. CASE Rebuilt \/ GoOn
    BY <1>1, <1>8, NextStage
  <1>9. CASE \E p \in Path : NextDocument(p)
    BY <1>0, <1>1, <1>9 DEF NextDocument, TypeOK, Idle, At
  <1> QED BY <1>2, <1>3, <1>4, <1>5, <1>6, <1>7, <1>8, <1>9, QuietSteps DEF Rebuild

LEMMA NothingDriftedStep ==
    ASSUME TypeInv, NobodyElse, PuttingBack, NothingDrifted, [Next]_vars
    PROVE  NothingDrifted'
  <1>0. TypeOK /\ CatchUp \in Thread
    BY Kinds DEF TypeInv
  <1> SUFFICES ASSUME calm' PROVE NothingDrifted'
    BY DEF NothingDrifted
  <1>1. ASSUME thread'[CatchUp].step = "done" => thread'[CatchUp].force
        PROVE  NothingDrifted'
    BY <1>1 DEF NothingDrifted, At
  <1>2. CASE Start \/ Kill \/ LoseIndex
    BY <1>1, <1>2, NextStage
  <1>3. CASE UNCHANGED vars
    BY <1>3 DEF vars, tables, history, NothingDrifted, At, Indexed
  <1>4. CASE calm /\ Ingest(CatchUp)
    BY <1>1, <1>4, NextStage
  <1>5. CASE Check
    <2>1. registry' = registry /\ index' = index
      BY <1>5 DEF Check
    <2>2. CASE \A i \in DOMAIN registry :
                 registry[i].active => Indexed(registry[i].path) = Chunks[registry[i].content]
      BY <2>1, <2>2 DEF NothingDrifted, Indexed
    <2>3. CASE thread' = [thread EXCEPT ![CatchUp] =
                   [Idle EXCEPT !.step = "putBack", !.existing = 1, !.force = TRUE]]
      BY <1>0, <1>1, <2>3 DEF TypeOK, Idle
    <2> QED BY <1>5, <2>2, <2>3 DEF Check
  <1>6. CASE PutBack \/ GoOn \/ Rebuilt
    <2>1. CASE PutBack
      BY <1>0, <1>1, <2>1, Kinds DEF PutBack, At, TypeOK, Stage
    <2> QED BY <1>1, <1>6, <2>1, NextStage
  <1>7. CASE CommitPutBack
    BY <1>0, <1>1, <1>7, LeavesTypes DEF CommitPutBack
  <1>8. CASE calm /\ PutBackRaises
    <2>1. thread[CatchUp].force
      BY <1>8 DEF PuttingBack, PutBackRaises
    <2>2. Goes(CatchUp, "done")
      BY <1>8 DEF PutBackRaises
    <2> QED BY <1>0, <1>1, <2>1, <2>2, GoesTypes DEF CatchUpStep
  <1>9. CASE \E p \in Path : NextDocument(p)
    BY <1>0, <1>1, <1>9 DEF NextDocument, TypeOK, Idle, At
  <1> QED BY <1>2, <1>3, <1>4, <1>5, <1>6, <1>7, <1>8, <1>9, QuietSteps DEF Rebuild

LEMMA StartStep ==
    ASSUME OwnDirIsInside, TypeInv, KeyInv, StartInv, [Next]_vars
    PROVE  StartInv'
  <1>1. NobodyElse'
    <2>1. calm' => NobodyElse'
      BY QuietSteps DEF StartInv
    <2> QED BY <2>1 DEF NobodyElse
  <1> QED BY <1>1, HomeStep, PuttingBackStep, RebuildStep, NothingDriftedStep DEF StartInv

\* A document whose chunks are all there counts as many as it is cut into.
LEMMA WholeCounts ==
    ASSUME NEW c \in Content, NEW p, index[p] = ChunksOf(c)
    PROVE  Indexed(p) = Chunks[c]
  <1>1. Chunks[c] \in 0 .. MaxChunk /\ MaxChunk \in Nat
    BY ChunksAssumption, DocumentBounds
  <1>2. {k \in 1 .. MaxChunk : index[p][k] # None} = 1 .. Chunks[c]
    BY <1>1, NoneIsNoContent DEF ChunksOf
  <1>3. Cardinality(1 .. Chunks[c]) = Chunks[c]
    BY <1>1, FS_Interval
  <1> QED BY <1>2, <1>3 DEF Indexed

LEMMA StartEnds ==
    ASSUME TypeInv, StartInv
    PROVE  StartRepairs /\ DocumentsComeBack
  <1>0. TypeOK /\ \A i \in DOMAIN registry : registry[i].content \in Content
    BY Kinds DEF TypeInv, Row
  <1>1. ASSUME At(CatchUp, "done"), Quiet, thread[CatchUp].force, NEW i \in DOMAIN registry,
               registry[i].active
        PROVE  /\ registry[i].bytes # None => file[registry[i].path] # None
               /\ file[registry[i].path] # None =>
                    /\ file[registry[i].path] = registry[i].content
                    /\ index[registry[i].path] = ChunksOf(file[registry[i].path])
    <2>1. todo = {} /\ HasFile(i, registry[i].path) /\ Found(i)
      BY <1>1 DEF StartInv, Rebuilding, InRebuild, AllFound
    <2>2. ~WorksOn(CatchUp, registry[i].path)
      BY <1>1 DEF WorksOn, At, IngestStep, DeleteStep
    <2> QED BY <1>1, <2>1, <2>2 DEF HasFile, Found
  <1>2. ASSUME At(CatchUp, "done"), Quiet, NEW i \in DOMAIN registry, registry[i].active,
               file[registry[i].path] # None
        PROVE  Indexed(registry[i].path) = Chunks[registry[i].content]
    <2>1. CASE thread[CatchUp].force
      <3>1. index[registry[i].path] = ChunksOf(registry[i].content)
        BY <1>1, <1>2, <2>1
      <3> QED BY <1>0, <3>1, WholeCounts
    <2>2. CASE ~thread[CatchUp].force
      BY <1>2, <2>2 DEF StartInv, NothingDrifted, Quiet
    <2> QED BY <2>1, <2>2
  <1>3. StartRepairs
    BY <1>2 DEF StartRepairs, Quiet
  <1>4. DocumentsComeBack
    BY <1>1 DEF DocumentsComeBack, Quiet
  <1> QED BY <1>3, <1>4

LEMMA InitStart == Init => StartInv
  <1> SUFFICES ASSUME Init PROVE StartInv
    OBVIOUS
  <1>1. /\ DOMAIN registry = {} /\ DOMAIN moved = {}
        /\ \A t \in Thread : thread[t].step = "idle"
        /\ CatchUp \in Thread /\ Worker \subseteq Thread
    BY DEF Init, Idle, Thread
  <1> QED BY <1>1 DEF StartInv, HomeInside, NobodyElse, PuttingBack, Rebuilding, InRebuild, CatchUpWork,
            NothingDrifted, At, IngestStep, Reading

\* Where the profile's own directory lies inside DOCUMENTS_ROOT, a start that
\* nothing disturbs leaves every registered document whose file is there with
\* all its chunks, whatever was lost or cut short before.
THEOREM StartHolds == OwnDirIsInside => (Spec => []StartRepairs)
  <1> SUFFICES ASSUME OwnDirIsInside PROVE Spec => []StartRepairs
    OBVIOUS
  <1>1. TypeInv /\ KeyInv /\ StartInv /\ [Next]_vars => StartInv'
    BY StartStep
  <1>2. TypeInv /\ StartInv => StartRepairs
    BY StartEnds
  <1> QED BY <1>1, <1>2, InitTypes, InitIndex, InitStart, TypesStep, KeyStep, PTL DEF Spec

\* There, a rebuild that nothing disturbs makes every document whose bytes the
\* database holds a file again, with the whole of that file in the index.
THEOREM ComeBackHolds == OwnDirIsInside => (Spec => []DocumentsComeBack)
  <1> SUFFICES ASSUME OwnDirIsInside PROVE Spec => []DocumentsComeBack
    OBVIOUS
  <1>1. TypeInv /\ KeyInv /\ StartInv /\ [Next]_vars => StartInv'
    BY StartStep
  <1>2. TypeInv /\ StartInv => DocumentsComeBack
    BY StartEnds
  <1> QED BY <1>1, <1>2, InitTypes, InitIndex, InitStart, TypesStep, KeyStep, PTL DEF Spec

=============================================================================
