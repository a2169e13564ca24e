---------------------------- MODULE DocumentIndex ----------------------------
(***************************************************************************)
(* The documents PIP can search (backend/memory/vector_store.py, the       *)
(* document half of profile_store.py, the /rag routes of api/server.py).   *)
(*                                                                         *)
(* One document is in four places that no transaction spans: its file, its *)
(* row in the documents table, its bytes in document_blobs, its chunks in  *)
(* ChromaDB.  SQLite is the authority.  The index is put right at start,   *)
(* by rebuild_if_drifted on the catch-up thread, while requests go on.     *)
(*                                                                         *)
(* A step below is one file operation, one ChromaDB call or one commit.  A *)
(* content stands for a file's bytes, its text and its hash; a chunk is    *)
(* known by the content it was cut from.  "root" and "sub" lie inside      *)
(* DOCUMENTS_ROOT, any other directory outside.                            *)
(***************************************************************************)
EXTENDS Integers, Sequences, FiniteSets

CONSTANTS
  Worker,        \* threads that serve requests
  CatchUp,       \* the thread of the startup catch-up
  Path,          \* <<directory, name>>; name n + 1 is what an upload takes when n is there
  Content,       \* contents of files
  Chunks,        \* Chunks[c]: into how many chunks _chunk_text cuts c
  None,          \* no file, no bytes, no chunk
  OwnDir,        \* documents_root(): where the profile's documents are put back
  MaxChunk,      \* the most chunks of a content
  MaxRequest,    \* bound: requests
  MaxEdit,       \* bound: changes of files from outside
  MaxStart,      \* bound: starts of the backend
  MaxFail        \* bound: exceptions, kills and losses of the index

ASSUME DocumentBounds == {MaxChunk, MaxRequest, MaxEdit, MaxStart, MaxFail} \subseteq Nat
ASSUME ChunksAssumption == Chunks \in [Content -> 0 .. MaxChunk]
ASSUME NoneIsNoContent == None \notin Content
ASSUME CatchUpIsNoWorker == CatchUp \notin Worker
ASSUME PathAssumption ==
  /\ Path \subseteq STRING \X Nat
  /\ \A p \in Path : <<OwnDir, p[2]>> \in Path

VARIABLES
  file,       \* file[p]: the content on disk at p
  registry,   \* documents with document_blobs, in order of id
  index,      \* index[p][k]: the chunk with id p::k
  thread,     \* thread[t]: where t is in its request or in the catch-up
  todo,       \* what is left of list_documents() in rebuild_from_sqlite
  moved,      \* materialise_documents' open transaction: moved[i] is row i's path in it
  up,         \* the backend runs
  \* History: what has happened to a path that the code does not undo.
  astray,     \* chunks of p have been left behind
  torn,       \* bytes of p's row may not be the bytes that were indexed
  calm,       \* nothing but the catch-up has acted since the start
  requests, edits, starts, fails

tables   == <<registry, moved>>
history  == <<astray, torn, calm>>
counters == <<requests, edits, starts, fails>>
vars == <<file, tables, index, thread, todo, up, history, counters>>

-----------------------------------------------------------------------------

Thread == Worker \cup {CatchUp}
Row == [path : Path, content : Content, active : BOOLEAN, bytes : Content \cup {None}]

\* _validate_file_path
Inside(p) == p[1] \in {"root", "sub"}

IngestStep == {"read", "clear", "embed", "record", "store"}
DeleteStep == {"find", "unindex", "remove"}
CatchUpStep == {"check", "putBack", "next", "done"}

\* existing: the row's id that the SELECT found, 0 for none.
Stage == [step : {"idle"} \cup IngestStep \cup DeleteStep \cup CatchUpStep,
          path : Path \cup {None}, content : Content \cup {None}, existing : Nat, force : BOOLEAN]
Idle == [step |-> "idle", path |-> None, content |-> None, existing |-> 0, force |-> FALSE]
At(t, s) == thread[t].step = s
On(t) == thread[t].path
WorksOn(t, p) == thread[t].step \in IngestStep \cup DeleteStep /\ thread[t].path = p
Busy(p) == \E t \in Thread : WorksOn(t, p)
Goes(t, s) == thread' = [thread EXCEPT ![t] = [@ EXCEPT !.step = s]]

\* A request is over, or the catch-up goes to its next document.
Leaves(t) ==
  thread' = [thread EXCEPT ![t] = IF t = CatchUp THEN [Idle EXCEPT !.step = "next"] ELSE Idle]

ActiveAt(i, p) == registry[i].active /\ registry[i].path = p
Registered(p) == \E i \in DOMAIN registry : ActiveAt(i, p)

Empty == [k \in 1 .. MaxChunk |-> None]
ChunksOf(c) == [k \in 1 .. MaxChunk |-> IF k <= Chunks[c] THEN c ELSE None]
Indexed(p) == Cardinality({k \in 1 .. MaxChunk : index[p][k] # None})

\* materialise_documents has written and not committed: other writers wait.
WriteLocked == \E i \in DOMAIN moved : moved[i] # registry[i].path

\* initialize_schema runs backfill_document_blobs on every connection.
Backfilled ==
  [i \in DOMAIN registry |->
     IF registry[i].active /\ registry[i].bytes = None
       THEN [registry[i] EXCEPT !.bytes = file[registry[i].path]]
       ELSE registry[i]]

Init ==
  /\ file = [p \in Path |-> None]
  /\ registry = <<>> /\ moved = <<>>
  /\ index = [p \in Path |-> Empty]
  /\ thread = [t \in Thread |-> Idle]
  /\ todo = {} /\ up = FALSE
  /\ astray = {} /\ torn = {} /\ calm = TRUE
  /\ requests = 0 /\ edits = 0 /\ starts = 0 /\ fails = 0

-----------------------------------------------------------------------------
(* Requests.                                                                 *)

\* _conn() for a request of thread t on path p: two at work on one path are
\* what neither the code nor a lock keeps apart.
Opens(t, s, p) ==
  /\ up /\ At(t, "idle") /\ ~WriteLocked
  /\ requests < MaxRequest /\ requests' = requests + 1
  /\ thread' = [thread EXCEPT ![t] = [Idle EXCEPT !.step = s, !.path = p]]
  /\ registry' = Backfilled
  /\ astray' = IF Busy(p) THEN astray \cup {p} ELSE astray
  /\ torn' = IF Busy(p) THEN torn \cup {p} ELSE torn
  /\ calm' = FALSE
  /\ UNCHANGED <<moved, index, todo, up, edits, starts, fails>>

\* api_ingest_document, and api_delete_document: any path may be named.
AskIngest(t, p) == Opens(t, "read", p) /\ UNCHANGED file
AskDelete(t, p) == Opens(t, "find", p) /\ UNCHANGED file

\* api_upload_document: the first free name of the given one.
IsFree(p) == p[1] = "root" /\ file[p] = None
Upload(t, p, c) ==
  /\ IsFree(p)
  /\ \A q \in Path : IsFree(q) => p[2] <= q[2]
  /\ file' = [file EXCEPT ![p] = c]
  /\ Opens(t, "read", p)

-----------------------------------------------------------------------------
(* ingest_document.                                                          *)

\* Mutant: the chunks of the row that was found are upserted over.
ReadAndKeepChunks(t) ==
  /\ At(t, "read") /\ Inside(On(t)) /\ file[On(t)] # None
  /\ \E i \in DOMAIN registry \cup {0} :
       /\ IF i = 0 THEN ~Registered(On(t)) ELSE ActiveAt(i, On(t))
       /\ thread' = [thread EXCEPT
            ![t] = [@ EXCEPT !.step = "embed", !.content = file[On(t)], !.existing = i]]
  /\ UNCHANGED <<file, tables, index, todo, up, history, counters>>

\* Nothing between reading the file and its row changes either.
Read(t) ==
  LET p == On(t)
      GoesOn(s, i) == thread' = [thread EXCEPT
        ![t] = [@ EXCEPT !.step = s, !.content = file[p], !.existing = i]]
  IN /\ At(t, "read")
     /\ \/ (~Inside(p) \/ file[p] = None) /\ Leaves(t)
        \/ /\ Inside(p) /\ file[p] # None
           /\ \/ ~Registered(p) /\ GoesOn("embed", 0)
              \/ \E i \in DOMAIN registry :
                   /\ ActiveAt(i, p)
                   /\ IF registry[i].content = file[p] /\ ~thread[t].force
                        THEN Leaves(t) ELSE GoesOn("clear", i)
     /\ UNCHANGED <<file, tables, index, todo, up, history, counters>>

\* _delete_chunks_for_path
Clear(t) ==
  /\ At(t, "clear")
  /\ index' = [index EXCEPT ![On(t)] = Empty]
  /\ Goes(t, "embed")
  /\ UNCHANGED <<file, tables, todo, up, history, counters>>

\* The chunks are embedded and upserted by id.
Embed(t) ==
  LET c == thread[t].content IN
  /\ At(t, "embed")
  /\ index' = [index EXCEPT ![On(t)] =
       [k \in 1 .. MaxChunk |-> IF k <= Chunks[c] THEN c ELSE @[k]]]
  /\ Goes(t, "record")
  /\ UNCHANGED <<file, tables, todo, up, history, counters>>

\* Mutant: only a new row's bytes are stored.
RecordWithoutStore(t) ==
  LET c == thread[t].content
      i == thread[t].existing
  IN /\ At(t, "record") /\ ~WriteLocked
     /\ \/ /\ i # 0
           /\ registry' = [registry EXCEPT ![i] = [@ EXCEPT !.content = c]]
           /\ Leaves(t)
        \/ /\ i = 0 /\ ~Registered(On(t))
           /\ registry' = Append(registry,
                [path |-> On(t), content |-> c, active |-> TRUE, bytes |-> None])
           /\ thread' = [thread EXCEPT
                ![t] = [@ EXCEPT !.step = "store", !.existing = Len(registry) + 1]]
     /\ UNCHANGED <<file, moved, index, todo, up, history, counters>>

\* UPDATE of the row that was found, whatever has become of it, or INSERT.
Record(t) ==
  LET c == thread[t].content
      i == thread[t].existing
  IN /\ At(t, "record") /\ ~WriteLocked
     /\ \/ /\ i # 0
           /\ registry' = [registry EXCEPT ![i] = [@ EXCEPT !.content = c]]
           /\ Goes(t, "store")
        \/ /\ i = 0 /\ ~Registered(On(t))     \* the partial unique index
           /\ registry' = Append(registry,
                [path |-> On(t), content |-> c, active |-> TRUE, bytes |-> None])
           /\ thread' = [thread EXCEPT
                ![t] = [@ EXCEPT !.step = "store", !.existing = Len(registry) + 1]]
     /\ UNCHANGED <<file, moved, index, todo, up, history, counters>>

\* A second active row of one path is refused.
Refused(t) ==
  /\ At(t, "record") /\ ~WriteLocked /\ thread[t].existing = 0 /\ Registered(On(t))
  /\ astray' = astray \cup {On(t)}
  /\ Leaves(t)
  /\ UNCHANGED <<file, tables, index, todo, up, torn, calm, counters>>

\* store_document_content, with the file read once more; gone, it raises.
Store(t) ==
  LET p == On(t) IN
  /\ At(t, "store") /\ ~WriteLocked
  /\ registry' = IF file[p] = None THEN registry
                 ELSE [registry EXCEPT ![thread[t].existing] = [@ EXCEPT !.bytes = file[p]]]
  /\ Leaves(t)
  /\ UNCHANGED <<file, moved, index, todo, up, history, counters>>

-----------------------------------------------------------------------------
(* delete_document.                                                          *)

Find(t) ==
  /\ At(t, "find")
  /\ \/ ~Registered(On(t)) /\ Leaves(t)
     \/ \E i \in DOMAIN registry :
          /\ ActiveAt(i, On(t))
          /\ thread' = [thread EXCEPT ![t] = [@ EXCEPT !.step = "unindex", !.existing = i]]
  /\ UNCHANGED <<file, tables, index, todo, up, history, counters>>

Unindex(t) ==
  /\ At(t, "unindex")
  /\ index' = [index EXCEPT ![On(t)] = Empty]
  /\ Goes(t, "remove")
  /\ UNCHANGED <<file, tables, todo, up, history, counters>>

Remove(t) ==
  /\ At(t, "remove") /\ ~WriteLocked
  /\ registry' = [registry EXCEPT ![thread[t].existing] = [@ EXCEPT !.active = FALSE]]
  /\ Leaves(t)
  /\ UNCHANGED <<file, moved, index, todo, up, history, counters>>

-----------------------------------------------------------------------------
(* The catch-up: rebuild_if_drifted and rebuild_from_sqlite.                 *)

\* check_consistency, document by document.
Check ==
  /\ At(CatchUp, "check")
  /\ IF \A i \in DOMAIN registry :
          registry[i].active => Indexed(registry[i].path) = Chunks[registry[i].content]
       THEN Goes(CatchUp, "done") /\ moved' = moved
       ELSE /\ thread' = [thread EXCEPT ![CatchUp] =
                 [Idle EXCEPT !.step = "putBack", !.existing = 1, !.force = TRUE]]
            /\ moved' = [i \in DOMAIN registry |-> registry[i].path]
  /\ UNCHANGED <<file, registry, index, todo, up, history, counters>>

Cursor == thread[CatchUp].existing
Lost(i) == registry[i].active /\ registry[i].bytes # None /\ file[moved[i]] = None
\* Mutant: a document is put back under the next name.
HomeOfTheNext(i) == <<OwnDir, moved[i][2] + 1>>
Home(i) == <<OwnDir, moved[i][2]>>
PathNow(j) == IF j \in DOMAIN moved THEN moved[j] ELSE registry[j].path
Taken(i) == \E j \in DOMAIN registry : j # i /\ registry[j].active /\ PathNow(j) = Home(i)

\* Mutant: the file is written and the row not pointed at it.
PutBackFileOnly ==
  /\ At(CatchUp, "putBack") /\ Cursor \in DOMAIN moved
  /\ file' = IF Lost(Cursor) THEN [file EXCEPT ![Home(Cursor)] = registry[Cursor].bytes] ELSE file
  /\ thread' = [thread EXCEPT ![CatchUp] = [@ EXCEPT !.existing = Cursor + 1]]
  /\ UNCHANGED <<registry, moved, index, todo, up, history, counters>>

\* One row of materialise_documents: the bytes are written unless a file is
\* there, and the row is pointed at it.
PutBack ==
  /\ At(CatchUp, "putBack") /\ Cursor \in DOMAIN moved
  /\ IF Lost(Cursor)
       THEN /\ ~Taken(Cursor)
            /\ moved' = [moved EXCEPT ![Cursor] = Home(Cursor)]
            /\ file' = [file EXCEPT ![Home(Cursor)] = IF @ = None THEN registry[Cursor].bytes ELSE @]
       ELSE UNCHANGED <<file, moved>>
  /\ thread' = [thread EXCEPT ![CatchUp] = [@ EXCEPT !.existing = Cursor + 1]]
  /\ UNCHANGED <<registry, index, todo, up, history, counters>>

Repointed == {i \in DOMAIN moved : moved[i] # registry[i].path}

\* What is left behind when the rows of S get their new paths.
Commit(S) ==
  LET gone == {registry[i].path : i \in S}
      taken == {moved[i] : i \in S}
      raced == \E p \in gone \cup taken : Busy(p)
  IN /\ registry' = [i \in DOMAIN registry |->
          IF i \in S THEN [registry[i] EXCEPT !.path = moved[i]] ELSE registry[i]]
     /\ astray' = astray \cup {p \in gone : index[p] # Empty}
                         \cup (IF raced THEN gone \cup taken ELSE {})
     /\ torn' = torn \cup {moved[i] : i \in {j \in S : registry[j].path \in torn}}
                     \cup (IF raced THEN gone \cup taken ELSE {})
     /\ moved' = <<>>

CommitPutBack ==
  /\ At(CatchUp, "putBack") /\ Cursor \notin DOMAIN moved
  /\ Commit(Repointed)
  /\ todo' = {registry'[i].path : i \in {j \in DOMAIN registry : registry[j].active}}
  /\ Leaves(CatchUp)
  /\ UNCHANGED <<file, index, up, calm, counters>>

\* Two documents of one name: the UPDATE raises and the rebuild with it.  What
\* was repointed before is committed or not with the rest of the catch-up.
PutBackRaises ==
  /\ At(CatchUp, "putBack") /\ Cursor \in DOMAIN moved
  /\ Lost(Cursor) /\ Taken(Cursor)
  /\ file' = [file EXCEPT ![Home(Cursor)] = IF @ = None THEN registry[Cursor].bytes ELSE @]
  /\ \E S \in {{}, Repointed} : Commit(S)
  /\ Goes(CatchUp, "done")
  /\ UNCHANGED <<index, todo, up, calm, counters>>

\* Mutant: without force=True an unchanged file is passed over.
NextUnforced(p) ==
  /\ At(CatchUp, "next") /\ p \in todo /\ file[p] # None
  /\ todo' = todo \ {p}
  /\ thread' = [thread EXCEPT ![CatchUp] = [Idle EXCEPT !.step = "read", !.path = p]]
  /\ UNCHANGED <<file, tables, index, up, history, counters>>

\* The rebuild's next document, if its file is there.
NextDocument(p) ==
  /\ At(CatchUp, "next") /\ p \in todo
  /\ todo' = todo \ {p}
  /\ IF file[p] = None THEN UNCHANGED <<thread, astray, torn>>
     ELSE /\ thread' = [thread EXCEPT ![CatchUp] =
               [Idle EXCEPT !.step = "read", !.path = p, !.force = TRUE]]
          /\ astray' = IF Busy(p) THEN astray \cup {p} ELSE astray
          /\ torn' = IF Busy(p) THEN torn \cup {p} ELSE torn
  /\ UNCHANGED <<file, tables, index, up, calm, counters>>

Rebuilt ==
  /\ At(CatchUp, "next") /\ todo = {}
  /\ thread' = [thread EXCEPT ![CatchUp] = [Idle EXCEPT !.step = "done", !.force = TRUE]]
  /\ UNCHANGED <<file, tables, index, todo, up, history, counters>>

\* On to the rest of the catch-up, which no document is part of.
GoOn ==
  /\ At(CatchUp, "done")
  /\ thread' = [thread EXCEPT ![CatchUp] = Idle]
  /\ UNCHANGED <<file, tables, index, todo, up, history, counters>>

-----------------------------------------------------------------------------
(* The process, and what happens to files and index from outside.            *)

Start ==
  /\ ~up /\ starts < MaxStart
  /\ up' = TRUE /\ starts' = starts + 1 /\ calm' = TRUE
  /\ registry' = Backfilled
  /\ thread' = [thread EXCEPT ![CatchUp] = [Idle EXCEPT !.step = "check"]]
  /\ UNCHANGED <<file, moved, index, todo, astray, torn, requests, edits, fails>>

\* What an ingest of t that ends here leaves undone.
LeavesAstray(t) == IF At(t, "record") THEN {On(t)} ELSE {}
LeavesTorn(t) == IF At(t, "store") THEN {On(t)} ELSE {}

\* An exception: a locked database, an embedding that fails, ChromaDB.
Raise(t) ==
  /\ thread[t].step \in IngestStep \cup DeleteStep
  /\ fails < MaxFail /\ fails' = fails + 1
  /\ Leaves(t)
  /\ astray' = astray \cup LeavesAstray(t)
  /\ torn' = torn \cup LeavesTorn(t)
  /\ calm' = FALSE
  /\ UNCHANGED <<file, tables, index, todo, up, requests, edits, starts>>

Kill ==
  /\ up /\ fails < MaxFail /\ fails' = fails + 1
  /\ up' = FALSE
  /\ thread' = [t \in Thread |-> Idle] /\ todo' = {} /\ moved' = <<>>
  /\ astray' = astray \cup UNION {LeavesAstray(t) : t \in Thread}
  /\ torn' = torn \cup UNION {LeavesTorn(t) : t \in Thread}
  /\ UNCHANGED <<file, registry, index, calm, requests, edits, starts>>

\* The user changes, adds or takes away a file.
Edit(p, c) ==
  /\ edits < MaxEdit /\ edits' = edits + 1
  /\ file[p] # c
  /\ file' = [file EXCEPT ![p] = c]
  /\ torn' = IF Busy(p) THEN torn \cup {p} ELSE torn
  /\ calm' = FALSE
  /\ UNCHANGED <<tables, index, thread, todo, up, astray, requests, starts, fails>>

\* Chunks under an old key count for nothing: a re-key or a restore loses the
\* index, and a restore on another machine the files too.
LoseIndex ==
  /\ ~up /\ fails < MaxFail /\ fails' = fails + 1
  /\ index' = [p \in Path |-> Empty]
  /\ file' \in {file, [p \in Path |-> None]}
  /\ UNCHANGED <<tables, thread, todo, up, history, requests, edits, starts>>

-----------------------------------------------------------------------------

Ingest(t) == Read(t) \/ Clear(t) \/ Embed(t) \/ Record(t) \/ Refused(t) \/ Store(t)
Delete(t) == Find(t) \/ Unindex(t) \/ Remove(t)
Rebuild == \/ Check \/ PutBack \/ CommitPutBack \/ PutBackRaises \/ Rebuilt \/ GoOn
           \/ \E p \in Path : NextDocument(p)

Next ==
  \/ \E t \in Worker, p \in Path : AskIngest(t, p) \/ AskDelete(t, p)
  \/ \E t \in Worker, p \in Path, c \in Content : Upload(t, p, c)
  \/ \E t \in Thread : Ingest(t) \/ Raise(t)
  \/ \E t \in Worker : Delete(t)
  \/ Rebuild \/ Start \/ Kill \/ LoseIndex
  \/ \E p \in Path, c \in Content \cup {None} : Edit(p, c)

Spec == Init /\ [][Next]_vars

-----------------------------------------------------------------------------
(* Properties.                                                               *)

\* Types.
TypeOK ==
  /\ file \in [Path -> Content \cup {None}]
  /\ registry \in Seq(Row)
  /\ moved \in Seq(Path) /\ Len(moved) <= Len(registry)
  /\ index \in [Path -> [1 .. MaxChunk -> Content \cup {None}]]
  /\ thread \in [Thread -> Stage]
  /\ todo \subseteq Path /\ astray \subseteq Path /\ torn \subseteq Path
  /\ up \in BOOLEAN /\ calm \in BOOLEAN
  /\ {requests, edits, starts, fails} \subseteq Nat

AsRecorded(p) == \E i \in DOMAIN registry :
  ActiveAt(i, p) /\ index[p] = ChunksOf(registry[i].content)

\* What search can find of a path is what the registry records of it, or
\* nothing, whatever was killed: a deletion cut short, above all, never leaves
\* a removed document searchable.  Only an ingest cut off between its chunks
\* and its row, two requests on one path, and a document put back under
\* another path leave chunks astray.
IndexAgrees == \A p \in Path :
  ~Busy(p) /\ p \notin astray => index[p] = Empty \/ AsRecorded(p)

\* A backup carries the file that was indexed: the bytes in the database are
\* those the row describes, unless the file changed during its ingest, the
\* ingest was cut off before its last commit, or two were at work on the path.
BytesAreIndexed == \A i \in DOMAIN registry :
  LET p == registry[i].path IN
  registry[i].active /\ ~Busy(p) /\ p \notin torn => registry[i].bytes = registry[i].content

NamesDiffer == \A i, j \in DOMAIN registry :
  registry[i].active /\ registry[j].active /\ i # j => registry[i].path[2] # registry[j].path[2]

\* After a start that nothing disturbed, every registered document whose file
\* is there has all its chunks in the index again, whatever was lost before.
StartRepairs ==
  At(CatchUp, "done") /\ calm /\ NamesDiffer =>
    \A i \in DOMAIN registry : registry[i].active /\ file[registry[i].path] # None =>
      Indexed(registry[i].path) = Chunks[registry[i].content]

\* After a rebuild that nothing disturbed, every document whose bytes the
\* database holds is a file again and search finds the whole of that file: a
\* restore on another machine is complete.
DocumentsComeBack ==
  At(CatchUp, "done") /\ thread[CatchUp].force /\ calm /\ NamesDiffer =>
    \A i \in DOMAIN registry : registry[i].active /\ registry[i].bytes # None =>
      /\ file[registry[i].path] # None
      /\ index[registry[i].path] = ChunksOf(file[registry[i].path])

\* rebuild_from_sqlite's promise that chunks of no registered document "can
\* only come from drift severe enough that a rebuild is running anyway".  TLC refutes
\* it: README.
OrphansComeWithDrift ==
  At(CatchUp, "done") /\ ~thread[CatchUp].force /\ calm =>
    \A p \in Path : index[p] # Empty => Registered(p)
=============================================================================
