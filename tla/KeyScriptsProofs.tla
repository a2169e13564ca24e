--------------------------- MODULE KeyScriptsProofs ---------------------------
(***************************************************************************)
(* What the scripts keep for every number of passwords, salts, writes and    *)
(* runs, if set_db_password.py is not stopped between its new salt and the   *)
(* rekey and nothing else of Unruly is done: the database in place opens, no *)
(* last write is lost, and no secret opens what another was chosen for.      *)
(***************************************************************************)
EXTENDS KeyScripts, TLAPS

-----------------------------------------------------------------------------
(* The invariants                                                           *)

Moves == {"saltAside", "dbIn", "saltIn"}
Restoring == {"confirm"} \cup Moves
Changing == {"salt", "rekey", "verify"}

\* What opens f: the key in the key file, or a password with one of the salts.
OpensBy(f, key, salts) ==
    \/ f.seal \in {Plain, key}
    \/ f.seal \notin {Plain, key} /\ f.seal[1] \in Password /\ f.seal[2] \in salts

\* The key of a migration is in the key file.
OnDisk ==
    /\ script.at = "export" => keyFile # None /\ script.key = keyFile
    /\ script.at \in {"out", "in"} => keyFile # None /\ tmp.seal = keyFile

\* The state of a script and of what it works on.  A key that is random is in
\* the key file, and nowhere else.
Shape ==
    /\ up => script.at \in {"idle", "copy"} /\ db # Absent
    /\ db = Absent => script.at \in {"idle", "in"} \cup Restoring
    /\ keyFile = None \/ keyFile[1] = Random
    /\ script.at \in {"export", "out"} => db.seal = Plain
    /\ script.at \in {"out", "in"} => tmp # Absent
    /\ script.at = "in" => db = Absent
    /\ "shell" \notin Unruly => OnDisk
    /\ script.at \in {"saltAside", "dbIn"} => db = Absent
    /\ script.at \in {"dbIn", "saltIn"} => salt = None
    /\ script.at = "saltIn" => db = script.new
    /\ script.at \in {"rekey", "verify"} => salt = made

\* Salts are made once.
SaltsApart ==
    /\ salt \in Number => salt <= made
    /\ salt \notin asideSalts
    /\ \A n \in asideSalts : n <= made
    /\ script.at \in Restoring =>
         /\ script.new.seal \in Key /\ script.new.seal[1] \in Password
         /\ script.new.seal[2] = made /\ made # 0
         /\ salt # made /\ made \notin asideSalts
         /\ script.at \in {"dbIn", "saltIn"} /\ script.salt # None => script.salt \in asideSalts

\* A script carries a password of its own.
Apart ==
    /\ script.at \in Restoring => script.new.seal[1] # script.from
    /\ script.at = "copy" /\ db.seal # Plain => db.seal[1] # script.pw

TypeInv == TypeOK /\ Shape /\ SaltsApart /\ Apart

\* What a pair of database and salt in place has to be.
Fits(f, key, s) == \/ f.seal = Plain /\ s = None
                   \/ f.seal = key
                   \/ f.seal # Plain /\ f.seal[2] = s

\* If nothing was torn there is a database and it fits its salt; while a restore
\* has moved them, the pair that is put back does.
FitsInv == ~torn =>
    /\ script.at \notin {"in"} \cup Moves =>
         db # Absent /\ (script.at # "rekey" => Fits(db, keyFile, salt))
    /\ script.at \in Moves =>
         /\ script.db # Absent
         /\ Fits(script.db, keyFile, IF script.at = "saltAside" THEN salt ELSE script.salt)

\* The files that hold what was written: those in place and those aside, but
\* not the copy of a restore that may still be put back.
Holders == aside \cup (IF script.at = "saltIn" THEN {} ELSE {db} \ {Absent})

\* Every last write is in one of them, and each of them opens.
HeldInv ==
    /\ \A d \in heads : \E f \in Holders : f.data = d
    /\ script.at # "rekey" => \A f \in Holders : OpensBy(f, keyFile, {salt} \cup asideSalts)
    /\ script.at \in Moves => script.db \in aside \cup {Absent}

\* What was moved aside opens without the salt in place, so that it may be
\* replaced; and without the key file, as long as a change of password might
\* let go of it: of the database in place, or the one to be put back.
AsideInv == ~torn =>
    /\ script.at \in Moves => \A f \in aside \ {script.db} :
         /\ OpensBy(f, keyFile, IF script.at = "saltAside" THEN asideSalts ELSE asideSalts \ {script.salt})
         /\ script.db.seal \in {Plain, keyFile} => f.seal # keyFile
    /\ script.at \notin Moves => \A f \in aside :
         /\ OpensBy(f, keyFile, asideSalts)
         /\ script.at \in {"in", "verify"} => f.seal # keyFile
         /\ db # Absent /\ db.seal \in {Plain, keyFile} => f.seal # keyFile

\* A change of password begins on a database that fits, and lets go of no key
\* that anything else needs.
ChangeInv == script.at \in Changing =>
    /\ ~torn /\ db # Absent /\ db.seal # Plain
    /\ script.at \in {"salt", "rekey"} => keyFile \in {None, db.seal}
    /\ script.at = "salt" => script.before = db
    /\ script.at = "rekey" => script.before = db
    /\ script.at = "verify" => db = Sealed(<<script.pw, made>>, script.before.data)

DataInv == FitsInv /\ HeldInv /\ AsideInv /\ ChangeInv

-----------------------------------------------------------------------------
(* Scripts                                                                  *)

\* The forms of script.
Plainly == [at : {"idle", "out", "in"}] \cup [at : {"export"}, key : Key]
Change == [at : Changing, pw : Password, before : File]
Copies == [at : {"copy"}, pw : Password]
Restores == [at : Restoring, out : {"live", "elsewhere"}, from : Password,
             new : File, db : File \cup {Absent}, salt : Number \cup {None}]

LEMMA Forms ==
  ASSUME NEW s \in Script
  PROVE  /\ s.at \in {"idle", "export", "out", "in"} => s \in Plainly
         /\ s.at \in Changing => s \in Change
         /\ s.at = "copy" => s \in Copies
         /\ s.at \in Restoring => s \in Restores
         /\ s.at \in {"idle", "export", "out", "in", "copy"} \cup Changing \cup Restoring
BY DEF Script, Plainly, Change, Copies, Restores, Changing, Restoring, Moves

LEMMA FormsBack ==
  /\ Plainly \subseteq Script /\ Change \subseteq Script
  /\ Copies \subseteq Script /\ Restores \subseteq Script
  /\ NoScript \in Plainly /\ NoScript.at = "idle"
BY DEF Script, Plainly, Change, Copies, Restores, Changing, Restoring, Moves, NoScript

\* What a script carries can be told from where it is.
LEMMA Carries ==
  ASSUME NEW s \in Script
  PROVE  /\ s.at = "idle" <=> s = NoScript
         /\ s.at \in Restoring <=> "new" \in DOMAIN s
         /\ s.at \in Restoring <=> "from" \in DOMAIN s
<1>1. CASE s \in Plainly
  BY <1>1 DEF Plainly, NoScript, Restoring, Moves
<1>2. CASE s \in Change
  BY <1>2 DEF Change, NoScript, Restoring, Moves, Changing
<1>3. CASE s \in Copies
  BY <1>3 DEF Copies, NoScript, Restoring, Moves
<1>4. CASE s \in Restores
  BY <1>4 DEF Restores, NoScript, Restoring, Moves
<1> QED
  BY <1>1, <1>2, <1>3, <1>4, Forms

\* A script goes on with what it carries.
LEMMA ChangeGoesOn ==
  ASSUME NEW s \in Change, NEW at \in Changing
  PROVE  /\ [s EXCEPT !.at = at] \in Change
         /\ [s EXCEPT !.at = at].at = at
         /\ [s EXCEPT !.at = at].pw = s.pw /\ [s EXCEPT !.at = at].before = s.before
BY DEF Change

LEMMA RestoreGoesOn ==
  ASSUME NEW s \in Restores, NEW at \in Restoring
  PROVE  /\ [s EXCEPT !.at = at] \in Restores
         /\ [s EXCEPT !.at = at].at = at
         /\ [s EXCEPT !.at = at].new = s.new /\ [s EXCEPT !.at = at].from = s.from
         /\ [s EXCEPT !.at = at].db = s.db /\ [s EXCEPT !.at = at].salt = s.salt
BY DEF Restores

LEMMA Bounds ==
  MaxMade \in Nat /\ MaxMade >= 1 /\ MaxWrite \in Nat /\ MaxRun \in Nat /\ None \notin Nat
<1>1. MaxMade \in Nat \ {0} /\ MaxWrite \in Nat /\ MaxRun \in Nat /\ None \notin Nat
  BY Zenon, KeyScriptsAssumption
<1> QED
  BY <1>1

\* Keys, files and their absence are different things.
LEMMA Kinds ==
  /\ \A k \in Key : k[1] \in Password \cup {Random} /\ k[2] \in Number /\ k # Plain /\ k # None
  /\ \A p \in Password \cup {Random}, n \in Number :
       <<p, n>> \in Key /\ <<p, n>>[1] = p /\ <<p, n>>[2] = n
  /\ \A k \in Key \cup {Plain}, d \in 0 .. MaxWrite :
       Sealed(k, d) \in File /\ Sealed(k, d).seal = k /\ Sealed(k, d).data = d
  /\ \A f \in File : f.seal \in Key \cup {Plain} /\ f.data \in 0 .. MaxWrite /\ f # Absent
  /\ \A f, g \in File : f.seal = g.seal /\ f.data = g.data => f = g
  /\ \A n \in Number : n # None /\ n \in Nat /\ n <= MaxMade
  /\ Plain # None /\ Random \notin Password
<1>1. \A k \in Key : k[1] \in Password \cup {Random} /\ k[2] \in Number /\ k # Plain /\ k # None
  BY KeyScriptsAssumption DEF Key
<1>2. \A p \in Password \cup {Random}, n \in Number :
       <<p, n>> \in Key /\ <<p, n>>[1] = p /\ <<p, n>>[2] = n
  BY DEF Key
<1>3. \A k \in Key \cup {Plain}, d \in 0 .. MaxWrite :
       Sealed(k, d) \in File /\ Sealed(k, d).seal = k /\ Sealed(k, d).data = d
  BY DEF Sealed, File
<1>4. \A f \in File : f.seal \in Key \cup {Plain} /\ f.data \in 0 .. MaxWrite /\ f # Absent
  BY KeyScriptsAssumption DEF File
<1>5. \A f, g \in File : f.seal = g.seal /\ f.data = g.data => f = g
  BY DEF File
<1>6. \A n \in Number : n # None /\ n \in Nat /\ n <= MaxMade
  BY Bounds DEF Number
<1> QED
  BY <1>1, <1>2, <1>3, <1>4, <1>5, <1>6, KeyScriptsAssumption

-----------------------------------------------------------------------------
(* Types, salts and secrets                                                 *)

LEMMA InitTypes == Init => TypeInv
<1> SUFFICES ASSUME Init PROVE TypeInv
  OBVIOUS
<1>1. /\ made \in {0, 1} /\ written = 0 /\ runs = 0 /\ script = NoScript /\ script.at = "idle"
      /\ tmp = Absent /\ aside = {} /\ asideSalts = {} /\ backups = <<>>
      /\ up = FALSE /\ held = Plain /\ torn = FALSE /\ heads = {}
  BY FormsBack DEF Init
<1>2. /\ 0 \in 0 .. MaxWrite /\ 0 \in 0 .. MaxRun /\ made \in 0 .. MaxMade /\ 1 \in Number
      /\ 0 \in 0 .. MaxMade
  BY <1>1, Bounds DEF Number
<1>3. /\ db \in File /\ salt \in {None, 1} /\ (salt = 1 => made = 1)
      /\ keyFile \in {None, <<Random, 1>>}
  <2>1. CASE db = Sealed(Plain, 0) /\ salt = None /\ keyFile = None
    BY <1>2, <2>1, Kinds
  <2>2. CASE db = Sealed(<<Random, 1>>, 0) /\ salt = None /\ keyFile = <<Random, 1>>
    BY <1>2, <2>2, Kinds
  <2>3. ASSUME NEW p \in Password, db = Sealed(<<p, 1>>, 0), salt = 1, keyFile = None, made = 1
        PROVE  db \in File
    BY <1>2, <2>3, Kinds
  <2> QED
    BY <2>1, <2>2, <2>3 DEF Init
<1>4. keyFile = None \/ (keyFile \in Key /\ keyFile[1] = Random)
  BY <1>2, <1>3, Kinds
<1>5. TypeOK
  <2>1. <<>> \in Seq(Backup) /\ Plain \in Key \cup {Plain} /\ FALSE \in BOOLEAN
    OBVIOUS
  <2>2. script \in Script
    BY <1>1, FormsBack
  <2> QED
    BY <1>1, <1>2, <1>3, <1>4, <2>1, <2>2 DEF TypeOK
<1>6. Shape
  BY <1>1, <1>3, <1>4, Kinds DEF Shape, OnDisk, Restoring, Moves
<1>7. SaltsApart
  BY <1>1, <1>2, <1>3, Kinds DEF SaltsApart, Restoring, Moves
<1>8. Apart
  BY <1>1 DEF Apart, Restoring, Moves
<1> QED
  BY <1>5, <1>6, <1>7, <1>8 DEF TypeInv

\* Of the script that runs: its form, and when there is none.
LEMMA Running ==
  ASSUME TypeInv
  PROVE  /\ script \in Script
         /\ script.at \in {"idle", "export", "out", "in"} => script \in Plainly
         /\ script.at \in Changing => script \in Change
         /\ script.at = "copy" => script \in Copies
         /\ script.at \in Restoring => script \in Restores
         /\ Idle <=> script.at = "idle"
         /\ db # Absent => db \in File
BY Forms, Carries DEF TypeInv, TypeOK, Idle

\* A start of the backend, with the key in hand.
LEMMA SignInDoes ==
  ASSUME "beside" \notin Unruly, TypeInv, NEW k \in Key \cup {Plain}, SignIn(k)
  PROVE  /\ up' = TRUE /\ held' = k /\ script' = script /\ keyFile' = keyFile
         /\ tmp' = tmp /\ aside' = aside /\ asideSalts' = asideSalts /\ backups' = backups
         /\ torn' = torn /\ heads' = heads /\ written' = written /\ runs' = runs
         /\ script.at \in {"idle", "copy"}
         /\ db' \in File /\ (db # Absent => db' = db)
         /\ db = Absent => db' = Sealed(k, 0) /\ script.at = "idle"
<1>1. /\ up' = TRUE /\ held' = k /\ script' = script /\ keyFile' = keyFile
      /\ tmp' = tmp /\ aside' = aside /\ asideSalts' = asideSalts /\ backups' = backups
      /\ torn' = torn /\ heads' = heads /\ written' = written /\ runs' = runs
      /\ script.at \in {"idle", "copy"}
  BY Running DEF SignIn, kept
<1>2. 0 \in 0 .. MaxWrite
  BY Bounds
<1>3. db = Absent => script.at = "idle"
  BY <1>1 DEF TypeInv, Shape, OnDisk, Restoring, Moves
<1> QED
  BY <1>1, <1>2, <1>3, Running, Kinds DEF SignIn

LEMMA SignInTypes ==
  ASSUME "beside" \notin Unruly, TypeInv, NEW k \in Key \cup {Plain}, SignIn(k),
         \/ UNCHANGED <<salt, made>>
         \/ salt = None /\ Make /\ salt' = Fresh,
         db = Absent => k # Plain
  PROVE  TypeInv'
<1> USE DEF TypeInv
<1>1. /\ up' = TRUE /\ held' = k /\ script' = script /\ keyFile' = keyFile
      /\ tmp' = tmp /\ aside' = aside /\ asideSalts' = asideSalts /\ backups' = backups
      /\ torn' = torn /\ heads' = heads /\ written' = written /\ runs' = runs
      /\ script.at \in {"idle", "copy"}
  BY SignInDoes
<1>2. /\ db' \in File /\ (db # Absent => db' = db)
      /\ db = Absent => db' = Sealed(k, 0) /\ script.at = "idle"
  BY SignInDoes
<1>3. /\ made \in Nat /\ made' \in 0 .. MaxMade /\ made' >= made
      /\ salt' \in Number \cup {None}
      /\ salt' = salt \/ (salt' \in Number /\ salt' = made' /\ made' = made + 1)
  BY Bounds DEF Make, Fresh, Number, TypeOK
<1>4. TypeOK'
  BY <1>1, <1>2, <1>3 DEF TypeOK
<1>5. Shape'
  BY <1>1, <1>2, <1>3, Kinds DEF Shape, OnDisk, Restoring, Moves
<1>6. SaltsApart'
  <2>1. asideSalts \subseteq Number /\ \A n \in Number : n \in Nat
    BY Kinds DEF TypeOK
  <2> QED
    BY <1>1, <1>3, <2>1 DEF SaltsApart, Restoring, Moves
<1>7. Apart'
  BY <1>1, <1>2 DEF Apart, Restoring, Moves
<1> QED
  BY <1>4, <1>5, <1>6, <1>7

LEMMA BackendTypes ==
  ASSUME "beside" \notin Unruly, TypeInv,
         Launched \/ Unlocked \/ FirstPassword \/ Unencrypted \/ Write \/ Close
  PROVE  TypeInv'
<1> USE DEF TypeInv
<1>1. CASE Launched
  <2>1. keyFile \in Key /\ SignIn(keyFile) /\ keyFile # Plain
    BY <1>1, Kinds DEF Launched, TypeOK
  <2> QED
    BY <1>1, <2>1, SignInTypes DEF Launched
<1>2. CASE Unlocked
  <2>1. PICK p \in Password : SignIn(<<p, salt>>)
    BY <1>2 DEF Unlocked
  <2>2. <<p, salt>> \in Key /\ <<p, salt>> # Plain
    BY <1>2, Kinds DEF Unlocked, TypeOK
  <2> QED
    BY <1>2, <2>1, <2>2, SignInTypes DEF Unlocked
<1>3. CASE FirstPassword
  <2>1. PICK p \in Password : SignIn(<<p, Fresh>>)
    BY <1>3 DEF FirstPassword
  <2>2. Fresh \in Number
    BY <1>3, Bounds DEF FirstPassword, Make, Fresh, Number, TypeOK
  <2>3. <<p, Fresh>> \in Key /\ <<p, Fresh>> # Plain
    BY <2>2, Kinds
  <2> QED
    BY <1>3, <2>1, <2>3, SignInTypes DEF FirstPassword
<1>4. CASE Unencrypted
  BY <1>4, SignInTypes DEF Unencrypted
<1>5. CASE Write
  <2>1. /\ db \in File /\ db.seal = held /\ script.at \in {"idle", "copy"}
        /\ held \in Key \cup {Plain}
    BY <1>5, Running DEF Write, Shape, OnDisk, TypeOK
  <2>2. /\ written' \in 0 .. MaxWrite /\ written' \in 1 .. MaxWrite
        /\ db' = Sealed(held, written') /\ heads' = (heads \ {db.data}) \cup {written'}
    BY <1>5, <2>1, Kinds, Bounds DEF Write, TypeOK
  <2>3. db' \in File /\ db'.seal = db.seal
    BY <2>1, <2>2, Kinds
  <2>4. UNCHANGED <<salt, keyFile, tmp, aside, asideSalts, backups, up, held, script, torn, made, runs>>
    BY <1>5 DEF Write, kept, backend
  <2>5. TypeOK'
    BY <2>2, <2>3, <2>4 DEF TypeOK
  <2>6. Shape' /\ SaltsApart' /\ Apart'
    BY <2>1, <2>3, <2>4, Kinds DEF Shape, OnDisk, SaltsApart, Apart, Restoring, Moves
  <2> QED
    BY <2>5, <2>6
<1>6. CASE Close
  BY <1>6 DEF Close, live, kept, counts, TypeOK, Shape, OnDisk, SaltsApart, Apart
<1> QED
  BY <1>1, <1>2, <1>3, <1>4, <1>5, <1>6

\* A script is stopped.
LEMMA StopTypes ==
  ASSUME TypeInv, Stop
  PROVE  TypeInv'
<1> USE DEF TypeInv
<1>1. /\ script' = NoScript /\ script'.at = "idle" /\ torn' \in BOOLEAN
      /\ script' \in Script
      /\ UNCHANGED <<db, salt, keyFile, tmp, backups, up, held, heads, made, written, runs>>
  BY FormsBack DEF Stop, live, backend, counts, TypeOK
<1>2. \/ aside' = aside /\ asideSalts' = asideSalts /\ script.at \notin {"saltIn"}
      \/ /\ script.at \in Restoring /\ script.at # "saltIn"
         /\ aside' = aside \cup {script.new} /\ asideSalts' = asideSalts \cup {script.new.seal[2]}
      \/ script.at = "saltIn" /\ aside' = aside /\ asideSalts' = asideSalts \cup {script.new.seal[2]}
  BY Carries, Running DEF Stop, Leftovers
<1>3. script.at \in Restoring =>
        script.new \in File /\ script.new.seal[2] = made /\ made \in Number
  BY Running, Bounds DEF Restores, SaltsApart, Number, TypeOK
<1>4. aside' \subseteq File /\ asideSalts' \subseteq Number
  BY <1>2, <1>3 DEF TypeOK, Restoring, Moves
<1>5. TypeOK'
  BY <1>1, <1>4 DEF TypeOK
<1>6. Shape'
  BY <1>1 DEF Shape, OnDisk, Restoring, Moves
<1>7. SaltsApart'
  <2>1. \A n \in asideSalts' : n <= made
    <3>1. made \in Nat
      BY Bounds DEF TypeOK
    <3> QED
      BY <1>2, <1>3, <3>1 DEF SaltsApart, Restoring, Moves
  <2>2. salt \notin asideSalts'
    BY <1>2, <1>3 DEF SaltsApart, Restoring, Moves
  <2> QED
    BY <1>1, <2>1, <2>2 DEF SaltsApart, Restoring, Moves
<1>8. Apart'
  BY <1>1 DEF Apart, Restoring, Moves
<1> QED
  BY <1>5, <1>6, <1>7, <1>8

\* migrate_encrypt_db.py.
LEMMA MigrateTypes ==
  ASSUME "beside" \notin Unruly, TypeInv,
         Migrate \/ MigrateCopy \/ MigrateOut \/ MigrateIn \/ RemovePlain
  PROVE  TypeInv'
<1> USE DEF TypeInv
<1> DEFINE Goes(s) == script' = [at |-> s] /\ script'.at = s /\ script' \in Script
<1>1. /\ \A s \in {"out", "in", "idle"} : [at |-> s].at = s /\ [at |-> s] \in Script
      /\ \A k \in Key : LET e == [at |-> "export", key |-> k]
                        IN  e.at = "export" /\ e.key = k /\ e \in Script
  BY FormsBack DEF Plainly
<1>2. CASE Migrate
  <2>1. /\ Idle /\ ~up /\ db \in File /\ db.seal = Plain /\ runs' \in 0 .. MaxRun
        /\ UNCHANGED <<db, salt, aside, asideSalts, backups, up, held, torn, heads, written>>
        /\ tmp' = Absent
    BY <1>2, Running, Bounds DEF Migrate, Started, backend, TypeOK
  <2>2. /\ made' \in 0 .. MaxMade /\ made' >= made /\ made \in Nat
        /\ keyFile' \in Key \cup {None} /\ (keyFile' = None \/ keyFile'[1] = Random)
        /\ \E k \in Key : /\ script' = [at |-> "export", key |-> k]
                          /\ "shell" \notin Unruly => k = keyFile'
    <3>1. PICK shell \in Key \cup {None} :
            /\ shell \in {None, keyFile} \/ "shell" \in Unruly
            /\ IF shell = None /\ keyFile = None
               THEN Make /\ keyFile' = <<Random, Fresh>>
               ELSE UNCHANGED <<keyFile, made>>
            /\ script' = [at |-> "export", key |-> IF shell # None THEN shell ELSE keyFile']
      BY <1>2 DEF Migrate
    <3>2. made \in 0 .. MaxMade /\ made \in Nat /\ keyFile \in Key \cup {None}
          /\ (keyFile = None \/ keyFile[1] = Random)
      BY Bounds DEF TypeOK, Shape, OnDisk
    <3>3. CASE shell # None \/ keyFile # None
      BY <3>1, <3>2, <3>3
    <3>4. CASE shell = None /\ keyFile = None
      <4>1. Fresh \in Number /\ made' = Fresh /\ made' \in 0 .. MaxMade /\ made' >= made
            /\ keyFile' = <<Random, Fresh>> /\ script' = [at |-> "export", key |-> keyFile']
        BY <3>1, <3>2, <3>4, Bounds DEF Make, Fresh, Number
      <4>2. keyFile' \in Key /\ keyFile'[1] = Random
        BY <4>1, Kinds
      <4> QED
        BY <3>2, <4>1, <4>2
    <3> QED
      BY <3>3, <3>4
  <2>3. /\ script'.at = "export" /\ script' \in Script /\ script.at = "idle"
        /\ "shell" \notin Unruly => script'.key = keyFile' /\ keyFile' # None
    BY <1>1, <2>1, <2>2, Running, Kinds
  <2>4. TypeOK'
    BY <2>1, <2>2, <2>3 DEF TypeOK
  <2>5. Shape' /\ Apart'
    BY <2>1, <2>2, <2>3, Kinds DEF Shape, OnDisk, Apart, Restoring, Moves
  <2>6. SaltsApart'
    <3>1. asideSalts \subseteq Number /\ \A n \in Number : n \in Nat
      BY Kinds DEF TypeOK
    <3> QED
      BY <2>1, <2>2, <2>3, <3>1 DEF SaltsApart, Restoring, Moves
  <2> QED
    BY <2>4, <2>5, <2>6
<1>3. CASE MigrateCopy
  <2>1. /\ db \in File /\ script.key \in Key /\ db.data \in 0 .. MaxWrite /\ ~up
    BY <1>3, Running, Kinds DEF MigrateCopy, Shape, OnDisk, TypeOK, Restoring, Moves, Plainly
  <2>2. /\ tmp' \in File /\ tmp' # Absent /\ tmp'.seal = script.key
        /\ script'.at = "out" /\ script' \in Script
    BY <1>1, <1>3, <2>1, Kinds DEF MigrateCopy
  <2>3. UNCHANGED <<db, salt, keyFile, aside, asideSalts, backups, up, held, torn, heads, made, written, runs>>
    BY <1>3 DEF MigrateCopy, live, backend, counts
  <2> QED
    BY <1>3, <2>1, <2>2, <2>3 DEF MigrateCopy, TypeOK, Shape, OnDisk, SaltsApart, Apart, Restoring, Moves
<1>4. CASE MigrateOut
  <2>1. db \in File /\ aside' \subseteq File /\ db' = Absent /\ script'.at = "in" /\ script' \in Script
    BY <1>1, <1>4, Running DEF MigrateOut, TypeOK
  <2>2. tmp \in File /\ tmp # Absent /\ ~up
        /\ ("shell" \notin Unruly => tmp.seal = keyFile /\ keyFile # None)
    BY <1>4, <2>1, Kinds DEF MigrateOut, Shape, OnDisk, TypeOK
  <2>3. UNCHANGED <<salt, keyFile, tmp, asideSalts, backups, up, held, torn, heads, made, written, runs>>
    BY <1>4 DEF MigrateOut, backend, counts
  <2> QED
    BY <1>4, <2>1, <2>2, <2>3 DEF MigrateOut, TypeOK, Shape, OnDisk, SaltsApart, Apart, Restoring, Moves
<1>5. CASE MigrateIn
  <2>1. db' = tmp /\ db' # Absent /\ tmp' = Absent /\ script'.at = "idle" /\ script' \in Script /\ ~up
    BY <1>5, FormsBack DEF MigrateIn, Shape, OnDisk
  <2>2. UNCHANGED <<salt, keyFile, aside, asideSalts, backups, up, held, torn, heads, made, written, runs>>
    BY <1>5 DEF MigrateIn, backend, counts
  <2> QED
    BY <1>5, <2>1, <2>2 DEF TypeOK, Shape, OnDisk, SaltsApart, Apart, Restoring, Moves
<1>6. CASE RemovePlain
  <2>1. aside' \subseteq File /\ runs' \in 0 .. MaxRun
    BY <1>6, Bounds DEF RemovePlain, Started, TypeOK
  <2>2. UNCHANGED <<db, salt, keyFile, tmp, asideSalts, backups, up, held, script, torn, heads, made, written>>
    BY <1>6 DEF RemovePlain, live, backend
  <2> QED
    BY <2>1, <2>2 DEF TypeOK, Shape, OnDisk, SaltsApart, Apart
<1> QED
  BY <1>2, <1>3, <1>4, <1>5, <1>6

\* set_db_password.py and export_backup.py.
LEMMA PasswordTypes ==
  ASSUME "beside" \notin Unruly, TypeInv,
         \/ \E old, new \in Password : SetPassword(old, new)
         \/ WriteSalt \/ Rekey \/ VerifyRekey
  PROVE  TypeInv'
<1> USE DEF TypeInv
<1>1. ASSUME NEW old \in Password, NEW new \in Password, SetPassword(old, new)
      PROVE  TypeInv'
  <2>1. /\ Idle /\ ~up /\ db \in File /\ runs' \in 0 .. MaxRun
        /\ script' = [at |-> "salt", pw |-> new, before |-> db]
        /\ UNCHANGED <<live, kept, up, held, torn, heads, made, written>>
    <3>1. Started(TRUE) /\ script' = [at |-> "salt", pw |-> new, before |-> db]
          /\ UNCHANGED <<live, kept, backend, torn, heads, made, written>>
      BY <1>1 DEF SetPassword
    <3> QED
      BY <3>1, Running, Bounds DEF Started, backend, TypeOK
  <2>2. script' \in Change /\ script'.at = "salt" /\ script' \in Script
    BY <2>1, FormsBack DEF Change, Changing
  <2> QED
    BY <2>1, <2>2, Kinds DEF live, kept, TypeOK, Shape, OnDisk, SaltsApart, Apart, Restoring, Moves
<1>2. CASE WriteSalt
  <2>1. /\ script' = [script EXCEPT !.at = "rekey"] /\ salt' = Fresh /\ made' = Fresh
        /\ Fresh \in Number /\ made' \in 0 .. MaxMade /\ made' > made /\ made \in Nat
        /\ UNCHANGED <<db, keyFile, kept, backend, torn, heads, written, runs>>
    BY <1>2, Bounds DEF WriteSalt, Make, Fresh, Number, TypeOK
  <2>2. script'.at = "rekey" /\ script' \in Script
    BY <1>2, <2>1, Running, ChangeGoesOn, FormsBack DEF WriteSalt, Changing
  <2>3. asideSalts \subseteq Number /\ \A n \in Number : n \in Nat
    BY Kinds DEF TypeOK
  <2>4. SaltsApart'
    BY <2>1, <2>2, <2>3 DEF kept, SaltsApart, Restoring, Moves
  <2>5. TypeOK' /\ Shape' /\ Apart'
    BY <1>2, <2>1, <2>2 DEF WriteSalt, kept, backend, TypeOK, Shape, OnDisk, Apart, Restoring, Moves
  <2> QED
    BY <2>4, <2>5
<1>3. CASE Rekey
  <2>1. script.pw \in Password /\ db \in File /\ script.at = "rekey"
    BY <1>3, Running DEF Rekey, Change, Changing, Shape, OnDisk, Restoring, Moves
  <2>2. script'.at = "verify" /\ script' \in Script
    BY <1>3, Running, ChangeGoesOn, FormsBack DEF Rekey, Changing
  <2>3. UNCHANGED <<salt, keyFile, kept, backend, torn, heads, counts>>
    BY <1>3 DEF Rekey
  <2>4. db' \in File
    <3>1. <<script.pw, made>> \in Key
      BY <2>1, Kinds, Bounds DEF Shape, OnDisk, TypeOK
    <3> QED
      BY <1>3, <2>1, <3>1 DEF Rekey, File
  <2> QED
    BY <2>1, <2>2, <2>3, <2>4, Kinds DEF kept, backend, counts, TypeOK, Shape, OnDisk, SaltsApart, Apart, Restoring, Moves
<1>4. CASE VerifyRekey
  <2>1. script'.at = "idle" /\ script' \in Script /\ keyFile' \in {None, keyFile}
        /\ UNCHANGED <<db, salt, kept, backend, torn, heads, counts>>
    BY <1>4, FormsBack DEF VerifyRekey
  <2> QED
    BY <1>4, <2>1 DEF VerifyRekey, kept, backend, counts, TypeOK, Shape, OnDisk, SaltsApart, Apart, Restoring, Moves
<1> QED
  BY <1>1, <1>2, <1>3, <1>4

LEMMA BackupTypes ==
  ASSUME "beside" \notin Unruly, TypeInv,
         Copy \/ \E p, new \in Password : Export(p, new)
  PROVE  TypeInv'
<1> USE DEF TypeInv
<1>1. ASSUME NEW p \in Password, NEW new \in Password, Export(p, new)
      PROVE  TypeInv'
  <2>1. /\ script' = [at |-> "copy", pw |-> new] /\ Started(FALSE)
        /\ UNCHANGED <<live, kept, backend, torn, heads, made, written>>
    BY <1>1 DEF Export
  <2>2. script'.at = "copy" /\ script'.pw = new /\ script' \in Script
    BY <2>1, FormsBack DEF Copies
  <2>3. Idle /\ db \in File /\ runs' \in 0 .. MaxRun
    BY <2>1, Running, Bounds DEF Started, TypeOK
  <2>4. db.seal # Plain => db.seal[1] # new
    <3>1. CASE keyFile # None
      BY <1>1, <3>1, Kinds DEF Export, Authenticated, LiveKey, Shape, OnDisk
    <3>2. CASE keyFile = None
      <4>1. db.seal = <<p, salt>> /\ salt # None /\ salt \in Number
        BY <1>1, <3>2 DEF Export, Authenticated, LiveKey, TypeOK
      <4>2. new # p
        BY <1>1, <3>2, <4>1 DEF Export, IsLiveSecret, LiveKey
      <4> QED
        BY <4>1, <4>2
    <3> QED
      BY <3>1, <3>2
  <2> QED
    BY <2>1, <2>2, <2>3, <2>4, Kinds
    DEF live, kept, backend, TypeOK, Shape, OnDisk, SaltsApart, Apart, Restoring, Moves
<1>2. CASE Copy
  <2>1. db \in File /\ db.data \in 0 .. MaxWrite /\ script.pw \in Password
    BY <1>2, Running, Kinds DEF Copy, Copies, Shape, OnDisk, Restoring, Moves
  <2>2. PICK d \in {0, db.data} : backups' = Append(backups, [pw |-> script.pw, data |-> d])
    BY <1>2 DEF Copy
  <2>3. [pw |-> script.pw, data |-> d] \in Backup
    BY <2>1, Bounds DEF Backup
  <2>4. backups' \in Seq(Backup)
    BY <2>2, <2>3 DEF TypeOK
  <2>5. script'.at = "idle" /\ script' \in Script
        /\ UNCHANGED <<live, tmp, aside, asideSalts, backend, torn, heads, counts>>
    BY <1>2, FormsBack DEF Copy
  <2> QED
    BY <2>1, <2>4, <2>5, Kinds
    DEF live, backend, counts, TypeOK, Shape, OnDisk, SaltsApart, Apart, Restoring, Moves
<1> QED
  BY <1>1, <1>2

\* restore_backup.py.
LEMMA RestoreTypes ==
  ASSUME TypeInv, NEW new \in Password, NEW out \in {"live", "elsewhere"}, Restore(new, out)
  PROVE  TypeInv'
<1> USE DEF TypeInv
<1>1. /\ Idle /\ ~up /\ made' = Fresh /\ Fresh \in Number /\ made' \in 0 .. MaxMade
      /\ made' > made /\ made \in Nat /\ runs' \in 0 .. MaxRun
  BY Bounds DEF Restore, Make, Fresh, Number, TypeOK
<1>2. PICK b \in ToSet(backups) :
        /\ new # b.pw
        /\ script' = [at |-> "confirm", out |-> out, from |-> b.pw,
                      new |-> Sealed(<<new, Fresh>>, b.data), db |-> Absent, salt |-> None]
  BY DEF Restore
<1>3. b \in Backup
  BY DEF ToSet, TypeOK
<1>4. /\ Sealed(<<new, Fresh>>, b.data) \in File
      /\ Sealed(<<new, Fresh>>, b.data).seal = <<new, Fresh>>
  BY <1>1, <1>3, Kinds DEF Backup
<1>5. script' \in Restores
  BY <1>2, <1>3, <1>4 DEF Restores, Restoring, Backup
<1>6. /\ script'.at = "confirm" /\ script'.from = b.pw
      /\ script'.new = Sealed(<<new, Fresh>>, b.data)
  BY <1>2
<1>7. UNCHANGED <<live, kept, backend, torn, heads, written>>
  BY DEF Restore
<1>8. TypeOK'
  BY <1>1, <1>5, <1>7, FormsBack DEF live, kept, backend, TypeOK
<1>9. Shape' /\ Apart'
  BY <1>1, <1>2, <1>4, <1>6, <1>7 DEF live, kept, backend, Shape, OnDisk, Apart, Restoring, Moves
<1>10. SaltsApart'
  <2>1. asideSalts \subseteq Number /\ salt \in Number \cup {None} /\ \A n \in Number : n \in Nat
    BY Kinds DEF TypeOK
  <2>2. salt # made' /\ made' \notin asideSalts
    BY <1>1, <2>1, Kinds DEF SaltsApart
  <2>3. /\ script'.new.seal \in Key /\ script'.new.seal[1] \in Password
        /\ script'.new.seal[2] = made'
    BY <1>1, <1>4, <1>6, Kinds
  <2>4. made' # 0 /\ (salt \in Number => salt <= made') /\ \A n \in asideSalts : n <= made'
    BY <1>1, <2>1 DEF SaltsApart
  <2> QED
    BY <1>6, <1>7, <2>2, <2>3, <2>4 DEF live, kept, SaltsApart, Restoring, Moves
<1> QED
  BY <1>8, <1>9, <1>10

LEMMA InstallTypes ==
  ASSUME TypeInv, Decline \/ InstallElsewhere \/ DbAside \/ SaltAside \/ DbIn \/ SaltIn \/ PutBack
  PROVE  TypeInv'
<1> USE DEF TypeInv
<1>1. /\ script.at \in Restoring /\ ~up /\ script \in Restores
      /\ script.new \in File /\ script.db \in File \cup {Absent} /\ script.salt \in Number \cup {None}
      /\ script.new.seal[2] = made /\ made \in Number
  <2>1. script.at \in Restoring /\ script \in Restores
    BY Running DEF Decline, InstallElsewhere, DbAside, SaltAside, DbIn, SaltIn, PutBack, Restoring, Moves
  <2> QED
    BY <2>1, Bounds DEF Restores, Restoring, Moves, Shape, OnDisk, SaltsApart, Number, TypeOK
<1>2. CASE Decline \/ InstallElsewhere
  <2>1. script'.at = "idle" /\ script' \in Script /\ UNCHANGED <<live, kept, backend, torn, heads, counts>>
    BY <1>2, FormsBack DEF Decline, InstallElsewhere
  <2>2. db = Absent => "idle" \in {"idle", "in"} \cup Restoring
    OBVIOUS
  <2> QED
    BY <1>1, <2>1, <2>2 DEF live, kept, backend, counts, TypeOK, Shape, OnDisk, SaltsApart, Apart, Restoring, Moves
<1>3. CASE DbAside
  <2>1. /\ script'.at = "saltAside" /\ script' \in Restores
        /\ script'.new = script.new /\ script'.from = script.from
    <3>1. script' = [script EXCEPT !.at = "saltAside", !.db = db] /\ "saltAside" \in Restoring
          /\ db \in File \cup {Absent}
      BY <1>3 DEF DbAside, Restoring, Moves, TypeOK
    <3> QED
      BY <1>1, <3>1 DEF Restores
  <2>2. aside' \subseteq File /\ db' = Absent
        /\ UNCHANGED <<salt, keyFile, tmp, asideSalts, backups, backend, torn, heads, counts>>
    BY <1>3 DEF DbAside, TypeOK
  <2>3. TypeOK'
    BY <2>1, <2>2, FormsBack DEF backend, counts, TypeOK
  <2> QED
    BY <1>1, <2>1, <2>2, <2>3 DEF backend, counts, Shape, OnDisk, SaltsApart, Apart, Restoring, Moves
<1>4. CASE SaltAside
  <2>1. /\ script'.at = "dbIn" /\ script' \in Restores
        /\ script'.new = script.new /\ script'.from = script.from /\ script'.salt = salt
    <3>1. script' = [script EXCEPT !.at = "dbIn", !.salt = salt] /\ "dbIn" \in Restoring
          /\ salt \in Number \cup {None}
      BY <1>4 DEF SaltAside, Restoring, Moves, TypeOK
    <3> QED
      BY <1>1, <3>1 DEF Restores
  <2>2. /\ asideSalts' = asideSalts \cup ({salt} \ {None}) /\ salt' = None
        /\ UNCHANGED <<db, keyFile, tmp, aside, backups, backend, torn, heads, counts>>
    BY <1>4 DEF SaltAside
  <2>3. TypeOK'
    BY <2>1, <2>2, FormsBack DEF backend, counts, TypeOK
  <2>4. None \notin asideSalts
    BY Kinds DEF TypeOK
  <2>5. SaltsApart'
    BY <1>1, <2>1, <2>2, <2>4, Kinds DEF backend, counts, TypeOK, SaltsApart, Restoring, Moves
  <2>6. Shape' /\ Apart'
    BY <1>1, <1>4, <2>1, <2>2 DEF SaltAside, backend, counts, Shape, OnDisk, Apart, Restoring, Moves
  <2> QED
    BY <2>3, <2>5, <2>6
<1>5. CASE DbIn
  <2>1. /\ script'.at = "saltIn" /\ script' \in Restores /\ script'.new = script.new
        /\ script'.from = script.from /\ script'.salt = script.salt
    BY <1>1, <1>5, RestoreGoesOn DEF DbIn, Restoring, Moves
  <2>2. db' = script.new /\ UNCHANGED <<salt, keyFile, kept, backend, torn, heads, counts>>
    BY <1>5 DEF DbIn
  <2>3. TypeOK'
    BY <1>1, <2>1, <2>2, FormsBack DEF kept, backend, counts, TypeOK
  <2> QED
    BY <1>1, <1>5, <2>1, <2>2, <2>3, Kinds DEF DbIn, kept, backend, counts, Shape, OnDisk, SaltsApart, Apart, Restoring, Moves
<1>6. CASE SaltIn
  <2>1. script'.at = "idle" /\ script' \in Script /\ salt' = made
        /\ UNCHANGED <<db, keyFile, kept, backend, torn, heads, counts>>
    BY <1>1, <1>6, FormsBack DEF SaltIn
  <2> QED
    BY <1>1, <2>1, Kinds, Bounds DEF kept, backend, counts, TypeOK, Shape, OnDisk, SaltsApart, Apart, Restoring, Moves
<1>7. CASE PutBack
  <2>1. /\ script'.at = "idle" /\ script' \in Script /\ db' = script.db
        /\ aside' = aside \ {script.db}
        /\ UNCHANGED <<keyFile, tmp, backups, backend, torn, heads, counts>>
    BY <1>7, FormsBack DEF PutBack
  <2>2. /\ salt' \in Number \cup {None} /\ asideSalts' \subseteq asideSalts
        /\ salt' \notin asideSalts'
        /\ salt' = salt \/ salt' = script.salt
    BY <1>1, <1>7, Kinds DEF PutBack, SaltsApart, TypeOK
  <2>3. salt' \in Number => salt' <= made
    BY <1>1, <1>7, <2>2, Kinds DEF PutBack, SaltsApart, Restoring, Moves, TypeOK
  <2>4. TypeOK'
    BY <1>1, <2>1, <2>2 DEF backend, counts, TypeOK
  <2> QED
    BY <1>1, <2>1, <2>2, <2>3, <2>4 DEF backend, counts, Shape, OnDisk, SaltsApart, Apart, Restoring, Moves
<1> QED
  BY <1>2, <1>3, <1>4, <1>5, <1>6, <1>7

LEMMA StepTypes == "beside" \notin Unruly /\ TypeInv /\ [Next]_vars => TypeInv'
<1> SUFFICES ASSUME "beside" \notin Unruly, TypeInv, [Next]_vars PROVE TypeInv'
  OBVIOUS
<1>1. CASE UNCHANGED vars
  BY <1>1 DEF vars, live, kept, backend, counts, TypeInv, TypeOK, Shape, OnDisk, SaltsApart, Apart
<1>2. CASE Next
  BY <1>2, BackendTypes, StopTypes, MigrateTypes, PasswordTypes, BackupTypes, RestoreTypes, InstallTypes
  DEF Next
<1> QED
  BY <1>1, <1>2

\* Whatever else is done to the files, every variable keeps its type and every
\* script carries what its next step reads, if no script that rewrites the
\* database runs beside the backend.
THEOREM TypeCorrect == "beside" \notin Unruly => (Spec => []TypeOK)
<1> SUFFICES ASSUME "beside" \notin Unruly PROVE Spec => []TypeOK
  OBVIOUS
<1>1. TypeInv => TypeOK
  BY DEF TypeInv
<1>2. TypeInv /\ [Next]_vars => TypeInv'
  BY StepTypes
<1> QED
  BY <1>1, <1>2, InitTypes, PTL DEF Spec

-----------------------------------------------------------------------------
(* Secrets                                                                  *)

Secret == /\ Len(backups') > Len(backups) /\ db.seal # Plain => db.seal[1] # Last(backups').pw
          /\ "from" \in DOMAIN script' => script'.new.seal[1] # script'.from

LEMMA SecretStep ==
  ASSUME TypeInv, TypeInv', [Next]_vars
  PROVE  Secret
<1>1. "from" \in DOMAIN script' => script'.new.seal[1] # script'.from
  <2>1. script' \in Script
    BY DEF TypeInv, TypeOK
  <2>2. "from" \in DOMAIN script' <=> script'.at \in Restoring
    BY <2>1, Carries
  <2> QED
    BY <2>2 DEF TypeInv, Apart
<1>2. CASE Copy
  <2>1. script.pw \in Password /\ backups \in Seq(Backup) /\ script.at = "copy"
    BY <1>2, Running DEF Copy, Copies, TypeInv, TypeOK
  <2>2. PICK d : backups' = Append(backups, [pw |-> script.pw, data |-> d])
    BY <1>2 DEF Copy
  <2> DEFINE e == [pw |-> script.pw, data |-> d]
  <2>3. Len(backups') = Len(backups) + 1 /\ backups'[Len(backups) + 1] = e
    BY <2>1, <2>2
  <2>4. Last(backups').pw = script.pw
    BY <2>3 DEF Last
  <2> QED
    BY <1>1, <2>1, <2>4 DEF Secret, TypeInv, Apart
<1>3. CASE ~Copy
  <2>1. backups' = backups
    <3>1. [Next]_vars /\ ~Copy
      BY <1>3
    <3> QED
      BY <3>1 DEF vars, kept, Next, Launched, Unlocked, FirstPassword, Unencrypted, SignIn, Write, Close,
         Stop, Migrate, MigrateCopy, MigrateOut, MigrateIn, RemovePlain, SetPassword, WriteSalt,
         Rekey, VerifyRekey, Export, Restore, Decline, InstallElsewhere, DbAside, SaltAside, DbIn,
         SaltIn, PutBack
  <2> QED
    BY <1>1, <2>1 DEF Secret, TypeInv, TypeOK
<1> QED
  BY <1>2, <1>3

\* A backup never opens with the password of the database it was made from,
\* nor a restored database with that of its backup.
THEOREM SecretsKept == "beside" \notin Unruly => (Spec => SecretsApart)
<1> SUFFICES ASSUME "beside" \notin Unruly PROVE Spec => SecretsApart
  OBVIOUS
<1>1. TypeInv /\ [Next]_vars => TypeInv'
  BY StepTypes
<1>2. TypeInv /\ TypeInv' /\ [Next]_vars => [Secret]_vars
  BY SecretStep
<1> QED
  BY <1>1, <1>2, InitTypes, PTL DEF Spec, SecretsApart, Secret

-----------------------------------------------------------------------------
(* Databases and what opens them                                            *)

LEMMA OpensMore ==
  ASSUME NEW f \in File, NEW key \in Key \cup {None}, NEW S, NEW T,
         OpensBy(f, key, S), S \cap Number \subseteq T
  PROVE  OpensBy(f, key, T)
<1>1. f.seal = Plain \/ f.seal[2] \in Number
  BY Kinds
<1> QED
  BY <1>1 DEF OpensBy

\* A database that fits its salt opens with it, if a password is what it needs.
LEMMA FitsOpens ==
  ASSUME NEW f \in File, NEW key \in Key \cup {None}, NEW s \in Number \cup {None}, NEW S, NEW T,
         Fits(f, key, s), OpensBy(f, key, S), s \in Number => s \in T
  PROVE  OpensBy(f, key, T)
<1>1. f.seal = Plain \/ f.seal[2] \in Number
  BY Kinds
<1> QED
  BY <1>1, Kinds DEF OpensBy, Fits

LEMMA InitData == Init => DataInv
<1> SUFFICES ASSUME Init PROVE DataInv
  OBVIOUS
<1>1. /\ script = NoScript /\ script.at = "idle" /\ aside = {} /\ asideSalts = {} /\ heads = {}
      /\ torn = FALSE
  BY FormsBack DEF Init
<1>2. 0 \in 0 .. MaxWrite /\ 1 \in Number
  BY Bounds DEF Number
<1>3. db \in File /\ Fits(db, keyFile, salt) /\ OpensBy(db, keyFile, {salt})
  <2>1. CASE db = Sealed(Plain, 0) /\ salt = None /\ keyFile = None
    BY <1>2, <2>1, Kinds DEF Fits, OpensBy
  <2>2. CASE db = Sealed(<<Random, 1>>, 0) /\ salt = None /\ keyFile = <<Random, 1>>
    BY <1>2, <2>2, Kinds DEF Fits, OpensBy
  <2>3. ASSUME NEW p \in Password, db = Sealed(<<p, 1>>, 0), salt = 1, keyFile = None
        PROVE  db \in File /\ Fits(db, keyFile, salt) /\ OpensBy(db, keyFile, {salt})
    BY <1>2, <2>3, Kinds DEF Fits, OpensBy
  <2> QED
    BY <2>1, <2>2, <2>3 DEF Init
<1>4. FitsInv /\ ChangeInv
  BY <1>1, <1>3, Kinds DEF FitsInv, ChangeInv, Moves, Changing
<1>5. HeldInv /\ AsideInv
  BY <1>1, <1>3 DEF HeldInv, AsideInv, Holders, Moves
<1> QED
  BY <1>4, <1>5 DEF DataInv

\* The backend is started: a database it creates fits the key in hand.
LEMMA SignInData ==
  ASSUME "beside" \notin Unruly, TypeInv, DataInv, NEW k \in Key \cup {Plain}, SignIn(k),
         \/ salt' = salt
         \/ salt = None /\ salt' \in Number /\ (db # Absent => db.seal # Plain),
         db = Absent => OpensBy(Sealed(k, 0), keyFile, {salt'})
  PROVE  DataInv'
<1>1. /\ script' = script /\ keyFile' = keyFile /\ aside' = aside /\ asideSalts' = asideSalts
      /\ torn' = torn /\ heads' = heads /\ script.at \in {"idle", "copy"}
      /\ db' \in File /\ (db # Absent => db' = db)
      /\ db = Absent => db' = Sealed(k, 0)
  BY SignInDoes
<1>2. /\ keyFile \in Key \cup {None} /\ aside \subseteq File /\ salt \in Number \cup {None}
      /\ torn \in BOOLEAN
  BY DEF TypeInv, TypeOK
<1>3. FitsInv'
  <2> SUFFICES ASSUME ~torn PROVE db' # Absent /\ Fits(db', keyFile, salt')
    BY <1>1 DEF FitsInv, Moves
  <2>1. db # Absent /\ Fits(db, keyFile, salt)
    BY <1>1 DEF DataInv, FitsInv, Moves
  <2> QED
    BY <1>1, <1>2, <2>1, Kinds DEF Fits
<1>4. HeldInv'
  <2>1. \A f \in aside \cup ({db} \ {Absent}) : OpensBy(f, keyFile, {salt} \cup asideSalts)
    BY <1>1 DEF DataInv, HeldInv, Holders
  <2>2. ASSUME NEW f \in aside \cup {db'} PROVE OpensBy(f, keyFile, {salt'} \cup asideSalts)
    <3>1. CASE f \in aside \cup ({db} \ {Absent})
      <4>1. f \in File /\ ({salt} \cup asideSalts) \cap Number \subseteq {salt'} \cup asideSalts
        BY <1>1, <1>2, <2>2, <3>1, Kinds
      <4> QED
        BY <1>2, <2>1, <3>1, <4>1, OpensMore
    <3>2. CASE db = Absent /\ f = db'
      BY <1>1, <3>2 DEF OpensBy
    <3> QED
      BY <1>1, <2>2, <3>1, <3>2
  <2>3. \A d \in heads : \E f \in aside \cup {db'} : f.data = d
    BY <1>1 DEF DataInv, HeldInv, Holders
  <2>4. Holders' = aside \cup {db'}
    BY <1>1, Kinds DEF Holders
  <2>5. script'.at \notin Moves
    BY <1>1 DEF Moves
  <2> QED
    BY <1>1, <2>2, <2>3, <2>4, <2>5 DEF HeldInv
<1>5. AsideInv'
  BY <1>1, <1>2 DEF DataInv, AsideInv, FitsInv, Moves
<1>6. ChangeInv'
  BY <1>1 DEF ChangeInv, Changing
<1> QED
  BY <1>3, <1>4, <1>5, <1>6 DEF DataInv

LEMMA BackendData ==
  ASSUME "beside" \notin Unruly, TypeInv, DataInv,
         Launched \/ Unlocked \/ FirstPassword \/ Unencrypted \/ Write \/ Close
  PROVE  DataInv'
<1>1. 0 \in 0 .. MaxWrite
  BY Bounds
<1>2. CASE Launched
  <2>1. keyFile \in Key /\ SignIn(keyFile) /\ salt' = salt
    BY <1>2 DEF Launched, TypeInv, TypeOK
  <2>2. OpensBy(Sealed(keyFile, 0), keyFile, {salt'})
    BY <1>1, <2>1, Kinds DEF OpensBy
  <2> QED
    BY <2>1, <2>2, SignInData
<1>3. CASE Unlocked
  <2>1. PICK p \in Password : SignIn(<<p, salt>>)
    BY <1>3 DEF Unlocked
  <2>2. salt \in Number /\ salt' = salt /\ <<p, salt>> \in Key
    BY <1>3, Kinds DEF Unlocked, TypeInv, TypeOK
  <2>3. OpensBy(Sealed(<<p, salt>>, 0), keyFile, {salt'})
    BY <1>1, <2>2, Kinds DEF OpensBy
  <2> QED
    BY <2>1, <2>2, <2>3, SignInData
<1>4. CASE FirstPassword
  <2>1. PICK p \in Password : SignIn(<<p, Fresh>>)
    BY <1>4 DEF FirstPassword
  <2>2. Fresh \in Number
    BY <1>4, Bounds DEF FirstPassword, Make, Fresh, Number, TypeInv, TypeOK
  <2>3. /\ <<p, Fresh>> \in Key /\ salt = None /\ salt' = Fresh
        /\ db # Absent => db.seal # Plain
    BY <1>4, <2>2, Kinds DEF FirstPassword
  <2>4. OpensBy(Sealed(<<p, Fresh>>, 0), keyFile, {salt'})
    BY <1>1, <2>2, <2>3, Kinds DEF OpensBy
  <2> QED
    BY <2>1, <2>2, <2>3, <2>4, SignInData
<1>5. CASE Unencrypted
  BY <1>5, SignInData DEF Unencrypted
<1>6. CASE Write
  <2>1. /\ db \in File /\ db.seal = held /\ script.at \in {"idle", "copy"}
        /\ held \in Key \cup {Plain}
    BY <1>6, Running DEF Write, TypeInv, Shape, OnDisk, TypeOK
  <2>2. /\ written' \in 0 .. MaxWrite
        /\ db' = Sealed(held, written') /\ heads' = (heads \ {db.data}) \cup {written'}
    BY <1>6, <2>1, Kinds, Bounds DEF Write, TypeInv, TypeOK
  <2>3. db' \in File /\ db'.seal = db.seal /\ db'.data = written' /\ db' # Absent
    BY <2>1, <2>2, Kinds
  <2>4. /\ salt' = salt /\ keyFile' = keyFile /\ aside' = aside /\ asideSalts' = asideSalts
        /\ script' = script /\ torn' = torn
    BY <1>6 DEF Write, kept
  <2>5. FitsInv' /\ AsideInv'
    BY <2>1, <2>3, <2>4, Kinds DEF DataInv, FitsInv, AsideInv, Fits, Moves
  <2>6. HeldInv'
    <3>1. Holders = aside \cup {db} /\ Holders' = aside \cup {db'}
      BY <2>1, <2>3, <2>4, Kinds DEF Holders
    <3>2. \A d \in heads' : \E f \in aside \cup {db'} : f.data = d
      BY <2>2, <2>3, <3>1 DEF DataInv, HeldInv
    <3>3. \A f \in aside \cup {db} : OpensBy(f, keyFile, {salt} \cup asideSalts)
      BY <2>1, <3>1 DEF DataInv, HeldInv
    <3>4. OpensBy(db', keyFile, {salt} \cup asideSalts)
      BY <2>3, <3>3 DEF OpensBy
    <3> QED
      BY <2>1, <2>4, <3>1, <3>2, <3>3, <3>4 DEF HeldInv, Moves
  <2>7. ChangeInv'
    BY <2>1, <2>4 DEF ChangeInv, Changing
  <2> QED
    BY <2>5, <2>6, <2>7 DEF DataInv
<1>7. CASE Close
  <2>1. /\ db' = db /\ salt' = salt /\ keyFile' = keyFile /\ aside' = aside
        /\ asideSalts' = asideSalts /\ script' = script /\ torn' = torn /\ heads' = heads
    BY <1>7 DEF Close, live, kept
  <2>2. FitsInv'
    BY <2>1 DEF DataInv, FitsInv, Fits
  <2>3. HeldInv' /\ ChangeInv'
    BY <1>7, <2>1, Running DEF Close, TypeInv, Shape, OnDisk, DataInv, HeldInv, Holders, ChangeInv, Changing
  <2>4. AsideInv'
    BY <2>1 DEF DataInv, AsideInv
  <2> QED
    BY <2>2, <2>3, <2>4 DEF DataInv
<1> QED
  BY <1>2, <1>3, <1>4, <1>5, <1>6, <1>7

\* A script is stopped, anywhere but between its new salt and the rekey.
LEMMA StopData ==
  ASSUME "interrupt" \notin Unruly, TypeInv, DataInv, Stop
  PROVE  DataInv'
<1>1. /\ script' = NoScript /\ script'.at = "idle" /\ torn' = (torn \/ script.at \in Moving)
      /\ script.at # "rekey" /\ script.at # "idle"
      /\ db' = db /\ salt' = salt /\ keyFile' = keyFile /\ heads' = heads
  BY FormsBack, Running DEF Stop, live
<1>2. /\ keyFile \in Key \cup {None} /\ aside \subseteq File /\ salt \in Number \cup {None}
      /\ torn \in BOOLEAN /\ (db # Absent => db \in File)
  BY Running DEF TypeInv, TypeOK
<1>3. script.at \in Restoring =>
        /\ script.new \in File /\ script.new.seal[1] \in Password /\ script.new.seal[2] = made
        /\ script.new.seal \in Key
  BY Running DEF Restores, TypeInv, SaltsApart
<1>4. \/ script.at \notin Restoring /\ aside' = aside /\ asideSalts' = asideSalts
      \/ /\ script.at \in Restoring /\ script.at # "saltIn"
         /\ aside' = aside \cup {script.new} /\ asideSalts' = asideSalts \cup {script.new.seal[2]}
      \/ /\ script.at = "saltIn" /\ db = script.new
         /\ aside' = aside /\ asideSalts' = asideSalts \cup {script.new.seal[2]}
  BY Carries, Running DEF Stop, Leftovers, Restoring, Moves, TypeInv, Shape, OnDisk
<1>5. script.at \in Restoring =>
        script.new.seal # keyFile /\ OpensBy(script.new, keyFile, asideSalts')
  BY <1>2, <1>3, <1>4, Kinds DEF OpensBy, TypeInv, Shape, OnDisk, Restoring, Moves
<1>6. FitsInv'
  BY <1>1 DEF DataInv, FitsInv, Moves, Moving
<1>7. HeldInv'
  <2>1. \A f \in Holders : f \in File /\ OpensBy(f, keyFile, {salt} \cup asideSalts)
    BY <1>1, <1>2 DEF DataInv, HeldInv, Holders
  <2>2. asideSalts \subseteq asideSalts'
    BY <1>4
  <2>3. \A f \in Holders : OpensBy(f, keyFile, {salt} \cup asideSalts')
    BY <1>2, <2>1, <2>2, OpensMore
  <2>4. script.at \in Restoring => OpensBy(script.new, keyFile, {salt} \cup asideSalts')
    BY <1>2, <1>3, <1>5, OpensMore
  <2>5. Holders \subseteq Holders' /\ Holders' \subseteq Holders \cup
          (IF script.at \in Restoring THEN {script.new} ELSE {})
    BY <1>1, <1>4 DEF Holders, Restoring, Moves
  <2>6. \A d \in heads : \E f \in Holders : f.data = d
    BY DEF DataInv, HeldInv
  <2> QED
    BY <1>1, <2>3, <2>4, <2>5, <2>6 DEF HeldInv, Moves
<1>8. AsideInv'
  <2> SUFFICES ASSUME ~torn, script.at \notin Moving, NEW f \in aside'
               PROVE  /\ OpensBy(f, keyFile, asideSalts')
                      /\ db # Absent /\ db.seal \in {Plain, keyFile} => f.seal # keyFile
    BY <1>1 DEF AsideInv, Moves
  <2>1. script.at \notin Moves /\ asideSalts \subseteq asideSalts'
    BY <1>4 DEF Moves, Moving
  <2>2. CASE f \in aside
    <3>1. /\ OpensBy(f, keyFile, asideSalts) /\ f \in File
          /\ db # Absent /\ db.seal \in {Plain, keyFile} => f.seal # keyFile
      BY <1>2, <2>1, <2>2 DEF DataInv, AsideInv
    <3> QED
      BY <1>2, <2>1, <3>1, OpensMore
  <2>3. CASE f \notin aside
    BY <1>4, <1>5, <2>3
  <2> QED
    BY <2>2, <2>3
<1>9. ChangeInv'
  BY <1>1 DEF ChangeInv, Changing
<1> QED
  BY <1>6, <1>7, <1>8, <1>9 DEF DataInv

\* Steps that leave the files in place and aside alone.
LEMMA QuietData ==
  ASSUME TypeInv, DataInv, script'.at \in {"idle", "export", "out", "copy", "confirm"},
         script.at \in {"idle", "export", "copy", "confirm"},
         UNCHANGED <<db, salt, keyFile, aside, asideSalts, torn, heads>>
  PROVE  DataInv'
<1>1. script.at \notin Moves /\ script'.at \notin Moves
  BY DEF Moves
<1>2. FitsInv'
  BY <1>1 DEF DataInv, FitsInv, Fits
<1>3. HeldInv'
  <2>1. Holders' = Holders
    BY DEF Holders
  <2> QED
    BY <1>1, <2>1 DEF DataInv, HeldInv
<1>4. AsideInv'
  BY <1>1 DEF DataInv, AsideInv
<1>5. ChangeInv'
  BY DEF ChangeInv, Changing
<1> QED
  BY <1>2, <1>3, <1>4, <1>5 DEF DataInv

LEMMA MigrateData ==
  ASSUME Unruly = {}, TypeInv, DataInv,
         Migrate \/ MigrateCopy \/ MigrateOut \/ MigrateIn \/ RemovePlain
  PROVE  DataInv'
<1>1. /\ \A s \in {"out", "in", "idle"} : [at |-> s].at = s
      /\ \A k : [at |-> "export", key |-> k].at = "export"
  OBVIOUS
<1>2. /\ keyFile \in Key \cup {None} /\ aside \subseteq File /\ salt \in Number \cup {None}
      /\ torn \in BOOLEAN /\ (db # Absent => db \in File)
  BY Running DEF TypeInv, TypeOK
<1>3. CASE Migrate
  <2>1. /\ script.at = "idle" /\ script'.at = "export" /\ db \in File /\ db.seal = Plain
        /\ UNCHANGED <<db, salt, aside, asideSalts, torn, heads>>
        /\ keyFile' = keyFile \/ (keyFile = None /\ keyFile' = <<Random, Fresh>> /\ Make)
    BY <1>1, <1>3, Running DEF Migrate, Started
  <2>2. CASE keyFile' = keyFile
    BY <2>1, <2>2, QuietData
  <2>3. CASE keyFile = None /\ keyFile' = <<Random, Fresh>> /\ Make
    <3>1. keyFile' \in Key /\ keyFile'[1] \notin Password
      BY <2>3, Kinds, Bounds DEF Make, Fresh, Number, TypeInv, TypeOK
    <3>2. ASSUME NEW f \in File, NEW S, OpensBy(f, None, S)
          PROVE  f.seal # keyFile' /\ OpensBy(f, keyFile', S)
      BY <3>1, <3>2, Kinds DEF OpensBy
    <3>3. FitsInv'
      BY <2>1, <2>3, Kinds DEF DataInv, FitsInv, Fits, Moves
    <3>4. HeldInv'
      <4>1. Holders' = Holders /\ Holders \subseteq File
        BY <1>2, <2>1 DEF Holders
      <4> QED
        BY <2>1, <2>3, <3>2, <4>1 DEF DataInv, HeldInv, Moves
    <3>5. AsideInv'
      BY <1>2, <2>1, <2>3, <3>2 DEF DataInv, AsideInv, Moves
    <3>6. ChangeInv'
      BY <2>1 DEF ChangeInv, Changing
    <3> QED
      BY <3>3, <3>4, <3>5, <3>6 DEF DataInv
  <2> QED
    BY <2>1, <2>2, <2>3
<1>4. CASE MigrateCopy
  BY <1>1, <1>4, QuietData DEF MigrateCopy, live
<1>5. CASE MigrateOut
  <2>1. /\ script.at = "out" /\ script'.at = "in" /\ db \in File /\ db.seal = Plain
        /\ db' = Absent /\ aside' = aside \cup {db}
        /\ UNCHANGED <<salt, keyFile, asideSalts, torn, heads>>
    BY <1>1, <1>2, <1>5 DEF MigrateOut, TypeInv, Shape, OnDisk
  <2>2. FitsInv' /\ ChangeInv'
    BY <2>1 DEF FitsInv, ChangeInv, Moves, Changing
  <2>3. HeldInv'
    <3>1. Holders = aside \cup {db} /\ Holders' = aside \cup {db}
      BY <2>1, Kinds DEF Holders
    <3> QED
      BY <2>1, <3>1 DEF DataInv, HeldInv, Moves
  <2>4. AsideInv'
    <3> SUFFICES ASSUME ~torn, NEW f \in aside \cup {db}
                 PROVE  OpensBy(f, keyFile, asideSalts) /\ f.seal # keyFile
      BY <2>1 DEF AsideInv, Moves
    <3>1. keyFile \in Key /\ Plain \notin Key
      BY <1>2, <2>1, KeyScriptsAssumption DEF TypeInv, Shape, OnDisk
    <3>2. CASE f \in aside
      BY <2>1, <3>2, Kinds DEF DataInv, AsideInv, Moves
    <3>3. CASE f = db
      BY <2>1, <3>1, <3>3 DEF OpensBy
    <3> QED
      BY <3>2, <3>3
  <2> QED
    BY <2>2, <2>3, <2>4 DEF DataInv
<1>6. CASE MigrateIn
  <2>1. /\ script.at = "in" /\ script'.at = "idle" /\ db = Absent
        /\ db' \in File /\ db'.seal = keyFile /\ keyFile \in Key
        /\ UNCHANGED <<salt, keyFile, aside, asideSalts, torn, heads>>
    BY <1>2, <1>6, FormsBack DEF MigrateIn, TypeInv, TypeOK, Shape, OnDisk
  <2>2. FitsInv' /\ ChangeInv'
    BY <2>1, Kinds DEF FitsInv, ChangeInv, Fits, Moves, Changing
  <2>3. HeldInv'
    <3>1. Holders = aside /\ Holders' = aside \cup {db'}
      BY <2>1, Kinds DEF Holders
    <3>2. OpensBy(db', keyFile, {salt} \cup asideSalts)
      BY <2>1 DEF OpensBy
    <3> QED
      BY <2>1, <3>1, <3>2 DEF DataInv, HeldInv, Moves
  <2>4. AsideInv'
    BY <2>1 DEF DataInv, AsideInv, Moves
  <2> QED
    BY <2>2, <2>3, <2>4 DEF DataInv
<1>7. CASE RemovePlain
  <2>1. /\ script.at = "idle" /\ db \in File /\ aside' \subseteq aside
        /\ \A f \in aside \ aside' : f.data \in heads => f.data = db.data
        /\ UNCHANGED <<db, salt, keyFile, asideSalts, script, torn, heads>>
    BY <1>2, <1>7, Running DEF RemovePlain, Started, live
  <2>2. FitsInv'
    BY <2>1 DEF DataInv, FitsInv, Fits, Moves
  <2>3. HeldInv'
    <3>1. Holders = aside \cup {db} /\ Holders' = aside' \cup {db}
      BY <2>1, Kinds DEF Holders
    <3>2. \A d \in heads : \E f \in Holders' : f.data = d
      BY <2>1, <3>1 DEF DataInv, HeldInv
    <3> QED
      BY <2>1, <3>1, <3>2 DEF DataInv, HeldInv, Moves
  <2>4. AsideInv' /\ ChangeInv'
    BY <2>1 DEF DataInv, AsideInv, ChangeInv, Moves, Changing
  <2> QED
    BY <2>2, <2>3, <2>4 DEF DataInv
<1> QED
  BY <1>3, <1>4, <1>5, <1>6, <1>7

\* A change of password: the salt it writes over opens nothing that was moved
\* aside, and neither does the key file it lets go of.
LEMMA PasswordData ==
  ASSUME Unruly = {}, TypeInv, DataInv,
         \/ \E old, new \in Password : SetPassword(old, new)
         \/ WriteSalt \/ Rekey \/ VerifyRekey
  PROVE  DataInv'
<1>1. /\ keyFile \in Key \cup {None} /\ aside \subseteq File /\ salt \in Number \cup {None}
      /\ torn \in BOOLEAN /\ (db # Absent => db \in File)
  BY Running DEF TypeInv, TypeOK
<1>2. ASSUME NEW old \in Password, NEW new \in Password, SetPassword(old, new)
      PROVE  DataInv'
  <2>1. /\ script.at = "idle" /\ db \in File /\ ~torn /\ db.seal # Plain /\ keyFile \in {None, db.seal}
        /\ script' = [at |-> "salt", pw |-> new, before |-> db]
        /\ UNCHANGED <<db, salt, keyFile, aside, asideSalts, torn, heads>>
    BY <1>2, Running DEF SetPassword, Started, live, kept
  <2>2. script'.at = "salt" /\ script'.before = db
    BY <2>1
  <2>3. FitsInv'
    BY <2>1, <2>2 DEF DataInv, FitsInv, Fits, Moves
  <2>4. HeldInv'
    <3>1. Holders' = Holders
      BY <2>1, <2>2 DEF Holders
    <3> QED
      BY <2>1, <2>2, <3>1 DEF DataInv, HeldInv, Moves
  <2>5. AsideInv'
    BY <2>1, <2>2 DEF DataInv, AsideInv, Moves
  <2>6. ChangeInv'
    BY <2>1, <2>2, Kinds DEF ChangeInv, Changing
  <2> QED
    BY <2>3, <2>4, <2>5, <2>6 DEF DataInv
<1>3. CASE WriteSalt
  <2>1. /\ script.at = "salt" /\ script \in Change /\ script'.at = "rekey" /\ script'.before = script.before
        /\ script'.pw = script.pw
    BY <1>3, Running, ChangeGoesOn DEF WriteSalt, Changing
  <2>2. /\ UNCHANGED <<db, keyFile, aside, asideSalts, torn, heads>>
        /\ ~torn /\ db # Absent /\ db.seal # Plain /\ keyFile \in {None, db.seal} /\ script.before = db
    BY <1>3, <2>1 DEF WriteSalt, kept, DataInv, ChangeInv, Changing
  <2>3. FitsInv' /\ ChangeInv'
    BY <2>1, <2>2 DEF FitsInv, ChangeInv, Moves, Changing
  <2>4. HeldInv'
    <3>1. Holders' = Holders
      BY <2>1, <2>2 DEF Holders
    <3> QED
      BY <2>1, <2>2, <3>1 DEF DataInv, HeldInv, Moves
  <2>5. AsideInv'
    BY <2>1, <2>2 DEF DataInv, AsideInv, Moves
  <2> QED
    BY <2>3, <2>4, <2>5 DEF DataInv
<1>4. CASE Rekey
  <2>1. /\ script.at = "rekey" /\ script \in Change /\ script'.at = "verify"
        /\ script'.before = script.before /\ script'.pw = script.pw /\ script.pw \in Password
    BY <1>4, Running, ChangeGoesOn DEF Rekey, Change, Changing
  <2>2. /\ UNCHANGED <<salt, keyFile, aside, asideSalts, torn, heads>>
        /\ ~torn /\ db \in File /\ db.seal # Plain /\ keyFile \in {None, db.seal} /\ script.before = db
        /\ salt = made
    BY <1>1, <1>4, <2>1 DEF Rekey, kept, DataInv, ChangeInv, Changing, TypeInv, Shape, OnDisk
  <2> DEFINE k == <<script.pw, made>>
  <2>3. made \in Number /\ k \in Key /\ k[1] = script.pw /\ k[2] = made
    BY <2>1, <2>2, Kinds, Bounds DEF TypeInv, TypeOK, Shape, OnDisk
  <2>4. /\ db' = [db EXCEPT !.seal = k]
        /\ db' \in File /\ db'.seal = k /\ db'.data = db.data
    BY <1>4, <2>2, <2>3 DEF Rekey, File
  <2>5. db' = Sealed(k, db.data)
    BY <2>2, <2>4 DEF Sealed, File
  <2>6. k # Plain /\ k # keyFile
    BY <1>1, <2>1, <2>3, Kinds DEF TypeInv, Shape, OnDisk
  <2> HIDE DEF k
  <2>7. FitsInv'
    BY <2>1, <2>2, <2>3, <2>4, <2>6, Kinds DEF FitsInv, Fits, Moves
  <2>8. ASSUME NEW f \in aside
        PROVE  f \in File /\ OpensBy(f, keyFile, asideSalts) /\ f.seal # keyFile
    BY <1>1, <2>1, <2>2, <2>8, Kinds DEF DataInv, AsideInv, Moves
  <2>9. HeldInv'
    <3>1. Holders = aside \cup {db} /\ Holders' = aside \cup {db'}
      BY <2>1, <2>2, <2>4, Kinds DEF Holders
    <3>2. OpensBy(db', keyFile, {salt} \cup asideSalts)
      BY <2>1, <2>2, <2>3, <2>4, <2>6 DEF OpensBy
    <3>3. \A f \in aside : OpensBy(f, keyFile, {salt} \cup asideSalts)
      BY <1>1, <2>8, OpensMore
    <3>4. \A d \in heads : \E f \in aside \cup {db'} : f.data = d
      BY <2>4, <3>1 DEF DataInv, HeldInv
    <3> QED
      BY <2>1, <2>2, <3>1, <3>2, <3>3, <3>4 DEF HeldInv, Moves
  <2>10. AsideInv'
    BY <2>1, <2>2, <2>4, <2>6, <2>8 DEF AsideInv, Moves
  <2>11. ChangeInv'
    <3>1. made' = made
      BY <1>4 DEF Rekey, counts
    <3> QED
      BY <2>1, <2>2, <2>4, <2>5, <2>6, <3>1, Kinds DEF ChangeInv, Changing, k
  <2> QED
    BY <2>7, <2>9, <2>10, <2>11 DEF DataInv
<1>5. CASE VerifyRekey
  <2>1. /\ script.at = "verify" /\ script \in Change /\ script'.at = "idle" /\ script.pw \in Password
        /\ script.before \in File
    BY <1>5, Running, FormsBack DEF VerifyRekey, Change, Changing
  <2>2. /\ UNCHANGED <<db, salt, aside, asideSalts, torn, heads>>
        /\ ~torn /\ salt = made /\ db = Sealed(<<script.pw, made>>, script.before.data)
        /\ keyFile' = None
    BY <1>5, <2>1 DEF VerifyRekey, kept, DataInv, ChangeInv, Changing, TypeInv, Shape, OnDisk
  <2>3. /\ made \in Number /\ db.seal = <<script.pw, made>> /\ db \in File /\ db.seal \in Key
        /\ <<script.pw, made>>[1] = script.pw /\ <<script.pw, made>>[2] = made
    BY <2>1, <2>2, Kinds, Bounds DEF TypeInv, TypeOK
  <2>4. db.seal # Plain /\ db.seal # None /\ db.seal[1] \in Password /\ db.seal[2] = salt
    BY <2>1, <2>2, <2>3, Kinds
  <2>5. ASSUME NEW f \in aside
        PROVE  f \in File /\ OpensBy(f, None, asideSalts) /\ f.seal # None
    <3>1. f \in File /\ OpensBy(f, keyFile, asideSalts) /\ f.seal # keyFile
      BY <1>1, <2>1, <2>2, <2>5 DEF DataInv, AsideInv, Moves
    <3> QED
      BY <3>1, Kinds DEF OpensBy
  <2>6. FitsInv' /\ ChangeInv'
    BY <2>1, <2>2, <2>3, <2>4, Kinds DEF FitsInv, Fits, ChangeInv, Moves, Changing
  <2>7. HeldInv'
    <3>1. Holders = aside \cup {db} /\ Holders' = aside \cup {db}
      BY <2>1, <2>2, <2>3, Kinds DEF Holders
    <3>2. OpensBy(db, None, {salt} \cup asideSalts)
      BY <2>4 DEF OpensBy
    <3>3. \A f \in aside : OpensBy(f, None, {salt} \cup asideSalts)
      BY <2>5, OpensMore
    <3> QED
      BY <2>1, <2>2, <3>1, <3>2, <3>3 DEF DataInv, HeldInv, Moves
  <2>8. AsideInv'
    BY <2>1, <2>2, <2>4, <2>5 DEF AsideInv, Moves
  <2> QED
    BY <2>6, <2>7, <2>8 DEF DataInv
<1> QED
  BY <1>2, <1>3, <1>4, <1>5

LEMMA BackupData ==
  ASSUME TypeInv, DataInv,
         \/ Copy \/ (\E p, new \in Password : Export(p, new))
         \/ Decline \/ InstallElsewhere
         \/ \E new \in Password, out \in {"live", "elsewhere"} : Restore(new, out)
  PROVE  DataInv'
<1>1. script.at \in {"idle", "copy", "confirm"}
  BY Running DEF Copy, Export, Started, Decline, InstallElsewhere, Restore
<1>2. script'.at \in {"idle", "copy", "confirm"}
  <2>1. CASE Copy \/ Decline \/ InstallElsewhere
    BY <2>1, FormsBack DEF Copy, Decline, InstallElsewhere
  <2>2. ASSUME NEW p \in Password, NEW new \in Password, Export(p, new)
        PROVE  script'.at = "copy"
    BY <2>2 DEF Export
  <2>3. ASSUME NEW new \in Password, NEW out \in {"live", "elsewhere"}, Restore(new, out)
        PROVE  script'.at = "confirm"
    BY <2>3 DEF Restore
  <2> QED
    BY <2>1, <2>2, <2>3
<1>3. UNCHANGED <<db, salt, keyFile, aside, asideSalts, torn, heads>>
  BY DEF Copy, Export, Decline, InstallElsewhere, Restore, live, kept
<1> QED
  BY <1>1, <1>2, <1>3, QuietData

\* The moves of a restore, and those that undo them.
LEMMA InstallData ==
  ASSUME TypeInv, DataInv, DbAside \/ SaltAside \/ DbIn \/ SaltIn \/ PutBack
  PROVE  DataInv'
<1>1. /\ script.at \in Restoring /\ script \in Restores
      /\ script.new \in File /\ script.db \in File \cup {Absent} /\ script.salt \in Number \cup {None}
      /\ script.new.seal[1] \in Password /\ script.new.seal[2] = made /\ script.new.seal \in Key
      /\ made \in Number
  <2>1. script.at \in Restoring /\ script \in Restores
    BY Running DEF DbAside, SaltAside, DbIn, SaltIn, PutBack, Restoring, Moves
  <2> QED
    BY <2>1, Bounds DEF Restores, Restoring, Moves, TypeInv, TypeOK, SaltsApart, Number
<1>2. /\ keyFile \in Key \cup {None} /\ aside \subseteq File /\ salt \in Number \cup {None}
      /\ asideSalts \subseteq Number /\ torn \in BOOLEAN /\ (db # Absent => db \in File)
      /\ salt \notin asideSalts /\ None \notin asideSalts
  BY Running, Kinds DEF TypeInv, TypeOK, SaltsApart
<1>3. script.new.seal \notin {Plain, keyFile}
  BY <1>1, <1>2, Kinds DEF TypeInv, Shape, OnDisk
<1>4. CASE DbAside
  <2>1. /\ script.at = "confirm" /\ script'.at = "saltAside" /\ script'.db = db
        /\ db' = Absent /\ aside' = aside \cup ({db} \ {Absent})
        /\ UNCHANGED <<salt, keyFile, asideSalts, torn, heads>>
    <3>1. script' = [script EXCEPT !.at = "saltAside", !.db = db]
      BY <1>4 DEF DbAside
    <3> QED
      BY <1>1, <1>4, <3>1 DEF DbAside, Restores
  <2>2. FitsInv' /\ ChangeInv'
    BY <2>1 DEF DataInv, FitsInv, Fits, ChangeInv, Moves, Changing
  <2>3. HeldInv'
    <3>1. Holders' = Holders
      BY <2>1 DEF Holders
    <3> QED
      BY <2>1, <3>1 DEF DataInv, HeldInv, Moves
  <2>4. AsideInv'
    <3> SUFFICES ASSUME ~torn, NEW f \in aside, f # db
                 PROVE  OpensBy(f, keyFile, asideSalts) /\ (db.seal \in {Plain, keyFile} => f.seal # keyFile)
      BY <2>1 DEF AsideInv, Moves
    <3> QED
      BY <2>1 DEF DataInv, FitsInv, AsideInv, Moves
  <2> QED
    BY <2>2, <2>3, <2>4 DEF DataInv
<1>5. CASE SaltAside
  <2>1. /\ script.at = "saltAside" /\ script'.at = "dbIn" /\ script'.db = script.db /\ script'.salt = salt
        /\ asideSalts' = asideSalts \cup ({salt} \ {None}) /\ salt' = None
        /\ UNCHANGED <<db, keyFile, aside, torn, heads>>
    <3>1. script' = [script EXCEPT !.at = "dbIn", !.salt = salt]
      BY <1>5 DEF SaltAside
    <3> QED
      BY <1>1, <1>5, <3>1 DEF SaltAside, Restores
  <2>2. FitsInv' /\ ChangeInv'
    BY <2>1 DEF DataInv, FitsInv, Fits, ChangeInv, Moves, Changing
  <2>3. HeldInv'
    <3>1. Holders' = Holders /\ \A f \in Holders : f \in File
      BY <1>2, <2>1 DEF Holders
    <3>2. ({salt} \cup asideSalts) \cap Number \subseteq {salt'} \cup asideSalts'
      BY <2>1, Kinds
    <3>3. \A f \in Holders : OpensBy(f, keyFile, {salt'} \cup asideSalts')
      BY <1>2, <2>1, <3>1, <3>2, OpensMore DEF DataInv, HeldInv
    <3> QED
      BY <2>1, <3>1, <3>3 DEF DataInv, HeldInv, Moves
  <2>4. AsideInv'
    <3>1. asideSalts' \ {script'.salt} = asideSalts
      BY <1>2, <2>1
    <3> QED
      BY <2>1, <3>1 DEF DataInv, AsideInv, Moves
  <2> QED
    BY <2>2, <2>3, <2>4 DEF DataInv
<1>6. CASE DbIn
  <2>1. /\ script.at = "dbIn" /\ script'.at = "saltIn" /\ script'.db = script.db
        /\ script'.salt = script.salt /\ db = Absent
        /\ UNCHANGED <<salt, keyFile, aside, asideSalts, torn, heads>>
    BY <1>1, <1>6, RestoreGoesOn DEF DbIn, kept, Restoring, Moves, TypeInv, Shape, OnDisk
  <2>2. FitsInv' /\ ChangeInv'
    BY <2>1 DEF DataInv, FitsInv, Fits, ChangeInv, Moves, Changing
  <2>3. HeldInv'
    <3>1. Holders' = Holders
      BY <2>1 DEF Holders
    <3> QED
      BY <2>1, <3>1 DEF DataInv, HeldInv, Moves
  <2>4. AsideInv'
    BY <2>1 DEF DataInv, AsideInv, Moves
  <2> QED
    BY <2>2, <2>3, <2>4 DEF DataInv
<1>7. CASE SaltIn
  <2>1. /\ script.at = "saltIn" /\ script'.at = "idle" /\ db = script.new /\ salt = None /\ salt' = made
        /\ UNCHANGED <<db, keyFile, aside, asideSalts, torn, heads>>
    BY <1>1, <1>7, FormsBack DEF SaltIn, kept, TypeInv, Shape, OnDisk
  <2>2. FitsInv' /\ ChangeInv'
    BY <1>1, <1>3, <2>1, Kinds DEF FitsInv, Fits, ChangeInv, Moves, Changing
  <2>3. HeldInv'
    <3>1. Holders = aside /\ Holders' = aside \cup {db}
      BY <1>1, <2>1, Kinds DEF Holders
    <3>2. OpensBy(db, keyFile, {salt'} \cup asideSalts)
      BY <1>1, <1>3, <2>1 DEF OpensBy
    <3>3. ({salt} \cup asideSalts) \cap Number \subseteq {salt'} \cup asideSalts
      BY <2>1, Kinds
    <3>4. \A f \in aside : OpensBy(f, keyFile, {salt'} \cup asideSalts)
      BY <1>2, <2>1, <3>1, <3>3, OpensMore DEF DataInv, HeldInv
    <3> QED
      BY <2>1, <3>1, <3>2, <3>4 DEF DataInv, HeldInv, Moves
  <2>4. AsideInv'
    <3> SUFFICES ASSUME ~torn, NEW f \in aside PROVE OpensBy(f, keyFile, asideSalts)
      BY <1>1, <1>3, <2>1, Kinds DEF AsideInv, Moves
    <3>1. CASE f # script.db
      <4>1. OpensBy(f, keyFile, asideSalts \ {script.salt}) /\ f \in File
        BY <1>2, <2>1, <3>1 DEF DataInv, AsideInv, Moves
      <4> QED
        BY <1>2, <4>1, OpensMore
    <3>2. CASE f = script.db
      <4>1. /\ Fits(f, keyFile, script.salt) /\ OpensBy(f, keyFile, {salt} \cup asideSalts)
            /\ script.salt \in Number => script.salt \in asideSalts
        BY <2>1, <3>2, Kinds DEF DataInv, FitsInv, HeldInv, Holders, Moves, TypeInv, SaltsApart, Restoring
      <4> QED
        BY <1>1, <1>2, <4>1, FitsOpens
    <3> QED
      BY <3>1, <3>2
  <2> QED
    BY <2>2, <2>3, <2>4 DEF DataInv
<1>8. CASE PutBack
  <2>1. /\ script.at \in Moves /\ script'.at = "idle" /\ db' = script.db /\ aside' = aside \ {script.db}
        /\ UNCHANGED <<keyFile, torn, heads>>
        /\ salt' = IF script.at = "saltAside" THEN salt ELSE script.salt
        /\ asideSalts' = IF script.at = "saltAside" THEN asideSalts ELSE asideSalts \ {script.salt}
        /\ script.at # "saltAside" => salt = None
    BY <1>8, FormsBack DEF PutBack, Moves, TypeInv, Shape, OnDisk
  <2>2. FitsInv' /\ ChangeInv'
    BY <2>1 DEF DataInv, FitsInv, Fits, ChangeInv, Moves, Changing
  <2>3. HeldInv'
    <3>1. /\ script.db \in aside \cup {Absent} /\ Absent \notin aside
          /\ Holders = aside /\ Holders' = aside
      <4>1. script.db \in aside \cup {Absent} /\ Absent \notin aside
        BY <1>2, <2>1, Kinds DEF DataInv, HeldInv
      <4> QED
        BY <2>1, <4>1 DEF Holders, Moves, TypeInv, Shape, OnDisk
    <3>2. ({salt} \cup asideSalts) \cap Number \subseteq {salt'} \cup asideSalts'
      BY <2>1, Kinds
    <3>3. \A f \in aside : OpensBy(f, keyFile, {salt'} \cup asideSalts')
      BY <1>2, <2>1, <3>1, <3>2, OpensMore DEF DataInv, HeldInv, Moves
    <3> QED
      BY <2>1, <3>1, <3>3 DEF DataInv, HeldInv, Moves
  <2>4. AsideInv'
    BY <2>1 DEF DataInv, AsideInv, Moves
  <2> QED
    BY <2>2, <2>3, <2>4 DEF DataInv
<1> QED
  BY <1>4, <1>5, <1>6, <1>7, <1>8

LEMMA StepData == Unruly = {} /\ TypeInv /\ DataInv /\ [Next]_vars => DataInv'
<1> SUFFICES ASSUME Unruly = {}, TypeInv, DataInv, [Next]_vars PROVE DataInv'
  OBVIOUS
<1>1. "beside" \notin Unruly /\ "interrupt" \notin Unruly
  OBVIOUS
<1>2. CASE UNCHANGED vars
  BY <1>2 DEF vars, live, kept, counts, DataInv, FitsInv, Fits, HeldInv, Holders, AsideInv, ChangeInv
<1>3. CASE Next
  BY <1>1, <1>3, BackendData, StopData, MigrateData, PasswordData, BackupData, InstallData DEF Next
<1> QED
  BY <1>2, <1>3

LEMMA SpecData == Unruly = {} => (Spec => [](TypeInv /\ DataInv))
<1> SUFFICES ASSUME Unruly = {} PROVE Spec => [](TypeInv /\ DataInv)
  OBVIOUS
<1>1. TypeInv /\ [Next]_vars => TypeInv'
  BY StepTypes
<1>2. TypeInv /\ DataInv /\ [Next]_vars => DataInv'
  BY StepData
<1> QED
  BY <1>1, <1>2, InitTypes, InitData, PTL DEF Spec

\* For any number of passwords, runs, writes and salts, and with every script
\* stopped anywhere but between the new salt of set_db_password.py and its rekey,
\* whatever was written last is in a file that something on disk opens.
THEOREM NothingIsLost == Unruly = {} => (Spec => []DataSurvives)
<1>1. TypeInv /\ DataInv => DataSurvives
  <2> SUFFICES ASSUME TypeInv, DataInv, script.at # "rekey", NEW d \in heads
               PROVE  \E f \in Files : f.data = d /\ Readable(f)
    BY DEF DataSurvives
  <2>1. PICK f \in Holders : f.data = d
    BY DEF DataInv, HeldInv
  <2>2. OpensBy(f, keyFile, {salt} \cup asideSalts) /\ f \in Files
    BY DEF DataInv, HeldInv, Holders, Files
  <2> QED
    BY <2>1, <2>2 DEF OpensBy, Readable
<1> QED
  BY <1>1, SpecData, PTL

\* And when no script is at work and none was stopped between two moves, the
\* database in place opens.
THEOREM PairFits == Unruly = {} => (Spec => []LiveOpens)
<1>1. TypeInv /\ DataInv => LiveOpens
  BY Running DEF DataInv, FitsInv, Fits, LiveOpens, Moves
<1> QED
  BY <1>1, SpecData, PTL

=============================================================================
