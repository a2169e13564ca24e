----------------------------- MODULE KeyScripts -----------------------------
(***************************************************************************)
(* The files one installation keeps and the scripts that move them:         *)
(* scripts/migrate_encrypt_db.py, set_db_password.py, export_backup.py and   *)
(* restore_backup.py, with the backend that opens, creates and writes the    *)
(* database between them.  Each script is a sequence of steps, and may be    *)
(* stopped, or fail, between any two of them.                                *)
(*                                                                         *)
(* A key is <<secret, number>>: the password and the number of the salt it   *)
(* was derived from, or Random and a number for a key of db_key.txt.  A file *)
(* has a seal, the key that opens it or Plain, and data: the number of the   *)
(* last write it holds, 0 when it holds none.                                *)
(*                                                                         *)
(* The shell a script is run from may have a key in PIP_DB_KEY, which the    *)
(* migration and the change of password take first.  export_backup.py reads  *)
(* it too, where there is a key file or no key at all on disk, and the       *)
(* backend adopts it (SignIn); neither is part of this module.               *)
(***************************************************************************)
EXTENDS Integers, Sequences, SequencesExt, FiniteSets

CONSTANTS
    Password,   \* what people type
    Random,     \* stands for the password of a random key
    None,       \* no salt, no key file
    Absent,     \* no file
    Plain,      \* not encrypted
    Era,        \* how installations began, of "plain", "random", "password"
    Unruly,     \* what the pass runs leave out; see the guards that name it
    MaxMade,    \* salts and random keys made
    MaxWrite,   \* writes of the backend
    MaxRun      \* runs of a script

Number == 1..MaxMade
Key == (Password \cup {Random}) \X Number
File == [seal : Key \cup {Plain}, data : 0..MaxWrite]
Backup == [pw : Password, data : 0..MaxWrite]
\* Where a script is and what it carries.
Script ==
    [at : {"idle", "out", "in"}]
    \cup [at : {"export"}, key : Key]
    \cup [at : {"salt", "rekey", "verify"}, pw : Password, before : File]
    \cup [at : {"copy"}, pw : Password]
    \cup [at : {"confirm", "saltAside", "dbIn", "saltIn"}, out : {"live", "elsewhere"},
          from : Password, new : File, db : File \cup {Absent}, salt : Number \cup {None}]

ASSUME KeyScriptsAssumption ==
    /\ Random \notin Password
    /\ Era \subseteq {"plain", "random", "password"}
    /\ Unruly \subseteq {"interrupt", "plain", "stale key", "torn", "beside", "shell"}
    /\ MaxMade \in Nat \ {0} /\ MaxWrite \in Nat /\ MaxRun \in Nat
    /\ None \notin Nat /\ None \notin Key /\ Plain \notin Key \cup {None}
    /\ Absent \notin File

VARIABLES
    db,         \* pip.db
    salt,       \* salt.bin
    keyFile,    \* db_key.txt
    tmp,        \* pip.db.encrypted-tmp, the name migrate_encrypt_db always uses
    aside,      \* superseded, left over and .plaintext-backup databases
    asideSalts, \* superseded and left over salts
    backups,    \* the .pipbak files of data/, oldest first
    up,         \* the backend is running and signed in
    held,       \* the key it holds, Plain when it needs none
    script,     \* the script that is running: where it is and what it carries
    torn,       \* a script was stopped between two of its moves
    heads,      \* the writes no later write of the same file has replaced
    made, written, runs     \* what the bounds count

live == <<db, salt, keyFile>>
kept == <<tmp, aside, asideSalts, backups>>
backend == <<up, held>>
counts == <<made, written, runs>>
vars == <<live, kept, backend, script, torn, heads, counts>>

NoScript == [at |-> "idle"]
Sealed(k, d) == [seal |-> k, data |-> d]

Init ==
    /\ \/ "plain" \in Era /\ db = Sealed(Plain, 0) /\ salt = None /\ keyFile = None /\ made = 0
       \/ "random" \in Era /\ db = Sealed(<<Random, 1>>, 0) /\ salt = None
          /\ keyFile = <<Random, 1>> /\ made = 1
       \/ "password" \in Era /\ salt = 1 /\ keyFile = None /\ made = 1
          /\ \E p \in Password : db = Sealed(<<p, 1>>, 0)
    /\ tmp = Absent /\ aside = {} /\ asideSalts = {} /\ backups = <<>>
    /\ up = FALSE /\ held = Plain
    /\ script = NoScript /\ torn = FALSE
    /\ heads = {} /\ written = 0 /\ runs = 0

Make == made < MaxMade /\ made' = made + 1
Fresh == made + 1

Idle == script = NoScript

-----------------------------------------------------------------------------
(* The backend                                                              *)

\* Signing in, as session_key and the launchers allow: with the key file an
\* older launcher still reads, with a password and the salt, by choosing a
\* first password where there is no salt, or with no key at all.  A missing
\* database is created under the key in hand.
SignIn(k) ==
    /\ ~up
    /\ Idle \/ script.at \in {"copy"} \/ "beside" \in Unruly
    /\ up' = TRUE
    /\ held' = k
    /\ db' = IF db = Absent THEN Sealed(k, 0) ELSE db
    /\ UNCHANGED <<keyFile, kept, script, torn, heads, written, runs>>

Launched ==
    /\ keyFile # None /\ db # Absent => db.seal = keyFile
    /\ keyFile # None
    /\ SignIn(keyFile)
    /\ UNCHANGED <<salt, made>>

Unlocked ==
    /\ salt # None
    /\ \E p \in Password : (db # Absent => db.seal = <<p, salt>>) /\ SignIn(<<p, salt>>)
    /\ UNCHANGED <<salt, made>>

FirstPassword ==
    /\ salt = None /\ (db # Absent => db.seal # Plain)
    /\ Make
    /\ salt' = Fresh
    /\ \E p \in Password : SignIn(<<p, Fresh>>)

Unencrypted ==
    /\ salt = None /\ db # Absent /\ db.seal = Plain
    /\ SignIn(Plain)
    /\ UNCHANGED <<salt, made>>

\* A write through a connection that opens the database as it is now.
Write ==
    /\ up /\ written < MaxWrite
    /\ db # Absent => db.seal = held
    /\ written' = written + 1
    /\ db' = Sealed(held, written + 1)
    /\ heads' = (heads \ (IF db = Absent THEN {} ELSE {db.data})) \cup {written + 1}
    /\ UNCHANGED <<salt, keyFile, kept, backend, script, torn, made, runs>>

Close ==
    /\ up
    /\ up' = FALSE /\ held' = Plain
    /\ UNCHANGED <<live, kept, script, torn, heads, counts>>

-----------------------------------------------------------------------------
(* Starting and stopping a script                                           *)

\* A script is started beside a running backend only if it asks nothing about
\* one and nobody thought of it.
Started(alone) ==
    /\ Idle /\ runs < MaxRun
    /\ db # Absent
    /\ alone /\ up => "beside" \in Unruly
    /\ runs' = runs + 1

\* The temporary files of a restore stay where they are.
Leftovers ==
    IF "new" \in DOMAIN script
    THEN /\ aside' = aside \cup {script.new}
         /\ asideSalts' = asideSalts \cup {script.new.seal[2]}
    ELSE UNCHANGED <<aside, asideSalts>>

Moving == {"in", "saltAside", "dbIn", "saltIn"}

\* An exception (SQLite is busy, the disk is full), Ctrl-C, a kill, a power cut.
Stop ==
    /\ ~Idle
    /\ script.at = "rekey" => "interrupt" \in Unruly
    /\ script' = NoScript
    /\ torn' = (torn \/ script.at \in Moving)
    /\ IF script.at = "saltIn"
       THEN asideSalts' = asideSalts \cup {script.new.seal[2]} /\ UNCHANGED aside
       ELSE Leftovers
    /\ UNCHANGED <<live, tmp, backups, backend, heads, counts>>

-----------------------------------------------------------------------------
(* scripts/migrate_encrypt_db.py                                            *)

\* As if a new key were not written down.
MigrateUnderNoKey ==
    /\ Started(TRUE)
    /\ db.seal = Plain
    /\ tmp' = Absent
    /\ script' = [at |-> "export", key |-> keyFile]
    /\ UNCHANGED <<live, aside, asideSalts, backups, backend, torn, heads, made, written>>

\* A plaintext database, and the key: that of the shell, which need not be on
\* disk at all, or that of db_key.txt, or a new one that is written there first
\* (load_or_create_key).  An old temporary file goes.
Migrate ==
    /\ Started(TRUE)
    /\ db.seal = Plain
    /\ \E shell \in Key \cup {None} :
         /\ shell \in {None, keyFile} \/ "shell" \in Unruly
         /\ IF shell = None /\ keyFile = None
            THEN Make /\ keyFile' = <<Random, Fresh>>
            ELSE UNCHANGED <<keyFile, made>>
         /\ script' = [at |-> "export", key |-> IF shell # None THEN shell ELSE keyFile']
    /\ tmp' = Absent
    /\ UNCHANGED <<db, salt, aside, asideSalts, backups, backend, torn, heads, written>>

\* The encrypted copy is written, reopened and compared before anything moves.
MigrateCopy ==
    /\ script.at = "export"
    /\ tmp' = Sealed(script.key, db.data)
    /\ script' = [at |-> "out"]
    /\ UNCHANGED <<live, aside, asideSalts, backups, backend, torn, heads, counts>>

\* The plaintext file becomes the .plaintext-backup ...
MigrateOut ==
    /\ script.at = "out"
    /\ db # Absent
    /\ aside' = aside \cup {db}
    /\ db' = Absent
    /\ script' = [at |-> "in"]
    /\ UNCHANGED <<salt, keyFile, tmp, asideSalts, backups, backend, torn, heads, counts>>

\* ... and the copy becomes the database.
MigrateIn ==
    /\ script.at = "in"
    /\ db' = tmp /\ tmp' = Absent
    /\ script' = NoScript
    /\ UNCHANGED <<salt, keyFile, aside, asideSalts, backups, backend, torn, heads, counts>>

\* --remove-plaintext-backup deletes every plaintext backup once the database
\* is not plaintext; its user has seen the data in the application.
RemovePlain ==
    /\ Started(TRUE)
    /\ db.seal # Plain
    /\ \A f \in aside : f.seal = Plain => f.data \notin heads \/ f.data = db.data
    /\ aside' = {f \in aside : f.seal # Plain}
    /\ UNCHANGED <<live, tmp, asideSalts, backups, backend, script, torn, heads, made, written>>

-----------------------------------------------------------------------------
(* scripts/set_db_password.py                                               *)

\* _current_key: the key of the shell if it opens the database, then the key
\* file if that does, then a password with the stored salt, then none for a
\* database that is not encrypted.
CurrentKey(shell, p) ==
    \/ shell # None /\ db.seal = shell
    \/ keyFile # None /\ db.seal = keyFile
    \/ salt # None /\ db.seal = <<p, salt>>
    \/ salt = None /\ db.seal = Plain

SetPassword(old, new) ==
    /\ Started(TRUE)
    /\ \E shell \in Key \cup {None} : CurrentKey(shell, old)
    /\ db.seal = Plain => "plain" \in Unruly
    /\ keyFile \in {None, db.seal} \/ "stale key" \in Unruly
    /\ ~torn \/ "torn" \in Unruly
    /\ script' = [at |-> "salt", pw |-> new, before |-> db]
    /\ UNCHANGED <<live, kept, backend, torn, heads, made, written>>

\* create_salt, before the database is touched.
WriteSalt ==
    /\ script.at = "salt"
    /\ Make
    /\ salt' = Fresh
    /\ script' = [script EXCEPT !.at = "rekey"]
    /\ UNCHANGED <<db, keyFile, kept, backend, torn, heads, written, runs>>

\* PRAGMA rekey encrypts the database again, all of it or nothing; the plain
\* connection of an unencrypted database does not know the pragma.
Rekey ==
    /\ script.at = "rekey"
    /\ db' = IF db.seal = Plain THEN db ELSE [db EXCEPT !.seal = <<script.pw, made>>]
    /\ script' = [script EXCEPT !.at = "verify"]
    /\ UNCHANGED <<salt, keyFile, kept, backend, torn, heads, counts>>

\* Only a database that opens with the new key and holds what it held lets the
\* key file go.
VerifyRekey ==
    /\ script.at = "verify"
    /\ keyFile' = IF db = Sealed(<<script.pw, made>>, script.before.data) THEN None ELSE keyFile
    /\ script' = NoScript
    /\ UNCHANGED <<db, salt, kept, backend, torn, heads, counts>>

-----------------------------------------------------------------------------
(* scripts/export_backup.py                                                 *)

\* authenticate: a key file is the key, whatever the password; otherwise the
\* password has to open the database.
LiveKey(p) == IF keyFile # None THEN keyFile ELSE <<p, salt>>
Authenticated(p) == (keyFile # None \/ salt # None) /\ db.seal = LiveKey(p)

\* _is_live_secret
IsLiveSecret(candidate, k) == salt # None /\ <<candidate, salt>> = k

\* As if only the key itself, and not the password it comes from, were refused.
ExportUnderAny(p, new) ==
    /\ Started(FALSE)
    /\ Authenticated(p)
    /\ script' = [at |-> "copy", pw |-> new]
    /\ UNCHANGED <<live, kept, backend, torn, heads, made, written>>

Export(p, new) ==
    /\ Started(FALSE)
    /\ Authenticated(p)
    /\ ~IsLiveSecret(new, LiveKey(p))
    /\ script' = [at |-> "copy", pw |-> new]
    /\ UNCHANGED <<live, kept, backend, torn, heads, made, written>>

\* The copy is written under a name no other backup has (default_backup_path).
\* The check that follows reports what it finds and leaves the file; a copy cut
\* short holds nothing.
Copy ==
    /\ script.at = "copy"
    /\ \E d \in {0, db.data} : backups' = Append(backups, [pw |-> script.pw, data |-> d])
    /\ script' = NoScript
    /\ UNCHANGED <<live, tmp, aside, asideSalts, backend, torn, heads, counts>>

-----------------------------------------------------------------------------
(* scripts/restore_backup.py                                                *)

\* refuse_if_pip_is_running, open_backup of the newest by name or of any other
\* that is named, with its password, a new password that is not the backup's, and a verified copy under a salt of its own, beside
\* the database it is for.  --out may name another place than the live one.
Restore(new, out) ==
    /\ Idle /\ runs < MaxRun
    /\ ~up
    /\ backups # <<>>
    /\ \E b \in ToSet(backups) :
         /\ new # b.pw
         /\ script' = [at |-> "confirm", out |-> out, from |-> b.pw,
                       new |-> Sealed(<<new, Fresh>>, b.data),
                       db |-> Absent, salt |-> None]
    /\ Make
    /\ runs' = runs + 1
    /\ UNCHANGED <<live, kept, backend, torn, heads, written>>

\* Anything but "yes" unlinks the temporary files.
Decline ==
    /\ script.at = "confirm"
    /\ script' = NoScript
    /\ UNCHANGED <<live, kept, backend, torn, heads, counts>>

\* A copy for elsewhere takes its salt along: salt_destination.
InstallElsewhere ==
    /\ script.at = "confirm" /\ script.out = "elsewhere"
    /\ script' = NoScript
    /\ UNCHANGED <<live, kept, backend, torn, heads, counts>>

\* As if the database in place were written over.
DbOver ==
    /\ script.at = "confirm" /\ script.out = "live"
    /\ db' = Absent
    /\ script' = [script EXCEPT !.at = "saltAside", !.db = db]
    /\ UNCHANGED <<salt, keyFile, kept, backend, torn, heads, counts>>

\* install: the database aside, ...
DbAside ==
    /\ script.at = "confirm" /\ script.out = "live"
    /\ aside' = aside \cup ({db} \ {Absent})
    /\ db' = Absent
    /\ script' = [script EXCEPT !.at = "saltAside", !.db = db]
    /\ UNCHANGED <<salt, keyFile, tmp, asideSalts, backups, backend, torn, heads, counts>>

\* ... the salt aside, ...
SaltAside ==
    /\ script.at = "saltAside"
    /\ asideSalts' = asideSalts \cup ({salt} \ {None})
    /\ salt' = None
    /\ script' = [script EXCEPT !.at = "dbIn", !.salt = salt]
    /\ UNCHANGED <<db, keyFile, tmp, aside, backups, backend, torn, heads, counts>>

\* ... the new database in, ...
DbIn ==
    /\ script.at = "dbIn"
    /\ db' = script.new
    /\ script' = [script EXCEPT !.at = "saltIn"]
    /\ UNCHANGED <<salt, keyFile, kept, backend, torn, heads, counts>>

\* ... and its salt.
SaltIn ==
    /\ script.at = "saltIn"
    /\ salt' = script.new.seal[2]
    /\ script' = NoScript
    /\ UNCHANGED <<db, keyFile, kept, backend, torn, heads, counts>>

\* As if a refused move left the moves before it in place.
PutBackNothing ==
    /\ script.at \in {"saltAside", "dbIn", "saltIn"}
    /\ script' = NoScript
    /\ UNCHANGED <<live, kept, backend, torn, heads, counts>>

\* The operating system refuses one of the moves: those already made are made
\* backwards, and the temporary files are unlinked.
PutBack ==
    /\ script.at \in {"saltAside", "dbIn", "saltIn"}
    /\ db' = script.db
    /\ aside' = aside \ {script.db}
    /\ salt' = IF script.at = "saltAside" THEN salt ELSE script.salt
    /\ asideSalts' = IF script.at = "saltAside" THEN asideSalts ELSE asideSalts \ {script.salt}
    /\ script' = NoScript
    /\ UNCHANGED <<keyFile, tmp, backups, backend, torn, heads, counts>>

-----------------------------------------------------------------------------
Next ==
    \/ Launched \/ Unlocked \/ FirstPassword \/ Unencrypted \/ Write \/ Close
    \/ Stop
    \/ Migrate \/ MigrateCopy \/ MigrateOut \/ MigrateIn \/ RemovePlain
    \/ \E old, new \in Password : SetPassword(old, new)
    \/ WriteSalt \/ Rekey \/ VerifyRekey
    \/ \E p, new \in Password : Export(p, new)
    \/ Copy
    \/ \E new \in Password, out \in {"live", "elsewhere"} : Restore(new, out)
    \/ Decline \/ InstallElsewhere \/ DbAside \/ SaltAside \/ DbIn \/ SaltIn \/ PutBack

Spec == Init /\ [][Next]_vars

-----------------------------------------------------------------------------
(* Properties                                                               *)

TypeOK ==
    /\ db \in File \cup {Absent} /\ tmp \in File \cup {Absent}
    /\ salt \in Number \cup {None}
    /\ keyFile \in Key \cup {None}
    /\ aside \subseteq File /\ asideSalts \subseteq Number
    /\ backups \in Seq(Backup)
    /\ up \in BOOLEAN /\ held \in Key \cup {Plain}
    /\ script \in Script /\ torn \in BOOLEAN /\ heads \subseteq 1..MaxWrite
    /\ made \in 0..MaxMade /\ written \in 0..MaxWrite /\ runs \in 0..MaxRun

\* What the passwords people know, the salts and the key file on disk open.
Readable(f) ==
    \/ f.seal \in {Plain, keyFile}
    \/ f.seal[1] \in Password /\ f.seal[2] \in {salt} \cup asideSalts

\* Every file on disk the last write of a line may be in.
Files == ({db, tmp} \ {Absent}) \cup aside
             \cup (IF "new" \in DOMAIN script THEN {script.new} ELSE {})

\* Whatever was written last, and in every database that was ever replaced by
\* another, is still in a file that something on disk and a password open: no
\* script replaces a salt, removes a key or deletes a file that was the only
\* way to it ("nothing is destroyed until the encrypted copy has been
\* verified", migrate_encrypt_db.py:29; set_db_password.py:24).  Between the new
\* salt and the rekey the old salt is in the memory of the script alone.
DataSurvives ==
    script.at # "rekey" => \A d \in heads : \E f \in Files : f.data = d /\ Readable(f)

\* When no script is at work, and none was stopped between two moves, the
\* database in place opens: without a key where there is no salt, with the key
\* file, or with a password and the salt beside it.  A refused restore leaves
\* the old pair and a finished one the new pair, never one of each
\* (restore_backup.install).
LiveOpens ==
    Idle /\ ~torn /\ db # Absent =>
        \/ db.seal = Plain /\ salt = None
        \/ db.seal = keyFile
        \/ db.seal # Plain /\ db.seal[2] = salt

\* A backup never opens with the password of the database it was made from, and
\* a restored database never with the password of its backup
\* (prompt_backup_password, prompt_new_live_password).
SecretsApart ==
    [][/\ Len(backups') > Len(backups) /\ db.seal # Plain => db.seal[1] # Last(backups').pw
       /\ "from" \in DOMAIN script' => script'.new.seal[1] # script'.from]_vars
=============================================================================
