------------------------------- MODULE SignIn -------------------------------
(***************************************************************************)
(* Who may open the data.  A profile is a directory with a database and a   *)
(* salt (backend/core/profiles.py); a key is derived from a password and    *)
(* the salt (db_key.py) and held by the backend process for as long as      *)
(* somebody is signed in (session_key.py); a lock file keeps a second       *)
(* backend from starting (instance_lock.py); the /auth routes and the       *)
(* lifespan of backend/api/server.py move a process between these states,   *)
(* and scripts/new_profile.py makes a profile from outside.                 *)
(*                                                                         *)
(* A key is the pair <<password, salt>> it was derived from: the derivation *)
(* is deterministic and two different pairs never give one key.  Before     *)
(* there were passwords a key was random bytes: those keys are in OldKey,   *)
(* and a database of that time is encrypted and has no salt beside it.      *)
(*                                                                         *)
(* The routes run partly on the event loop and partly in worker threads, so *)
(* a request is a sequence of steps between which other threads of the same *)
(* process run.  The paths are environment variables read where they are    *)
(* used: active[b] is read again at every step that reads a path.           *)
(***************************************************************************)
EXTENDS Integers, FiniteSets

CONSTANTS
    Profile,    \* the profiles there may be
    Default,    \* the original installation
    Password,   \* what people type
    OldKey,     \* the random keys of the time before there were passwords
    Backend,    \* the processes, by pid
    Client,     \* the requests that may be in flight
    None,       \* no salt, no key, no lock
    Absent,     \* no database file
    Plain,      \* a database that is not encrypted
    Unruly,     \* what the world outside does not take turns at
    MaxSalt,    \* salts written
    MaxStart,   \* starts of a backend
    MaxAsk      \* requests to the /auth routes

ASSUME SignInAssumption ==
    /\ Default \in Profile
    /\ Unruly \subseteq {"starts", "requests", "signed in", "script"}
    /\ MaxSalt \in Nat /\ MaxStart \in Nat /\ MaxAsk \in Nat
    /\ None \notin Backend
    /\ OldKey \cap (Password \X (1..MaxSalt)) = {}
    /\ None \notin (Password \X (1..MaxSalt)) \cup OldKey
    /\ Absent \notin (Password \X (1..MaxSalt)) \cup OldKey
    /\ Plain \notin (Password \X (1..MaxSalt)) \cup OldKey
    /\ Absent # Plain
    /\ None \notin 1..MaxSalt

Salt == 1..MaxSalt
Derived == Password \X Salt
Key == Derived \cup OldKey

VARIABLES
    registered, \* profiles.json: the profiles it lists
    lastUsed,   \* profiles.json: the profile opened last
    salt,       \* salt.bin of each profile
    db,         \* pip.db of each profile: Absent, Plain or the key that opens it
    lock,       \* pip.lock: the pid in it
    phase,      \* each process: "down", "claiming" or "serving"
    active,     \* the profile the environment of each process points at
    key,        \* session_key._key
    env,        \* PIP_DB_KEY in the environment of each process
    found,      \* history: that key is still the one the launch found there
    catchUp,    \* the catch-up thread: "idle", "check" or "open"
    req,        \* each request: where it is and what it carries
    script,     \* new_profile.py: where it is and what it carries
    salts, starts, asks     \* what the bounds count

disk == <<registered, lastUsed, salt, db>>
process == <<active, key, env, found, catchUp>>
counts == <<salts, starts, asks>>
vars == <<disk, lock, phase, process, req, script, counts>>

NoRequest == [at |-> "idle", b |-> None, moves |-> FALSE, path |-> Default, pw |-> None, cand |-> None]
NoScript == [at |-> "idle", profile |-> Default, pw |-> None]

Init ==
    /\ registered = {Default}
    /\ lastUsed = Default
    /\ salt = [p \in Profile |-> None]
    /\ \E d \in {Absent, Plain} \cup OldKey :
        db = [p \in Profile |-> IF p = Default THEN d ELSE Absent]
    /\ lock = None
    /\ phase = [b \in Backend |-> "down"]
    /\ active = [b \in Backend |-> Default]
    /\ key = [b \in Backend |-> None]
    /\ env = [b \in Backend |-> None]
    /\ found = [b \in Backend |-> FALSE]
    /\ catchUp = [b \in Backend |-> "idle"]
    /\ req = [c \in Client |-> NoRequest]
    /\ script = NoScript
    /\ salts = 0 /\ starts = 0 /\ asks = 0

-----------------------------------------------------------------------------
(* Opening a database and telling what state a launch is in                 *)

\* verify_key and get_connection: a missing file is created under the key in
\* hand (the WAL pragma writes its first page), an existing one opens with its
\* own key only.
Opens(p, k) == db[p] \in {Absent, k}
Opened(p, k) == [db EXCEPT ![p] = k]

\* session_key.state
StateOf(k, p) ==
    CASE k # None -> "unlocked"
      [] k = None /\ salt[p] # None -> "locked"
      [] k = None /\ salt[p] = None /\ db[p] = Plain -> "needs_migration"
      [] OTHER -> "setup"

State(b) == StateOf(key[b], active[b])

\* The guards of _start_catch_up: not while locked, not where opening would
\* create the database, not twice.
StartsCatchUp(b, k, p) ==
    /\ StateOf(k, p) # "locked"
    /\ k # None \/ db[p] # Absent
    /\ catchUp[b] = "idle"

StartCatchUp(b, k, p) ==
    catchUp' = [catchUp EXCEPT ![b] = IF StartsCatchUp(b, k, p) THEN "check" ELSE @]

-----------------------------------------------------------------------------
(* One backend at a time: instance_lock and the lifespan                    *)

Live(b) == phase[b] # "down"

\* As if every lock found were a stale one.
TakenOver(b) == TRUE

\* instance_lock.acquire lets a start through: no lock, a lock of its own, or
\* one whose process is gone.
Claimable(b) == lock = None \/ lock = b \/ (lock \in Backend /\ ~Live(lock))

\* A process is launched and acquire reads the lock file.  The shell may hand
\* it the paths of any profile and any key there has been, and nothing asks
\* whether the one goes with the other.
Launch(b) ==
    /\ starts < MaxStart
    /\ ~Live(b) /\ Claimable(b)
    /\ "starts" \in Unruly \/ \A c \in Backend : phase[c] # "claiming"
    /\ \E p \in registered, k \in {None} \cup OldKey \cup (Password \X (1..salts)) :
         /\ active' = [active EXCEPT ![b] = p]
         /\ env' = [env EXCEPT ![b] = k]
         /\ found' = [found EXCEPT ![b] = (k # None)]
    /\ phase' = [phase EXCEPT ![b] = "claiming"]
    /\ starts' = starts + 1
    /\ UNCHANGED <<disk, lock, key, catchUp, req, script, salts, asks>>

\* acquire writes the pid, adopt_environment_key takes a key it finds without
\* trying it on the database, and the lifespan starts the catch-up.
Claim(b) ==
    /\ phase[b] = "claiming"
    /\ lock' = b
    /\ phase' = [phase EXCEPT ![b] = "serving"]
    /\ key' = [key EXCEPT ![b] = env[b]]
    /\ StartCatchUp(b, env[b], active[b])
    /\ UNCHANGED <<disk, active, env, found, req, script, counts>>

\* The process is gone, with its key, its threads and its requests.
Gone(b) ==
    /\ phase' = [phase EXCEPT ![b] = "down"]
    /\ active' = [active EXCEPT ![b] = Default]
    /\ key' = [key EXCEPT ![b] = None]
    /\ env' = [env EXCEPT ![b] = None]
    /\ found' = [found EXCEPT ![b] = FALSE]
    /\ catchUp' = [catchUp EXCEPT ![b] = "idle"]
    /\ req' = [c \in Client |-> IF req[c].b = b THEN NoRequest ELSE req[c]]
    /\ UNCHANGED <<disk, script, counts>>

\* A clean exit runs instance_lock.release: only a lock of its own.
Exit(b) ==
    /\ phase[b] = "serving"
    /\ lock' = IF lock = b THEN None ELSE lock
    /\ Gone(b)

\* A kill or a power cut leaves the lock file behind.
Kill(b) ==
    /\ Live(b)
    /\ Gone(b)
    /\ UNCHANGED lock

-----------------------------------------------------------------------------
(* The sign-in requests                                                     *)

AuthAt == {"switch", "derive", "verify", "choose", "salt", "keep", "export", "remember", "forget", "pop"}
Requests ==
    [at : AuthAt \cup {"idle", "open"}, b : Backend \cup {None}, moves : BOOLEAN,
     path : Profile, pw : Password \cup {None}, cand : Derived \cup {None}]

Signing(c) == req[c].at \in AuthAt

\* A request that does more than open the profile the process points at.
Moves(b, op, p) == op # "unlock" \/ p # active[b]

\* What one sign-in screen keeps to, and a second client is free not to: a
\* request that signs out, chooses a password or changes profile is alone, one
\* that signs in comes from the signed-out state, and none is for a profile
\* that new_profile.py is still making.  Sign-ins to the profile the process
\* points at overlap as they like.
Mannered(b, op, p) ==
    /\ "requests" \in Unruly \/ \A c \in Client : Signing(c) => ~Moves(b, op, p) /\ ~req[c].moves
    /\ "signed in" \in Unruly \/ op = "lock" \/ key[b] = None
    /\ "script" \in Unruly \/ script = NoScript \/ script.profile \notin {p, active[b]}

Step(c, at) == req' = [req EXCEPT ![c].at = at]
Carry(c, at, k) == req' = [req EXCEPT ![c] = [@ EXCEPT !.at = at, !.cand = k]]
Done(c) == req' = [req EXCEPT ![c] = NoRequest]

\* The start of a request to an /auth route of backend b.
Ask(c, b, op, p) ==
    /\ asks < MaxAsk
    /\ req[c] = NoRequest
    /\ phase[b] = "serving"
    /\ Mannered(b, op, p)
    /\ asks' = asks + 1

\* profiles.activate: the five variables point at p.
Activate(b, p) == active' = [active EXCEPT ![b] = p]

\* POST /auth/profile is refused while a key is held ...
AskProfile(c, b, p) ==
    /\ Ask(c, b, "profile", p)
    /\ key[b] = None
    /\ p \in registered
    /\ req' = [req EXCEPT ![c] = [NoRequest EXCEPT !.at = "switch", !.b = b, !.moves = TRUE, !.path = p]]
    /\ UNCHANGED <<disk, lock, phase, process, script, salts, starts>>

\* As if the selection were already recorded as the last used.
SwitchAndRemember(c) ==
    /\ req[c].at = "switch"
    /\ Activate(req[c].b, req[c].path)
    /\ lastUsed' = req[c].path
    /\ Done(c)
    /\ UNCHANGED <<registered, salt, db, lock, phase, key, env, found, catchUp, script, counts>>

\* ... and then points the process at the profile.
Switch(c) ==
    /\ req[c].at = "switch"
    /\ Activate(req[c].b, req[c].path)
    /\ Done(c)
    /\ UNCHANGED <<disk, lock, phase, key, env, found, catchUp, script, counts>>

\* auth_unlock and auth_setup honour the profile of the request
\* (_activate_requested_profile, which does not ask whether a key is held) and
\* hand the path and the password to a worker thread.
AskToOpen(c, b, op, p, pw) ==
    /\ Ask(c, b, op, p)
    /\ p \in registered
    /\ Activate(b, p)
    /\ req' = [req EXCEPT ![c] = [at |-> IF op = "unlock" THEN "derive" ELSE "choose",
                                  b |-> b, moves |-> Moves(b, op, p),
                                  path |-> p, pw |-> pw, cand |-> None]]
    /\ UNCHANGED <<disk, lock, phase, key, env, found, catchUp, script, salts, starts>>

\* As if a missing salt were not an answer.
DeriveWithoutSalt(c) ==
    /\ req[c].at = "derive"
    /\ Carry(c, "verify", <<req[c].pw, salt[active[req[c].b]]>>)
    /\ UNCHANGED <<disk, lock, phase, process, script, counts>>

\* session_key.unlock derives a key from the salt of the paths as they are now;
\* no salt is answered as a wrong password.
Derive(c) ==
    LET s == salt[active[req[c].b]] IN
    /\ req[c].at = "derive"
    /\ \/ s = None /\ Done(c)
       \/ s # None /\ Carry(c, "verify", <<req[c].pw, s>>)
    /\ UNCHANGED <<disk, lock, phase, process, script, counts>>

\* As if the key were kept without having opened anything.
VerifyNothing(c) ==
    /\ req[c].at = "verify"
    /\ Step(c, "keep")
    /\ UNCHANGED <<disk, lock, phase, process, script, counts>>

\* verify_key opens the database of the path the request was handed.
Verify(c) ==
    LET p == req[c].path IN
    /\ req[c].at = "verify"
    /\ \/ /\ Opens(p, req[c].cand)
          /\ db' = Opened(p, req[c].cand)
          /\ Step(c, "keep")
       \/ /\ ~Opens(p, req[c].cand)
          /\ Done(c)
          /\ UNCHANGED db
    /\ UNCHANGED <<registered, lastUsed, salt, lock, phase, process, script, counts>>

\* As if only a plaintext database were in the way of a first password.
ChooseOverSalt(c) ==
    /\ req[c].at = "choose"
    /\ IF db[req[c].path] = Plain THEN Done(c) ELSE Step(c, "salt")
    /\ UNCHANGED <<disk, lock, phase, process, script, counts>>

\* set_initial_password refuses where a salt or a plaintext database is.
Choose(c) ==
    LET b == req[c].b IN
    /\ req[c].at = "choose"
    /\ IF salt[active[b]] # None \/ db[req[c].path] = Plain THEN Done(c) ELSE Step(c, "salt")
    /\ UNCHANGED <<disk, lock, phase, process, script, counts>>

\* create_salt writes, over whatever is there, and the key is derived from it.
CreateSalt(c) ==
    LET p == active[req[c].b] IN
    /\ req[c].at = "salt"
    /\ salts < MaxSalt
    /\ salts' = salts + 1
    /\ salt' = [salt EXCEPT ![p] = salts + 1]
    /\ Carry(c, "keep", <<req[c].pw, salts + 1>>)
    /\ UNCHANGED <<registered, lastUsed, db, lock, phase, process, script, starts, asks>>

\* The key is kept, ...
Keep(c) ==
    /\ req[c].at = "keep"
    /\ key' = [key EXCEPT ![req[c].b] = req[c].cand]
    /\ Step(c, "export")
    /\ UNCHANGED <<disk, lock, phase, active, env, found, catchUp, script, counts>>

\* ... then put into the environment, ...
Export(c) ==
    /\ req[c].at = "export"
    /\ env' = [env EXCEPT ![req[c].b] = req[c].cand]
    /\ found' = [found EXCEPT ![req[c].b] = FALSE]
    /\ Step(c, "remember")
    /\ UNCHANGED <<disk, lock, phase, active, key, catchUp, script, counts>>

\* ... and back on the event loop the profile is recorded as the last used and
\* the catch-up is started.
Remember(c) ==
    LET b == req[c].b IN
    /\ req[c].at = "remember"
    /\ lastUsed' = IF active[b] \in registered THEN active[b] ELSE lastUsed
    /\ StartCatchUp(b, key[b], active[b])
    /\ Done(c)
    /\ UNCHANGED <<registered, salt, db, lock, phase, active, key, env, found, script, counts>>

\* POST /auth/lock passes the gate unless locked; the transcripts are queued
\* first (SessionLifecycle), ...
AskLock(c, b) ==
    /\ Ask(c, b, "lock", active[b])
    /\ State(b) # "locked"
    /\ req' = [req EXCEPT ![c] = [NoRequest EXCEPT !.at = "forget", !.b = b, !.moves = TRUE]]
    /\ UNCHANGED <<disk, lock, phase, process, script, salts, starts>>

\* ... then session_key.lock forgets the key ...
Forget(c) ==
    /\ req[c].at = "forget"
    /\ key' = [key EXCEPT ![req[c].b] = None]
    /\ Step(c, "pop")
    /\ UNCHANGED <<disk, lock, phase, active, env, found, catchUp, script, counts>>

\* ... and takes it out of the environment.
Pop(c) ==
    /\ req[c].at = "pop"
    /\ env' = [env EXCEPT ![req[c].b] = None]
    /\ found' = [found EXCEPT ![req[c].b] = FALSE]
    /\ Done(c)
    /\ UNCHANGED <<disk, lock, phase, active, key, catchUp, script, counts>>

-----------------------------------------------------------------------------
(* What opens the database: _conn, from a route or from the catch-up        *)

\* open_app_connection with the path and the key of the environment: a file
\* that does not open raises, a missing one is created.
Connect(b) ==
    LET p == active[b]
        k == IF env[b] = None THEN Plain ELSE env[b]
    IN  db' = IF Opens(p, k) THEN Opened(p, k) ELSE db

\* A request to any other route, past the gate that refuses while locked only.
Route(c, b) ==
    /\ req[c] = NoRequest
    /\ phase[b] = "serving"
    /\ State(b) # "locked"
    /\ req' = [req EXCEPT ![c] = [NoRequest EXCEPT !.at = "open", !.b = b]]
    /\ UNCHANGED <<disk, lock, phase, process, script, counts>>

RouteOpens(c) ==
    /\ req[c].at = "open"
    /\ Connect(req[c].b)
    /\ Done(c)
    /\ UNCHANGED <<registered, lastUsed, salt, lock, phase, process, script, counts>>

\* The catch-up thread: _conn refuses while locked, and opens otherwise.
CatchUpChecks(b) ==
    /\ catchUp[b] = "check"
    /\ catchUp' = [catchUp EXCEPT ![b] = IF State(b) = "locked" THEN "idle" ELSE "open"]
    /\ UNCHANGED <<disk, lock, phase, active, key, env, found, req, script, counts>>

CatchUpOpens(b) ==
    /\ catchUp[b] = "open"
    /\ Connect(b)
    /\ catchUp' = [catchUp EXCEPT ![b] = "idle"]
    /\ UNCHANGED <<registered, lastUsed, salt, lock, phase, active, key, env, found, req, script, counts>>

-----------------------------------------------------------------------------
(* scripts/new_profile.py, in a process of its own                          *)

\* profiles.register refuses a name that is taken.
Register(p, pw) ==
    /\ script = NoScript
    /\ p \notin registered
    /\ registered' = registered \cup {p}
    /\ script' = [at |-> "salt", profile |-> p, pw |-> pw]
    /\ UNCHANGED <<lastUsed, salt, db, lock, phase, process, req, counts>>

\* Salt first: create_salt asks nothing ...
ScriptSalts ==
    /\ script.at = "salt"
    /\ salts < MaxSalt
    /\ "script" \in Unruly \/ \A b \in Backend : active[b] # script.profile
    /\ salts' = salts + 1
    /\ salt' = [salt EXCEPT ![script.profile] = salts + 1]
    /\ script' = [script EXCEPT !.at = "create"]
    /\ UNCHANGED <<registered, lastUsed, db, lock, phase, process, req, starts, asks>>

\* ... then the database, under the key of that password and that salt.
ScriptCreates ==
    LET p == script.profile
        k == <<script.pw, salt[p]>>
    IN
    /\ script.at = "create"
    /\ db' = IF Opens(p, k) THEN Opened(p, k) ELSE db
    /\ script' = NoScript
    /\ UNCHANGED <<registered, lastUsed, salt, lock, phase, process, req, counts>>

\* The password prompt is left, or the script is killed.
ScriptStops ==
    /\ script # NoScript
    /\ script' = NoScript
    /\ UNCHANGED <<disk, lock, phase, process, req, counts>>

-----------------------------------------------------------------------------
Process(b) == Launch(b) \/ Claim(b) \/ Exit(b) \/ Kill(b) \/ CatchUpChecks(b) \/ CatchUpOpens(b)

Request(c) ==
    \/ Switch(c) \/ Derive(c) \/ Verify(c) \/ Choose(c) \/ CreateSalt(c)
    \/ Keep(c) \/ Export(c) \/ Remember(c) \/ Forget(c) \/ Pop(c) \/ RouteOpens(c)

Asked(c, b) ==
    \/ \E p \in Profile : AskProfile(c, b, p)
    \/ \E p \in Profile, pw \in Password, op \in {"unlock", "setup"} : AskToOpen(c, b, op, p, pw)
    \/ AskLock(c, b)
    \/ Route(c, b)

Script ==
    \/ \E p \in Profile, pw \in Password : Register(p, pw)
    \/ ScriptSalts \/ ScriptCreates \/ ScriptStops

Next ==
    \/ \E b \in Backend : Process(b)
    \/ \E c \in Client : Request(c)
    \/ \E c \in Client, b \in Backend : Asked(c, b)
    \/ Script

Spec == Init /\ [][Next]_vars

-----------------------------------------------------------------------------
(* Properties                                                               *)

TypeOK ==
    /\ registered \subseteq Profile /\ lastUsed \in Profile
    /\ salt \in [Profile -> Salt \cup {None}]
    /\ db \in [Profile -> Key \cup {Absent, Plain}]
    /\ lock \in Backend \cup {None}
    /\ phase \in [Backend -> {"down", "claiming", "serving"}]
    /\ active \in [Backend -> Profile]
    /\ key \in [Backend -> Key \cup {None}]
    /\ env \in [Backend -> Key \cup {None}]
    /\ found \in [Backend -> BOOLEAN]
    /\ catchUp \in [Backend -> {"idle", "check", "open"}]
    /\ req \in [Client -> Requests]
    /\ script \in [at : {"idle", "salt", "create"}, profile : Profile, pw : Password \cup {None}]
    /\ salts \in 0..MaxSalt /\ starts \in 0..MaxStart /\ asks \in 0..MaxAsk

\* At most one backend has the lock and serves, whatever was killed and left
\* its lock behind, as long as two starts do not overlap: acquire reads the
\* file and writes it in two steps (instance_lock.py:118).
OneBackend ==
    \A b, c \in Backend : phase[b] = "serving" /\ phase[c] = "serving" => b = c

\* A database within reach of its password: the salt beside it is the salt of
\* its key.  Nothing else on disk can give the key back.
Reachable(p) == db[p] \in Derived /\ salt[p] = db[p][2]

\* A key that came from a sign-in goes with the salt of the profile the process
\* points at, and where that profile's database is within reach of a password
\* it is the key that opens it: never "one profile's key aimed at another
\* profile's files" (profiles.activate).  Nothing is said of a key the launch
\* found in the environment, nor of a database no password reaches: there
\* set_initial_password keeps a key that opens nothing (session_key.py:211).
KeyIsForActive ==
    \A b \in Backend : key[b] # None /\ ~found[b] =>
        /\ key[b] \in Derived /\ salt[active[b]] = key[b][2]
        /\ Reachable(active[b]) => db[active[b]] = key[b]

\* A key that came from a sign-in opens the database of the active profile, if
\* there is one ("This runs after a key has been proven to open the database",
\* server.py:1638).  It does not hold: a set-up over an encrypted database with
\* no salt, one of the random-key era, keeps a key that opens nothing.
KeyOpens ==
    \A b \in Backend : key[b] # None /\ ~found[b] => db[active[b]] \in {Absent, key[b]}

\* A database within reach of its password stays so, and a database that is
\* created encrypted is within reach, unless a process that runs on the key its
\* launch found created it: create_salt writes over what is there
\* (db_key.create_salt, set_initial_password, new_profile).
DataStaysReachable ==
    [][\A p \in Profile :
        /\ Reachable(p) => Reachable(p)'
        /\ db[p] = Absent /\ db'[p] \in Key =>
            Reachable(p)' \/ \E b \in Backend : active[b] = p /\ found[b]]_vars

\* The profile on record as the last used is only ever replaced by the active
\* profile of a sign-in whose key goes with the salt beside that profile's
\* database and, where a password reaches the database, opens it: never by one
\* that was merely selected or met with a wrong password (_remember_profile).
LastUsedWasSignedIn ==
    [][lastUsed' # lastUsed =>
        \E c \in Client : /\ req[c].cand # None
                          /\ active[req[c].b] = lastUsed'
                          /\ salt[lastUsed'] = req[c].cand[2]
                          /\ Reachable(lastUsed') => db[lastUsed'] = req[c].cand]_vars
=============================================================================
