---------------------------- MODULE SignInProofs ----------------------------
(***************************************************************************)
(* What SignIn keeps to for every number of profiles, passwords, processes   *)
(* and requests: its types, one backend at a time, and, where the world      *)
(* outside takes turns, a key of a sign-in that is never aimed at another    *)
(* profile's files, data that stays within reach of its password, and a      *)
(* record of the last profile that is only replaced by one signed in to.     *)
(***************************************************************************)
EXTENDS SignIn, TLAPS

-----------------------------------------------------------------------------
(* The shape of the requests and of the script                              *)

\* The steps at which a request has a key in hand.
CarriesAt == {"keep", "export", "remember"}
OpeningAt == {"derive", "verify", "choose", "salt"} \cup CarriesAt

\* A request belongs to a process from its first step, and has the password
\* and the key its steps read.
Formed ==
    {r \in Requests :
        /\ r.at = "idle" => r = NoRequest
        /\ r.at # "idle" => r.b \in Backend
        /\ r.at \in OpeningAt => r.pw \in Password
        /\ r.at \in CarriesAt \cup {"verify"} => r.cand \in Derived}

\* The script has written its salt before it creates a database.
ScriptFormed ==
    /\ script.at = "idle" => script = NoScript
    /\ script.at # "idle" => script.pw \in Password
    /\ script.at = "create" => salt[script.profile] \in Salt

Typed == TypeOK /\ req \in [Client -> Formed] /\ ScriptFormed

LEMMA Bounds == MaxSalt \in Nat /\ MaxStart \in Nat /\ MaxAsk \in Nat /\ Default \in Profile
  BY SignInAssumption

\* What a step makes of a request is a request.
LEMMA NothingFormed == NoRequest \in Formed
  BY Bounds DEF Formed, Requests, NoRequest, OpeningAt, CarriesAt

LEMMA StepFormed ==
    ASSUME NEW r \in Formed, NEW at \in AuthAt, r.at # "idle",
           at \in OpeningAt => r.pw \in Password,
           at \in CarriesAt \cup {"verify"} => r.cand \in Derived
    PROVE  [r EXCEPT !.at = at] \in Formed
  BY DEF Formed, Requests, AuthAt

LEMMA CarryFormed ==
    ASSUME NEW r \in Formed, NEW at \in AuthAt, NEW k \in Derived, r.at # "idle",
           at \in OpeningAt => r.pw \in Password
    PROVE  [r EXCEPT !.at = at, !.cand = k] \in Formed
  BY DEF Formed, Requests, AuthAt

LEMMA FormedAreRequests == [Client -> Formed] \subseteq [Client -> Requests]
  BY DEF Formed

LEMMA InitTyped == Init => Typed
<1> SUFFICES ASSUME Init PROVE Typed
  OBVIOUS
<1>1. req \in [Client -> Formed]
  BY NothingFormed DEF Init
<1>2. TypeOK
  BY Bounds, <1>1, FormedAreRequests DEF Init, TypeOK, NoScript, Key
<1>3. ScriptFormed
  BY DEF Init, ScriptFormed, NoScript
<1> QED
  BY <1>1, <1>2, <1>3 DEF Typed

\* The steps of a process.
LEMMA ProcessTyped ==
    ASSUME NEW b \in Backend, Typed, Process(b)
    PROVE  Typed'
<1> USE DEF Typed, TypeOK, ScriptFormed, disk, counts
<1>1. CASE Launch(b)
  <2>1. Password \X (1..salts) \subseteq Key
    BY Bounds DEF Key, Derived, Salt
  <2> QED
    BY <1>1, <2>1, Bounds DEF Launch, Key
<1>2. CASE Claim(b)
  BY <1>2 DEF Claim, StartCatchUp
<1>3. ASSUME Gone(b), lock' \in Backend \cup {None} PROVE Typed'
  <2>1. req' \in [Client -> Formed]
    BY <1>3, NothingFormed DEF Gone
  <2> QED
    BY <1>3, <2>1, FormedAreRequests, Bounds DEF Gone
<1>4. CASE Exit(b) \/ Kill(b)
  BY <1>3, <1>4 DEF Exit, Kill
<1>5. CASE CatchUpChecks(b)
  BY <1>5 DEF CatchUpChecks
<1>6. CASE CatchUpOpens(b)
  BY <1>6 DEF CatchUpOpens, Connect, Opened
<1> QED
  BY <1>1, <1>2, <1>4, <1>5, <1>6 DEF Process

\* A step of a request leaves the script alone, and every other variable in
\* its type.
LEMMA RequestTyped ==
    ASSUME NEW c \in Client, Typed, Request(c)
    PROVE  Typed'
<1> USE DEF Typed, disk, process, counts, Done, Step
<1> DEFINE r == req[c]
<1>0. /\ r \in Formed /\ r \in Requests
      /\ r.path \in Profile
      /\ r.at # "idle" => r.b \in Backend /\ active[r.b] \in Profile
  BY DEF Formed, Requests, TypeOK
<1>1. CASE Switch(c)
  <2>1. req' \in [Client -> Formed]
    BY <1>1, NothingFormed DEF Switch
  <2>2. active' \in [Backend -> Profile]
    BY <1>0, <1>1 DEF Switch, Activate, TypeOK
  <2> QED
    BY <1>1, <2>1, <2>2, FormedAreRequests DEF Switch, TypeOK, ScriptFormed
<1>2. CASE Derive(c)
  <2> DEFINE s == salt[active[r.b]]
  <2>1. r.pw \in Password /\ s \in Salt \cup {None}
    BY <1>0, <1>2 DEF Derive, Formed, OpeningAt, TypeOK
  <2>2. req' \in [Client -> Formed]
    <3>1. CASE s = None
      BY <1>2, <3>1, NothingFormed DEF Derive
    <3>2. CASE s # None
      <4>1. <<r.pw, s>> \in Derived
        BY <2>1, <3>2 DEF Derived
      <4>2. [r EXCEPT !.at = "verify", !.cand = <<r.pw, s>>] \in Formed
        BY <1>0, <1>2, <2>1, <4>1, CarryFormed DEF Derive, AuthAt
      <4> QED
        BY <1>2, <3>2, <4>2 DEF Derive, Carry
    <3> QED
      BY <3>1, <3>2
  <2> QED
    BY <1>2, <2>2, FormedAreRequests DEF Derive, TypeOK, ScriptFormed
<1>3. CASE Verify(c)
  <2>1. r.cand \in Derived /\ r.at = "verify" /\ r.pw \in Password
    BY <1>0, <1>3 DEF Verify, Formed, OpeningAt
  <2>2. [r EXCEPT !.at = "keep"] \in Formed
    BY <1>0, <2>1, StepFormed DEF AuthAt
  <2>3. req' \in [Client -> Formed]
    BY <1>3, <2>2, NothingFormed DEF Verify
  <2>4. db' \in [Profile -> Key \cup {Absent, Plain}]
    BY <1>0, <1>3, <2>1 DEF Verify, Opened, TypeOK, Key
  <2> QED
    BY <1>3, <2>3, <2>4, FormedAreRequests DEF Verify, TypeOK, ScriptFormed
<1>4. CASE Choose(c)
  <2>1. r.at = "choose" /\ r.pw \in Password
    BY <1>0, <1>4 DEF Choose, Formed, OpeningAt
  <2>2. [r EXCEPT !.at = "salt"] \in Formed
    BY <1>0, <2>1, StepFormed DEF AuthAt, CarriesAt
  <2>3. req' \in [Client -> Formed]
    BY <1>4, <2>2, NothingFormed DEF Choose
  <2> QED
    BY <1>4, <2>3, FormedAreRequests DEF Choose, TypeOK, ScriptFormed
<1>5. CASE CreateSalt(c)
  <2>1. salts' \in 0..MaxSalt /\ salts + 1 \in Salt
    BY <1>5, Bounds DEF CreateSalt, Salt, TypeOK
  <2>2. r.at = "salt" /\ r.pw \in Password /\ active[r.b] \in Profile
    BY <1>0, <1>5 DEF CreateSalt, Formed, OpeningAt
  <2>3. <<r.pw, salts + 1>> \in Derived
    BY <2>1, <2>2 DEF Derived
  <2>4. [r EXCEPT !.at = "keep", !.cand = <<r.pw, salts + 1>>] \in Formed
    BY <1>0, <2>2, <2>3, CarryFormed DEF AuthAt
  <2>5. req' \in [Client -> Formed]
    BY <1>5, <2>4 DEF CreateSalt, Carry
  <2>6. salt' \in [Profile -> Salt \cup {None}]
    BY <1>5, <2>1 DEF CreateSalt, TypeOK
  <2>7. ScriptFormed'
    BY <1>5, <2>1, <2>2 DEF CreateSalt, ScriptFormed, TypeOK
  <2> QED
    BY <1>5, <2>1, <2>5, <2>6, <2>7, FormedAreRequests DEF CreateSalt, TypeOK
<1>6. ASSUME NEW at \in {"export", "remember", "pop"}, Step(c, at),
             r.at # "idle", at # "pop" => r.at \in CarriesAt
      PROVE  req' \in [Client -> Formed]
  <2>1. [r EXCEPT !.at = at] \in Formed
    <3>1. at \in OpeningAt \cup {"verify"} => r.pw \in Password /\ r.cand \in Derived
      BY <1>0, <1>6 DEF Formed, OpeningAt, CarriesAt
    <3>2. at \in AuthAt
      BY DEF AuthAt
    <3> QED
      BY <1>0, <1>6, <3>1, <3>2, StepFormed DEF OpeningAt
  <2> QED
    BY <1>6, <2>1
<1>7. CASE Keep(c)
  <2>1. r.cand \in Derived /\ req' \in [Client -> Formed]
    BY <1>0, <1>6, <1>7 DEF Keep, Formed, CarriesAt
  <2> QED
    BY <1>7, <2>1, FormedAreRequests DEF Key, Keep, TypeOK, ScriptFormed
<1>8. CASE Export(c)
  <2>1. r.cand \in Derived /\ req' \in [Client -> Formed]
    BY <1>0, <1>6, <1>8 DEF Export, Formed, CarriesAt
  <2> QED
    BY <1>8, <2>1, FormedAreRequests DEF Key, Export, TypeOK, ScriptFormed
<1>9. CASE Remember(c)
  <2>1. req' \in [Client -> Formed]
    BY <1>9, NothingFormed DEF Remember
  <2> QED
    BY <1>0, <1>9, <2>1, FormedAreRequests DEF Remember, StartCatchUp, TypeOK, ScriptFormed
<1>10. CASE Forget(c)
  <2>1. req' \in [Client -> Formed]
    BY <1>6, <1>10 DEF Forget
  <2> QED
    BY <1>10, <2>1, FormedAreRequests DEF Forget, TypeOK, ScriptFormed
<1>11. CASE Pop(c)
  <2>1. req' \in [Client -> Formed]
    BY <1>11, NothingFormed DEF Pop
  <2> QED
    BY <1>11, <2>1, FormedAreRequests DEF Pop, TypeOK, ScriptFormed
<1>12. CASE RouteOpens(c)
  <2>1. req' \in [Client -> Formed]
    BY <1>12, NothingFormed DEF RouteOpens
  <2>2. db' \in [Profile -> Key \cup {Absent, Plain}]
    BY <1>0, <1>12 DEF RouteOpens, Connect, Opened, TypeOK
  <2> QED
    BY <1>12, <2>1, <2>2, FormedAreRequests DEF RouteOpens, TypeOK, ScriptFormed
<1> QED
  BY <1>1, <1>2, <1>3, <1>4, <1>5, <1>7, <1>8, <1>9, <1>10, <1>11, <1>12 DEF Request

\* The starts of the requests.
LEMMA AskedTyped ==
    ASSUME NEW c \in Client, NEW b \in Backend, Typed, Asked(c, b)
    PROVE  Typed'
<1> USE DEF Typed, disk, process
<1>1. ASSUME asks < MaxAsk, asks' = asks + 1
      PROVE  asks' \in 0..MaxAsk
  BY <1>1, Bounds DEF Ask, TypeOK
<1>2. ASSUME NEW p \in Profile, AskProfile(c, b, p)
      PROVE  Typed'
  <2>1. [NoRequest EXCEPT !.at = "switch", !.b = b, !.moves = TRUE, !.path = p] \in Formed
    BY Bounds DEF Formed, Requests, NoRequest, AuthAt, OpeningAt, CarriesAt
  <2>2. req' \in [Client -> Formed]
    BY <1>2, <2>1 DEF AskProfile
  <2> QED
    BY <1>1, <1>2, <2>2, FormedAreRequests DEF AskProfile, Ask, TypeOK, ScriptFormed
<1>3. ASSUME NEW p \in Profile, NEW pw \in Password, NEW op \in {"unlock", "setup"}, AskToOpen(c, b, op, p, pw)
      PROVE  Typed'
  <2>1. Moves(b, op, p) \in BOOLEAN
    BY DEF Moves
  <2>2. [at |-> IF op = "unlock" THEN "derive" ELSE "choose", b |-> b, moves |-> Moves(b, op, p),
         path |-> p, pw |-> pw, cand |-> None] \in Formed
    BY <2>1 DEF Formed, Requests, NoRequest, AuthAt, OpeningAt, CarriesAt
  <2>3. req' \in [Client -> Formed]
    BY <1>3, <2>2 DEF AskToOpen
  <2> QED
    BY <1>1, <1>3, <2>3, FormedAreRequests DEF AskToOpen, Ask, Activate, TypeOK, ScriptFormed
<1>4. CASE AskLock(c, b)
  <2>1. [NoRequest EXCEPT !.at = "forget", !.b = b, !.moves = TRUE] \in Formed
    BY Bounds DEF Formed, Requests, NoRequest, AuthAt, OpeningAt, CarriesAt
  <2>2. req' \in [Client -> Formed]
    BY <1>4, <2>1 DEF AskLock
  <2> QED
    BY <1>1, <1>4, <2>2, FormedAreRequests DEF AskLock, Ask, TypeOK, ScriptFormed
<1>5. CASE Route(c, b)
  <2>1. [NoRequest EXCEPT !.at = "open", !.b = b] \in Formed
    BY Bounds DEF Formed, Requests, NoRequest, AuthAt, OpeningAt, CarriesAt
  <2>2. req' \in [Client -> Formed]
    BY <1>5, <2>1 DEF Route
  <2> QED
    BY <1>5, <2>2, FormedAreRequests DEF Route, counts, TypeOK, ScriptFormed
<1> QED
  BY <1>2, <1>3, <1>4, <1>5 DEF Asked

\* The steps of the script.
LEMMA ScriptTyped ==
    ASSUME Typed, Script
    PROVE  Typed'
<1> USE Bounds DEF Typed, TypeOK, ScriptFormed, disk, process, counts, NoScript
<1>1. ASSUME NEW p \in Profile, NEW pw \in Password, Register(p, pw)
      PROVE  Typed'
  BY <1>1 DEF Register
<1>2. CASE ScriptSalts
  BY <1>2 DEF ScriptSalts, Salt
<1>3. CASE ScriptCreates
  BY <1>3 DEF ScriptCreates, Opened, Key, Derived
<1>4. CASE ScriptStops
  BY <1>4 DEF ScriptStops
<1> QED
  BY <1>1, <1>2, <1>3, <1>4 DEF Script

LEMMA NextTyped == ASSUME Typed, [Next]_vars PROVE Typed'
<1>1. CASE UNCHANGED vars
  BY <1>1 DEF Typed, TypeOK, ScriptFormed, vars, disk, process, counts
<1>2. CASE Next
  BY <1>2, ProcessTyped, RequestTyped, AskedTyped, ScriptTyped DEF Next
<1> QED
  BY <1>1, <1>2

\* Every variable, whatever is opened and by whom, has its type, and no
\* request reads a password or a key that was never given to it.
THEOREM TypeCorrect == Spec => []TypeOK
  BY InitTyped, NextTyped, PTL DEF Spec, Typed

-----------------------------------------------------------------------------
(* One backend                                                              *)

\* Of the processes that run there is one, and the one that serves holds the
\* lock.
OneLive ==
    /\ \A b, c \in Backend : Live(b) /\ Live(c) => b = c
    /\ \A b \in Backend : phase[b] = "serving" => lock = b

LEMMA InitOneLive == Init => OneLive
  BY DEF Init, OneLive, Live

\* Only the steps of a process move its phase or the lock.
LEMMA NextOneLive ==
    ASSUME "starts" \notin Unruly, TypeOK, OneLive, [Next]_vars
    PROVE  OneLive'
<1>1. ASSUME UNCHANGED <<lock, phase>> PROVE OneLive'
  BY <1>1 DEF OneLive, Live
<1>2. ASSUME NEW b \in Backend, Process(b) PROVE OneLive'
  <2>1. CASE Launch(b)
    <3>1. \A c \in Backend : ~Live(c)
      <4> SUFFICES ASSUME NEW c \in Backend, Live(c) PROVE FALSE
        OBVIOUS
      <4>1. phase[c] = "serving"
        BY <2>1 DEF Launch, Live, TypeOK
      <4>2. lock = c
        BY <4>1 DEF OneLive
      <4> QED
        BY <2>1, <4>2, SignInAssumption DEF Launch, Claimable
    <3> QED
      BY <2>1, <3>1 DEF Launch, OneLive, Live, TypeOK
  <2>2. CASE Claim(b)
    BY <2>2 DEF Claim, OneLive, Live, TypeOK
  <2>3. CASE Exit(b) \/ Kill(b)
    <3>1. phase' = [phase EXCEPT ![b] = "down"] /\ Live(b)
      BY <2>3 DEF Exit, Kill, Gone, Live
    <3>2. \A c \in Backend : ~Live(c)'
      BY <3>1 DEF OneLive, Live, TypeOK
    <3> QED
      BY <3>2 DEF OneLive, Live
  <2>4. CASE CatchUpChecks(b) \/ CatchUpOpens(b)
    BY <1>1, <2>4 DEF CatchUpChecks, CatchUpOpens
  <2> QED
    BY <1>2, <2>1, <2>2, <2>3, <2>4 DEF Process
<1>3. ASSUME NEW c \in Client, Request(c) PROVE UNCHANGED <<lock, phase>>
  BY <1>3 DEF Request, Switch, Derive, Verify, Choose, CreateSalt, Keep, Export, Remember, Forget, Pop, RouteOpens
<1>4. ASSUME NEW c \in Client, NEW b \in Backend, Asked(c, b) PROVE UNCHANGED <<lock, phase>>
  BY <1>4 DEF Asked, AskProfile, AskToOpen, AskLock, Route
<1>5. CASE Script
  BY <1>1, <1>5 DEF Script, Register, ScriptSalts, ScriptCreates, ScriptStops
<1>6. CASE UNCHANGED vars
  BY <1>1, <1>6 DEF vars
<1> QED
  BY <1>1, <1>2, <1>3, <1>4, <1>5, <1>6 DEF Next

\* Whatever was killed and left its lock behind, two backends never serve side
\* by side, as long as two starts do not overlap.
THEOREM OneServes ==
    ASSUME "starts" \notin Unruly
    PROVE  Spec => []OneBackend
<1>1. TypeOK /\ OneLive /\ [Next]_vars => OneLive'
  BY NextOneLive
<1>2. OneLive => OneBackend
  BY DEF OneLive, OneBackend, Live
<1> QED
  BY <1>1, <1>2, InitOneLive, TypeCorrect, PTL DEF Spec

-----------------------------------------------------------------------------
(* The keys                                                                 *)

\* A request is served by a process that serves; a process that is down has
\* nothing, one that is starting has no key and no thread yet.
Served ==
    /\ \A c \in Client : req[c].at # "idle" => phase[req[c].b] = "serving"
    /\ \A b \in Backend : phase[b] = "down" => env[b] = None
    /\ \A b \in Backend : phase[b] # "serving" => key[b] = None /\ catchUp[b] = "idle"

\* Only what is listed is opened, and nothing is on disk for the others.
Listed ==
    /\ Default \in registered
    /\ \A b \in Backend : active[b] \in registered
    /\ \A c \in Client : req[c].path \in registered
    /\ script.profile \in registered
    /\ \A p \in Profile \ registered : db[p] = Absent /\ salt[p] = None

\* Every salt that anything was made with has been written.
Written ==
    /\ \A p \in Profile : salt[p] # None => salt[p] \in 1..salts
    /\ \A p \in Profile : db[p] \in Derived => db[p][2] \in 1..salts
    /\ \A b \in Backend : env[b] \in Derived => env[b][2] \in 1..salts
    /\ \A c \in Client : req[c].at \in CarriesAt \cup {"verify"} => req[c].cand[2] \in 1..salts

\* Turns: a request that moves the process is alone, and the requests that do
\* more than sign in move it.
Turns ==
    /\ \A c, d \in Client :
        Signing(c) /\ Signing(d) /\ c # d => ~req[c].moves
    /\ \A c \in Client :
        req[c].at \in {"switch", "choose", "salt", "forget", "pop"} => req[c].moves

\* The process still points at the profile the request was made for.
OnActive ==
    \A c \in Client : req[c].at \in OpeningAt => req[c].path = active[req[c].b]

\* As long as the environment has the key the launch found there, nobody has
\* signed in and nobody can: a sign-out comes first, and takes it out.
AsLaunched ==
    \A b \in Backend : found[b] =>
        /\ env[b] # None
        /\ \A c \in Client : req[c].b = b => req[c].at \in {"idle", "open", "forget", "pop"}

\* The script and the sign-in requests are about different profiles, and the
\* profile being made has no salt yet and no key of a sign-in in use.
Apart ==
    script.at # "idle" =>
        /\ \A c \in Client : Signing(c) => script.profile # active[req[c].b]
        /\ \A c \in Client : req[c].at = "switch" => script.profile # req[c].path
        /\ script.at = "salt" => salt[script.profile] = None
        /\ \A b \in Backend : active[b] = script.profile =>
            found[b] \/ (key[b] = None /\ env[b] = None)

\* What a key of a sign-in is: derived from the salt of the active profile,
\* whose database it opens if a password does.
Fits(k, p) ==
    /\ k \in Derived /\ salt[p] = k[2]
    /\ Reachable(p) => db[p] = k

Fitting ==
    /\ \A b \in Backend : ~found[b] /\ key[b] # None => Fits(key[b], active[b])
    /\ \A b \in Backend : ~found[b] /\ env[b] # None => Fits(env[b], active[b])
    /\ \A c \in Client : req[c].at \in CarriesAt => Fits(req[c].cand, active[req[c].b])
    /\ \A c \in Client : req[c].at = "verify" => salt[active[req[c].b]] = req[c].cand[2]

\* The keys of a process, held, exported or in a request's hand, are one key.
OneKey ==
    /\ \A b \in Backend : key[b] # None /\ env[b] # None => key[b] = env[b]
    /\ \A c \in Client : req[c].at \in CarriesAt =>
        /\ key[req[c].b] \in {None, req[c].cand}
        /\ env[req[c].b] \in {None, req[c].cand}
    /\ \A c, d \in Client :
        req[c].at \in CarriesAt /\ req[d].at \in CarriesAt => req[c].cand = req[d].cand

\* While a sign-in is still to open the database, whatever key is in use has
\* opened it already, so it cannot be sealed with another; a request that did
\* not choose the password has opened the database with the key it carries.
Sealed ==
    /\ \A c \in Client : req[c].at \in {"derive", "verify"} =>
        /\ key[req[c].b] \in {None, db[active[req[c].b]]}
        /\ env[req[c].b] \in {None, db[active[req[c].b]]}
        /\ \A d \in Client : req[d].at \in CarriesAt => req[d].cand = db[active[req[c].b]]
    /\ \A c \in Client : req[c].at \in CarriesAt /\ ~req[c].moves =>
        db[active[req[c].b]] = req[c].cand

\* Signing in and out, step by step: what a request has done by the time it is
\* at a step, and that the environment differs from the key held only between
\* the two assignments.
Steps ==
    /\ \A c \in Client : req[c].at \in {"switch", "choose", "salt"} =>
        key[req[c].b] = None /\ env[req[c].b] = None
    /\ \A c \in Client : req[c].at = "salt" => salt[active[req[c].b]] = None
    /\ \A c \in Client : req[c].at \in {"export", "remember"} => key[req[c].b] = req[c].cand
    /\ \A c \in Client : req[c].at = "pop" => key[req[c].b] = None
    /\ \A b \in Backend : phase[b] = "serving" /\ env[b] # key[b] =>
        \E c \in Client : req[c].at \in {"export", "pop"}

Consistent ==
    /\ Served /\ Listed /\ Written /\ Turns /\ OnActive /\ AsLaunched /\ Apart
    /\ Fitting /\ OneKey /\ Sealed /\ Steps

Orderly == Typed /\ OneLive /\ Consistent

-----------------------------------------------------------------------------
(* What the steps rest on                                                   *)

\* The variables that are updated at a point are functions.
LEMMA Functions ==
    ASSUME Orderly
    PROVE  /\ DOMAIN req = Client /\ DOMAIN db = Profile /\ DOMAIN salt = Profile
           /\ DOMAIN active = Backend /\ DOMAIN key = Backend /\ DOMAIN env = Backend
           /\ DOMAIN found = Backend /\ DOMAIN phase = Backend /\ DOMAIN catchUp = Backend
  BY DEF Orderly, Consistent, Typed, TypeOK

\* All that happens happens in the one process that lives.
LEMMA OneProcess ==
    ASSUME Orderly, NEW b \in Backend, Live(b)
    PROVE  /\ \A d \in Client : req[d].at # "idle" => req[d].b = b
           /\ \A a \in Backend \ {b} : phase[a] = "down" /\ key[a] = None /\ env[a] = None
  BY DEF Orderly, Consistent, Typed, TypeOK, Formed, OneLive, Served, Live

\* A request is served by that process.
LEMMA ItsProcess ==
    ASSUME Orderly, NEW c \in Client, req[c].at # "idle"
    PROVE  /\ req[c].b \in Backend /\ active[req[c].b] \in Profile
           /\ phase[req[c].b] = "serving" /\ Live(req[c].b)
           /\ \A d \in Client : req[d].at # "idle" => req[d].b = req[c].b
           /\ \A a \in Backend \ {req[c].b} : phase[a] = "down" /\ key[a] = None /\ env[a] = None
  BY OneProcess DEF Orderly, Consistent, Typed, TypeOK, Formed, Served, Live

\* A key is no marker, and a derived one has a password and a salt.
LEMMA KeysAreKeys ==
    ASSUME NEW k \in Key
    PROVE  /\ k \notin {None, Absent, Plain}
           /\ k \in Derived => k[1] \in Password /\ k[2] \in Salt /\ k[2] # None
  BY SignInAssumption DEF Key, Derived, Salt

-----------------------------------------------------------------------------
(* The steps, one lemma each                                                *)

\* A connection creates a missing database under the key of the environment,
\* which is the one its salt was made for unless the launch found it, or in
\* plain text.
LEMMA ConnectKeeps ==
    ASSUME Orderly, NEW b \in Backend, phase[b] = "serving", Connect(b),
           UNCHANGED <<registered, salt, salts, phase, active, key, env, found, script>>,
           \A a \in Backend : phase[a] # "serving" => catchUp'[a] = "idle",
           DOMAIN req' = Client,
           \A d \in Client : req'[d] = req[d] \/ (req[d].at = "open" /\ req'[d] = NoRequest)
    PROVE  Consistent'
<1> USE DEF Orderly, Consistent, NoRequest
<1> DEFINE p == active[b]
<1> DEFINE k == IF env[b] = None THEN Plain ELSE env[b]
<1>1. p \in Profile /\ Live(b)
  BY DEF Typed, TypeOK, Live
<1>2. /\ \A d \in Client : req[d].at # "idle" => req[d].b = b
      /\ \A a \in Backend \ {b} : phase[a] = "down" /\ key[a] = None /\ env[a] = None
  BY <1>1, OneProcess
<1>3. \A q \in Profile : \/ db'[q] = db[q]
                         \/ q = p /\ db[p] = Absent /\ db'[p] = k
  <2>1. \/ db' = [db EXCEPT ![p] = k] /\ db[p] \in {Absent, k}
        \/ db' = db
    BY DEF Connect, Opens, Opened
  <2>2. db \in [Profile -> Key \cup {Absent, Plain}]
    BY DEF Typed, TypeOK
  <2> QED
    BY <2>1, <2>2
<1>4. active[b] \in Profile /\ script.profile \in Profile /\ env[b] \in Key \cup {None} /\ key[b] \in Key \cup {None}
  BY DEF Typed, TypeOK
<1>5. /\ \A d \in Client : req[d].at \in CarriesAt => req[d].cand \in Derived
      /\ \A d \in Client : req[d].at \in OpeningAt => active[req[d].b] = p
  BY <1>2 DEF Typed, Formed, OpeningAt, CarriesAt
<1>6. Absent \notin Key /\ Plain \notin Key /\ Derived \subseteq Key
  BY KeysAreKeys DEF Key
<1>7. Served'
  BY DEF Served
<1>8. Listed'
  BY <1>3 DEF Listed
<1>9. Turns'
  BY DEF Turns, Signing, AuthAt
<1>10. OnActive'
  BY DEF OnActive, OpeningAt, CarriesAt
<1>11. Apart'
  BY DEF Apart, Signing, AuthAt
<1>12. Fitting'
  <2>1. ASSUME NEW q \in Profile, NEW l, Fits(l, q), q = p => k \in {l, Plain}
        PROVE  Fits(l, q)'
    BY <1>3, <1>6, <2>1 DEF Fits, Reachable
  <2>2. ASSUME NEW a \in Backend, ~found[a], key[a] # None PROVE Fits(key[a], active[a])'
    <3>1. a = b /\ k \in {key[a], Plain} /\ Fits(key[a], active[a])
      BY <1>2, <2>2 DEF Fitting, OneKey
    <3> HIDE DEF k
    <3> QED
      BY <1>1, <2>1, <3>1
  <2>3. ASSUME NEW a \in Backend, ~found[a], env[a] # None PROVE Fits(env[a], active[a])'
    <3>1. a = b /\ k = env[a] /\ Fits(env[a], active[a])
      BY <1>2, <2>3 DEF Fitting
    <3> HIDE DEF k
    <3> QED
      BY <1>1, <2>1, <3>1
  <2>4. ASSUME NEW d \in Client, req[d].at \in CarriesAt PROVE Fits(req[d].cand, active[req[d].b])'
    <3>1. req[d].b = b /\ k \in {req[d].cand, Plain} /\ Fits(req[d].cand, p) /\ req'[d] = req[d]
      BY <1>2, <2>4 DEF Fitting, OneKey, CarriesAt
    <3> HIDE DEF k
    <3> QED
      BY <1>1, <2>1, <3>1
  <2>5. \A d \in Client : /\ req'[d].at \in CarriesAt => req'[d] = req[d]
                         /\ req'[d].at = "verify" => req'[d] = req[d]
    BY DEF CarriesAt
  <2> QED
    <3>1. \A a \in Backend : ~found'[a] /\ key'[a] # None => Fits(key[a], active[a])'
      BY <2>2
    <3>2. \A a \in Backend : ~found'[a] /\ env'[a] # None => Fits(env[a], active[a])'
      BY <2>3
    <3>3. \A d \in Client : req'[d].at \in CarriesAt => Fits(req[d].cand, active[req[d].b])'
      <4> SUFFICES ASSUME NEW d \in Client, req'[d].at \in CarriesAt
                   PROVE  Fits(req[d].cand, active[req[d].b])'
        OBVIOUS
      <4>1. req'[d] = req[d]
        BY DEF CarriesAt
      <4>2. req[d].at \in CarriesAt
        BY <4>1
      <4> QED
        BY <2>4, <4>2
    <3>4. \A d \in Client : req'[d].at = "verify" => salt'[active'[req'[d].b]] = req'[d].cand[2]
      BY <2>5 DEF Fitting
    <3> QED
      BY <3>1, <3>2, <3>3, <3>4 DEF Fitting
<1>13. OneKey'
  BY DEF OneKey, CarriesAt
<1>14. Sealed'
  BY <1>2, <1>3, <1>4, <1>5, <1>6 DEF Sealed, CarriesAt
<1>15. Steps'
  BY <1>1, <1>2, <1>3, KeysAreKeys DEF Steps
<1>16. AsLaunched'
  BY DEF AsLaunched
<1>17. Written'
  BY <1>3, <1>4, <1>6, KeysAreKeys DEF Written, CarriesAt
<1> QED
  BY <1>7, <1>8, <1>9, <1>10, <1>11, <1>12, <1>13, <1>14, <1>15, <1>16, <1>17 DEF Consistent

\* A request that is refused is over, and nothing else has changed.
LEMMA RefusedKeeps ==
    ASSUME Orderly, NEW c \in Client, Done(c), req[c].at \in {"derive", "verify", "choose"},
           UNCHANGED <<disk, lock, phase, process, script, counts>>
    PROVE  Consistent'
<1> USE DEF Orderly, Consistent, Done, disk, process, counts,
           Signing, AuthAt, OpeningAt, CarriesAt, Fits, Reachable, NoRequest
<1>1. Served' /\ Listed' /\ Turns' /\ OnActive' /\ Apart'
  BY DEF Served, Listed, Turns, OnActive, Apart
<1>2. Fitting'
  BY DEF Fitting
<1>3. OneKey'
  BY DEF OneKey
<1>4. Sealed'
  BY DEF Sealed
<1>5. Steps'
  BY DEF Steps
<1>6. AsLaunched'
  BY DEF AsLaunched
<1>7. Written'
  BY DEF Written
<1> QED
  BY <1>1, <1>2, <1>3, <1>4, <1>5, <1>6, <1>7 DEF Consistent

\* A key is derived.
LEMMA DerivedKeeps ==
    ASSUME Orderly, NEW c \in Client, req[c].at = "derive",
           NEW s \in Salt, salt[active[req[c].b]] = s, Carry(c, "verify", <<req[c].pw, s>>),
           UNCHANGED <<disk, lock, phase, process, script, counts>>
    PROVE  Consistent'
<1> USE DEF Orderly, Consistent, Carry, disk, process, counts,
           Signing, AuthAt, OpeningAt, CarriesAt, Fits, Reachable, NoRequest
<1>1. Served' /\ Listed' /\ Turns' /\ OnActive' /\ Apart'
  BY DEF Served, Listed, Turns, OnActive, Apart
<1>2. Fitting'
  BY DEF Fitting
<1>3. OneKey'
  BY DEF OneKey
<1>4. Sealed'
  BY DEF Sealed
<1>5. Steps'
  BY DEF Steps
<1>6. AsLaunched'
  BY DEF AsLaunched
<1>7. Written'
  <2>1. req'[c].at = "verify" /\ req'[c].cand = <<req[c].pw, s>> /\ \A d \in Client \ {c} : req'[d] = req[d]
    BY Functions
  <2>2. s \in 1..salts
    BY ItsProcess, SignInAssumption DEF Written, Salt
  <2> QED
    BY <2>1, <2>2 DEF Written
<1> QED
  BY <1>1, <1>2, <1>3, <1>4, <1>5, <1>6, <1>7 DEF Consistent

\* A key has opened the database it had sealed before.
LEMMA OpenedAgainKeeps ==
    ASSUME Orderly, NEW c \in Client, req[c].at = "verify", db[active[req[c].b]] = req[c].cand,
           Step(c, "keep"), UNCHANGED <<disk, lock, phase, process, script, counts>>
    PROVE  Consistent'
<1> USE DEF Orderly, Consistent, Step, disk, process, counts,
           Signing, AuthAt, OpeningAt, CarriesAt, Fits, Reachable, NoRequest
<1>1. \A d \in Client : req[d].at # "idle" => req[d].b = req[c].b
  BY ItsProcess
<1>2. Served' /\ Listed' /\ Turns' /\ OnActive' /\ Apart'
  BY DEF Served, Listed, Turns, OnActive, Apart
<1>3. Fitting'
  <2>1. Fits(req[c].cand, active[req[c].b])
    BY DEF Fitting, Typed, Formed
  <2> QED
    BY <2>1 DEF Fitting
<1>4. OneKey'
  BY DEF OneKey, Sealed
<1>5. Sealed'
  BY <1>1 DEF Sealed
<1>6. Steps'
  BY DEF Steps
<1>7. AsLaunched'
  BY DEF AsLaunched
<1>8. Written'
  BY DEF Written
<1> QED
  BY <1>2, <1>3, <1>4, <1>5, <1>6, <1>7, <1>8 DEF Consistent

\* A key has opened a database that was not there.
LEMMA OpenedFirstKeeps ==
    ASSUME Orderly, NEW c \in Client, req[c].at = "verify", db[active[req[c].b]] = Absent, req[c].path = active[req[c].b],
           db' = [db EXCEPT ![active[req[c].b]] = req[c].cand], Step(c, "keep"),
           UNCHANGED <<registered, lastUsed, salt, lock, phase, process, script, counts>>
    PROVE  Consistent'
<1> USE DEF Orderly, Consistent, Step, disk, process, counts,
           Signing, AuthAt, OpeningAt, CarriesAt, Fits, Reachable, NoRequest
<1>1. req[c].b \in Backend /\ active[req[c].b] \in Profile
  BY ItsProcess
<1>2. \A d \in Client : req[d].at # "idle" => req[d].b = req[c].b
  BY ItsProcess
<1>3. /\ key[req[c].b] = None /\ env[req[c].b] = None
      /\ \A d \in Client : req[d].at \notin CarriesAt
  <2>1. Absent \notin Key /\ Derived \subseteq Key
    BY KeysAreKeys DEF Key
  <2> QED
    BY <1>1, <2>1 DEF Sealed, Typed, TypeOK, Formed
<1>4. \A a \in Backend \ {req[c].b} : key[a] = None /\ env[a] = None
  BY ItsProcess
<1>5. Served' /\ Listed' /\ Turns' /\ OnActive'
  BY DEF Served, Listed, Turns, OnActive
<1>6. Apart'
  BY DEF Apart
<1>7. Fitting'
  <2>1. Fits(req[c].cand, active[req[c].b])'
    BY <1>1, Functions DEF Fitting, Typed, Formed
  <2>2. /\ req'[c].cand = req[c].cand /\ req'[c].b = req[c].b
        /\ \A d \in Client \ {c} : req'[d] = req[d]
    BY Functions
  <2> QED
    BY <1>3, <1>4, <2>1, <2>2 DEF Fitting
<1>8. OneKey'
  BY <1>3 DEF OneKey
<1>9. Sealed'
  BY <1>1, <1>2, Functions, <1>3 DEF Sealed
<1>10. Steps'
  BY DEF Steps, Turns
<1>11. AsLaunched'
  BY DEF AsLaunched
<1>12. Written'
  BY DEF Written
<1> QED
  BY <1>5, <1>6, <1>7, <1>8, <1>9, <1>10, <1>11, <1>12 DEF Consistent

\* A first password is accepted.
LEMMA ChoosesKeeps ==
    ASSUME Orderly, NEW c \in Client, req[c].at = "choose",
           salt[active[req[c].b]] = None, db[req[c].path] # Plain, Step(c, "salt"),
           UNCHANGED <<disk, lock, phase, process, script, counts>>
    PROVE  Consistent'
<1> USE DEF Orderly, Consistent, Step, disk, process, counts,
           Signing, AuthAt, OpeningAt, CarriesAt, Fits, Reachable, NoRequest
<1>1. req[c].b \in Backend /\ active[req[c].b] \in Profile
  BY ItsProcess
<1>2. Served' /\ Listed' /\ Turns' /\ OnActive' /\ Apart'
  BY DEF Served, Listed, Turns, OnActive, Apart
<1>3. Fitting'
  BY DEF Fitting
<1>4. OneKey'
  BY DEF OneKey
<1>5. Sealed'
  BY DEF Sealed
<1>6. Steps'
  BY <1>1, KeysAreKeys DEF Steps, DataStaysReachable
<1>7. AsLaunched'
  BY DEF AsLaunched
<1>8. Written'
  BY DEF Written
<1> QED
  BY <1>2, <1>3, <1>4, <1>5, <1>6, <1>7, <1>8 DEF Consistent

\* The salt of a first password is written.
LEMMA CreateSaltKeeps ==
    ASSUME Orderly, NEW c \in Client, CreateSalt(c)
    PROVE  Consistent'
<1> USE DEF Orderly, Consistent, CreateSalt, Carry, Salt, disk, process, counts,
           Signing, AuthAt, OpeningAt, CarriesAt, Fits, Reachable, NoRequest
<1>1. req[c].b \in Backend /\ active[req[c].b] \in Profile
  BY ItsProcess
<1>2. \A d \in Client \ {c} : ~Signing(d)
  BY DEF Turns
<1>3. \A a \in Backend : key[a] = None /\ env[a] = None
  BY ItsProcess DEF Steps
<1>4. salt[active[req[c].b]]' = salts + 1
  BY <1>1 DEF Typed, TypeOK
<1>5. req[c].moves
  BY DEF Turns
<1>6. ~Reachable(active[req[c].b])'
  <2>1. db[active[req[c].b]] \in Derived => db[active[req[c].b]][2] # salts + 1
    BY <1>1, Bounds DEF Written, Typed, TypeOK
  <2> QED
    BY <1>4, <2>1
<1>7. Served' /\ Listed' /\ Turns' /\ OnActive' /\ Apart'
  BY DEF Served, Listed, Turns, OnActive, Apart
<1>8. Fitting'
  <2>1. /\ req'[c].at = "keep" /\ req'[c].b = req[c].b /\ req'[c].cand = <<req[c].pw, salts + 1>>
        /\ \A d \in Client \ {c} : req'[d] = req[d]
    BY Functions
  <2>2. <<req[c].pw, salts + 1>> \in Derived
    BY Bounds DEF Typed, TypeOK, Formed, Derived
  <2>3. Fits(req[c].cand, active[req[c].b])'
    BY <1>4, <1>6, <2>1, <2>2
  <2> QED
    BY <1>2, <1>3, <2>1, <2>3 DEF Fitting
<1>9. OneKey'
  BY <1>2 DEF OneKey, Steps
<1>10. Sealed'
  BY <1>2, <1>5 DEF Sealed
<1>11. Steps'
  <2>1. req'[c].at = "keep" /\ \A d \in Client \ {c} : req'[d] = req[d]
    BY Functions
  <2> QED
    BY <1>2, <1>3, <2>1 DEF Steps
<1>12. AsLaunched'
  BY DEF AsLaunched
<1>13. Written'
  <2>1. /\ req'[c].cand = <<req[c].pw, salts + 1>>
        /\ \A d \in Client \ {c} : req'[d] = req[d]
    BY Functions
  <2>2. salts' = salts + 1 /\ \A s \in 1..salts : s \in 1..salts'
    BY Bounds DEF Typed, TypeOK
  <2>3. salts + 1 \in 1..salts'
    BY Bounds, <2>2 DEF Typed, TypeOK
  <2>4. \A p \in Profile : salt'[p] \in {salt[p], salts + 1}
    BY Functions
  <2> QED
    BY <2>1, <2>2, <2>3, <2>4 DEF Written
<1> QED
  BY <1>7, <1>8, <1>9, <1>10, <1>11, <1>12, <1>13 DEF Consistent

\* The key is kept.
LEMMA KeepKeeps ==
    ASSUME Orderly, NEW c \in Client, Keep(c)
    PROVE  Consistent'
<1> USE DEF Orderly, Consistent, Keep, Step, disk, process, counts,
           Signing, AuthAt, OpeningAt, CarriesAt, Fits, Reachable, NoRequest
<1>1. req[c].b \in Backend /\ active[req[c].b] \in Profile
  BY ItsProcess
<1>2. Served' /\ Listed' /\ Turns' /\ OnActive' /\ Apart'
  BY DEF Served, Listed, Turns, OnActive, Apart
<1>3. Fitting'
  BY DEF Fitting
<1>4. OneKey'
  BY DEF OneKey
<1>5. Sealed'
  BY DEF Sealed
<1>6. Steps'
  BY <1>1, Functions DEF Steps, Turns, OneKey
<1>7. AsLaunched'
  BY DEF AsLaunched
<1>8. Written'
  BY DEF Written
<1> QED
  BY <1>2, <1>3, <1>4, <1>5, <1>6, <1>7, <1>8 DEF Consistent

\* The key is exported.
LEMMA ExportKeeps ==
    ASSUME Orderly, NEW c \in Client, Export(c)
    PROVE  Consistent'
<1> USE DEF Orderly, Consistent, Export, Step, disk, process, counts,
           Signing, AuthAt, OpeningAt, CarriesAt, Fits, Reachable, NoRequest
<1>1. \A a \in Backend \ {req[c].b} : phase[a] = "down"
  BY ItsProcess
<1>2. Served' /\ Listed' /\ Turns' /\ OnActive' /\ Apart'
  BY DEF Served, Listed, Turns, OnActive, Apart
<1>3. Fitting'
  BY <1>1, Functions DEF Fitting, Steps, Served
<1>4. OneKey'
  BY DEF OneKey
<1>5. Sealed'
  BY DEF Sealed
<1>6. Steps'
  BY Functions, <1>1 DEF Steps
<1>7. AsLaunched'
  BY DEF AsLaunched
<1>8. Written'
  BY DEF Written
<1> QED
  BY <1>2, <1>3, <1>4, <1>5, <1>6, <1>7, <1>8 DEF Consistent

\* The profile is recorded.
LEMMA RememberKeeps ==
    ASSUME Orderly, NEW c \in Client, Remember(c)
    PROVE  Consistent'
<1> USE DEF Orderly, Consistent, Remember, StartCatchUp, Done, disk, process, counts,
           Signing, AuthAt, OpeningAt, CarriesAt, Fits, Reachable, NoRequest
<1>1. Served' /\ Listed' /\ Turns' /\ OnActive' /\ Apart'
  BY DEF Served, Listed, Turns, OnActive, Apart
<1>2. Fitting'
  BY DEF Fitting
<1>3. OneKey'
  BY DEF OneKey
<1>4. Sealed'
  BY DEF Sealed
<1>5. Steps'
  BY DEF Steps
<1>6. AsLaunched'
  BY DEF AsLaunched
<1>7. Written'
  BY DEF Written
<1> QED
  BY <1>1, <1>2, <1>3, <1>4, <1>5, <1>6, <1>7 DEF Consistent

\* The key is forgotten.
LEMMA ForgetKeeps ==
    ASSUME Orderly, NEW c \in Client, Forget(c)
    PROVE  Consistent'
<1> USE DEF Orderly, Consistent, Forget, Step, disk, process, counts,
           Signing, AuthAt, OpeningAt, CarriesAt, Fits, Reachable, NoRequest
<1>1. req[c].b \in Backend /\ active[req[c].b] \in Profile
  BY ItsProcess
<1>2. Served' /\ Listed' /\ Turns' /\ OnActive' /\ Apart'
  BY DEF Served, Listed, Turns, OnActive, Apart
<1>3. Fitting'
  BY DEF Fitting
<1>4. OneKey'
  BY DEF OneKey
<1>5. Sealed'
  BY DEF Sealed
<1>6. Steps'
  BY <1>1, Functions DEF Steps, Turns
<1>7. AsLaunched'
  BY DEF AsLaunched
<1>8. Written'
  BY DEF Written
<1> QED
  BY <1>2, <1>3, <1>4, <1>5, <1>6, <1>7, <1>8 DEF Consistent

\* The key leaves the environment.
LEMMA PopKeeps ==
    ASSUME Orderly, NEW c \in Client, Pop(c)
    PROVE  Consistent'
<1> USE DEF Orderly, Consistent, Pop, Done, disk, process, counts,
           Signing, AuthAt, OpeningAt, CarriesAt, Fits, Reachable, NoRequest
<1>1. \A a \in Backend \ {req[c].b} : phase[a] = "down"
  BY ItsProcess
<1>2. Served' /\ Listed' /\ Turns' /\ OnActive' /\ Apart'
  BY DEF Served, Listed, Turns, OnActive, Apart
<1>3. Fitting'
  BY <1>1, Functions DEF Fitting, Steps, Served
<1>4. OneKey'
  BY DEF OneKey
<1>5. Sealed'
  BY DEF Sealed
<1>6. Steps'
  BY Functions, <1>1 DEF Steps
<1>7. AsLaunched'
  BY <1>1, Functions DEF AsLaunched, Served
<1>8. Written'
  BY Functions, KeysAreKeys DEF Written, Key
<1> QED
  BY <1>2, <1>3, <1>4, <1>5, <1>6, <1>7, <1>8 DEF Consistent

\* The process is pointed at another profile.
LEMMA SwitchKeeps ==
    ASSUME Orderly, NEW c \in Client, Switch(c)
    PROVE  Consistent'
<1> USE DEF Orderly, Consistent, Switch, Activate, Done, disk, process, counts,
           Signing, AuthAt, OpeningAt, CarriesAt, Fits, Reachable, NoRequest
<1>1. Served' /\ Listed' /\ Turns' /\ Apart'
  BY DEF Served, Listed, Turns, Apart
<1>2. OnActive'
  BY DEF OnActive, Turns
<1>3. Fitting'
  BY DEF Fitting, Turns, Steps
<1>4. OneKey'
  BY DEF OneKey
<1>5. Sealed'
  BY DEF Sealed, Turns
<1>6. Steps'
  BY DEF Steps, Turns
<1>7. AsLaunched'
  BY DEF AsLaunched
<1>8. Written'
  BY DEF Written
<1> QED
  BY <1>1, <1>2, <1>3, <1>4, <1>5, <1>6, <1>7, <1>8 DEF Consistent

\* A selection starts.
LEMMA AskProfileKeeps ==
    ASSUME Orderly, Unruly = {}, NEW c \in Client, NEW b \in Backend, NEW p \in Profile, AskProfile(c, b, p)
    PROVE  Consistent'
<1> USE DEF Orderly, Consistent, AskProfile, Ask, disk, process, counts,
           Signing, AuthAt, OpeningAt, CarriesAt, Fits, Reachable, NoRequest
<1>1. \A d \in Client : ~Signing(d)
  BY DEF Mannered, Moves
<1>2. env[b] = key[b]
  BY <1>1 DEF Steps
<1>3. Served' /\ Listed' /\ Turns' /\ OnActive'
  BY <1>1 DEF Served, Listed, Turns, OnActive
<1>4. Apart'
  BY DEF Apart, Mannered, NoScript
<1>5. Fitting'
  BY DEF Fitting
<1>6. OneKey'
  BY DEF OneKey
<1>7. Sealed'
  BY DEF Sealed
<1>8. Steps'
  BY <1>2 DEF Steps
<1>9. AsLaunched'
  BY <1>2, Functions DEF AsLaunched
<1>10. Written'
  BY DEF Written
<1> QED
  BY <1>3, <1>4, <1>5, <1>6, <1>7, <1>8, <1>9, <1>10 DEF Consistent

\* A sign-out starts.
LEMMA AskLockKeeps ==
    ASSUME Orderly, Unruly = {}, NEW c \in Client, NEW b \in Backend, AskLock(c, b)
    PROVE  Consistent'
<1> USE DEF Orderly, Consistent, AskLock, Ask, disk, process, counts,
           Signing, AuthAt, OpeningAt, CarriesAt, Fits, Reachable, NoRequest
<1>1. \A d \in Client : ~Signing(d)
  BY DEF Mannered, Moves
<1>2. Served' /\ Listed' /\ Turns' /\ OnActive'
  BY <1>1 DEF Served, Listed, Turns, OnActive
<1>3. Apart'
  BY DEF Apart, Mannered, NoScript
<1>4. Fitting'
  BY DEF Fitting
<1>5. OneKey'
  BY DEF OneKey
<1>6. Sealed'
  BY DEF Sealed
<1>7. Steps'
  BY DEF Steps
<1>8. AsLaunched'
  BY DEF AsLaunched
<1>9. Written'
  BY DEF Written
<1> QED
  BY <1>2, <1>3, <1>4, <1>5, <1>6, <1>7, <1>8, <1>9 DEF Consistent

\* Another route starts.
LEMMA RouteKeeps ==
    ASSUME Orderly, NEW c \in Client, NEW b \in Backend, Route(c, b)
    PROVE  Consistent'
<1> USE DEF Orderly, Consistent, Route, disk, process, counts,
           Signing, AuthAt, OpeningAt, CarriesAt, Fits, Reachable, NoRequest
<1>1. Served' /\ Listed' /\ Turns' /\ OnActive' /\ Apart'
  BY DEF Served, Listed, Turns, OnActive, Apart
<1>2. Fitting'
  BY DEF Fitting
<1>3. OneKey'
  BY DEF OneKey
<1>4. Sealed'
  BY DEF Sealed
<1>5. Steps'
  BY DEF Steps
<1>6. AsLaunched'
  BY DEF AsLaunched
<1>7. Written'
  BY DEF Written
<1> QED
  BY <1>1, <1>2, <1>3, <1>4, <1>5, <1>6, <1>7 DEF Consistent

\* A sign-in that changes the profile or chooses a password starts.
LEMMA AskToMoveKeeps ==
    ASSUME Orderly, Unruly = {}, NEW c \in Client, NEW b \in Backend, NEW p \in Profile,
           NEW pw \in Password, NEW op \in {"unlock", "setup"}, AskToOpen(c, b, op, p, pw), Moves(b, op, p)
    PROVE  Consistent'
<1> USE DEF Orderly, Consistent, AskToOpen, Ask, Activate, disk, process, counts,
           Signing, AuthAt, OpeningAt, CarriesAt, Fits, Reachable, NoRequest
<1>1. \A d \in Client : ~Signing(d)
  BY DEF Mannered
<1>2. env[b] = key[b]
  BY <1>1 DEF Steps
<1>3. key[b] = None /\ env[b] = None
  BY <1>2 DEF Mannered
<1>4. Served' /\ Listed' /\ Turns' /\ OnActive'
  BY Functions, <1>1 DEF Served, Listed, Turns, OnActive
<1>5. Apart'
  BY DEF Apart, Mannered, NoScript
<1>6. Fitting'
  BY <1>1, <1>3 DEF Fitting
<1>7. OneKey'
  BY DEF OneKey
<1>8. Sealed'
  BY <1>1, <1>3 DEF Sealed
<1>9. Steps'
  BY <1>1, <1>3 DEF Steps
<1>10. AsLaunched'
  BY <1>3, Functions DEF AsLaunched
<1>11. Written'
  BY DEF Written
<1> QED
  BY <1>4, <1>5, <1>6, <1>7, <1>8, <1>9, <1>10, <1>11 DEF Consistent

\* A sign-in to the profile the process points at starts.
LEMMA AskToOpenKeeps ==
    ASSUME Orderly, Unruly = {}, NEW c \in Client, NEW b \in Backend, NEW p \in Profile,
           NEW pw \in Password, NEW op \in {"unlock", "setup"}, AskToOpen(c, b, op, p, pw), ~Moves(b, op, p)
    PROVE  Consistent'
<1> USE DEF Orderly, Consistent, AskToOpen, Ask, disk, process, counts,
           Signing, AuthAt, OpeningAt, CarriesAt, Fits, Reachable, NoRequest
<1>1. \A d \in Client : req[d].at # "idle" => req[d].b = b
  BY OneProcess DEF Live
<1>2. \A a \in Backend \ {b} : phase[a] = "down" /\ key[a] = None /\ env[a] = None
  BY OneProcess DEF Live
<1>3. p = active[b] /\ op = "unlock" /\ active' = active
  BY DEF Moves, Activate, Typed, TypeOK
<1>4. \A d \in Client : Signing(d) => ~req[d].moves
  BY DEF Mannered
<1>5. key[b] = None
  BY DEF Mannered
<1>6. env[b] = None
  <2>1. \A d \in Client : req[d].at = "export" => req[d].b = b /\ key[b] # None
    BY <1>1, KeysAreKeys DEF Steps, Typed, Formed, Key
  <2> QED
    BY <1>4, <1>5, <2>1 DEF Steps, Turns
<1>7. Served' /\ Listed' /\ Turns' /\ OnActive'
  BY <1>3, <1>4 DEF Served, Listed, Turns, OnActive
<1>8. Apart'
  BY <1>3 DEF Apart, Mannered, NoScript
<1>9. Fitting'
  BY <1>3 DEF Fitting
<1>10. OneKey'
  BY DEF OneKey
<1>11. Sealed'
  BY <1>1, <1>3, <1>4, <1>5, <1>6 DEF Sealed
<1>12. Steps'
  BY <1>3 DEF Steps
<1>13. AsLaunched'
  BY <1>6, Functions DEF AsLaunched
<1>14. Written'
  BY DEF Written
<1> QED
  BY <1>7, <1>8, <1>9, <1>10, <1>11, <1>12, <1>13, <1>14 DEF Consistent

\* A process is launched.
LEMMA LaunchKeeps ==
    ASSUME Orderly, Unruly = {}, NEW b \in Backend, Launch(b)
    PROVE  Consistent'
<1> USE DEF Orderly, Consistent, Launch, disk, process, counts,
           Signing, AuthAt, OpeningAt, CarriesAt, Fits, Reachable, NoRequest
<1>1. \A a \in Backend : phase[a] = "down"
  BY SignInAssumption DEF Claimable, OneLive, Live, Typed, TypeOK
<1>2. \A d \in Client : req[d].at = "idle"
  BY <1>1 DEF Served, Typed, Formed
<1>3. \A a \in Backend : key[a] = None /\ (a # b => env[a] = None)
  BY <1>1 DEF Served
<1>4. /\ found'[b] <=> env'[b] # None
      /\ \A a \in Backend \ {b} : ~found'[a] /\ env'[a] = None /\ env[a] = None
  BY Functions, <1>1, <1>3 DEF AsLaunched
<1>5. active'[b] \in registered /\ (env'[b] \in Derived => env'[b][2] \in 1..salts)
  <2>1. PICK p \in registered, k \in {None} \cup OldKey \cup (Password \X (1..salts)) :
          active' = [active EXCEPT ![b] = p] /\ env' = [env EXCEPT ![b] = k]
    OBVIOUS
  <2>2. k \in Derived => k \in Password \X (1..salts)
    BY SignInAssumption DEF Derived, Salt
  <2> QED
    BY <2>1, <2>2, Functions
<1>6. Served' /\ Listed' /\ Turns' /\ OnActive'
  BY Functions, <1>1 DEF Served, Listed, Turns, OnActive
<1>7. Apart'
  BY <1>2, <1>3, <1>4 DEF Apart
<1>8. Fitting'
  BY <1>2, <1>3, <1>4 DEF Fitting
<1>9. OneKey'
  BY <1>2, <1>3 DEF OneKey
<1>10. Sealed'
  BY <1>2 DEF Sealed
<1>11. Steps'
  BY <1>1, <1>2 DEF Steps
<1>12. AsLaunched'
  BY <1>2, <1>4 DEF AsLaunched
<1>13. Written'
  BY <1>2, <1>4, <1>5 DEF Written
<1> QED
  BY <1>6, <1>7, <1>8, <1>9, <1>10, <1>11, <1>12, <1>13 DEF Consistent

\* A process starts to serve.
LEMMA ClaimKeeps ==
    ASSUME Orderly, Unruly = {}, NEW b \in Backend, Claim(b)
    PROVE  Consistent'
<1> USE DEF Orderly, Consistent, Claim, StartCatchUp, disk, process, counts,
           Signing, AuthAt, OpeningAt, CarriesAt, Fits, Reachable, NoRequest
<1>1. \A d \in Client : req[d].at = "idle"
  BY OneProcess DEF Served, Live
<1>2. Served' /\ Listed' /\ Turns' /\ OnActive' /\ Apart'
  BY Functions DEF Served, Listed, Turns, OnActive, Apart
<1>3. Fitting'
  BY DEF Fitting
<1>4. OneKey'
  BY DEF OneKey
<1>5. Sealed'
  BY DEF Sealed
<1>6. Steps'
  BY Functions, <1>1 DEF Steps
<1>7. AsLaunched'
  BY DEF AsLaunched
<1>8. Written'
  BY DEF Written
<1> QED
  BY <1>2, <1>3, <1>4, <1>5, <1>6, <1>7, <1>8 DEF Consistent

\* A process is gone.
LEMMA GoneKeeps ==
    ASSUME Orderly, NEW b \in Backend, Live(b), Gone(b)
    PROVE  Consistent'
<1> USE DEF Orderly, Consistent, Gone, disk, process, counts,
           Signing, AuthAt, OpeningAt, CarriesAt, Fits, Reachable, NoRequest
<1>1. \A a \in Backend \ {b} : phase[a] = "down" /\ key[a] = None /\ env[a] = None
  BY OneProcess
<1>2. Served' /\ Listed' /\ Turns' /\ OnActive' /\ Apart'
  BY Functions DEF Served, Listed, Turns, OnActive, Apart
<1>3. Fitting'
  BY Functions DEF Fitting
<1>4. OneKey'
  BY DEF OneKey
<1>5. Sealed'
  BY DEF Sealed
<1>6. Steps'
  BY Functions, <1>1 DEF Steps
<1>7. AsLaunched'
  BY <1>1, Functions DEF AsLaunched
<1>8. Written'
  BY Functions, KeysAreKeys DEF Written, Key
<1> QED
  BY <1>2, <1>3, <1>4, <1>5, <1>6, <1>7, <1>8 DEF Consistent

\* new_profile.py registers a profile.
LEMMA RegisterKeeps ==
    ASSUME Orderly, NEW p \in Profile, NEW pw \in Password, Register(p, pw)
    PROVE  Consistent'
<1> USE DEF Orderly, Consistent, Register, disk, process, counts,
           Signing, AuthAt, OpeningAt, CarriesAt, Fits, Reachable, NoRequest
<1>1. Served' /\ Listed' /\ Turns' /\ OnActive'
  BY DEF Served, Listed, Turns, OnActive
<1>2. Apart'
  BY DEF Apart, Listed, Typed, Formed
<1>3. Fitting'
  BY DEF Fitting
<1>4. OneKey'
  BY DEF OneKey
<1>5. Sealed'
  BY DEF Sealed
<1>6. Steps'
  BY DEF Steps
<1>7. AsLaunched'
  BY DEF AsLaunched
<1>8. Written'
  BY DEF Written
<1> QED
  BY <1>1, <1>2, <1>3, <1>4, <1>5, <1>6, <1>7, <1>8 DEF Consistent

\* new_profile.py writes a salt.
LEMMA ScriptSaltsKeeps ==
    ASSUME Orderly, Unruly = {}, ScriptSalts
    PROVE  Consistent'
<1> USE DEF Orderly, Consistent, ScriptSalts, disk, process, counts,
           Signing, AuthAt, OpeningAt, CarriesAt, Fits, Reachable, NoRequest
<1>1. \A d \in Client : req[d].at # "idle" => req[d].b \in Backend
  BY DEF Typed, Formed
<1>2. Served' /\ Turns' /\ OnActive' /\ Apart'
  BY DEF Served, Turns, OnActive, Apart
<1>3. Listed'
  BY DEF Listed
<1>4. Fitting'
  BY <1>1 DEF Fitting
<1>5. OneKey'
  BY DEF OneKey
<1>6. Sealed'
  BY DEF Sealed
<1>7. Steps'
  BY <1>1, Functions DEF Steps
<1>8. AsLaunched'
  BY DEF AsLaunched
<1>9. Written'
  <2>1. salts' = salts + 1 /\ salts + 1 \in 1..salts' /\ \A s \in 1..salts : s \in 1..salts'
    BY Bounds DEF Typed, TypeOK
  <2>2. \A p \in Profile : salt'[p] \in {salt[p], salts + 1}
    BY Functions
  <2> QED
    BY <2>1, <2>2 DEF Written
<1> QED
  BY <1>2, <1>3, <1>4, <1>5, <1>6, <1>7, <1>8, <1>9 DEF Consistent

\* new_profile.py creates a database.
LEMMA ScriptCreatesKeeps ==
    ASSUME Orderly, ScriptCreates
    PROVE  Consistent'
<1> USE DEF Orderly, Consistent, ScriptCreates, NoScript, disk, process, counts,
           Signing, AuthAt, OpeningAt, CarriesAt, Fits, Reachable, NoRequest
<1>1. script.profile \in Profile /\ \A d \in Client : Signing(d) => active[req[d].b] # script.profile
  BY DEF Typed, TypeOK, Apart
<1>2. db' = db \/ db' = [db EXCEPT ![script.profile] = <<script.pw, salt[script.profile]>>]
  BY DEF Opened
<1>3. \A p \in Profile \ {script.profile} : db'[p] = db[p]
  BY Functions, <1>1, <1>2 DEF Typed
<1>4. db'[script.profile] \in {db[script.profile], <<script.pw, salt[script.profile]>>}
  BY Functions, <1>1, <1>2, <1>3 DEF Typed
<1>5. /\ script.at # "idle"
      /\ \A a \in Backend : active[a] = script.profile => found[a] \/ (key[a] = None /\ env[a] = None)
  BY DEF Apart
<1>6. \A d \in Client : req[d].at # "idle" => req[d].b \in Backend
  BY DEF Typed, Formed
<1>7. \A a \in Backend : active[a] \in Profile
  BY DEF Typed, TypeOK
<1>8. Served' /\ Listed' /\ Turns' /\ OnActive' /\ Apart'
  BY <1>3 DEF Served, Listed, Turns, OnActive, Apart
<1>9. Fitting'
  BY <1>1, <1>3, <1>5, <1>6, <1>7 DEF Fitting
<1>10. OneKey'
  BY DEF OneKey
<1>11. Sealed'
  BY <1>1, <1>3, <1>6, <1>7 DEF Sealed
<1>12. Steps'
  BY <1>1, <1>3, <1>6, <1>7 DEF Steps
<1>13. AsLaunched'
  BY DEF AsLaunched
<1>14. Written'
  <2>1. salt[script.profile] \in 1..salts
    BY <1>1, SignInAssumption DEF Written, Typed, ScriptFormed, Salt
  <2> QED
    BY <1>3, <1>4, <2>1 DEF Written
<1> QED
  BY <1>8, <1>9, <1>10, <1>11, <1>12, <1>13, <1>14 DEF Consistent

\* new_profile.py is left.
LEMMA ScriptStopsKeeps ==
    ASSUME Orderly, ScriptStops
    PROVE  Consistent'
<1> USE DEF Orderly, Consistent, ScriptStops, NoScript, disk, process, counts,
           Signing, AuthAt, OpeningAt, CarriesAt, Fits, Reachable, NoRequest
<1>1. Served' /\ Listed' /\ Turns' /\ OnActive' /\ Apart'
  BY DEF Served, Listed, Turns, OnActive, Apart
<1>2. Fitting'
  BY DEF Fitting
<1>3. OneKey'
  BY DEF OneKey
<1>4. Sealed'
  BY DEF Sealed
<1>5. Steps'
  BY DEF Steps
<1>6. AsLaunched'
  BY DEF AsLaunched
<1>7. Written'
  BY DEF Written
<1> QED
  BY <1>1, <1>2, <1>3, <1>4, <1>5, <1>6, <1>7 DEF Consistent

LEMMA InitConsistent == Init => Consistent
<1> SUFFICES ASSUME Init PROVE Consistent
  OBVIOUS
<1>1. \A p \in Profile : salt[p] = None /\ db[p] \notin Derived /\ (p # Default => db[p] = Absent)
  BY KeysAreKeys, SignInAssumption DEF Init, Key, Derived, Salt
<1>2. Written
  BY <1>1, KeysAreKeys DEF Init, Written, Key, NoRequest, CarriesAt
<1>3. Listed
  BY <1>1 DEF Init, Listed, NoRequest, NoScript
<1> QED
  BY <1>1, <1>2, <1>3
     DEF Init, Consistent, Served, Turns, Signing, AuthAt, OnActive, OpeningAt, CarriesAt, Apart,
         Fitting, OneKey, Sealed, Steps, AsLaunched, NoRequest, NoScript

LEMMA StutterKeeps ==
    ASSUME Orderly, UNCHANGED vars
    PROVE  Consistent'
  BY DEF Orderly, Consistent, vars, disk, process, counts, Served, Listed, Turns, Signing, OnActive, Apart,
         Fitting, Fits, Reachable, OneKey, Sealed, Steps, AsLaunched, Written

LEMMA ProcessKeeps ==
    ASSUME Unruly = {}, Orderly, NEW b \in Backend, Process(b)
    PROVE  Consistent'
<1>1. CASE Launch(b)
  BY <1>1, LaunchKeeps
<1>2. CASE Claim(b)
  BY <1>2, ClaimKeeps
<1>3. CASE Exit(b) \/ Kill(b)
  BY <1>3, GoneKeeps DEF Exit, Kill, Live
<1>4. CASE CatchUpChecks(b)
  <2>1. catchUp[b] = "check" /\ catchUp' = [catchUp EXCEPT ![b] = catchUp'[b]]
    BY <1>4, Functions DEF CatchUpChecks
  <2> QED
    BY <1>4, <2>1, Functions
       DEF CatchUpChecks, disk, counts, Orderly, Consistent, Served, Listed, Turns, Signing, OnActive, Apart,
           Fitting, Fits, Reachable, OneKey, Sealed, Steps, AsLaunched, Written
<1>5. CASE CatchUpOpens(b)
  <2>1. phase[b] = "serving"
    BY <1>5 DEF CatchUpOpens, Orderly, Consistent, Served
  <2>2. \A a \in Backend : phase[a] # "serving" => catchUp'[a] = "idle"
    BY <1>5, Functions DEF CatchUpOpens, Orderly, Consistent, Served
  <2>3. DOMAIN req' = Client /\ \A d \in Client : req'[d] = req[d]
    BY <1>5, Functions DEF CatchUpOpens
  <2> QED
    BY <1>5, <2>1, <2>2, <2>3, ConnectKeeps DEF CatchUpOpens, counts
<1> QED
  BY <1>1, <1>2, <1>3, <1>4, <1>5 DEF Process

LEMMA RequestKeeps ==
    ASSUME Orderly, NEW c \in Client, Request(c)
    PROVE  Consistent'
<1> DEFINE p == active[req[c].b]
<1>1. CASE Switch(c)
  BY <1>1, SwitchKeeps
<1>2. CASE Derive(c)
  <2>1. req[c].at = "derive" /\ salt[p] \in Salt \cup {None}
    BY <1>2, ItsProcess DEF Derive, Orderly, Typed, TypeOK
  <2> QED
    BY <1>2, <2>1, RefusedKeeps, DerivedKeeps DEF Derive
<1>3. CASE Verify(c)
  <2>1. req[c].at = "verify" /\ req[c].path = p
    BY <1>3 DEF Verify, Orderly, Consistent, OnActive, OpeningAt
  <2>2. CASE ~Opens(p, req[c].cand)
    BY <1>3, <2>1, <2>2, RefusedKeeps DEF Verify, disk
  <2>3. CASE db[p] = req[c].cand
    <3>1. db' = db
      BY <1>3, <2>1, <2>3, Functions DEF Verify, Opens, Opened, Orderly, Typed, TypeOK
    <3> QED
      BY <1>3, <2>1, <2>3, <3>1, OpenedAgainKeeps DEF Verify, Opens, disk
  <2>4. CASE db[p] = Absent
    BY <1>3, <2>1, <2>4, OpenedFirstKeeps DEF Verify, Opens, Opened
  <2> QED
    BY <2>2, <2>3, <2>4 DEF Opens
<1>4. CASE Choose(c)
  BY <1>4, RefusedKeeps, ChoosesKeeps DEF Choose
<1>5. CASE CreateSalt(c)
  BY <1>5, CreateSaltKeeps
<1>6. CASE Keep(c)
  BY <1>6, KeepKeeps
<1>7. CASE Export(c)
  BY <1>7, ExportKeeps
<1>8. CASE Remember(c)
  BY <1>8, RememberKeeps
<1>9. CASE Forget(c)
  BY <1>9, ForgetKeeps
<1>10. CASE Pop(c)
  BY <1>10, PopKeeps
<1>11. CASE RouteOpens(c)
  <2>1. /\ req[c].at = "open" /\ req[c].b \in Backend /\ phase[req[c].b] = "serving"
    BY <1>11, ItsProcess DEF RouteOpens
  <2>2. /\ DOMAIN req' = Client
        /\ \A d \in Client : req'[d] = req[d] \/ (req[d].at = "open" /\ req'[d] = NoRequest)
    BY <1>11, <2>1, Functions DEF RouteOpens, Done
  <2>3. \A a \in Backend : phase[a] # "serving" => catchUp'[a] = "idle"
    BY <1>11 DEF RouteOpens, process, Orderly, Consistent, Served
  <2> QED
    BY <1>11, <2>1, <2>2, <2>3, ConnectKeeps DEF RouteOpens, process, counts
<1> QED
  BY <1>1, <1>2, <1>3, <1>4, <1>5, <1>6, <1>7, <1>8, <1>9, <1>10, <1>11 DEF Request

LEMMA AskedKeeps ==
    ASSUME Unruly = {}, Orderly, NEW c \in Client, NEW b \in Backend, Asked(c, b)
    PROVE  Consistent'
  BY AskProfileKeeps, AskToMoveKeeps, AskToOpenKeeps, AskLockKeeps, RouteKeeps DEF Asked

LEMMA ScriptKeeps ==
    ASSUME Unruly = {}, Orderly, Script
    PROVE  Consistent'
  BY RegisterKeeps, ScriptSaltsKeeps, ScriptCreatesKeeps, ScriptStopsKeeps DEF Script

LEMMA OrderlyAlways ==
    ASSUME Unruly = {}
    PROVE  Spec => []Orderly
<1>1. Init => Orderly
  BY InitTyped, InitOneLive, InitConsistent DEF Orderly
<1>2. Orderly /\ [Next]_vars => Orderly'
  <2> SUFFICES ASSUME Orderly, [Next]_vars PROVE Orderly'
    OBVIOUS
  <2>1. Typed' /\ OneLive'
    BY NextTyped, NextOneLive DEF Orderly, Typed
  <2>2. CASE UNCHANGED vars
    BY <2>1, <2>2, StutterKeeps DEF Orderly
  <2>3. CASE Next
    BY <2>1, <2>3, ProcessKeeps, RequestKeeps, AskedKeeps, ScriptKeeps DEF Next, Orderly
  <2> QED
    BY <2>2, <2>3
<1> QED
  BY <1>1, <1>2, PTL DEF Spec

-----------------------------------------------------------------------------
(* Where the world outside takes turns                                      *)

\* A key of a sign-in goes with the salt of the active profile and opens its
\* database if a password does, however routes, catch-up threads, sign-ins to
\* one profile and kills overlap, and whatever key the launch found before.
THEOREM KeyFits ==
    ASSUME Unruly = {}
    PROVE  Spec => []KeyIsForActive
<1>1. Orderly => KeyIsForActive
  BY DEF Orderly, Consistent, Fitting, Fits, KeyIsForActive
<1> QED
  BY <1>1, OrderlyAlways, PTL

\* What a step may do to the data of a profile.
DataKept(p) ==
    /\ Reachable(p) => Reachable(p)'
    /\ db[p] = Absent /\ db'[p] \in Key =>
        Reachable(p)' \/ \E b \in Backend : active[b] = p /\ found[b]

\* A salt is only written where there is none.
LEMMA SaltKeepsData ==
    ASSUME Orderly, NEW q \in Profile, salt[q] = None, NEW s,
           salt' = [salt EXCEPT ![q] = s], db' = db, NEW p \in Profile
    PROVE  DataKept(p)
<1>1. Reachable(p) => p # q
  BY KeysAreKeys DEF Reachable, Key
<1>2. p # q => salt'[p] = salt[p]
  OBVIOUS
<1>3. db[p] = Absent => db'[p] \notin Key
  BY KeysAreKeys
<1> QED
  BY <1>1, <1>2, <1>3 DEF DataKept, Reachable

\* A database is only created, and under a key that its salt goes with unless
\* the launch found that key.
LEMMA CreatingKeepsData ==
    ASSUME Orderly, NEW q \in Profile, salt' = salt, NEW k,
           db' = db \/ (db[q] = Absent /\ db' = [db EXCEPT ![q] = k]),
           k \in Key => \/ k \in Derived /\ salt[q] = k[2]
                        \/ \E b \in Backend : active[b] = q /\ found[b],
           NEW p \in Profile
    PROVE  DataKept(p)
<1>1. db'[p] = db[p] \/ (p = q /\ db[p] = Absent /\ db'[p] = k)
  BY Functions
<1>2. Absent \notin Key /\ Absent \notin Derived
  BY KeysAreKeys DEF Key
<1> QED
  BY <1>1, <1>2 DEF DataKept, Reachable

LEMMA ConnectKeepsData ==
    ASSUME Orderly, NEW b \in Backend, Connect(b), salt' = salt, NEW p \in Profile
    PROVE  DataKept(p)
<1> DEFINE q == active[b]
<1> DEFINE k == IF env[b] = None THEN Plain ELSE env[b]
<1>1. q \in Profile
  BY DEF Orderly, Typed, TypeOK
<1>2. db' = db \/ (db[q] = Absent /\ db' = [db EXCEPT ![q] = k])
  BY Functions DEF Connect, Opens, Opened, Orderly, Typed, TypeOK
<1>3. k \in Key => \/ k \in Derived /\ salt[q] = k[2]
                   \/ \E a \in Backend : active[a] = q /\ found[a]
  BY KeysAreKeys DEF Orderly, Consistent, Fitting, Fits
<1> HIDE DEF q, k
<1> QED
  BY <1>1, <1>2, <1>3, CreatingKeepsData

LEMMA VerifyKeepsData ==
    ASSUME Orderly, NEW c \in Client, Verify(c), NEW p \in Profile
    PROVE  DataKept(p)
<1> DEFINE q == req[c].path
<1> DEFINE k == req[c].cand
<1>1. q \in Profile /\ q = active[req[c].b] /\ k \in Derived /\ salt[q] = k[2] /\ salt' = salt
  BY DEF Verify, Orderly, Typed, Formed, Requests, Consistent, OnActive, OpeningAt, Fitting
<1>2. db' = db \/ (db[q] = Absent /\ db' = [db EXCEPT ![q] = k])
  BY Functions DEF Verify, Opens, Opened, Orderly, Typed, TypeOK
<1> HIDE DEF q, k
<1> QED
  BY <1>1, <1>2, CreatingKeepsData

LEMMA ScriptCreatesKeepsData ==
    ASSUME Orderly, ScriptCreates, NEW p \in Profile
    PROVE  DataKept(p)
<1> DEFINE q == script.profile
<1> DEFINE k == <<script.pw, salt[q]>>
<1>1. q \in Profile /\ k \in Derived /\ salt[q] = k[2] /\ salt' = salt
  BY DEF ScriptCreates, Orderly, Typed, TypeOK, ScriptFormed, Derived
<1>2. db' = db \/ (db[q] = Absent /\ db' = [db EXCEPT ![q] = k])
  BY Functions DEF ScriptCreates, Opens, Opened, Orderly, Typed, TypeOK
<1> HIDE DEF q, k
<1> QED
  BY <1>1, <1>2, CreatingKeepsData

LEMMA StepKeepsData ==
    ASSUME Orderly, [Next]_vars, NEW p \in Profile
    PROVE  DataKept(p)
<1>1. CASE UNCHANGED <<salt, db>>
  BY <1>1, KeysAreKeys DEF DataKept, Reachable
<1>2. ASSUME NEW c \in Client, CreateSalt(c) PROVE DataKept(p)
  BY <1>2, ItsProcess, SaltKeepsData DEF CreateSalt, Orderly, Consistent, Steps
<1>3. ASSUME NEW c \in Client, Verify(c) PROVE DataKept(p)
  BY <1>3, VerifyKeepsData
<1>4. ASSUME NEW c \in Client, RouteOpens(c) PROVE DataKept(p)
  BY <1>4, ItsProcess, ConnectKeepsData DEF RouteOpens
<1>5. ASSUME NEW b \in Backend, CatchUpOpens(b) PROVE DataKept(p)
  BY <1>5, ConnectKeepsData DEF CatchUpOpens
<1>6. CASE ScriptSalts
  BY <1>6, SaltKeepsData DEF ScriptSalts, Orderly, Typed, TypeOK, Consistent, Apart
<1>7. CASE ScriptCreates
  BY <1>7, ScriptCreatesKeepsData
<1>8. \/ UNCHANGED <<salt, db>> \/ ScriptSalts \/ ScriptCreates
      \/ \E c \in Client : CreateSalt(c) \/ Verify(c) \/ RouteOpens(c)
      \/ \E b \in Backend : CatchUpOpens(b)
  <2>1. ASSUME NEW b \in Backend, Process(b) PROVE UNCHANGED <<salt, db>> \/ CatchUpOpens(b)
    BY <2>1 DEF Process, Launch, Claim, Exit, Kill, Gone, CatchUpChecks, disk
  <2>2. ASSUME NEW c \in Client, Request(c)
        PROVE  UNCHANGED <<salt, db>> \/ CreateSalt(c) \/ Verify(c) \/ RouteOpens(c)
    BY <2>2 DEF Request, Switch, Derive, Choose, Keep, Export, Remember, Forget, Pop, disk
  <2>3. ASSUME NEW c \in Client, NEW b \in Backend, Asked(c, b) PROVE UNCHANGED <<salt, db>>
    BY <2>3 DEF Asked, AskProfile, AskToOpen, AskLock, Route, disk
  <2>4. ASSUME Script PROVE UNCHANGED <<salt, db>> \/ ScriptSalts \/ ScriptCreates
    BY <2>4 DEF Script, Register, ScriptStops, disk
  <2>5. UNCHANGED vars => UNCHANGED <<salt, db>>
    BY DEF vars, disk
  <2> QED
    BY <2>1, <2>2, <2>3, <2>4, <2>5 DEF Next
<1> QED
  BY <1>1, <1>2, <1>3, <1>4, <1>5, <1>6, <1>7, <1>8

\* A database within reach of its password stays there, and a new one is within
\* reach unless the key its launch found created it, whatever of sign-ins,
\* set-ups, routes, catch-up threads, kills and new_profile.py overlaps.
THEOREM DataReachable ==
    ASSUME Unruly = {}
    PROVE  Spec => DataStaysReachable
<1> DEFINE Kept == \A p \in Profile :
        /\ Reachable(p) => Reachable(p)'
        /\ db[p] = Absent /\ db'[p] \in Key =>
            Reachable(p)' \/ \E b \in Backend : active[b] = p /\ found[b]
<1>1. Orderly /\ [Next]_vars => Kept
  BY StepKeepsData DEF DataKept
<1> QED
  BY <1>1, OrderlyAlways, PTL DEF Spec, DataStaysReachable

\* The profile on record as the last used is only replaced by the active one of
\* a sign-in whose key goes with it.
THEOREM RememberedWasSignedIn ==
    ASSUME Unruly = {}
    PROVE  Spec => LastUsedWasSignedIn
<1> DEFINE SignedIn == lastUsed' # lastUsed =>
             \E c \in Client : /\ req[c].cand # None
                               /\ active[req[c].b] = lastUsed'
                               /\ salt[lastUsed'] = req[c].cand[2]
                               /\ Reachable(lastUsed') => db[lastUsed'] = req[c].cand
<1>1. ASSUME Orderly, [Next]_vars, lastUsed' # lastUsed
      PROVE  \E c \in Client : Remember(c)
  BY <1>1 DEF Next, Process, Request, Asked, Script, vars, disk,
     Launch, Claim, Exit, Kill, Gone, CatchUpChecks, CatchUpOpens, Switch, Derive, Verify, Choose, CreateSalt,
     Keep, Export, Forget, Pop, RouteOpens, AskProfile, AskToOpen, AskLock, Route,
     Register, ScriptSalts, ScriptCreates, ScriptStops
<1>2. ASSUME Orderly, NEW c \in Client, Remember(c), lastUsed' # lastUsed
      PROVE  /\ req[c].cand # None
             /\ active[req[c].b] = lastUsed'
             /\ salt[lastUsed'] = req[c].cand[2]
             /\ Reachable(lastUsed') => db[lastUsed'] = req[c].cand
  <2>1. lastUsed' = active[req[c].b] /\ req[c].cand \in Derived /\ Fits(req[c].cand, active[req[c].b])
    BY <1>2 DEF Remember, Orderly, Typed, Formed, Consistent, Fitting, CarriesAt
  <2> QED
    BY <2>1, KeysAreKeys DEF Fits, Key
<1>3. Orderly /\ [Next]_vars => SignedIn
  BY <1>1, <1>2
<1> QED
  BY <1>3, OrderlyAlways, PTL DEF Spec, LastUsedWasSignedIn
=============================================================================
