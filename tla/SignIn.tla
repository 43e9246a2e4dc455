------------------------------- MODULE SignIn -------------------------------
(***************************************************************************)
(* Sign-in of one account: password, second factor, session version, the   *)
(* changes that end sessions, and the locks on failures.  Several browsers *)
(* hold a cookie for the account and several requests run at once.  What a *)
(* request reads before it checks a password or a code is one step, and    *)
(* each later call of the storage is one: between two of them other        *)
(* requests run, and a request may be cut off.                             *)
(***************************************************************************)
EXTENDS Integers, FiniteSets

CONSTANTS
    Browsers,
    Requests,
    Secrets,        \* of second factors, as generate_totp_secret makes them
    MaxStep,        \* bound: the 30-second steps whose codes are offered
    MaxVersion,     \* bound: session versions (2^30 in the code)
    MaxPasswordFailures,    \* MAX_PASSWORD_FAILURES_PER_ACCOUNT
    MaxCodeFailures         \* MAX_TOTP_FAILURES

NoBrowser == "none"
NoSecret == "none"

ASSUME ConstantsAssumption ==
    /\ NoBrowser \notin Browsers
    /\ NoSecret \notin Secrets
    /\ IsFiniteSet(Requests) /\ Requests # {}
    /\ MaxStep \in Nat \ {0}
    /\ MaxVersion \in Nat \ {0}
    /\ MaxPasswordFailures \in Nat \ {0}
    /\ MaxCodeFailures \in Nat \ {0}

VARIABLES
    account,    \* the rows of users and user_security
    throttle,   \* throttle[k]: the row of auth_throttle for key k
    cookie,     \* cookie[b]: the session cookie of browser b
    req,        \* req[r]: where request r is
    spent,      \* history: what was accepted, as pairs of a secret and a step
    again,      \* history: secrets that were enrolled more than once
    muddled,    \* history: two requests read the same version to end sessions
    cut         \* history: a change was stored, its request cut off, and the version
                \* has not been raised since

history == <<spent, again, muddled, cut>>
vars == <<account, throttle, cookie, req, history>>

\* The account is keyed by its name for passwords, by its id for codes.
Keys == {"password", "code"}
MaxFailures(k) == IF k = "password" THEN MaxPasswordFailures ELSE MaxCodeFailures
Codes == 1..MaxStep
Kinds == {"login", "half", "verify", "setup", "force", "password", "disable", "logout", "reset"}

MaybeSecret == Secrets \cup {NoSecret}

\* secret: that of the second factor; pending: one that was shown and waits for its first
\* code; last: totp_last_step, 0 for NULL.
Account == [there : BOOLEAN, must : BOOLEAN, secret : MaybeSecret, pending : MaybeSecret,
            last : 0..MaxStep, version : 1..MaxVersion]

\* late: failures noted while the key was locked (history).
Throttle == [fails : Nat, locked : BOOLEAN, late : Nat]

\* version 0: no session; half: the password was right and a code is awaited;
\* ended: a change was stored after the session in this cookie was issued (history).
Cookie == [version : 0..MaxVersion, half : BOOLEAN, ended : BOOLEAN]

\* secret, new: the account's secret and its pending one as the request has read them.
Request == [at : {"idle", "wrong", "accept", "clear", "issue", "offer", "confirm", "change",
                  "unmark", "read", "write"},
            what : Kinds, from : Browsers \cup {NoBrowser}, step : 0..MaxStep,
            version : 0..MaxVersion, secret : MaybeSecret, new : MaybeSecret]

Clear == [fails |-> 0, locked |-> FALSE, late |-> 0]
NoCookie == [version |-> 0, half |-> FALSE, ended |-> FALSE]
HalfWay == [NoCookie EXCEPT !.half = TRUE]
Session(v) == [NoCookie EXCEPT !.version = v]
Done == [at |-> "idle", what |-> "login", from |-> NoBrowser, step |-> 0, version |-> 0,
         secret |-> NoSecret, new |-> NoSecret]

\* The first administrator's account, one an administrator made, with a temporary
\* password, and one that was deleted.
Registered == [there |-> TRUE, must |-> FALSE, secret |-> NoSecret, pending |-> NoSecret,
               last |-> 0, version |-> 1]
Created == [Registered EXCEPT !.must = TRUE]
Gone == [Registered EXCEPT !.there = FALSE]

TypeOK ==
    /\ account \in Account
    /\ throttle \in [Keys -> Throttle]
    /\ cookie \in [Browsers -> Cookie]
    /\ req \in [Requests -> Request]
    /\ spent \subseteq Secrets \X Codes
    /\ again \subseteq Secrets
    /\ muddled \in BOOLEAN /\ cut \in BOOLEAN

-----------------------------------------------------------------------------
(* Who is signed in, and how far the gate lets them. *)

\* current_user: the cookie bears the version of the row.
SignedIn(b) == account.there /\ cookie[b].version = account.version
\* _gate: nothing is missing.
Enrolled == account.secret # NoSecret
Open(b) == SignedIn(b) /\ ~account.must /\ Enrolled

Idle(r) == req[r].at = "idle"
\* Request r of browser b is at its next storage call, with what it has read.
GoesWith(r, b, what, at, step, secret, new) ==
    req' = [req EXCEPT ![r] = [at |-> at, what |-> what, from |-> b, step |-> step,
                               version |-> 0, secret |-> secret, new |-> new]]
Goes(r, b, what, at) == GoesWith(r, b, what, at, 0, NoSecret, NoSecret)
\* Then it is at the next one, for as much of its purpose as still matters.
Then(r, at) ==
    LET was == req[r].what
        what == IF at = "issue" THEN "login"
                ELSE IF at = "read" /\ was \notin {"logout", "reset"} THEN "password" ELSE was
    IN  GoesWith(r, req[r].from, what, at, 0, NoSecret,
                 IF at = "confirm" THEN req[r].new ELSE NoSecret)
Ends(r) == req' = [req EXCEPT ![r] = Done]

-----------------------------------------------------------------------------
(* Requests begin. *)

\* POST /login of a browser that is not signed in.
LoginWrong(r, b) ==
    /\ Idle(r) /\ account.there /\ ~SignedIn(b) /\ ~throttle["password"].locked
    /\ Goes(r, b, "login", "wrong")
    /\ UNCHANGED <<account, throttle, cookie, history>>

LoginRight(r, b) ==
    /\ Idle(r) /\ account.there /\ ~SignedIn(b) /\ ~throttle["password"].locked
    /\ Goes(r, b, IF Enrolled THEN "half" ELSE "login", "clear")
    /\ UNCHANGED <<account, throttle, cookie, history>>

\* A code is typed in: it is wrong, or right for one of the steps around now.
TypesCode(r, b, what, new) ==
    \/ Goes(r, b, what, "wrong")
    \/ \E s \in Codes : GoesWith(r, b, what, "accept", s, account.secret, new)

BugMayType == TRUE
MayType == ~throttle["code"].locked

\* GET or POST /totp/verify.
VerifyRefused(b) ==
    /\ cookie[b].half
    /\ ~account.there \/ ~Enrolled \/ ~MayType
    /\ cookie' = [cookie EXCEPT ![b].half = FALSE]
    /\ UNCHANGED <<account, throttle, req, history>>

Verify(r, b) ==
    /\ Idle(r) /\ cookie[b].half /\ account.there /\ Enrolled /\ MayType
    /\ TypesCode(r, b, "verify", NoSecret)
    /\ UNCHANGED <<account, throttle, cookie, history>>

\* GET or POST /totp/setup: enrol, or replace with a code of the current factor.
Setup(r, b) ==
    /\ Idle(r) /\ SignedIn(b) /\ ~account.must
    /\ LET new == account.pending
       IN  \/ new = NoSecret /\ Goes(r, b, "setup", "offer")
           \/ /\ new # NoSecret /\ ~Enrolled
              /\ GoesWith(r, b, "setup", "confirm", 0, NoSecret, new)
           \/ new # NoSecret /\ Enrolled /\ MayType /\ TypesCode(r, b, "setup", new)
    /\ UNCHANGED <<account, throttle, cookie, history>>

ForceChange(r, b) ==
    /\ Idle(r) /\ SignedIn(b) /\ account.must
    /\ Goes(r, b, "force", "change")
    /\ UNCHANGED <<account, throttle, cookie, history>>

\* The current password was right.
ChangePassword(r, b) ==
    /\ Idle(r) /\ Open(b)
    /\ Goes(r, b, "password", "change")
    /\ UNCHANGED <<account, throttle, cookie, history>>

Disable(r, b) ==
    /\ Idle(r) /\ Open(b) /\ MayType
    /\ TypesCode(r, b, "disable", NoSecret)
    /\ UNCHANGED <<account, throttle, cookie, history>>

Logout(r, b) ==
    /\ Idle(r)
    /\ \/ SignedIn(b) /\ Goes(r, b, "logout", "read") /\ UNCHANGED cookie
       \/ ~SignedIn(b) /\ cookie' = [cookie EXCEPT ![b] = NoCookie] /\ UNCHANGED req
    /\ UNCHANGED <<account, throttle, history>>

\* An administrator, or the command line, removes the second factor of a user
\* who lost it.
Reset(r) ==
    /\ Idle(r) /\ account.there
    /\ Goes(r, NoBrowser, "reset", "change")
    /\ UNCHANGED <<account, throttle, cookie, history>>

\* An administrator deletes the account: one transaction.  What a request still writes
\* for it concerns nobody, nor does what happened to it.
Delete ==
    /\ account.there
    /\ account' = Gone
    /\ throttle' = [throttle EXCEPT !["code"] = Clear]
    /\ req' = [r \in Requests |-> Done]
    /\ spent' = {} /\ again' = {} /\ muddled' = FALSE /\ cut' = FALSE
    /\ UNCHANGED cookie

-----------------------------------------------------------------------------
(* Requests go on, one storage call after the other. *)

At(r, at) == req[r].at = at

\* throttle_fail
Counted(k) ==
    LET row == throttle[k] IN
    IF row.fails + 1 >= MaxFailures(k)
    THEN [fails |-> 0, locked |-> TRUE, late |-> IF row.locked THEN row.late + 1 ELSE 0]
    ELSE [row EXCEPT !.fails = @ + 1, !.late = IF row.locked THEN @ + 1 ELSE 0]

NoteWrong(r) ==
    /\ At(r, "wrong")
    /\ LET k == IF req[r].what = "login" THEN "password" ELSE "code"
           b == req[r].from
           locks == throttle[k].fails + 1 >= MaxFailures(k)
       IN  /\ throttle' = [throttle EXCEPT ![k] = Counted(k)]
           /\ cookie' = IF req[r].what = "verify" /\ locks
                        THEN [cookie EXCEPT ![b].half = FALSE] ELSE cookie
    /\ Ends(r)
    /\ UNCHANGED <<account, history>>

BugIsNew(s) == TRUE
\* accept_totp_step, one conditional UPDATE: this step and all before it are used.
IsNew(s) == account.last < s

NextAfterCode(what) ==
    CASE what = "verify" -> "clear" [] what = "setup" -> "confirm" [] OTHER -> "change"

Accept(r) ==
    /\ At(r, "accept")
    /\ IsNew(req[r].step)
    /\ account' = [account EXCEPT !.last = req[r].step]
    /\ spent' = spent \cup {<<req[r].secret, req[r].step>>}
    /\ Then(r, NextAfterCode(req[r].what))
    /\ UNCHANGED <<throttle, cookie, again, muddled, cut>>

Reused(r) ==
    /\ At(r, "accept")
    /\ ~IsNew(req[r].step)
    /\ Then(r, "wrong")
    /\ UNCHANGED <<account, throttle, cookie, history>>

\* clear_failures, after a right password, a right code or a reset: a lock that fell
\* meanwhile is lifted too.  A user with a second factor is half way then.
Clears(r) ==
    /\ At(r, "clear")
    /\ LET k == IF req[r].what \in {"login", "half"} THEN "password" ELSE "code"
       IN  throttle' = [throttle EXCEPT ![k] = Clear]
    /\ IF req[r].what = "half"
       THEN cookie' = [cookie EXCEPT ![req[r].from] = HalfWay] /\ Ends(r)
       ELSE /\ IF req[r].what = "reset" THEN Ends(r) ELSE Then(r, "issue")
            /\ UNCHANGED cookie
    /\ UNCHANGED <<account, history>>

\* login_user: the cookie bears the version of now.
Issue(r) ==
    /\ At(r, "issue")
    /\ cookie' = [cookie EXCEPT ![req[r].from] = Session(account.version)]
    /\ Ends(r)
    /\ UNCHANGED <<account, throttle, history>>

\* A secret is random: none that anybody holds.  What was done with it before, if it was
\* anybody's, is of no account any more.
IsFresh(k) ==
    /\ k \notin {account.secret, account.pending}
    /\ \A r \in Requests : k \notin {req[r].secret, req[r].new}

\* set_pending_totp_secret
Offer(r) ==
    /\ At(r, "offer")
    /\ \E k \in Secrets :
         /\ IsFresh(k)
         /\ account' = [account EXCEPT !.pending = k]
         /\ spent' = {p \in spent : p[1] # k}
         /\ again' = again \ {k}
    /\ Ends(r)
    /\ UNCHANGED <<throttle, cookie, muddled, cut>>

\* A change is stored: the sessions of the other browsers should end.
Outdated(b) == [c \in Browsers |->
    IF c = b THEN cookie[c]
    ELSE [cookie[c] EXCEPT !.ended = @ \/ cookie[c].version # 0]]

\* The new authenticator's first code: wrong, or enable_totp with the secret that was
\* pending when the request began.
Confirm(r) ==
    /\ At(r, "confirm")
    /\ \/ Ends(r) /\ UNCHANGED <<account, cookie, spent, again>>
       \/ \E s \in Codes :
            LET k == req[r].new
            IN  /\ account' = [account EXCEPT !.secret = k, !.last = s, !.pending = NoSecret]
                /\ spent' = spent \cup {<<k, s>>}
                /\ again' = again \cup {j \in {k} : \E p \in spent : p[1] = j}
                /\ cookie' = Outdated(req[r].from)
                /\ Then(r, "read")
    /\ UNCHANGED <<throttle, muddled, cut>>

\* The change itself, before the sessions are ended: the new password is stored ...
StorePassword(r) ==
    /\ At(r, "change") /\ req[r].what \in {"force", "password"}
    /\ cookie' = Outdated(req[r].from)
    /\ Then(r, IF req[r].what = "force" THEN "unmark" ELSE "read")
    /\ UNCHANGED <<account, throttle, history>>

\* ... after a temporary one with the mark that it was changed ...
Unmark(r) ==
    /\ At(r, "unmark")
    /\ account' = [account EXCEPT !.must = FALSE]
    /\ Then(r, "read")
    /\ UNCHANGED <<throttle, cookie, history>>

\* ... or the second factor is removed: disable_totp.
RemoveFactor(r) ==
    /\ At(r, "change") /\ req[r].what \in {"disable", "reset"}
    /\ account' = [account EXCEPT !.secret = NoSecret, !.last = 0, !.pending = NoSecret]
    /\ cookie' = Outdated(req[r].from)
    /\ Then(r, "read")
    /\ UNCHANGED <<throttle, history>>

\* bump_session_version reads the row ...
BumpReads(r) ==
    /\ At(r, "read")
    /\ account.version < MaxVersion
    /\ req' = [req EXCEPT ![r].at = "write", ![r].version = account.version]
    /\ muddled' = (muddled \/ \E q \in Requests : req[q].at = "write")
    /\ UNCHANGED <<account, throttle, cookie, spent, again, cut>>

BugBumped(v) == v
Bumped(v) == v + 1

\* Whose cookie bears the new version in the answer.
Keeps(r) == req[r].what \notin {"logout", "reset"}

\* ... and writes it back: every other session is ended.
BumpWrites(r) ==
    /\ At(r, "write")
    /\ LET new == Bumped(req[r].version)
       IN  /\ account' = [account EXCEPT !.version = new]
           /\ cookie' = [b \in Browsers |->
                 IF b # req[r].from THEN Outdated(req[r].from)[b]
                 ELSE IF Keeps(r) THEN Session(new) ELSE NoCookie]
    /\ IF req[r].what = "reset" THEN Then(r, "clear") ELSE Ends(r)
    /\ cut' = FALSE
    /\ UNCHANGED <<throttle, spent, again, muddled>>

\* It has stored a change and has yet to raise the version.
Raising(r) == req[r].at \in {"unmark", "read", "write"} /\ req[r].what # "logout"

-----------------------------------------------------------------------------
(* Time, and what goes wrong. *)

\* Twelve hours for a session, five minutes between password and code.
CookieExpires(b) ==
    /\ cookie[b] # NoCookie
    /\ cookie' = [cookie EXCEPT ![b] = NoCookie]
    /\ UNCHANGED <<account, throttle, req, history>>

OfferExpires ==
    /\ account.pending # NoSecret
    /\ account' = [account EXCEPT !.pending = NoSecret]
    /\ UNCHANGED <<throttle, cookie, req, history>>

LockEnds(k) ==
    /\ throttle[k].locked
    /\ throttle' = [throttle EXCEPT ![k].locked = FALSE, ![k].late = 0]
    /\ UNCHANGED <<account, cookie, req, history>>

\* The window of the failures is over, or somebody lifts the lock: user-unlock.
Forget(k) ==
    /\ throttle[k] # Clear
    /\ throttle' = [throttle EXCEPT ![k] = Clear]
    /\ UNCHANGED <<account, cookie, req, history>>

\* The database fails, or the process dies.
Abort(r) ==
    /\ ~Idle(r)
    /\ Ends(r)
    /\ cut' = (cut \/ Raising(r))
    /\ UNCHANGED <<account, throttle, cookie, spent, again, muddled>>

Init ==
    /\ account \in {Registered, Created}
    /\ throttle = [k \in Keys |-> Clear]
    /\ cookie = [b \in Browsers |-> NoCookie]
    /\ req = [r \in Requests |-> Done]
    /\ spent = {} /\ again = {}
    /\ muddled = FALSE /\ cut = FALSE

Begin(r, b) ==
    \/ LoginWrong(r, b) \/ LoginRight(r, b) \/ Verify(r, b) \/ Setup(r, b)
    \/ ForceChange(r, b) \/ ChangePassword(r, b) \/ Disable(r, b) \/ Logout(r, b)

GoOn(r) ==
    \/ NoteWrong(r) \/ Accept(r) \/ Reused(r) \/ Clears(r) \/ Issue(r) \/ Offer(r)
    \/ Confirm(r) \/ StorePassword(r) \/ Unmark(r) \/ RemoveFactor(r)
    \/ BumpReads(r) \/ BumpWrites(r) \/ Abort(r)

Next ==
    \/ \E r \in Requests, b \in Browsers : Begin(r, b)
    \/ \E r \in Requests : GoOn(r) \/ Reset(r)
    \/ \E b \in Browsers : VerifyRefused(b) \/ CookieExpires(b)
    \/ \E k \in Keys : LockEnds(k) \/ Forget(k)
    \/ OfferExpires
    \/ Delete

Spec == Init /\ [][Next]_vars

-----------------------------------------------------------------------------
(* What the code promises. *)

\* A request goes past its code.
Passes(r) == req[r].at = "accept" /\ req'[r].at \in {"clear", "confirm", "change"}
Code(r) == <<req[r].secret, req[r].step>>

\* use_totp_code, "a code works once", whatever is sent at the same time: a code of the
\* second factor that the account has, unless that one was enrolled a second time.
CodeWorksOnce ==
    [][\A r \in Requests :
         Passes(r) /\ req[r].secret = account.secret /\ req[r].secret \notin again
           => Code(r) \notin spent]_vars

\* auth.py:5: "signing out, or changing a password or the second factor ends every session
\* issued before it".  No request is about to end this one, and it goes on.
GoesOn(b) == cookie[b].ended /\ SignedIn(b) /\ \A r \in Requests : ~Raising(r)

\* It does end them, and for good, unless the request is cut off after the change was
\* stored, or two changes overlap.
OldSessionIsOut == ~muddled /\ ~cut => \A b \in Browsers : ~GoesOn(b)

\* A lock is looked at before the code and counted after it: only the requests that
\* were under way when the lock fell can still fail under it.
LockHolds == \A k \in Keys : throttle[k].late < Cardinality(Requests)
=============================================================================
