---------------------------- MODULE SignInProofs ----------------------------
(* SignIn, for any number of browsers and requests, and Migrations, for any *)
(* number of threads and commands.                                          *)
EXTENDS SignIn, Migrations, FiniteSetTheorems, TLAPS

-----------------------------------------------------------------------------
(* Types. *)

\* What a request has read is there for what it does next: one on its way to raise the
\* version has read one that can be raised, one whose code is checked has typed one of a
\* factor, and one that confirms a factor was offered it.
Sound(x) ==
    /\ x \in Request
    /\ x.at = "write" => x.version \in 1..(MaxVersion - 1)
    /\ x.at = "accept" => x.secret \in Secrets /\ x.step \in Codes
    /\ x.at = "accept" /\ x.what = "setup" => x.new \in Secrets
    /\ x.at = "confirm" => x.what = "setup" /\ x.new \in Secrets

RequestsTyped == req \in [Requests -> Request] /\ \A r \in Requests : Sound(req[r])
Typed == TypeOK /\ RequestsTyped

LEMMA BoundsAreNat ==
    /\ MaxStep \in Nat \ {0} /\ MaxVersion \in Nat \ {0}
    /\ MaxPasswordFailures \in Nat \ {0} /\ MaxCodeFailures \in Nat \ {0}
    /\ NoBrowser \notin Browsers /\ NoSecret \notin Secrets
    /\ IsFiniteSet(Requests) /\ Requests # {}
BY ConstantsAssumption

LEMMA RecordsTyped ==
    /\ Clear \in Throttle /\ NoCookie \in Cookie /\ HalfWay \in Cookie /\ Sound(Done)
    /\ \A v \in 1..MaxVersion : Session(v) \in Cookie
    /\ Registered \in Account /\ Created \in Account /\ Gone \in Account
<1>1. Clear \in Throttle
  BY DEF Clear, Throttle
<1>2. NoCookie \in Cookie /\ HalfWay \in Cookie /\ \A v \in 1..MaxVersion : Session(v) \in Cookie
  <2>1. NoCookie \in Cookie
    BY BoundsAreNat DEF NoCookie, Cookie
  <2>2. HalfWay \in Cookie
    BY <2>1 DEF HalfWay, Cookie
  <2>3. \A v \in 1..MaxVersion : Session(v) \in Cookie
    BY <2>1 DEF Session, Cookie
  <2>4. QED BY <2>1, <2>2, <2>3
<1>3. Sound(Done)
  BY BoundsAreNat DEF Done, Sound, Request, Kinds, MaybeSecret
<1>4. Registered \in Account /\ Created \in Account /\ Gone \in Account
  <2>1. Registered \in Account
    BY BoundsAreNat DEF Registered, Account, MaybeSecret
  <2>2. QED BY <2>1 DEF Created, Gone, Account
<1>5. QED BY <1>1, <1>2, <1>3, <1>4

\* One request somewhere else, the others as they were.
LEMMA OneMoves ==
    ASSUME Typed, NEW r \in Requests, NEW x, Sound(x), req' = [req EXCEPT ![r] = x]
    PROVE  /\ RequestsTyped' /\ req'[r] = x
           /\ \A q \in Requests \ {r} : req'[q] = req[q]
<1>1. x \in Request
  BY DEF Sound
<1>2. QED BY <1>1 DEF Typed, RequestsTyped

LEMMA GoesTyped ==
    ASSUME Typed, NEW r \in Requests, NEW b \in Browsers \cup {NoBrowser},
           NEW what \in Kinds, NEW step \in 0..MaxStep,
           NEW secret \in MaybeSecret, NEW new \in MaybeSecret,
           NEW at \in {"wrong", "accept", "clear", "offer", "confirm", "change", "read"},
           at = "accept" => secret \in Secrets /\ step \in Codes,
           at = "accept" /\ what = "setup" => new \in Secrets,
           at = "confirm" => what = "setup" /\ new \in Secrets,
           GoesWith(r, b, what, at, step, secret, new)
    PROVE  RequestsTyped'
<1> DEFINE x == [at |-> at, what |-> what, from |-> b, step |-> step, version |-> 0,
                 secret |-> secret, new |-> new]
<1>1. x \in Request
  BY BoundsAreNat DEF Request
<1>2. Sound(x)
  BY <1>1 DEF Sound
<1>3. req' = [req EXCEPT ![r] = x]
  BY DEF GoesWith
<1> HIDE DEF x
<1>4. QED BY <1>2, <1>3, OneMoves

LEMMA GoesOnTyped ==
    ASSUME Typed, NEW r \in Requests, NEW b \in Browsers \cup {NoBrowser},
           NEW what \in Kinds, NEW at \in {"wrong", "clear", "offer", "change", "read"},
           Goes(r, b, what, at)
    PROVE  RequestsTyped'
<1>1. 0 \in 0..MaxStep /\ NoSecret \in MaybeSecret
  BY BoundsAreNat DEF MaybeSecret
<1>2. GoesWith(r, b, what, at, 0, NoSecret, NoSecret)
  BY DEF Goes
<1>3. QED BY <1>1, <1>2, GoesTyped

LEMMA ThenTyped ==
    ASSUME Typed, NEW r \in Requests,
           NEW at \in {"wrong", "clear", "issue", "confirm", "change", "unmark", "read"},
           at = "confirm" => req[r].at = "accept" /\ req[r].what = "setup",
           Then(r, at)
    PROVE  /\ RequestsTyped'
           /\ \A q \in Requests \ {r} : req'[q] = req[q]
           /\ req'[r].at = at /\ req'[r].from = req[r].from
           /\ at \notin {"issue", "read"} => req'[r].what = req[r].what
           /\ at = "read" => req'[r].what =
                IF req[r].what \in {"logout", "reset"} THEN req[r].what ELSE "password"
<1>1. req[r] \in Request /\ Sound(req[r])
  BY DEF Typed, RequestsTyped
<1> DEFINE what == IF at = "issue" THEN "login"
                   ELSE IF at = "read" /\ req[r].what \notin {"logout", "reset"} THEN "password"
                   ELSE req[r].what
           new == IF at = "confirm" THEN req[r].new ELSE NoSecret
           x == [at |-> at, what |-> what, from |-> req[r].from, step |-> 0,
                 version |-> 0, secret |-> NoSecret, new |-> new]
<1>2. req' = [req EXCEPT ![r] = x]
  BY DEF Then, GoesWith
<1>3. what \in Kinds /\ new \in MaybeSecret
  BY <1>1 DEF Request, Kinds, MaybeSecret
<1>4. at = "confirm" => what = "setup" /\ new \in Secrets
  BY <1>1 DEF Sound
<1>5. /\ at \notin {"issue", "read"} => what = req[r].what
      /\ at = "read" => what = IF req[r].what \in {"logout", "reset"} THEN req[r].what
                               ELSE "password"
  OBVIOUS
<1> HIDE DEF what, new
<1>6. x \in Request
  BY <1>1, <1>3, BoundsAreNat DEF Request, MaybeSecret
<1>7. Sound(x)
  BY <1>4, <1>6 DEF Sound
<1>8. x.at = at /\ x.from = req[r].from /\ x.what = what
  OBVIOUS
<1> HIDE DEF x
<1>9. QED BY <1>2, <1>5, <1>7, <1>8, OneMoves

LEMMA EndsTyped ==
    ASSUME Typed, NEW r \in Requests, Ends(r)
    PROVE  /\ RequestsTyped' /\ req'[r] = Done
           /\ \A q \in Requests \ {r} : req'[q] = req[q]
<1>1. req' = [req EXCEPT ![r] = Done]
  BY DEF Ends
<1>2. QED BY <1>1, OneMoves, RecordsTyped

LEMMA CookiesTyped ==
    ASSUME Typed, NEW b
    PROVE  /\ [cookie EXCEPT ![b] = HalfWay] \in [Browsers -> Cookie]
           /\ [cookie EXCEPT ![b] = NoCookie] \in [Browsers -> Cookie]
           /\ \A v \in 1..MaxVersion : [cookie EXCEPT ![b] = Session(v)] \in [Browsers -> Cookie]
           /\ [cookie EXCEPT ![b].half = FALSE] \in [Browsers -> Cookie]
           /\ Outdated(b) \in [Browsers -> Cookie]
<1>1. cookie \in [Browsers -> Cookie]
  BY DEF Typed, TypeOK
<1>2. [cookie EXCEPT ![b].half = FALSE] \in [Browsers -> Cookie]
  BY <1>1 DEF Cookie
<1>3. \A c \in Browsers : [cookie[c] EXCEPT !.ended = @ \/ cookie[c].version # 0] \in Cookie
  BY <1>1 DEF Cookie
<1>4. Outdated(b) \in [Browsers -> Cookie]
  BY <1>1, <1>3 DEF Outdated
<1>5. QED BY <1>1, <1>2, <1>4, RecordsTyped

\* A failure under a lock is a late one, whatever it does to the count.
LEMMA CountedIs ==
    ASSUME Typed, NEW k \in Keys
    PROVE  /\ Counted(k) \in Throttle
           /\ Counted(k).late = IF throttle[k].locked THEN throttle[k].late + 1 ELSE 0
           /\ throttle[k].locked => Counted(k).locked
<1> DEFINE row == throttle[k]
           late == IF row.locked THEN row.late + 1 ELSE 0
           more == [row EXCEPT !.fails = @ + 1]
<1>1. row \in Throttle
  BY DEF Typed, TypeOK
<1>2. late \in Nat
  BY <1>1 DEF Throttle
<1>3. CASE row.fails + 1 >= MaxFailures(k)
  <2>1. Counted(k) = [fails |-> 0, locked |-> TRUE, late |-> late]
    BY <1>3 DEF Counted
  <2> HIDE DEF late
  <2>2. QED BY <2>1, <1>2 DEF Throttle, late
<1>4. CASE ~(row.fails + 1 >= MaxFailures(k))
  <2>1. more \in Throttle /\ more.locked = row.locked
    BY <1>1 DEF Throttle
  <2>2. Counted(k) = [more EXCEPT !.late = late]
    BY <1>4 DEF Counted
  <2> HIDE DEF more, late
  <2>3. Counted(k) \in Throttle /\ Counted(k).late = late /\ Counted(k).locked = more.locked
    BY <2>1, <2>2, <1>2 DEF Throttle
  <2>4. QED BY <2>1, <2>3 DEF late
<1>5. QED BY <1>3, <1>4

LEMMA ThrottleTyped ==
    ASSUME Typed, NEW k \in Keys
    PROVE  /\ [throttle EXCEPT ![k] = Clear] \in [Keys -> Throttle]
           /\ [throttle EXCEPT ![k] = Counted(k)] \in [Keys -> Throttle]
           /\ [throttle EXCEPT ![k].locked = FALSE, ![k].late = 0] \in [Keys -> Throttle]
<1>1. throttle \in [Keys -> Throttle]
  BY DEF Typed, TypeOK
<1>2. Counted(k) \in Throttle
  BY CountedIs
<1>3. [throttle EXCEPT ![k].locked = FALSE, ![k].late = 0] \in [Keys -> Throttle]
  BY <1>1 DEF Throttle
<1>4. QED BY <1>1, <1>2, <1>3, RecordsTyped

\* A request that types a code is at "wrong" or at "accept".
LEMMA TypesTyped ==
    ASSUME Typed, NEW r \in Requests, NEW b \in Browsers, NEW what \in Kinds,
           NEW new \in MaybeSecret, Enrolled, what = "setup" => new \in Secrets,
           TypesCode(r, b, what, new)
    PROVE  RequestsTyped'
<1>1. CASE Goes(r, b, what, "wrong")
  BY <1>1, GoesOnTyped
<1>2. ASSUME NEW s \in Codes, GoesWith(r, b, what, "accept", s, account.secret, new)
      PROVE  RequestsTyped'
  <2>1. s \in 0..MaxStep
    BY BoundsAreNat DEF Codes
  <2>2. account.secret \in Secrets /\ account.secret \in MaybeSecret
    BY DEF Typed, TypeOK, Account, MaybeSecret, Enrolled
  <2>3. QED BY <1>2, <2>1, <2>2, GoesTyped
<1>3. QED BY <1>1, <1>2 DEF TypesCode

LEMMA BeginTyped ==
    ASSUME Typed, NEW r \in Requests, NEW b \in Browsers, Begin(r, b)
    PROVE  Typed'
<1> "code" \in Keys /\ "password" \in Keys
  BY DEF Keys
<1> NoSecret \in MaybeSecret
  BY DEF MaybeSecret
<1> {"login", "half", "verify", "setup", "force", "password", "disable", "logout"} \subseteq Kinds
  BY DEF Kinds
<1> UNCHANGED <<account, throttle, history>> /\ RequestsTyped'
      /\ cookie' \in [Browsers -> Cookie] => Typed'
  BY DEF Typed, TypeOK, RequestsTyped, history
<1>0. cookie \in [Browsers -> Cookie]
  BY DEF Typed, TypeOK
<1>1. CASE LoginWrong(r, b)
  BY <1>0, <1>1, GoesOnTyped DEF LoginWrong
<1>2. CASE LoginRight(r, b)
  <2>1. PICK what \in {"half", "login"} : Goes(r, b, what, "clear")
    BY <1>2 DEF LoginRight
  <2>2. RequestsTyped'
    BY <2>1, GoesOnTyped
  <2>3. QED BY <1>0, <1>2, <2>2 DEF LoginRight
<1>3. CASE Verify(r, b)
  BY <1>0, <1>3, TypesTyped DEF Verify
<1>4. CASE Setup(r, b)
  <2>1. account.pending \in MaybeSecret
    BY DEF Typed, TypeOK, Account
  <2>2. account.pending # NoSecret => account.pending \in Secrets
    BY <2>1 DEF MaybeSecret
  <2>3. CASE Goes(r, b, "setup", "offer")
    BY <1>0, <1>4, <2>3, GoesOnTyped DEF Setup
  <2>4. CASE /\ account.pending # NoSecret
             /\ GoesWith(r, b, "setup", "confirm", 0, NoSecret, account.pending)
    <3>1. 0 \in 0..MaxStep
      BY BoundsAreNat
    <3>2. RequestsTyped'
      BY <2>1, <2>2, <2>4, <3>1, GoesTyped
    <3>3. QED BY <1>0, <1>4, <3>2 DEF Setup
  <2>5. CASE account.pending # NoSecret /\ Enrolled /\ TypesCode(r, b, "setup", account.pending)
    <3>1. RequestsTyped'
      BY <2>1, <2>2, <2>5, TypesTyped
    <3>2. QED BY <1>0, <1>4, <3>1 DEF Setup
  <2>6. QED BY <1>4, <2>3, <2>4, <2>5 DEF Setup
<1>5. CASE ForceChange(r, b)
  BY <1>0, <1>5, GoesOnTyped DEF ForceChange
<1>6. CASE ChangePassword(r, b)
  BY <1>0, <1>6, GoesOnTyped DEF ChangePassword
<1>7. CASE Disable(r, b)
  BY <1>0, <1>7, TypesTyped DEF Disable, Open
<1>8. CASE Logout(r, b)
  <2>1. CASE Goes(r, b, "logout", "read") /\ UNCHANGED cookie
    BY <1>0, <1>8, <2>1, GoesOnTyped DEF Logout
  <2>2. CASE cookie' = [cookie EXCEPT ![b] = NoCookie] /\ UNCHANGED req
    BY <1>8, <2>2, CookiesTyped DEF Logout, Typed, RequestsTyped
  <2>3. QED BY <1>8, <2>1, <2>2 DEF Logout
<1>9. QED BY <1>1, <1>2, <1>3, <1>4, <1>5, <1>6, <1>7, <1>8 DEF Begin

\* A secret that is shown becomes the pending one.
LEMMA PendingTyped ==
    ASSUME NEW a \in Account, NEW k \in MaybeSecret
    PROVE  [a EXCEPT !.pending = k] \in Account
BY DEF Account

\* The second factor and its last step, of one that is confirmed or removed.
LEMMA FactorTyped ==
    ASSUME NEW a \in Account, NEW k \in MaybeSecret, NEW s \in 0..MaxStep,
           NEW b, b = [a EXCEPT !.secret = k, !.last = s, !.pending = NoSecret]
    PROVE  b \in Account
<1> DEFINE x == [a EXCEPT !.secret = k]
           y == [x EXCEPT !.last = s]
<1>1. x \in Account
  BY DEF Account
<1>2. y \in Account
  <2> HIDE DEF x
  <2>1. QED BY <1>1 DEF Account
<1>3. b = [y EXCEPT !.pending = NoSecret]
  OBVIOUS
<1> HIDE DEF y
<1>4. NoSecret \in MaybeSecret
  BY DEF MaybeSecret
<1>5. QED BY <1>2, <1>3, <1>4 DEF Account

LEMMA GoOnTyped ==
    ASSUME Typed, NEW r \in Requests, GoOn(r)
    PROVE  Typed'
<1> "code" \in Keys /\ "password" \in Keys
  BY DEF Keys
<1> NoSecret \in MaybeSecret /\ Secrets \subseteq MaybeSecret
  BY DEF MaybeSecret
<1> RequestsTyped' => req' \in [Requests -> Request]
  BY DEF RequestsTyped
<1>0. /\ Sound(req[r]) /\ req[r] \in Request /\ account \in Account
      /\ account.version \in 1..MaxVersion
  BY DEF Typed, TypeOK, RequestsTyped, Sound, Account
<1>1. CASE NoteWrong(r)
  BY <1>1, EndsTyped, ThrottleTyped, CookiesTyped DEF NoteWrong, Typed, TypeOK, history
<1>2. CASE Accept(r)
  <2>1. req[r].secret \in Secrets /\ req[r].step \in Codes /\ Codes \subseteq 0..MaxStep
    BY <1>0, <1>2, BoundsAreNat DEF Accept, At, Sound, Codes
  <2>2. account' \in Account /\ spent' \subseteq Secrets \X Codes
    BY <1>2, <1>0, <2>1 DEF Accept, Account, Typed, TypeOK
  <2>3. RequestsTyped'
    BY <1>2, ThenTyped DEF Accept, At, NextAfterCode
  <2>4. QED BY <1>2, <2>2, <2>3 DEF Accept, Typed, TypeOK
<1>3. CASE Reused(r)
  BY <1>3, ThenTyped DEF Reused, Typed, TypeOK, history
<1>4. CASE Clears(r)
  <2>1. throttle' \in [Keys -> Throttle]
    BY <1>4, ThrottleTyped DEF Clears
  <2>2. RequestsTyped'
    BY <1>4, EndsTyped, ThenTyped DEF Clears
  <2>3. cookie' \in [Browsers -> Cookie]
    BY <1>4, CookiesTyped DEF Clears, Typed, TypeOK
  <2>4. QED BY <1>4, <2>1, <2>2, <2>3 DEF Clears, Typed, TypeOK, history
<1>5. CASE Issue(r)
  BY <1>5, <1>0, EndsTyped, CookiesTyped DEF Issue, Typed, TypeOK, history
<1>6. CASE Offer(r)
  <2>1. PICK k \in Secrets : /\ account' = [account EXCEPT !.pending = k]
                             /\ spent' = {p \in spent : p[1] # k}
                             /\ again' = again \ {k}
    BY <1>6 DEF Offer
  <2>2. account' \in Account
    BY <1>0, <2>1, PendingTyped
  <2>3. QED BY <1>6, <2>1, <2>2, EndsTyped DEF Offer, Typed, TypeOK
<1>7. CASE Confirm(r)
  <2>0. req[r].new \in Secrets
    BY <1>0, <1>7 DEF Confirm, At, Sound
  <2>1. CASE Ends(r) /\ UNCHANGED <<account, cookie, spent, again>>
    BY <1>7, <2>1, EndsTyped DEF Confirm, Typed, TypeOK
  <2>2. ASSUME NEW s \in Codes,
               account' = [account EXCEPT !.secret = req[r].new, !.last = s, !.pending = NoSecret],
               spent' = spent \cup {<<req[r].new, s>>},
               again' = again \cup {j \in {req[r].new} : \E p \in spent : p[1] = j},
               cookie' = Outdated(req[r].from), Then(r, "read")
        PROVE  Typed'
    <3>1. s \in 0..MaxStep
      BY BoundsAreNat DEF Codes
    <3>2. account' \in Account
      BY <1>0, <2>0, <2>2, <3>1, FactorTyped
    <3>3. spent' \subseteq Secrets \X Codes /\ again' \subseteq Secrets
      BY <2>0, <2>2 DEF Typed, TypeOK
    <3>4. cookie' \in [Browsers -> Cookie] /\ RequestsTyped'
      BY <2>2, CookiesTyped, ThenTyped
    <3>5. QED BY <1>7, <3>2, <3>3, <3>4 DEF Confirm, Typed, TypeOK
  <2>3. QED BY <1>7, <2>1, <2>2 DEF Confirm
<1>8. CASE StorePassword(r)
  <2>1. RequestsTyped' /\ cookie' \in [Browsers -> Cookie]
    BY <1>8, ThenTyped, CookiesTyped DEF StorePassword
  <2>2. QED BY <1>8, <2>1 DEF StorePassword, Typed, TypeOK, history
<1>9. CASE Unmark(r)
  <2>1. account' \in Account
    BY <1>9, <1>0 DEF Unmark, Account
  <2>2. QED BY <1>9, <2>1, ThenTyped DEF Unmark, Typed, TypeOK, history
<1>10. CASE RemoveFactor(r)
  <2>1. account' \in Account
    <3>1. account' = [account EXCEPT !.secret = NoSecret, !.last = 0, !.pending = NoSecret]
      BY <1>10 DEF RemoveFactor
    <3>2. 0 \in 0..MaxStep
      BY BoundsAreNat
    <3>3. QED BY <1>0, <3>1, <3>2, FactorTyped
  <2>2. RequestsTyped' /\ cookie' \in [Browsers -> Cookie]
    BY <1>10, ThenTyped, CookiesTyped DEF RemoveFactor
  <2>3. QED BY <1>10, <2>1, <2>2 DEF RemoveFactor, Typed, TypeOK, history
<1>11. CASE BumpReads(r)
  <2> DEFINE reads == [req[r] EXCEPT !.at = "write"]
             x == [reads EXCEPT !.version = account.version]
  <2>1. reads \in Request /\ reads.at = "write"
    BY <1>0 DEF Request
  <2>2. req' = [req EXCEPT ![r] = x]
    BY <1>11 DEF BumpReads, Typed, TypeOK
  <2>3. x \in Request /\ x.at = "write" /\ x.version = account.version
    <3> HIDE DEF reads
    <3>1. QED BY <2>1, <1>0, BoundsAreNat DEF Request
  <2> HIDE DEF x
  <2>4. Sound(x)
    BY <1>11, <1>0, <2>3, BoundsAreNat DEF BumpReads, Sound
  <2>5. RequestsTyped'
    BY <2>2, <2>4, OneMoves
  <2>6. QED BY <1>11, <2>5 DEF BumpReads, Typed, TypeOK
<1>12. CASE BumpWrites(r)
  <2> DEFINE new == Bumped(req[r].version)
  <2>1. new \in 1..MaxVersion
    BY <1>12, <1>0, BoundsAreNat DEF BumpWrites, At, Sound, Bumped
  <2> HIDE DEF new
  <2>2. account' \in Account
    BY <1>12, <1>0, <2>1 DEF BumpWrites, Account, new
  <2>3. cookie' \in [Browsers -> Cookie]
    BY <1>12, <2>1, CookiesTyped, RecordsTyped DEF BumpWrites, new
  <2>4. RequestsTyped'
    BY <1>12, EndsTyped, ThenTyped DEF BumpWrites
  <2>5. QED BY <1>12, <2>2, <2>3, <2>4 DEF BumpWrites, Typed, TypeOK
<1>13. CASE Abort(r)
  <2>1. cut' \in BOOLEAN
    BY <1>13 DEF Abort
  <2>2. QED BY <1>13, <2>1, EndsTyped DEF Abort, Typed, TypeOK
<1>14. QED
  BY <1>1, <1>2, <1>3, <1>4, <1>5, <1>6, <1>7, <1>8, <1>9, <1>10, <1>11, <1>12, <1>13 DEF GoOn

LEMMA StepTyped == Typed /\ [Next]_vars => Typed'
<1> SUFFICES ASSUME Typed, [Next]_vars PROVE Typed'
  OBVIOUS
<1> "code" \in Keys
  BY DEF Keys
<1> RequestsTyped' => req' \in [Requests -> Request]
  BY DEF RequestsTyped
<1>0. account \in Account
  BY DEF Typed, TypeOK
<1>1. CASE UNCHANGED vars
  BY <1>1 DEF vars, Typed, TypeOK, RequestsTyped, history
<1>2. ASSUME NEW r \in Requests, Reset(r) PROVE Typed'
  <2>1. "reset" \in Kinds
    BY DEF Kinds
  <2>2. QED BY <1>2, <2>1, GoesOnTyped DEF Reset, Typed, TypeOK, history
<1>3. ASSUME NEW b \in Browsers, VerifyRefused(b) \/ CookieExpires(b) PROVE Typed'
  <2>1. cookie' \in [Browsers -> Cookie]
    <3>1. CASE VerifyRefused(b)
      BY <3>1, CookiesTyped DEF VerifyRefused
    <3>2. CASE CookieExpires(b)
      BY <3>2, CookiesTyped DEF CookieExpires
    <3>3. QED BY <1>3, <3>1, <3>2
  <2>2. QED BY <1>3, <2>1 DEF VerifyRefused, CookieExpires, Typed, TypeOK, RequestsTyped, history
<1>4. ASSUME NEW k \in Keys, LockEnds(k) \/ Forget(k) PROVE Typed'
  BY <1>4, ThrottleTyped DEF LockEnds, Forget, Typed, TypeOK, RequestsTyped, history
<1>5. CASE OfferExpires
  <2>1. account' \in Account
    BY <1>0, <1>5, PendingTyped DEF OfferExpires, MaybeSecret
  <2>2. QED BY <1>5, <2>1 DEF OfferExpires, Typed, TypeOK, RequestsTyped, history
<1>6. CASE Delete
  <2>1. account' \in Account /\ throttle' \in [Keys -> Throttle]
    BY <1>6, RecordsTyped, ThrottleTyped DEF Delete
  <2>2. req' = [r \in Requests |-> Done] /\ Done \in Request
    BY <1>6, RecordsTyped DEF Delete, Sound
  <2>3. RequestsTyped'
    BY <2>2, RecordsTyped DEF RequestsTyped
  <2>4. QED BY <1>6, <2>1, <2>2, <2>3 DEF Delete, Typed, TypeOK
<1>7. QED
  BY <1>1, <1>2, <1>3, <1>4, <1>5, <1>6, BeginTyped, GoOnTyped DEF Next

LEMMA InitTyped == Init => Typed
<1> SUFFICES ASSUME Init PROVE Typed
  OBVIOUS
<1>1. Done \in Request
  BY RecordsTyped DEF Sound
<1>2. RequestsTyped
  BY <1>1, RecordsTyped DEF Init, RequestsTyped
<1>3. QED BY <1>1, <1>2, RecordsTyped DEF Init, Typed, TypeOK

\* Whatever is asked at the same time, cut off or deleted, every row, cookie and request
\* has its type; a version that is about to be written can be.
THEOREM SignInTypeCorrect == Spec => []TypeOK
<1>1. Typed => TypeOK
  BY DEF Typed
<1>2. QED BY <1>1, InitTyped, StepTyped, PTL DEF Spec

-----------------------------------------------------------------------------
(* What a step may change. *)

Untouched(r) == \A q \in Requests \ {r} : req'[q] = req[q]

\* The requests that may still note a failure for a key.
FailsUnder(r) == IF req[r].what = "login" THEN "password" ELSE "code"
MayFail(k) == {r \in Requests : req[r].at \in {"wrong", "accept"} /\ FailsUnder(r) = k}

LEMMA GoesThere ==
    ASSUME Typed, NEW r \in Requests, NEW b, NEW what, NEW at, NEW step, NEW secret, NEW new,
           GoesWith(r, b, what, at, step, secret, new)
    PROVE  /\ req'[r].at = at /\ req'[r].what = what /\ Untouched(r)
BY DEF GoesWith, Untouched, Typed, TypeOK

LEMMA GoesOnThere ==
    ASSUME Typed, NEW r \in Requests, NEW b, NEW what, NEW at, Goes(r, b, what, at)
    PROVE  /\ req'[r].at = at /\ req'[r].what = what /\ Untouched(r)
<1>1. GoesWith(r, b, what, at, 0, NoSecret, NoSecret)
  BY DEF Goes
<1>2. QED BY <1>1, GoesThere

LEMMA TypesThere ==
    ASSUME Typed, NEW r \in Requests, NEW b, NEW what, NEW new, TypesCode(r, b, what, new)
    PROVE  /\ req'[r].at \in {"wrong", "accept"} /\ req'[r].what = what /\ Untouched(r)
BY GoesThere, GoesOnThere DEF TypesCode

\* A request that begins changes no row, ends no session, and is about to be judged only
\* when its key is not locked.
LEMMA BeginChanges ==
    ASSUME Typed, NEW r \in Requests, NEW b \in Browsers, Begin(r, b)
    PROVE  /\ Idle(r) /\ Untouched(r) /\ UNCHANGED <<account, throttle, history>>
           /\ req'[r].at # "write"
           /\ req'[r].at \in {"wrong", "accept"} => ~throttle[FailsUnder(r)'].locked
           /\ \A c \in Browsers : cookie'[c] \in {cookie[c], NoCookie}
<1> cookie \in [Browsers -> Cookie]
  BY DEF Typed, TypeOK
<1> UNCHANGED req /\ Idle(r) => req'[r].at = "idle" /\ Untouched(r)
  BY DEF Idle, Untouched
<1>1. CASE LoginWrong(r, b)
  BY <1>1, GoesOnThere DEF LoginWrong, FailsUnder
<1>2. CASE LoginRight(r, b)
  BY <1>2, GoesOnThere DEF LoginRight
<1>3. CASE Verify(r, b)
  BY <1>3, TypesThere DEF Verify, FailsUnder, MayType
<1>4. CASE Setup(r, b)
  BY <1>4, TypesThere, GoesThere, GoesOnThere DEF Setup, FailsUnder, MayType
<1>5. CASE ForceChange(r, b)
  BY <1>5, GoesOnThere DEF ForceChange
<1>6. CASE ChangePassword(r, b)
  BY <1>6, GoesOnThere DEF ChangePassword
<1>7. CASE Disable(r, b)
  BY <1>7, TypesThere DEF Disable, FailsUnder, MayType
<1>8. CASE Logout(r, b)
  BY <1>8, GoesOnThere DEF Logout
<1>9. QED BY <1>1, <1>2, <1>3, <1>4, <1>5, <1>6, <1>7, <1>8 DEF Begin

\* A request that goes on leaves the others where they are, and moves on from where it is
\* about to be judged only when it was judged.
LEMMA GoOnChanges ==
    ASSUME Typed, NEW r \in Requests, GoOn(r)
    PROVE  /\ Untouched(r)
           /\ req'[r].at = "write" => BumpReads(r)
           /\ req'[r].at \in {"wrong", "accept"} => Reused(r)
           /\ req[r].at = "accept" => Accept(r) \/ Reused(r) \/ Abort(r)
<1> USE DEF Untouched
<1>1. CASE NoteWrong(r)
  BY <1>1, EndsTyped DEF NoteWrong, At, Done
<1>2. CASE Accept(r)
  BY <1>2, ThenTyped DEF Accept, At, NextAfterCode
<1>3. CASE Reused(r)
  BY <1>3, ThenTyped DEF Reused
<1>4. CASE Clears(r)
  BY <1>4, EndsTyped, ThenTyped DEF Clears, At, Done
<1>5. CASE Issue(r)
  BY <1>5, EndsTyped DEF Issue, At, Done
<1>6. CASE Offer(r)
  BY <1>6, EndsTyped DEF Offer, At, Done
<1>7. CASE Confirm(r)
  <2>1. At(r, "confirm") /\ (Ends(r) \/ Then(r, "read"))
    BY <1>7 DEF Confirm
  <2>2. QED BY <2>1, EndsTyped, ThenTyped DEF At, Done
<1>8. CASE StorePassword(r)
  BY <1>8, ThenTyped DEF StorePassword, At
<1>9. CASE Unmark(r)
  BY <1>9, ThenTyped DEF Unmark, At
<1>10. CASE RemoveFactor(r)
  BY <1>10, ThenTyped DEF RemoveFactor, At
<1>11. CASE BumpReads(r)
  BY <1>11 DEF BumpReads, At, Typed, TypeOK
<1>12. CASE BumpWrites(r)
  BY <1>12, EndsTyped, ThenTyped DEF BumpWrites, At, Done
<1>13. CASE Abort(r)
  BY <1>13, EndsTyped DEF Abort, Done
<1>14. QED
  BY <1>1, <1>2, <1>3, <1>4, <1>5, <1>6, <1>7, <1>8, <1>9, <1>10, <1>11, <1>12, <1>13 DEF GoOn

LEMMA ResetChanges ==
    ASSUME Typed, NEW r \in Requests, Reset(r)
    PROVE  Idle(r) /\ Untouched(r) /\ req'[r].at = "change"
BY GoesOnThere DEF Reset

-----------------------------------------------------------------------------
(* A code works once. *)

\* What was accepted of the secret the account has is not after the last accepted step,
\* which is all that the conditional update of the row looks at.  A secret that is enrolled
\* a second time brings back older codes: it is in "again" then.
SpentIsOld ==
    \A p \in spent : p[1] = account.secret /\ p[1] \notin again => p[2] <= account.last

LEMMA StepSpent ==
    ASSUME Typed, SpentIsOld, [Next]_vars
    PROVE  SpentIsOld'
<1>0. /\ account \in Account /\ account.last \in Nat /\ NoSecret \notin Secrets
      /\ spent \subseteq Secrets \X Codes /\ Codes \subseteq Nat
      /\ \A p \in spent : p[1] \in Secrets /\ p[2] \in Nat
  BY BoundsAreNat DEF Typed, TypeOK, Account, Codes
<1>1. CASE /\ UNCHANGED <<spent, again>>
           /\ account'.last = account.last /\ account'.secret = account.secret
  BY <1>1 DEF SpentIsOld
<1>2. ASSUME NEW r \in Requests, Accept(r) PROVE SpentIsOld'
  <2>1. req[r].step \in Nat
    BY BoundsAreNat DEF Typed, TypeOK, Request
  <2>2. /\ account'.last = req[r].step /\ account'.secret = account.secret
        /\ spent' = spent \cup {<<req[r].secret, req[r].step>>} /\ again' = again
    BY <1>2, <1>0 DEF Accept, Account
  <2>3. \A p \in spent : p[1] = account.secret /\ p[1] \notin again => p[2] <= req[r].step
    BY <1>0, <1>2, <2>1 DEF Accept, IsNew, SpentIsOld
  <2>4. QED BY <2>1, <2>2, <2>3 DEF SpentIsOld
<1>3. ASSUME NEW r \in Requests, Confirm(r) PROVE SpentIsOld'
  <2>1. CASE UNCHANGED <<account, spent, again>>
    BY <2>1, <1>1
  <2>2. ASSUME NEW s \in Codes,
               account' = [account EXCEPT !.secret = req[r].new, !.last = s, !.pending = NoSecret],
               spent' = spent \cup {<<req[r].new, s>>},
               again' = again \cup {j \in {req[r].new} : \E p \in spent : p[1] = j}
        PROVE  SpentIsOld'
    <3>0. req[r].new \in MaybeSecret
      BY DEF Typed, TypeOK, Request
    <3>1. s \in 0..MaxStep /\ s \in Nat
      BY BoundsAreNat DEF Codes
    <3>2. account'.last = s /\ account'.secret = req[r].new
      <4>1. account' = [account EXCEPT !.secret = req[r].new, !.last = s, !.pending = NoSecret]
        BY <2>2
      <4>2. account \in Account
        BY <1>0
      <4>3. QED BY <4>1, <4>2 DEF Account
    <3>3. \A p \in spent : p[1] = req[r].new => p[1] \in again'
      BY <2>2
    <3>4. QED BY <2>2, <3>1, <3>2, <3>3 DEF SpentIsOld
  <2>3. QED BY <1>3, <2>1, <2>2 DEF Confirm
<1>4. ASSUME NEW r \in Requests, RemoveFactor(r) PROVE SpentIsOld'
  <2>1. account' = [account EXCEPT !.secret = NoSecret, !.last = 0, !.pending = NoSecret]
    BY <1>4 DEF RemoveFactor
  <2>2. account'.secret = NoSecret /\ spent' = spent
    BY <1>0, <1>4, <2>1 DEF RemoveFactor, Account, history
  <2>3. QED BY <1>0, <2>2 DEF SpentIsOld
<1>5. ASSUME NEW r \in Requests, Offer(r) PROVE SpentIsOld'
  <2>1. PICK k \in Secrets : /\ k # account.secret
                             /\ account' = [account EXCEPT !.pending = k]
                             /\ spent' = {p \in spent : p[1] # k}
                             /\ again' = again \ {k}
    BY <1>5 DEF Offer, IsFresh
  <2>2. account'.last = account.last /\ account'.secret = account.secret
    BY <1>0, <2>1 DEF Account
  <2>3. QED BY <2>1, <2>2 DEF SpentIsOld
<1>6. ASSUME NEW r \in Requests, GoOn(r), ~Accept(r), ~Confirm(r), ~RemoveFactor(r), ~Offer(r)
      PROVE  /\ UNCHANGED <<spent, again>>
             /\ account'.last = account.last /\ account'.secret = account.secret
  BY <1>6, <1>0 DEF GoOn, NoteWrong, Reused, Clears, Issue, StorePassword, Unmark, BumpReads,
     BumpWrites, Abort, Account, history
<1>7. ASSUME NEW r \in Requests, GoOn(r) PROVE SpentIsOld'
  BY <1>7, <1>1, <1>2, <1>3, <1>4, <1>5, <1>6
<1>8. ASSUME NEW r \in Requests, NEW b \in Browsers, Begin(r, b) PROVE SpentIsOld'
  BY <1>8, <1>1, BeginChanges DEF history
<1>9. CASE Delete
  BY <1>9 DEF Delete, SpentIsOld
<1>10. CASE \/ UNCHANGED vars \/ OfferExpires \/ \E r \in Requests : Reset(r)
            \/ \E b \in Browsers : VerifyRefused(b) \/ CookieExpires(b)
            \/ \E k \in Keys : LockEnds(k) \/ Forget(k)
  BY <1>10, <1>0, <1>1 DEF vars, OfferExpires, Reset, VerifyRefused, CookieExpires,
     LockEnds, Forget, Account, history
<1>11. QED BY <1>7, <1>8, <1>9, <1>10 DEF Next

\* Nothing but the conditional update takes a request past its code.
LEMMA OnlyAcceptPasses ==
    ASSUME Typed, [Next]_vars, NEW r \in Requests, Passes(r)
    PROVE  Accept(r)
<1> USE DEF Passes
<1>1. ASSUME NEW q \in Requests, NEW b \in Browsers, Begin(q, b) PROVE FALSE
  BY <1>1, BeginChanges DEF Idle, Untouched
<1>2. ASSUME NEW q \in Requests, GoOn(q) PROVE Accept(r)
  <2>1. q = r
    BY <1>2, GoOnChanges DEF Untouched
  <2>2. CASE Reused(r)
    BY <2>2, ThenTyped DEF Reused
  <2>3. CASE Abort(r)
    BY <2>3, EndsTyped DEF Abort, Done
  <2>4. QED BY <1>2, <2>1, <2>2, <2>3, GoOnChanges
<1>3. ASSUME NEW q \in Requests, Reset(q) PROVE FALSE
  BY <1>3, ResetChanges DEF Idle, Untouched
<1>4. CASE \/ UNCHANGED vars \/ OfferExpires
           \/ \E b \in Browsers : VerifyRefused(b) \/ CookieExpires(b)
           \/ \E k \in Keys : LockEnds(k) \/ Forget(k)
  BY <1>4 DEF vars, OfferExpires, VerifyRefused, CookieExpires, LockEnds, Forget
<1>5. CASE Delete
  BY <1>5 DEF Delete, Done
<1>6. QED BY <1>1, <1>2, <1>3, <1>4, <1>5 DEF Next

\* However many requests bring the same code at once, one gets past it: a request whose code
\* is of the second factor that the account has, and that was enrolled once, goes past it
\* only with a step of that factor that nobody has used.
THEOREM CodesWorkOnce == Spec => CodeWorksOnce
<1>1. Init => SpentIsOld
  BY DEF Init, SpentIsOld
<1>2. ASSUME Typed, SpentIsOld, [Next]_vars, NEW r \in Requests, Passes(r),
             req[r].secret = account.secret, req[r].secret \notin again
      PROVE  Code(r) \notin spent
  <2>1. Accept(r)
    BY <1>2, OnlyAcceptPasses
  <2>2. account.last < req[r].step /\ account.last \in Nat /\ req[r].step \in Nat
    <3>1. account \in Account /\ req[r] \in Request
      BY <1>2 DEF Typed, TypeOK
    <3>2. account.last \in Nat /\ req[r].step \in Nat
      BY <3>1, BoundsAreNat DEF Account, Request
    <3>3. QED BY <2>1, <3>2 DEF Accept, IsNew
  <2>3. ASSUME Code(r) \in spent PROVE req[r].step <= account.last
    BY <1>2, <2>3 DEF SpentIsOld, Code
  <2>4. QED BY <2>2, <2>3
<1>3. Typed /\ SpentIsOld /\ [Next]_vars =>
        [\A r \in Requests :
            Passes(r) /\ req[r].secret = account.secret /\ req[r].secret \notin again
              => Code(r) \notin spent]_vars
  BY <1>2
<1>4. QED
  BY <1>1, <1>3, InitTyped, StepTyped, StepSpent, PTL DEF Spec, CodeWorksOnce

-----------------------------------------------------------------------------
(* A session that was ended stays ended. *)

\* As long as no two changes have overlapped, one request at most is between reading the
\* version and writing it, and the version has not moved since ...
OneBump ==
    \A r \in Requests : req[r].at = "write" =>
        /\ req[r].version = account.version
        /\ \A q \in Requests : req[q].at = "write" => q = r

\* ... and a session that should have ended is out, or somebody is about to raise the
\* version, or the request that should have raised it was cut off.
WillEnd == cut \/ \E r \in Requests : Raising(r)
EndedIsOut ==
    account.there =>
        \A b \in Browsers :
            /\ cookie[b].version <= account.version
            /\ cookie[b].ended /\ cookie[b].version = account.version => WillEnd

Sessions == ~muddled => OneBump /\ EndedIsOut

\* What leaves the version, brings no request to its write and cuts off none that raises it
\* keeps both.
LEMMA SessionsKept ==
    ASSUME Typed, Sessions, UNCHANGED muddled, account'.version = account.version,
           account'.there => account.there, WillEnd => WillEnd',
           \A r \in Requests : req'[r].at = "write" => req'[r] = req[r],
           \A b \in Browsers : \/ cookie'[b].version = cookie[b].version
                                  /\ cookie'[b].ended = cookie[b].ended
                               \/ cookie'[b] \in {NoCookie, HalfWay, Session(account.version)}
    PROVE  Sessions'
<1>1. account.version \in Nat \ {0}
  BY BoundsAreNat DEF Typed, TypeOK, Account
<1>2. NoCookie.version = 0 /\ ~NoCookie.ended /\ HalfWay.version = 0 /\ ~HalfWay.ended
  BY DEF NoCookie, HalfWay
<1>3. Session(account.version).version = account.version /\ ~Session(account.version).ended
  BY DEF Session, NoCookie
<1>4. OneBump => OneBump'
  BY DEF OneBump
<1>5. EndedIsOut => EndedIsOut'
  BY <1>1, <1>2, <1>3 DEF EndedIsOut
<1>6. QED BY <1>4, <1>5 DEF Sessions

\* A stored change marks the sessions, and the request that stored it is about to raise the
\* version.
LEMMA ChangeMarks ==
    ASSUME Typed, Sessions, UNCHANGED muddled, account'.version = account.version,
           account'.there => account.there, NEW r \in Requests, Raising(r)',
           \A q \in Requests : req'[q].at = "write" => req'[q] = req[q],
           cookie' = Outdated(req[r].from)
    PROVE  Sessions'
<1>1. cookie \in [Browsers -> Cookie]
  BY DEF Typed, TypeOK
<1>2. \A b \in Browsers : cookie'[b].version = cookie[b].version
  BY <1>1 DEF Outdated, Cookie
<1>3. WillEnd'
  BY DEF WillEnd
<1>4. OneBump => OneBump'
  BY DEF OneBump
<1>5. EndedIsOut => EndedIsOut'
  BY <1>2, <1>3 DEF EndedIsOut
<1>6. QED BY <1>4, <1>5 DEF Sessions

\* A request that moves and stays on its way to raise the version, or was not.
LEMMA StillRaising ==
    ASSUME NEW r \in Requests, Untouched(r), UNCHANGED cut, Raising(r) => Raising(r)'
    PROVE  WillEnd => WillEnd'
BY DEF WillEnd, Raising, Untouched

\* A first code of a new factor that is wrong leaves everything but the request.
LEMMA ConfirmOrEnds ==
    ASSUME Typed, NEW r \in Requests, Confirm(r), Ends(r)
    PROVE  UNCHANGED <<account, cookie, spent, again>>
<1>1. ~Then(r, "read")
  BY EndsTyped, ThenTyped DEF Done
<1>2. QED BY <1>1 DEF Confirm

LEMMA StepSessions ==
    ASSUME Typed, Sessions, [Next]_vars
    PROVE  Sessions'
<1>0. /\ account \in Account /\ account.version \in Nat \ {0}
      /\ cookie \in [Browsers -> Cookie] /\ req \in [Requests -> Request]
      /\ \A r \in Requests : Sound(req[r]) /\ req[r] \in Request
  BY BoundsAreNat DEF Typed, TypeOK, RequestsTyped, Account
<1>1. ASSUME NEW r \in Requests, NEW b \in Browsers, Begin(r, b) PROVE Sessions'
  <2>1. WillEnd => WillEnd'
    BY <1>1, BeginChanges, StillRaising DEF Idle, Raising, history
  <2>2. QED BY <1>1, <2>1, BeginChanges, SessionsKept DEF Untouched, history
<1>2. ASSUME NEW r \in Requests, GoOn(r) PROVE Sessions'
  <2>1. CASE BumpReads(r)
    <3>1. /\ req'[r].at = "write" /\ req'[r].version = account.version
          /\ req'[r].what = req[r].what /\ req[r].at = "read"
          /\ \A q \in Requests \ {r} : req'[q] = req[q]
          /\ UNCHANGED <<account, cookie, cut>>
          /\ muddled' = (muddled \/ \E q \in Requests : req[q].at = "write")
      BY <1>0, <2>1 DEF BumpReads, At, Request
    <3>2. WillEnd => WillEnd'
      <4>1. Raising(r) => Raising(r)'
        BY <3>1 DEF Raising
      <4>2. QED BY <3>1, <4>1, StillRaising DEF Untouched
    <3>3. ~muddled' => ~muddled /\ \A q \in Requests : req[q].at # "write"
      BY <3>1
    <3>4. ~muddled' => OneBump'
      BY <3>1, <3>3 DEF OneBump
    <3>5. EndedIsOut => EndedIsOut'
      BY <3>1, <3>2 DEF EndedIsOut
    <3>6. QED BY <3>3, <3>4, <3>5 DEF Sessions
  <2>2. CASE BumpWrites(r)
    <3>1. /\ account'.version = req[r].version + 1 /\ UNCHANGED muddled /\ req[r].at = "write"
          /\ account'.there = account.there
      BY <2>2, <1>0 DEF BumpWrites, At, Bumped, Account
    <3>2. /\ Untouched(r) /\ req'[r].at # "write"
      BY <2>2, EndsTyped, ThenTyped DEF BumpWrites, Untouched, Done
    <3>3. ASSUME NEW b \in Browsers, b # req[r].from
          PROVE  cookie'[b].version = cookie[b].version
      BY <2>2, <3>3, <1>0 DEF BumpWrites, Outdated, Cookie
    <3>4. ASSUME NEW b \in Browsers, b = req[r].from
          PROVE  /\ cookie'[b].version \in {0, account'.version}
                 /\ ~cookie'[b].ended
      <4>1. cookie'[b] \in {NoCookie, Session(account'.version)}
        BY <2>2, <3>1, <3>4 DEF BumpWrites, Bumped
      <4>2. QED BY <4>1 DEF NoCookie, Session
    <3>5. req[r].version \in Nat /\ \A b \in Browsers : cookie[b].version \in Nat
      BY <1>0, BoundsAreNat DEF Request, Cookie
    <3>6. ASSUME ~muddled
          PROVE  /\ OneBump' /\ account'.version = account.version + 1
                 /\ account.there => \A b \in Browsers : cookie[b].version <= account.version
      BY <3>1, <3>2, <3>6 DEF Sessions, OneBump, EndedIsOut, Untouched
    <3>7. ASSUME ~muddled, account.there, NEW b \in Browsers
          PROVE  /\ cookie'[b].version <= account'.version
                 /\ cookie'[b].ended => cookie'[b].version # account'.version
      BY <1>0, <3>3, <3>4, <3>5, <3>6, <3>7
    <3>8. QED BY <3>1, <3>6, <3>7 DEF Sessions, EndedIsOut
  <2>3. CASE Confirm(r) /\ ~Ends(r)
    <3>1. /\ account'.version = account.version /\ account'.there = account.there
          /\ cookie' = Outdated(req[r].from) /\ Then(r, "read") /\ UNCHANGED muddled
          /\ req[r].what = "setup"
      <4>1. PICK s \in Codes :
                 /\ account' = [account EXCEPT !.secret = req[r].new, !.last = s,
                                               !.pending = NoSecret]
                 /\ cookie' = Outdated(req[r].from) /\ Then(r, "read") /\ UNCHANGED muddled
        BY <2>3 DEF Confirm
      <4>2. account \in Account
        BY <1>0
      <4>3. account'.version = account.version /\ account'.there = account.there
        <5>1. account' = [account EXCEPT !.secret = req[r].new, !.last = s, !.pending = NoSecret]
          BY <4>1
        <5>2. QED BY <4>2, <5>1 DEF Account
      <4>4. req[r].what = "setup"
        BY <1>0, <2>3 DEF Confirm, At, Sound
      <4>5. QED BY <4>1, <4>3, <4>4
    <3>2. Raising(r)' /\ \A q \in Requests : req'[q].at = "write" => req'[q] = req[q]
      BY <3>1, ThenTyped DEF Raising
    <3>3. QED BY <3>1, <3>2, ChangeMarks
  <2>4. CASE StorePassword(r)
    <3>1. \E at \in {"read", "unmark"} : Then(r, at) /\ req[r].what \in {"force", "password"}
      BY <2>4 DEF StorePassword
    <3>2. Raising(r)' /\ \A q \in Requests : req'[q].at = "write" => req'[q] = req[q]
      BY <3>1, ThenTyped DEF Raising
    <3>3. QED BY <2>4, <3>2, ChangeMarks DEF StorePassword, history
  <2>5. CASE RemoveFactor(r)
    <3>1. account' = [account EXCEPT !.secret = NoSecret, !.last = 0, !.pending = NoSecret]
      BY <2>5 DEF RemoveFactor
    <3>2. account'.version = account.version /\ account'.there = account.there
      BY <1>0, <3>1 DEF Account
    <3>3. Then(r, "read") /\ req[r].what \in {"disable", "reset"}
      BY <2>5 DEF RemoveFactor
    <3>4. Raising(r)' /\ \A q \in Requests : req'[q].at = "write" => req'[q] = req[q]
      BY <3>3, ThenTyped DEF Raising
    <3>5. QED BY <2>5, <3>2, <3>4, ChangeMarks DEF RemoveFactor, history
  <2>6. CASE /\ ~BumpReads(r) /\ ~BumpWrites(r) /\ ~(Confirm(r) /\ ~Ends(r))
             /\ ~StorePassword(r) /\ ~RemoveFactor(r)
    <3>1. /\ UNCHANGED muddled /\ account'.version = account.version
          /\ account'.there = account.there
      <4>1. CASE Offer(r)
        BY <4>1, <1>0 DEF Offer, Account
      <4>2. CASE Confirm(r) /\ Ends(r)
        <5>1. UNCHANGED account
          BY <4>2, ConfirmOrEnds
        <5>2. QED BY <4>2, <5>1 DEF Confirm
      <4>3. CASE ~Offer(r) /\ ~Confirm(r)
        BY <1>2, <2>6, <4>3, <1>0 DEF GoOn, NoteWrong, Accept, Reused, Clears, Issue, Unmark,
           Abort, Account, history
      <4>4. QED BY <2>6, <4>1, <4>2, <4>3
    <3>2. \A q \in Requests : req'[q].at = "write" => req'[q] = req[q]
      BY <1>2, <2>6, GoOnChanges DEF Untouched
    <3>3. WillEnd => WillEnd'
      <4>1. CASE Abort(r)
        BY <4>1, EndsTyped DEF Abort, WillEnd, Raising
      <4>2. CASE Unmark(r)
        BY <4>2, ThenTyped, StillRaising DEF Unmark, At, Raising, Untouched, history
      <4>3. CASE ~Abort(r) /\ ~Unmark(r)
        <5>1. ~Raising(r) /\ UNCHANGED cut
          BY <1>2, <2>6, <4>3 DEF GoOn, NoteWrong, Accept, Reused, Clears, Issue, Offer, Confirm,
             At, Raising, history
        <5>2. QED BY <1>2, <5>1, GoOnChanges, StillRaising
      <4>4. QED BY <4>1, <4>2, <4>3
    <3>4. ASSUME NEW b \in Browsers
          PROVE  \/ cookie'[b].version = cookie[b].version /\ cookie'[b].ended = cookie[b].ended
                 \/ cookie'[b] \in {NoCookie, HalfWay, Session(account.version)}
      <4>1. CASE NoteWrong(r)
        BY <4>1, <1>0 DEF NoteWrong, Cookie
      <4>2. CASE Issue(r) \/ Clears(r)
        BY <4>2, <1>0 DEF Issue, Clears
      <4>3. CASE Confirm(r) /\ Ends(r)
        BY <4>3, ConfirmOrEnds
      <4>4. CASE ~NoteWrong(r) /\ ~Issue(r) /\ ~Clears(r) /\ ~Confirm(r)
        BY <1>2, <2>6, <4>4 DEF GoOn, Accept, Reused, Offer, Unmark, Abort
      <4>5. QED BY <2>6, <4>1, <4>2, <4>3, <4>4
    <3>5. QED BY <3>1, <3>2, <3>3, <3>4, SessionsKept
  <2>7. QED BY <2>1, <2>2, <2>3, <2>4, <2>5, <2>6
<1>3. ASSUME NEW r \in Requests, Reset(r) PROVE Sessions'
  <2>1. WillEnd => WillEnd'
    BY <1>3, ResetChanges, StillRaising DEF Reset, Idle, Raising, history
  <2>2. QED BY <1>3, <2>1, ResetChanges, SessionsKept DEF Reset, Untouched, history
<1>4. ASSUME NEW b \in Browsers, VerifyRefused(b) \/ CookieExpires(b) PROVE Sessions'
  <2>1. UNCHANGED <<account, muddled, cut, req>>
    BY <1>4 DEF VerifyRefused, CookieExpires, history
  <2>2. \A c \in Browsers : \/ cookie'[c].version = cookie[c].version
                               /\ cookie'[c].ended = cookie[c].ended
                            \/ cookie'[c] = NoCookie
    BY <1>4, <1>0 DEF VerifyRefused, CookieExpires, Cookie
  <2>3. WillEnd => WillEnd'
    BY <2>1 DEF WillEnd, Raising
  <2>4. QED BY <2>1, <2>2, <2>3, SessionsKept
<1>5. CASE OfferExpires
  <2>1. account'.version = account.version /\ account'.there = account.there
    BY <1>5, <1>0 DEF OfferExpires, Account
  <2>2. UNCHANGED <<cookie, muddled, cut, req>>
    BY <1>5 DEF OfferExpires, history
  <2>3. WillEnd => WillEnd'
    BY <2>2 DEF WillEnd, Raising
  <2>4. QED BY <2>1, <2>2, <2>3, SessionsKept
<1>6. CASE Delete
  <2>1. ~account'.there /\ \A r \in Requests : req'[r].at # "write"
    BY <1>6 DEF Delete, Gone, Registered, Done
  <2>2. QED BY <2>1 DEF Sessions, OneBump, EndedIsOut
<1>7. CASE UNCHANGED vars \/ \E k \in Keys : LockEnds(k) \/ Forget(k)
  <2>1. UNCHANGED <<account, cookie, muddled, cut, req>>
    BY <1>7 DEF vars, LockEnds, Forget, history
  <2>2. WillEnd => WillEnd'
    BY <2>1 DEF WillEnd, Raising
  <2>3. QED BY <2>1, <2>2, SessionsKept
<1>8. QED BY <1>1, <1>2, <1>3, <1>4, <1>5, <1>6, <1>7 DEF Next

\* Signing out, or changing a password or the second factor, ends the sessions issued
\* before it, and for good: one that is still in has a request on its way to end it, unless
\* that request was cut off or two such changes overlapped.
THEOREM OldSessionsAreOut == Spec => []OldSessionIsOut
<1>1. Init => Sessions
  <2> SUFFICES ASSUME Init PROVE Sessions
    OBVIOUS
  <2>1. account.version = 1
    BY DEF Init, Registered, Created
  <2>2. QED BY <2>1 DEF Init, Sessions, OneBump, EndedIsOut, Done, NoCookie
<1>2. Sessions => OldSessionIsOut
  BY DEF Sessions, EndedIsOut, WillEnd, OldSessionIsOut, GoesOn, SignedIn
<1>3. QED BY <1>1, <1>2, InitTyped, StepTyped, StepSessions, PTL DEF Spec

-----------------------------------------------------------------------------
(* A lock holds but for the requests that were under way. *)

\* Each of them can fail once under the lock; the one that made it fall cannot.
LateAt(k) ==
    IF throttle[k].locked
    THEN throttle[k].late + Cardinality(MayFail(k)) < Cardinality(Requests)
    ELSE throttle[k].late = 0

LateOnes == \A k \in Keys : LateAt(k)

LEMMA Counts ==
    ASSUME NEW k, NEW S \in SUBSET Requests
    PROVE  /\ IsFiniteSet(S) /\ Cardinality(S) \in Nat /\ Cardinality(Requests) \in Nat
           /\ Cardinality(S) <= Cardinality(Requests)
           /\ S # Requests => Cardinality(S) < Cardinality(Requests)
BY BoundsAreNat, FS_Subset, FS_CardinalityType

\* A key whose lock did not fall and under which nothing more may fail.
LEMMA LateKept ==
    ASSUME Typed, LateOnes, NEW k \in Keys,
           throttle'[k].locked => /\ throttle'[k] = throttle[k]
                                  /\ MayFail(k)' \subseteq MayFail(k),
           ~throttle'[k].locked => throttle'[k] = throttle[k] \/ throttle'[k].late = 0
    PROVE  LateAt(k)'
<1>1. /\ Cardinality(MayFail(k)) \in Nat /\ Cardinality(Requests) \in Nat
      /\ IsFiniteSet(MayFail(k)) /\ throttle[k].late \in Nat
  BY Counts DEF MayFail, Typed, TypeOK, Throttle
<1>2. CASE throttle'[k].locked
  <2>1. Cardinality(MayFail(k)') \in Nat /\ Cardinality(MayFail(k)') <= Cardinality(MayFail(k))
    BY <1>1, <1>2, FS_Subset, FS_CardinalityType
  <2>2. QED BY <1>1, <1>2, <2>1 DEF LateOnes, LateAt
<1>3. CASE ~throttle'[k].locked
  BY <1>3 DEF LateOnes, LateAt
<1>4. QED BY <1>2, <1>3

LEMMA StepLate ==
    ASSUME Typed, LateOnes, [Next]_vars
    PROVE  LateOnes'
<1> SUFFICES ASSUME NEW k \in Keys PROVE LateAt(k)'
  BY DEF LateOnes
<1>0. throttle \in [Keys -> Throttle] /\ Clear.late = 0 /\ ~Clear.locked
  BY DEF Typed, TypeOK, Clear
<1>1. ASSUME NEW r \in Requests, NEW b \in Browsers, Begin(r, b) PROVE LateAt(k)'
  <2>1. throttle'[k].locked => throttle'[k] = throttle[k] /\ MayFail(k)' \subseteq MayFail(k)
    BY <1>0, <1>1, BeginChanges DEF MayFail, FailsUnder, Untouched, history
  <2>2. QED BY <1>0, <1>1, <2>1, BeginChanges, LateKept
<1>2. ASSUME NEW r \in Requests, GoOn(r) PROVE LateAt(k)'
  <2>1. CASE NoteWrong(r) /\ FailsUnder(r) = k
    <3>1. throttle' = [throttle EXCEPT ![k] = Counted(k)] /\ req[r].at = "wrong"
      BY <2>1 DEF NoteWrong, At, FailsUnder
    <3>2. throttle'[k] = Counted(k)
      BY <1>0, <3>1
    <3>3. r \in MayFail(k) /\ MayFail(k)' = MayFail(k) \ {r}
      BY <2>1, <3>1, EndsTyped DEF NoteWrong, MayFail, FailsUnder, Done
    <3>4. /\ Cardinality(MayFail(k)') = Cardinality(MayFail(k)) - 1
          /\ Cardinality(MayFail(k)') < Cardinality(Requests)
          /\ Cardinality(MayFail(k)) \in Nat /\ Cardinality(Requests) \in Nat
          /\ Cardinality(MayFail(k)') \in Nat
      <4>1. MayFail(k) \in SUBSET Requests /\ MayFail(k) \ {r} \in SUBSET Requests
        BY DEF MayFail
      <4>2. MayFail(k) \ {r} # Requests
        BY <3>3
      <4>3. QED BY <3>3, <4>1, <4>2, Counts, FS_RemoveElement
    <3>5. throttle[k].late \in Nat /\ throttle'[k].late \in Nat
      BY <1>0, <3>2, CountedIs DEF Throttle
    <3>6. CASE throttle[k].locked
      BY <3>2, <3>4, <3>5, <3>6, CountedIs DEF LateOnes, LateAt
    <3>7. CASE ~throttle[k].locked
      BY <3>2, <3>4, <3>5, <3>7, CountedIs DEF LateOnes, LateAt
    <3>8. QED BY <3>6, <3>7
  <2>2. CASE ~(NoteWrong(r) /\ FailsUnder(r) = k)
    <3>1. throttle'[k] \in {throttle[k], Clear}
      BY <1>0, <1>2, <2>2 DEF GoOn, NoteWrong, FailsUnder, Accept, Reused, Clears, Issue, Offer,
         Confirm, StorePassword, Unmark, RemoveFactor, BumpReads, BumpWrites, Abort
    <3>2. MayFail(k)' \subseteq MayFail(k)
      <4>1. CASE Reused(r)
        BY <4>1, ThenTyped DEF Reused, At, MayFail, FailsUnder
      <4>2. CASE ~Reused(r)
        BY <1>2, <4>2, GoOnChanges DEF MayFail, FailsUnder, Untouched
      <4>3. QED BY <4>1, <4>2
    <3>3. QED BY <1>0, <3>1, <3>2, LateKept
  <2>3. QED BY <2>1, <2>2
<1>3. ASSUME NEW r \in Requests, Reset(r) PROVE LateAt(k)'
  <2>1. MayFail(k)' \subseteq MayFail(k)
    BY <1>3, ResetChanges DEF MayFail, FailsUnder, Untouched
  <2>2. QED BY <1>3, <2>1, LateKept DEF Reset
<1>4. CASE \/ UNCHANGED vars \/ OfferExpires
           \/ \E b \in Browsers : VerifyRefused(b) \/ CookieExpires(b)
           \/ \E l \in Keys : LockEnds(l) \/ Forget(l)
  <2>1. UNCHANGED req
    BY <1>4 DEF vars, OfferExpires, VerifyRefused, CookieExpires, LockEnds, Forget
  <2>2. MayFail(k)' = MayFail(k)
    BY <2>1 DEF MayFail, FailsUnder
  <2>3. ASSUME NEW l \in Keys, LockEnds(l)
        PROVE  throttle'[k] = throttle[k] \/ (throttle'[k].late = 0 /\ ~throttle'[k].locked)
    BY <1>0, <2>3 DEF LockEnds, Throttle
  <2>4. throttle'[k] = throttle[k] \/ (throttle'[k].late = 0 /\ ~throttle'[k].locked)
    BY <1>0, <1>4, <2>3 DEF vars, OfferExpires, VerifyRefused, CookieExpires, Forget
  <2>5. QED BY <2>2, <2>4, LateKept
<1>5. CASE Delete
  <2>1. MayFail(k)' = {}
    BY <1>5 DEF Delete, MayFail, Done
  <2>2. throttle'[k] \in {throttle[k], Clear}
    BY <1>0, <1>5 DEF Delete
  <2>3. QED BY <1>0, <2>1, <2>2, LateKept
<1>6. QED BY <1>1, <1>2, <1>3, <1>4, <1>5 DEF Next

\* However many requests carry a guess at once, fewer fail under a lock than there are
\* threads to carry them.
THEOREM LocksHold == Spec => []LockHolds
<1>1. Init => LateOnes
  BY DEF Init, LateOnes, LateAt, Clear
<1>2. ASSUME Typed, LateOnes, NEW k \in Keys PROVE throttle[k].late < Cardinality(Requests)
  <2>1. /\ Cardinality(MayFail(k)) \in Nat /\ Cardinality(Requests) \in Nat
        /\ throttle[k].late \in Nat
    BY <1>2, Counts DEF MayFail, Typed, TypeOK, Throttle
  <2>2. Cardinality(Requests) > 0
    BY <2>1, BoundsAreNat, FS_EmptySet
  <2>3. QED BY <1>2, <2>1, <2>2 DEF LateOnes, LateAt
<1>3. Typed /\ LateOnes => LockHolds
  BY <1>2 DEF LockHolds
<1>4. QED BY <1>1, <1>3, InitTyped, StepTyped, StepLate, PTL DEF Spec

-----------------------------------------------------------------------------
(* The mark of the database is true. *)

\* Whoever has read the mark under the advisory lock holds it until the transaction ends.
UnderLock ==
    {"reads", "creates", "upgrades", "commits", "goes back", "commits back"}

LockIsHeld == \A a \in Starters : start[a] \in UnderLock => lockedBy = a

\* The database as committed: one that a release has left, or one at a revision, to which
\* the revisions up to its mark have been applied, once.
CommittedIsTrue ==
    /\ db \in Databases
    /\ applied = [r \in Revisions |-> IF r <= db.mark THEN 1 ELSE 0]

\* What the transaction sees is what was committed, until it applies a revision or takes one
\* back.  Between 0001 and 0002 an old database may lack some of what OAuth needed: 0001
\* leaves a users table as it is, and 0002 takes the columns away.
SeenIsCommitted(a) == inTxn[a] = db /\ ran[a] = {}

HalfWayUp(a) ==
    /\ db.mark = 0 /\ ran[a] = {1} /\ inTxn[a].mark = 1
    /\ inTxn[a].schema.tables = BaselineTables
    /\ inTxn[a].schema.crawlColumns = {} /\ inTxn[a].schema.oauth \subseteq OAuth

TxnIsTrue(a) ==
    /\ start[a] \in {"reads", "goes back"} => SeenIsCommitted(a)
    /\ start[a] = "creates" => SeenIsCommitted(a) /\ db.mark = 0
    /\ start[a] = "upgrades" => SeenIsCommitted(a) \/ HalfWayUp(a)
    /\ start[a] = "commits" =>
          /\ inTxn[a] = [mark |-> 2, schema |-> ModelSchema]
          /\ db.mark < 2 /\ ran[a] = {r \in Revisions : db.mark < r}
    /\ start[a] = "commits back" =>
          \/ SeenIsCommitted(a)
          \/ /\ db.mark = 2 /\ ran[a] = {2}
             /\ inTxn[a] = [mark |-> 1, schema |-> BaselineSchema]

\* Who has a Storage and who waits is nothing the mark depends on.
MigrationTypes ==
    /\ start = [a \in Starters |-> start[a]]
    /\ inTxn = [a \in Starters |-> inTxn[a]] /\ ran = [a \in Starters |-> ran[a]]

MigrationInv ==
    /\ MigrationTypes /\ LockIsHeld /\ CommittedIsTrue
    /\ \A a \in Starters : TxnIsTrue(a)

\* The tables of the models are those of 0001 but for the two of the pastes.
LEMMA TablesOfTheModels ==
    /\ BaselineTables \ Pastes = ModelTables /\ ModelTables \cup Pastes = BaselineTables
BY DEF BaselineTables, Pastes, ModelTables, AccountTables, CrawlTables, InvestigationTables,
   ProjectTables, IntelTables

\* 0002 makes the schema of the models out of what 0001 leaves, and goes back to 0001.
LEMMA Release130Makes ==
    ASSUME NEW s, s.tables = BaselineTables, s.crawlColumns = {}, s.oauth \subseteq OAuth
    PROVE  Release130(s) = ModelSchema
BY TablesOfTheModels DEF Release130, ModelSchema

LEMMA Release130Unmakes == Release130Back(ModelSchema) = BaselineSchema
BY TablesOfTheModels DEF Release130Back, ModelSchema, BaselineSchema

\* 0001 leaves the same tables, whatever an old release had made of them.
LEMMA BaselineMakes ==
    ASSUME NEW d \in Databases, d.mark = 0
    PROVE  /\ Baseline(d.schema).tables = BaselineTables
           /\ Baseline(d.schema).crawlColumns = {}
           /\ Baseline(d.schema).oauth \subseteq OAuth
<1>1. d.schema \in OldSchemas \cup {NoSchema}
  BY DEF Databases, Revisions, Later
<1>2. /\ d.schema.tables \subseteq BaselineTables /\ d.schema.crawlColumns = {}
      /\ d.schema.oauth \subseteq OAuth
  BY <1>1 DEF OldSchemas, NoSchema
<1>3. QED BY <1>2 DEF Baseline

LEMMA DatabasesAre ==
    ASSUME NEW d \in Databases
    PROVE  /\ d.mark \in {0, 1, 2, 3}
           /\ d = [mark |-> d.mark, schema |-> d.schema]
           /\ d.mark # 0 => d.schema = SchemaOf(d.mark)
BY DEF Databases, Revisions, Later

LEMMA DatabaseAt ==
    /\ [mark |-> 2, schema |-> ModelSchema] \in Databases
    /\ [mark |-> 1, schema |-> BaselineSchema] \in Databases
BY DEF Databases, Revisions, SchemaOf

LEMMA InitMigration == MigrationsInit => MigrationInv
BY DEF MigrationsInit, MigrationInv, MigrationTypes, LockIsHeld, CommittedIsTrue, TxnIsTrue,
   UnderLock

\* A step that leaves the database, and every transaction that goes on under the lock.
LEMMA TxnKept ==
    ASSUME NEW a \in Starters, TxnIsTrue(a), UNCHANGED db,
           start'[a] \in UnderLock =>
               start'[a] = start[a] /\ inTxn'[a] = inTxn[a] /\ ran'[a] = ran[a]
    PROVE  TxnIsTrue(a)'
BY DEF TxnIsTrue, SeenIsCommitted, HalfWayUp, UnderLock

\* A transaction that is not under the lock has nothing to be true of.
LEMMA TxnOver ==
    ASSUME NEW a \in Starters, start'[a] \notin UnderLock
    PROVE  TxnIsTrue(a)'
BY DEF TxnIsTrue, UnderLock

LEMMA StepMigration ==
    ASSUME MigrationInv, [MigrationsNext]_schemaVars
    PROVE  MigrationInv'
<1> USE DEF MigrationInv
<1>0. NoStarter \notin Starters /\ DashThreads \subseteq Starters
  BY MigrationAssumption
<1>1. CASE UNCHANGED schemaVars
  BY <1>1 DEF schemaVars, MigrationTypes, LockIsHeld, CommittedIsTrue, TxnIsTrue,
     SeenIsCommitted, HalfWayUp
\* Steps outside the lock, and those that end a transaction without a change.
<1>2. ASSUME NEW a \in Starters, NEW to, to \notin UnderLock, StartGoes(a, to),
             UNCHANGED <<db, inTxn, ran, applied>>,
             lockedBy' = lockedBy \/ Unlock(a)
      PROVE  MigrationInv'
  <2>1. start'[a] = to /\ \A c \in Starters \ {a} : start'[c] = start[c]
    BY <1>2 DEF StartGoes, MigrationTypes
  <2>2. MigrationTypes' /\ CommittedIsTrue'
    BY <1>2 DEF StartGoes, MigrationTypes, CommittedIsTrue
  <2>3. LockIsHeld'
    BY <1>2, <2>1 DEF LockIsHeld, Unlock
  <2>4. \A c \in Starters : TxnIsTrue(c)'
    BY <1>2, <2>1, TxnKept
  <2>5. QED BY <2>2, <2>3, <2>4
\* A step of a transaction that leaves what is committed.
<1>3. ASSUME NEW a \in Starters, NEW to \in UnderLock, start'[a] = to,
             \A c \in Starters \ {a} :
                 start'[c] = start[c] /\ inTxn'[c] = inTxn[c] /\ ran'[c] = ran[c],
             MigrationTypes', UNCHANGED <<db, applied>>,
             lockedBy' = a,
             start[a] \in UnderLock \/ lockedBy = NoStarter,
             TxnIsTrue(a)'
      PROVE  MigrationInv'
  <2>1. CommittedIsTrue'
    BY <1>3 DEF CommittedIsTrue
  <2>2. LockIsHeld'
    BY <1>0, <1>3 DEF LockIsHeld
  <2>3. \A c \in Starters : TxnIsTrue(c)'
    BY <1>3, TxnKept
  <2>4. QED BY <1>3, <2>1, <2>2, <2>3
<1>4. ASSUME NEW a \in Starters,
             AskStorage(a) \/ Guard(a) \/ Peek(a) \/ Fail(a) \/ AskDowngrade(a) \/ CommandEnds(a)
      PROVE  MigrationInv'
  <2>1. \E to : /\ to \notin UnderLock /\ StartGoes(a, to)
                /\ UNCHANGED <<db, inTxn, ran, applied>> /\ (lockedBy' = lockedBy \/ Unlock(a))
    BY <1>4 DEF AskStorage, Guard, Peek, Made, Fail, AskDowngrade, CommandEnds, UnderLock
  <2>2. QED BY <1>2, <2>1
<1>5. ASSUME NEW a \in Starters, Lock(a) PROVE MigrationInv'
  <2>1. /\ start'[a] \in {"reads", "goes back"}
        /\ \A c \in Starters \ {a} :
              start'[c] = start[c] /\ inTxn'[c] = inTxn[c] /\ ran'[c] = ran[c]
        /\ MigrationTypes' /\ UNCHANGED <<db, applied>> /\ lockedBy' = a /\ lockedBy = NoStarter
        /\ inTxn'[a] = db /\ ran'[a] = {}
    BY <1>5 DEF Lock, MayLock, StartGoes, MigrationTypes
  <2>2. TxnIsTrue(a)'
    BY <2>1 DEF TxnIsTrue, SeenIsCommitted
  <2>3. QED BY <1>3, <2>1, <2>2 DEF UnderLock
<1>6. ASSUME NEW a \in Starters, Reread(a) PROVE MigrationInv'
  <2>1. CASE inTxn[a].mark = NewestRevision
    <3>1. StartGoes(a, "ready") /\ UNCHANGED <<db, inTxn, ran, applied>> /\ Unlock(a)
      BY <1>6, <2>1 DEF Reread, Made
    <3>2. QED BY <1>2, <3>1 DEF UnderLock
  <2>2. CASE inTxn[a].mark # NewestRevision
    <3>1. /\ start'[a] \in {"creates", "upgrades"}
          /\ start'[a] = "creates" => inTxn[a].mark = 0
          /\ \A c \in Starters \ {a} : start'[c] = start[c]
          /\ UNCHANGED <<db, inTxn, ran, applied, lockedBy>> /\ start[a] = "reads"
          /\ MigrationTypes'
      BY <1>6, <2>2 DEF Reread, StartGoes, MigrationTypes
    <3>2. lockedBy = a /\ SeenIsCommitted(a)
      BY <3>1 DEF LockIsHeld, TxnIsTrue, UnderLock
    <3>3. TxnIsTrue(a)'
      BY <3>1, <3>2 DEF TxnIsTrue, SeenIsCommitted
    <3>4. QED BY <1>3, <3>1, <3>2, <3>3 DEF UnderLock
  <2>3. QED BY <2>1, <2>2
<1>7. ASSUME NEW a \in Starters, CreateAll(a) PROVE MigrationInv'
  <2>1. /\ start'[a] = "commits" /\ start[a] = "creates"
        /\ \A c \in Starters \ {a} :
              start'[c] = start[c] /\ inTxn'[c] = inTxn[c] /\ ran'[c] = ran[c]
        /\ MigrationTypes' /\ UNCHANGED <<db, applied, lockedBy>>
        /\ inTxn'[a] = [mark |-> 2, schema |-> ModelSchema] /\ ran'[a] = ran[a] \cup Revisions
    BY <1>7 DEF CreateAll, InTxn, StartGoes, MigrationTypes, NewestRevision
  <2>2. lockedBy = a /\ ran[a] = {} /\ db.mark = 0
    BY <2>1 DEF LockIsHeld, TxnIsTrue, SeenIsCommitted, UnderLock
  <2>3. ran'[a] = Revisions /\ db'.mark = 0 /\ inTxn'[a] = [mark |-> 2, schema |-> ModelSchema]
    BY <2>1, <2>2
  <2>4. Revisions = {r \in Revisions : db'.mark < r}
    BY <2>3 DEF Revisions
  <2>5. db'.mark < 2 /\ ran'[a] = {r \in Revisions : db'.mark < r}
    BY <2>3, <2>4
  <2>6. TxnIsTrue(a)'
    BY <2>1, <2>3, <2>5 DEF TxnIsTrue
  <2>7. QED BY <1>3, <2>1, <2>2, <2>6 DEF UnderLock
<1>8. ASSUME NEW a \in Starters, Upgrade(a) PROVE MigrationInv'
  <2>0. start[a] = "upgrades" /\ lockedBy = a /\ UNCHANGED <<db, applied, lockedBy>>
    BY <1>8 DEF Upgrade, LockIsHeld, UnderLock
  <2>1. SeenIsCommitted(a) \/ HalfWayUp(a)
    BY <2>0 DEF TxnIsTrue
  <2>2. CASE inTxn[a].mark = 0
    <3>1. /\ start'[a] = "upgrades"
          /\ \A c \in Starters \ {a} :
                start'[c] = start[c] /\ inTxn'[c] = inTxn[c] /\ ran'[c] = ran[c]
          /\ MigrationTypes' /\ ran'[a] = ran[a] \cup {1}
          /\ inTxn'[a] = [mark |-> 1, schema |-> Baseline(inTxn[a].schema)]
      BY <1>8, <2>2 DEF Upgrade, InTxn, StartGoes, MigrationTypes
    <3>2. inTxn[a] = db /\ ran[a] = {} /\ db \in Databases
      BY <2>1, <2>2 DEF SeenIsCommitted, HalfWayUp, CommittedIsTrue
    <3>3. HalfWayUp(a)'
      BY <2>0, <2>2, <3>1, <3>2, BaselineMakes DEF HalfWayUp
    <3>4. TxnIsTrue(a)'
      BY <3>1, <3>3 DEF TxnIsTrue
    <3>5. QED BY <1>3, <2>0, <3>1, <3>4 DEF UnderLock
  <2>3. CASE inTxn[a].mark = 1
    <3>1. /\ start'[a] = "commits"
          /\ \A c \in Starters \ {a} :
                start'[c] = start[c] /\ inTxn'[c] = inTxn[c] /\ ran'[c] = ran[c]
          /\ MigrationTypes' /\ ran'[a] = ran[a] \cup {2}
          /\ inTxn'[a] = [mark |-> 2, schema |-> Release130(inTxn[a].schema)]
      BY <1>8, <2>3 DEF Upgrade, InTxn, StartGoes, MigrationTypes
    <3>2. Release130(inTxn[a].schema) = ModelSchema
      <4>1. CASE SeenIsCommitted(a)
        <5>1. inTxn[a].schema = BaselineSchema
          BY <2>3, <4>1, DatabasesAre DEF SeenIsCommitted, CommittedIsTrue, SchemaOf
        <5>2. QED BY <5>1, Release130Makes DEF BaselineSchema
      <4>2. CASE HalfWayUp(a)
        BY <4>2, Release130Makes DEF HalfWayUp
      <4>3. QED BY <2>1, <4>1, <4>2
    <3>3. ran'[a] = {r \in Revisions : db.mark < r} /\ db.mark < 2
      BY <2>1, <2>3, <3>1 DEF SeenIsCommitted, HalfWayUp, Revisions
    <3>4. TxnIsTrue(a)'
      BY <2>0, <3>1, <3>2, <3>3 DEF TxnIsTrue
    <3>5. QED BY <1>3, <2>0, <3>1, <3>4 DEF UnderLock
  <2>4. QED BY <1>8, <2>2, <2>3 DEF Upgrade
<1>9. ASSUME NEW a \in Starters, GoBack(a) PROVE MigrationInv'
  <2>0. start[a] = "goes back" /\ lockedBy = a /\ UNCHANGED <<db, applied, lockedBy>>
    BY <1>9 DEF GoBack, LockIsHeld, UnderLock
  <2>1. inTxn[a] = db /\ ran[a] = {} /\ db \in Databases
    BY <2>0 DEF TxnIsTrue, SeenIsCommitted, CommittedIsTrue
  <2>2. /\ start'[a] = "commits back" /\ MigrationTypes'
        /\ \A c \in Starters \ {a} :
              start'[c] = start[c] /\ inTxn'[c] = inTxn[c] /\ ran'[c] = ran[c]
    BY <1>9 DEF GoBack, InTxn, StartGoes, MigrationTypes
  <2>3. TxnIsTrue(a)'
    <3>1. CASE UNCHANGED <<inTxn, ran>>
      BY <2>0, <2>1, <2>2, <3>1 DEF TxnIsTrue, SeenIsCommitted
    <3>2. CASE inTxn[a].mark = 2 /\ InTxn(a, 1, Release130Back(inTxn[a].schema), {2})
      <4>1. inTxn[a].schema = ModelSchema
        BY <2>1, <3>2, DatabasesAre DEF SchemaOf
      <4>2. inTxn'[a] = [mark |-> 1, schema |-> BaselineSchema] /\ ran'[a] = {2}
        BY <2>1, <3>2, <4>1, Release130Unmakes DEF InTxn, MigrationTypes
      <4>3. QED BY <2>0, <2>1, <2>2, <3>2, <4>2 DEF TxnIsTrue
    <3>3. QED BY <1>9, <3>1, <3>2 DEF GoBack
  <2>4. QED BY <1>3, <2>0, <2>2, <2>3 DEF UnderLock
\* The committed database is that of the one who holds the lock.
<1>10. ASSUME NEW a \in Starters, Commit(a) \/ CommitBack(a) PROVE MigrationInv'
  <2>1. start[a] \in {"commits", "commits back"} /\ lockedBy = a /\ db' = inTxn[a]
    BY <1>10 DEF Commit, CommitBack, LockIsHeld, UnderLock
  <2>2. /\ start'[a] \in {"ready", "over"} /\ \A c \in Starters \ {a} : start'[c] = start[c]
        /\ MigrationTypes'
    BY <1>10 DEF Commit, CommitBack, Made, StartGoes, MigrationTypes
  <2>3. \A c \in Starters : start'[c] \notin UnderLock
    BY <2>1, <2>2 DEF LockIsHeld, UnderLock
  <2>4. LockIsHeld' /\ \A c \in Starters : TxnIsTrue(c)'
    BY <2>3, TxnOver DEF LockIsHeld
  <2>5. CommittedIsTrue'
    <3>1. CASE Commit(a)
      <4>1. /\ inTxn[a] = [mark |-> 2, schema |-> ModelSchema]
            /\ db.mark < 2 /\ ran[a] = {r \in Revisions : db.mark < r}
            /\ applied' = [r \in Revisions |-> applied[r] + IF r \in ran[a] THEN 1 ELSE 0]
        BY <3>1 DEF Commit, TxnIsTrue
      <4>2. db.mark \in {0, 1, 2, 3}
        BY DatabasesAre DEF CommittedIsTrue
      <4>3. \A r \in Revisions : applied'[r] = 1 /\ r <= 2
        BY <4>1, <4>2 DEF CommittedIsTrue, Revisions
      <4>4. applied' = [r \in Revisions |-> IF r <= 2 THEN 1 ELSE 0]
        BY <4>1, <4>3
      <4>5. db' = [mark |-> 2, schema |-> ModelSchema]
        BY <2>1, <4>1
      <4>6. db'.mark = 2
        BY <4>5
      <4>7. QED BY <4>4, <4>5, <4>6, DatabaseAt DEF CommittedIsTrue
    <3>2. CASE CommitBack(a)
      <4>1. applied' = [r \in Revisions |-> applied[r] - IF r \in ran[a] THEN 1 ELSE 0]
        BY <3>2 DEF CommitBack
      <4>2. CASE SeenIsCommitted(a)
        <5>1. db' = db /\ ran[a] = {}
          BY <2>1, <4>2 DEF SeenIsCommitted
        <5>2. \A r \in Revisions : applied[r] \in {0, 1} /\ applied'[r] = applied[r]
          BY <4>1, <5>1 DEF CommittedIsTrue
        <5>3. applied' = applied
          BY <4>1, <5>2 DEF CommittedIsTrue
        <5>4. QED BY <5>1, <5>3 DEF CommittedIsTrue
      <4>3. CASE /\ db.mark = 2 /\ ran[a] = {2}
                 /\ inTxn[a] = [mark |-> 1, schema |-> BaselineSchema]
        <5>1. applied'[1] = 1 /\ applied'[2] = 0
          BY <4>1, <4>3 DEF CommittedIsTrue, Revisions
        <5>2. \A r \in Revisions : applied'[r] = IF r <= 1 THEN 1 ELSE 0
          BY <5>1 DEF Revisions
        <5>3. applied' = [r \in Revisions |-> IF r <= 1 THEN 1 ELSE 0]
          BY <4>1, <5>2
        <5>4. db' = [mark |-> 1, schema |-> BaselineSchema]
          BY <2>1, <4>3
        <5>5. db'.mark = 1
          BY <5>4
        <5>6. QED BY <5>3, <5>4, <5>5, DatabaseAt DEF CommittedIsTrue
      <4>4. QED BY <3>2, <4>2, <4>3 DEF CommitBack, TxnIsTrue
    <3>3. QED BY <1>10, <3>1, <3>2
  <2>6. QED BY <2>2, <2>4, <2>5
<1>11. CASE DashDies
  <2>1. /\ MigrationTypes' /\ UNCHANGED <<db, inTxn, ran, applied>>
        /\ \A c \in Starters : start'[c] = IF c \in DashThreads THEN "out" ELSE start[c]
    BY <1>11 DEF DashDies, MigrationTypes
  <2>2. LockIsHeld'
    BY <1>11, <2>1 DEF DashDies, LockIsHeld, UnderLock
  <2>3. \A c \in Starters : TxnIsTrue(c)'
    BY <2>1, TxnKept DEF UnderLock
  <2>4. QED BY <2>1, <2>2, <2>3 DEF CommittedIsTrue
<1>12. QED
  BY <1>1, <1>4, <1>5, <1>6, <1>7, <1>8, <1>9, <1>10, <1>11 DEF MigrationsNext

\* Whoever starts, fails or dies half way, and after the schema was taken back: the mark of
\* the database says which revisions were applied, once each, and its schema is theirs.
THEOREM MarkStaysTrue == MigrationsSpec => []MarkIsTrue
<1>1. MigrationInv => MarkIsTrue
  BY DatabasesAre DEF MigrationInv, CommittedIsTrue, MarkIsTrue
<1>2. QED BY <1>1, InitMigration, StepMigration, PTL DEF MigrationsSpec
=============================================================================
