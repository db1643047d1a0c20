------------------------------- MODULE SignIn -------------------------------
(***************************************************************************)
(* Signing in with Google, and the session that follows, as                *)
(* server/auth.go, auth/service.go and repo/identity.go serve it to the    *)
(* tabs of one browser.  The browser keeps three cookies for all of its    *)
(* tabs: the attempt, the session and the CSRF token; a page keeps the     *)
(* csrf_token that its last session request returned and sends it as       *)
(* X-CSRF-Token.  The server keeps users, their identities, and sessions   *)
(* with the hash of one CSRF token, which a request whose cookie does not  *)
(* match replaces.                                                         *)
(*                                                                         *)
(* A random value is the number of the request that drew it, so that no    *)
(* two are equal; a hash stands for what was hashed; an attempt's state,   *)
(* nonce and PKCE verifier are one number.  Value 0 was drawn in an        *)
(* earlier visit.                                                          *)
(***************************************************************************)
EXTENDS Naturals, FiniteSets, RowLocks

CONSTANTS Subjects,      \* accounts at Google
          Emails, UserIDs, Tabs,
          EarlierEmail, EarlierUser,   \* [Subjects -> ...], of earlier sign-ins
          Pasts,         \* who may have signed in before, and who of them here
          MaxRequests,   \* bound on the requests of the tabs
          None

ASSUME SignInAssumption ==
  /\ MaxRequests \in Nat
  /\ EarlierEmail \in [Subjects -> Emails] /\ EarlierUser \in [Subjects -> UserIDs]
  /\ \A g, h \in Subjects : g # h =>
       EarlierEmail[g] # EarlierEmail[h] /\ EarlierUser[g] # EarlierUser[h]
  /\ \A past \in Pasts : past.known \subseteq Subjects /\ past.here \in past.known \cup {None}
  /\ None \notin Subjects \cup Emails \cup UserIDs \cup Tabs \cup Nat

VARIABLES users,       \* user |-> e-mail address
          identities,  \* subject |-> user: user_identities, provider "google"
          sessions,    \* token |-> row
          redeemed,    \* the attempts whose code Google has exchanged
          jar,         \* the cookies of the browser
          page,        \* tab |-> the csrf_token it shows to the server
          req,         \* tab |-> its request
          work,        \* tab |-> what its transaction has written
          issued,      \* the number of requests sent
          sole         \* history: the tab that was alone since it asked for
                       \* its session

tables == <<users, identities, sessions>>
browser == <<jar, page, issued, sole>>
vars == <<tables, redeemed, browser, req, work>>

Values == 0..MaxRequests
Maybe(S) == S \cup {None}

Jar == [attempt : Maybe(Values), session : Maybe(Values), csrf : Maybe(Values)]
NoCookies == [attempt |-> None, session |-> None, csrf |-> None]

\* subject is the one that consented, a history of the row.
Session == [user : Maybe(UserIDs), subject : Maybe(Subjects), csrf : Maybe(Values),
            status : {"none", "live", "ended"}]
NoSession == [user |-> None, subject |-> None, csrf |-> None, status |-> "none"]

Upserting == {"createUser", "createIdentity", "lockUser", "writeEmail", "commitUser"}
Serving == Upserting \cup {"authenticate", "findIdentity", "createSession",
                           "load", "rotate", "access", "revoke"}
Asking == {"session", "mutate", "logout"}
Ops == Asking \cup {"callback", "none"}
Statuses == {"none", "signed in", "session", "anonymous", "served", "signed out",
             "400", "401", "403", "500"}

Request == [pc : {"idle", "consent", "answered"} \cup Serving, op : Ops, id : Values,
            attempt : Maybe(Values), cookies : Jar, subject : Maybe(Subjects),
            email : Maybe(Emails), user : Maybe(UserIDs), token : Maybe(Values),
            status : Statuses]
Idle == [pc |-> "idle", op |-> "none", id |-> 0, attempt |-> None,
         cookies |-> NoCookies, subject |-> None, email |-> None, user |-> None,
         token |-> None, status |-> "none"]

\* The user row of an uncommitted transaction, the address its old version
\* has, the one its new version has, and the identity it inserts.
Work == [user : Maybe(UserIDs), old : Maybe(Emails), new : Maybe(Emails),
         subject : Maybe(Subjects)]
NoWork == [user |-> None, old |-> None, new |-> None, subject |-> None]

At(t, pc)       == req[t].pc = pc
InFlight(t)     == req[t].pc \in Serving \cup {"answered"}
Advance(t, pc)  == req' = [req EXCEPT ![t].pc = pc]
\* A response needs no more of the request than this.
Answer(t, status) ==
  LET r == req[t]
      cookie == IF status = "anonymous" THEN r.cookies.session ELSE None IN
  req' = [req EXCEPT ![t] = [Idle EXCEPT !.pc = "answered", !.op = r.op,
            !.attempt = r.attempt, !.status = status, !.cookies.session = cookie,
            !.id = IF status = "signed in" THEN r.id ELSE 0,
            !.token = IF r.op = "session" THEN r.token ELSE None]]

Init ==
  /\ \E past \in Pasts :
       LET here == past.here IN
       /\ identities = [g \in Subjects |-> IF g \in past.known THEN EarlierUser[g] ELSE None]
       /\ users = [u \in UserIDs |->
            IF \E g \in past.known : EarlierUser[g] = u
            THEN EarlierEmail[CHOOSE g \in past.known : EarlierUser[g] = u] ELSE None]
       /\ sessions = [s \in Values |->
            IF here # None /\ s = 0
            THEN [user |-> EarlierUser[here], subject |-> here, csrf |-> 0,
                  status |-> "live"]
            ELSE NoSession]
       /\ jar = IF here # None THEN [attempt |-> None, session |-> 0, csrf |-> 0]
                              ELSE NoCookies
  /\ page = [t \in Tabs |-> None]
  /\ req = [t \in Tabs |-> Idle]
  /\ work = [t \in Tabs |-> NoWork]
  /\ redeemed = {} /\ issued = 0 /\ sole = None
-----------------------------------------------------------------------------
\* googleAuthStart: the attempt goes into the cookie, the tab to Google.
Start(t) ==
  /\ req[t].pc \in {"idle", "consent"} /\ issued < MaxRequests
  /\ issued' = issued + 1
  /\ jar' = [jar EXCEPT !.attempt = issued + 1]
  /\ req' = [req EXCEPT ![t] = [Idle EXCEPT !.pc = "consent", !.attempt = issued + 1]]
  /\ UNCHANGED <<tables, redeemed, page, work, sole>>

\* A request takes the cookies the browser has when it is sent.
Send(t, op, pc, cookies) ==
  /\ issued < MaxRequests
  /\ issued' = issued + 1
  /\ req' = [req EXCEPT ![t] = [Idle EXCEPT !.pc = pc, !.op = op, !.id = issued + 1,
               !.cookies = cookies, !.attempt = req[t].attempt]]
  /\ sole' = IF (\E q \in Tabs \ {t} : InFlight(q)) \/ op \in {"logout", "callback"}
             THEN None
             ELSE IF op = "session" THEN t ELSE IF sole = t THEN t ELSE None
  /\ UNCHANGED <<tables, redeemed, jar, page, work>>

\* Google sends the tab back with the attempt's state and a code.
Callback(t) ==
  /\ At(t, "consent")
  /\ Send(t, "callback", "authenticate", [NoCookies EXCEPT !.attempt = jar.attempt])

\* "session" is GET /v1/auth/session; "mutate" is a request that has to pass
\* requireAuthenticatedUser and requireCSRF.
Ask(t) ==
  /\ At(t, "idle")
  /\ \E op \in Asking : Send(t, op, "load", [jar EXCEPT !.attempt = None])

\* verifyAttempt: the cookie is the attempt that Google sends the state of.  It
\* may have expired, which leaves Authenticate its other disjunct.
ValidAttempt(t) == req[t].cookies.attempt = req[t].attempt

\* What an ID token says of an account, whose address can change.
Claims == [subject : Subjects, email : Emails]

\* Complete, up to the identity: Google exchanges a code once; an account may
\* have no address that is verified.
Authenticate(t) ==
  /\ At(t, "authenticate")
  /\ \/ Answer(t, "400") /\ UNCHANGED redeemed
     \/ /\ ValidAttempt(t) /\ req[t].attempt \notin redeemed
        /\ redeemed' = redeemed \cup {req[t].attempt}
        /\ \/ Answer(t, "400")
           \/ \E claims \in Claims :
                req' = [req EXCEPT ![t].pc = "findIdentity",
                          ![t].subject = claims.subject, ![t].email = claims.email]
  /\ UNCHANGED <<tables, browser, work>>

\* (fault) The user is looked up by e-mail address.
FindByEmail(t) ==
  /\ At(t, "findIdentity")
  /\ LET found == {u \in UserIDs : users[u] = req[t].email} IN
     req' = [req EXCEPT ![t].pc = IF found = {} THEN "createUser" ELSE "lockUser",
                        ![t].user = IF found = {} THEN None ELSE CHOOSE u \in found : TRUE]
  /\ UNCHANGED <<tables, redeemed, browser, work>>

\* GetUserByIdentity
FindIdentity(t) ==
  /\ At(t, "findIdentity")
  /\ LET u == identities[req[t].subject] IN
     req' = [req EXCEPT ![t].pc = IF u = None THEN "createUser" ELSE "lockUser",
                        ![t].user = u]
  /\ UNCHANGED <<tables, redeemed, browser, work>>

\* Whoever inserts a key into a unique index waits for the transactions that
\* have inserted it, or updated a row that has it.
EmailWriters(t) == {q \in Tabs \ {t} : req[t].email \in {work[q].old, work[q].new}}
IdentityWriters(t) == {q \in Tabs \ {t} : work[q].subject = req[t].subject}
RowWriters(t) == {q \in Tabs \ {t} : work[q].user = req[t].user}

\* (fault) An error path that returns without the deferred Rollback.
RollbackForgotten(t) ==
  Answer(t, "500") /\ UNCHANGED <<tables, redeemed, browser, work>>

\* The deferred Rollback; callback errors that are not the user's are 500s.
Rollback(t) ==
  /\ Answer(t, "500")
  /\ work' = [work EXCEPT ![t] = NoWork]
  /\ UNCHANGED <<tables, redeemed, browser>>

\* (fault) CreateUser runs on the pool, outside the transaction.
CreateUserOutside(t) ==
  /\ At(t, "createUser")
  /\ EmailWriters(t) = {}
  /\ IF \E u \in UserIDs : users[u] = req[t].email
     THEN Rollback(t)
     ELSE \E u \in UserIDs :
            /\ users[u] = None
            /\ req' = [req EXCEPT ![t].pc = "createIdentity", ![t].user = u]
            /\ users' = [users EXCEPT ![u] = req[t].email]
            /\ work' = [work EXCEPT ![t].user = u, ![t].new = req[t].email]
            /\ UNCHANGED <<identities, sessions, redeemed, browser>>

\* CreateUser, under users_email_unique; the number of the user is new.
CreateUser(t) ==
  LET taken == {work[q].user : q \in Tabs} IN
  /\ At(t, "createUser")
  /\ EmailWriters(t) = {}
  /\ IF \E u \in UserIDs : users[u] = req[t].email
     THEN Rollback(t)
     ELSE \E u \in UserIDs \ taken :
            /\ users[u] = None
            /\ req' = [req EXCEPT ![t].pc = "createIdentity", ![t].user = u]
            /\ work' = [work EXCEPT ![t].user = u, ![t].new = req[t].email]
            /\ UNCHANGED <<tables, redeemed, browser>>

\* CreateUserIdentity, under the primary key (provider, subject)
CreateIdentity(t) ==
  /\ At(t, "createIdentity")
  /\ IdentityWriters(t) = {}
  /\ IF identities[req[t].subject] # None
     THEN Rollback(t)
     ELSE /\ Advance(t, "commitUser")
          /\ work' = [work EXCEPT ![t].subject = req[t].subject]
          /\ UNCHANGED <<tables, redeemed, browser>>

\* UpdateUserProfile locks the row ...
LockUser(t) ==
  /\ At(t, "lockUser")
  /\ RowWriters(t) = {}
  /\ Advance(t, "writeEmail")
  /\ work' = [work EXCEPT ![t].user = req[t].user, ![t].old = users[req[t].user]]
  /\ UNCHANGED <<tables, redeemed, browser>>

\* ... and, where the address changes, inserts it into the unique index.
WriteEmail(t) ==
  /\ At(t, "writeEmail")
  /\ work[t].old = req[t].email \/ EmailWriters(t) = {}
  /\ IF \E u \in UserIDs \ {req[t].user} : users[u] = req[t].email
     THEN Rollback(t)
     ELSE /\ Advance(t, "commitUser")
          /\ work' = [work EXCEPT ![t].new = req[t].email]
          /\ UNCHANGED <<tables, redeemed, browser>>

\* COMMIT, whose acknowledgement can be lost.
CommitUser(t) ==
  LET w == work[t] IN
  /\ At(t, "commitUser")
  /\ users' = [users EXCEPT ![w.user] = w.new]
  /\ identities' = [g \in Subjects |-> IF g = w.subject THEN w.user ELSE identities[g]]
  /\ work' = [work EXCEPT ![t] = NoWork]
  /\ Advance(t, "createSession") \/ Answer(t, "500")
  /\ UNCHANGED <<sessions, redeemed, browser>>

\* CreateSession with tokens that were never used.
CreateSession(t) ==
  /\ At(t, "createSession")
  /\ sessions' = [sessions EXCEPT ![req[t].id] =
       [user |-> req[t].user, subject |-> req[t].subject, csrf |-> req[t].id,
        status |-> "live"]]
  /\ Answer(t, "signed in") \/ Answer(t, "500")
  /\ UNCHANGED <<users, identities, redeemed, browser, work>>
-----------------------------------------------------------------------------
Live(s) == s # None /\ sessions[s].status = "live"

\* What a request without a session is told.
Unauthenticated(op) == IF op = "session" THEN "anonymous" ELSE "401"

\* GetActiveSession, and the comparison of the cookie with the hash.
Load(t) ==
  LET s == req[t].cookies.session
      c == req[t].cookies.csrf IN
  /\ At(t, "load") /\ req[t].op # "logout"
  /\ IF ~Live(s) THEN Answer(t, Unauthenticated(req[t].op))
     ELSE IF c # sessions[s].csrf THEN Advance(t, "rotate")
     ELSE req' = [req EXCEPT ![t].pc = "access", ![t].token = c]
  /\ UNCHANGED <<tables, redeemed, browser, work>>

\* Logout compares the header with the hash, and replaces nothing.
LoadForLogout(t) ==
  LET s == req[t].cookies.session IN
  /\ At(t, "load") /\ req[t].op = "logout"
  /\ IF ~Live(s) THEN Answer(t, "401")
     ELSE IF page[t] = sessions[s].csrf THEN Advance(t, "revoke")
     ELSE Answer(t, "403")
  /\ UNCHANGED <<tables, redeemed, browser, work>>

\* (fault) The new token is sent and not stored.
RotateUnstored(t) ==
  /\ At(t, "rotate")
  /\ req' = [req EXCEPT ![t].pc = "access", ![t].token = req[t].id]
  /\ UNCHANGED <<tables, redeemed, browser, work>>

\* UpdateSessionCSRFToken, which writes nothing if the session has ended.
Rotate(t) ==
  LET s == req[t].cookies.session IN
  /\ At(t, "rotate")
  /\ req' = [req EXCEPT ![t].pc = "access", ![t].token = req[t].id]
  /\ sessions' = IF Live(s) THEN [sessions EXCEPT ![s].csrf = req[t].id] ELSE sessions
  /\ UNCHANGED <<users, identities, redeemed, browser, work>>

\* requireCSRF: the header is the token that requireAuthenticatedUser found or
\* drew.
ValidHeader(t) == page[t] = req[t].token

\* GetEffectiveAccess, and the answer.
Access(t) ==
  /\ At(t, "access")
  /\ Answer(t, IF req[t].op = "session" THEN "session"
               ELSE IF ValidHeader(t) THEN "served" ELSE "403")
  /\ UNCHANGED <<tables, redeemed, browser, work>>

\* RevokeSession; a session that has ended meanwhile is no error.
Revoke(t) ==
  /\ At(t, "revoke")
  /\ sessions' = [sessions EXCEPT ![req[t].cookies.session].status = "ended"]
  /\ Answer(t, "signed out")
  /\ UNCHANGED <<users, identities, redeemed, browser, work>>

\* A suspension or a role change revokes the session, or it expires.
EndSession(s) ==
  /\ Live(s)
  /\ sessions' = [sessions EXCEPT ![s].status = "ended"]
  /\ sole' = None
  /\ UNCHANGED <<users, identities, redeemed, jar, page, issued, req, work>>

\* A timeout, a lost connection, an error of the database.
Interrupt(t) == req[t].pc \in Serving /\ Rollback(t)

Blockers(t) ==
  CASE At(t, "createUser")     -> EmailWriters(t)
    [] At(t, "createIdentity") -> IdentityWriters(t)
    [] At(t, "lockUser")       -> RowWriters(t)
    [] At(t, "writeEmail") /\ work[t].old # req[t].email -> EmailWriters(t)
    [] OTHER -> {}

DeadlockAbort(t) ==
  Blockers(t) # {} /\ InCycle([q \in Tabs |-> Blockers(q)], t) /\ Rollback(t)
-----------------------------------------------------------------------------
\* The cookies that a response sets and clears.
NewJar(t) ==
  LET r == req[t] IN
  CASE r.status = "signed in" -> [attempt |-> None, session |-> r.id, csrf |-> r.id]
    [] r.op = "callback" /\ r.status # "signed in" -> [jar EXCEPT !.attempt = None]
    [] r.op = "session" /\ r.token # None -> [jar EXCEPT !.csrf = r.token]
    [] \/ r.status = "signed out"
       \/ r.status = "anonymous" /\ r.cookies.session # None ->
         [jar EXCEPT !.session = None, !.csrf = None]
    [] OTHER -> jar

\* The browser takes the response; a new document has no csrf_token yet.
Receive(t) ==
  /\ At(t, "answered")
  /\ jar' = NewJar(t)
  /\ page' = CASE req[t].op = "callback" -> [page EXCEPT ![t] = None]
               [] req[t].status = "session" -> [page EXCEPT ![t] = req[t].token]
               [] req[t].status = "anonymous" -> [page EXCEPT ![t] = None]
               [] OTHER -> page
  /\ req' = [req EXCEPT ![t] = Idle]
  /\ sole' = IF sole = t /\ req[t].op = "session" /\ req[t].status # "session"
             THEN None ELSE sole
  /\ UNCHANGED <<tables, redeemed, issued, work>>

\* The response is lost; the callback's URL can be loaded again.
Lose(t) ==
  /\ At(t, "answered")
  /\ req' = [req EXCEPT ![t] =
       IF req[t].op = "callback"
       THEN [Idle EXCEPT !.pc = "consent", !.attempt = req[t].attempt] ELSE Idle]
  /\ sole' = IF sole = t /\ req[t].op = "session" THEN None ELSE sole
  /\ UNCHANGED <<tables, redeemed, jar, page, issued, work>>

\* The user leaves Google's page without an answer.
Leave(t) ==
  /\ At(t, "consent")
  /\ req' = [req EXCEPT ![t] = Idle]
  /\ UNCHANGED <<tables, redeemed, browser, work>>

Serve(t) ==
  \/ Authenticate(t) \/ FindIdentity(t) \/ CreateUser(t) \/ CreateIdentity(t)
  \/ LockUser(t)     \/ WriteEmail(t)   \/ CommitUser(t) \/ CreateSession(t)
  \/ Load(t)         \/ LoadForLogout(t) \/ Rotate(t)    \/ Access(t)  \/ Revoke(t)

Next ==
  \/ \E t \in Tabs : \/ Start(t)     \/ Callback(t)      \/ Ask(t)     \/ Serve(t)
                     \/ Interrupt(t) \/ DeadlockAbort(t) \/ Receive(t) \/ Lose(t)
                     \/ Leave(t)
  \/ \E s \in Values : EndSession(s)

Spec == Init /\ [][Next]_vars

\* A handler executes its statements, an index entry goes to its waiters in
\* turn, hence strong fairness; PostgreSQL looks for cycles.
Fairness == \A t \in Tabs : SF_vars(Serve(t)) /\ WF_vars(DeadlockAbort(t))

FairSpec == Spec /\ Fairness
-----------------------------------------------------------------------------
TypeOK ==
  /\ users \in [UserIDs -> Maybe(Emails)]
  /\ identities \in [Subjects -> Maybe(UserIDs)]
  /\ sessions \in [Values -> Session]
  /\ redeemed \subseteq Values
  /\ jar \in Jar
  /\ page \in [Tabs -> Maybe(Values)]
  /\ req \in [Tabs -> Request]
  /\ work \in [Tabs -> Work]
  /\ issued \in Values
  /\ sole \in Maybe(Tabs)

\* First sign-ins, changes of address and their roll-backs leave whole users:
\* each has one identity, and an address that no other user has.
UsersWhole ==
  \A u \in UserIDs : users[u] # None =>
    /\ Cardinality({g \in Subjects : identities[g] = u}) = 1
    /\ \A v \in UserIDs \ {u} : users[v] # users[u]

\* An address is one user's, an identity belongs to a user, a user to one
\* identity, and a session to a user who was signed in.
TablesOK ==
  /\ \A u \in UserIDs : users[u] # None =>
       /\ \E g \in Subjects : identities[g] = u
       /\ \A v \in UserIDs \ {u} : users[v] # users[u]
  /\ \A g \in Subjects : identities[g] # None =>
       /\ users[identities[g]] # None
       /\ \A h \in Subjects \ {g} : identities[h] # identities[g]
  /\ \A s \in Values : sessions[s].status # "none" =>
       /\ sessions[s].user \in UserIDs /\ sessions[s].subject \in Subjects
       /\ sessions[s].csrf \in Values

\* Where a request can be, by what was asked, and what it has been answered.
RequestOK(t) ==
  LET r == req[t] IN
  /\ r.op = "none" <=> r.pc \in {"idle", "consent"}
  /\ r.op = "callback" \/ r.pc = "consent" => r.attempt \in Values
  /\ r.op = "callback" => r.pc \in Upserting \cup {"authenticate", "findIdentity",
                                                  "createSession", "answered"}
  /\ r.op \in {"session", "mutate"} => r.pc \in {"load", "rotate", "access", "answered"}
  /\ r.op = "logout" => r.pc \in {"load", "revoke", "answered"}
  /\ r.status # "none" => r.pc = "answered"
  /\ r.status = "signed in" => r.op = "callback"
  /\ r.status = "signed out" => r.op = "logout"
  /\ r.status \in {"session", "anonymous"} => r.op = "session"
  /\ r.pc = "access" \/ r.status = "session" => r.token \in Values
  /\ r.pc = "revoke" => /\ r.cookies.session \in Values
                        /\ sessions[r.cookies.session].status # "none"

\* What a transaction has written belongs to the user that it has found or
\* made, whom nobody else has changed.
WorkOK(t) ==
  LET r == req[t]
      w == work[t] IN
  /\ r.pc \in Upserting \cup {"findIdentity", "createSession"} =>
       r.subject \in Subjects /\ r.email \in Emails
  /\ r.pc \notin {"createIdentity", "writeEmail", "commitUser"} => w = NoWork
  /\ r.pc \in {"createIdentity", "writeEmail", "commitUser"} =>
       w.user = r.user /\ r.user \in UserIDs /\ w.old = users[r.user]
  /\ r.pc = "createIdentity" => w.old = None /\ w.new = r.email /\ w.subject = None
  /\ r.pc = "writeEmail" => w.new = None /\ w.subject = None
  /\ r.pc = "commitUser" =>
       /\ w.new = r.email
       /\ \/ w.old = None /\ w.subject = r.subject /\ identities[r.subject] = None
          \/ w.old # None /\ w.subject = None
  /\ r.pc \in {"lockUser", "writeEmail", "createSession"} \/ (r.pc = "commitUser" /\ w.old # None) =>
       r.user \in UserIDs /\ identities[r.subject] = r.user
  /\ w.new # None => \A v \in UserIDs \ {w.user} : users[v] # w.new

\* Two transactions write different users, addresses and identities.
ApartOK(t, q) ==
  /\ work[t].user # None => work[q].user # work[t].user
  /\ work[t].new # None => work[t].new \notin {work[q].old, work[q].new}
  /\ work[t].subject # None => work[q].subject # work[t].subject

\* Nobody else is at work when a page is alone, so that its request still has
\* the cookies of the browser, and its session is what it was told.
SoleOK(t) ==
  LET r == req[t]
      told == r.pc = "access" \/ r.status = "session" IN
  sole = t =>
    /\ \A q \in Tabs \ {t} : ~InFlight(q)
    /\ r.op \in {"none", "session", "mutate"}
    /\ r.pc \in Serving => r.cookies.session = jar.session
    /\ r.pc = "load" => r.cookies.csrf = jar.csrf
    /\ r.op = "mutate" => r.pc # "rotate" /\ (r.pc = "access" => r.token = page[t])
    /\ r.pc = "rotate" \/ told => Live(jar.session)
    /\ told => sessions[jar.session].csrf = r.token

\* First sign-ins, changes of address and their roll-backs leave whole users;
\* with what the requests rely on, enough to be preserved by every step.
SignInInv ==
  /\ TypeOK /\ UsersWhole /\ TablesOK
  /\ \A t \in Tabs : RequestOK(t) /\ WorkOK(t) /\ SoleOK(t)
  /\ \A t \in Tabs : \A q \in Tabs \ {t} : ApartOK(t, q)

\* A session belongs to the user of the Google account that consented, though
\* addresses move from one account to another.
SignedInAsConsented ==
  \A s \in Values : sessions[s].status # "none" =>
    identities[sessions[s].subject] = sessions[s].user

\* A page that has sent its requests alone since it asked for its session
\* agrees with the cookie and with the server on the CSRF token, and no request
\* of such a page is refused, whatever other tabs did before.
TokensAgree ==
  \A t \in Tabs :
    sole = t /\ req[t].op # "session" =>
      /\ jar.csrf = page[t] /\ Live(jar.session) /\ sessions[jar.session].csrf = page[t]
      /\ req[t].status \notin {"401", "403"}

\* Sign-ins that wait for each other's rows and index entries, in cycles too,
\* are answered, and so is every other request.
EveryRequestAnswered ==
  \A t \in Tabs : req[t].pc \in Serving ~> req[t].pc \notin Serving
=============================================================================
