# Laivan in TLA+

Laivan is a marketplace for student housing: agents offer rooms in canonical
properties near a campus, students find them and ask questions. The server is a
modular monolith in Go (`src/api`): handlers, repositories and SQL on one
PostgreSQL database at READ COMMITTED, files in an S3 object store, a React
client (`src/web`), and a command line for administrators (`src/api/cmd/admin`).
No process of the server keeps state of its own but the rate limiter. What is
hard about it are the transactions of several statements that race with each
other, lock rows in different orders, fail half-way, are retried by clients, or
commit when nobody is left to hear of it; the cookies that the tabs of a browser
share; and pages that are put together from queries of different moments.

These modules model the transactions one SQL statement at a time, and the
process around them from its configuration to its exit. TLC checks them on small
instances. TLAPS proves every safety property that TLC checks, from onboarding and
roles to sign-in, edits, inquiries, media, the process with its limiter and the
pages that readers see, for any number of users, records and concurrent requests,
and that onboarding implements its abstract specification. Liveness is TLC's alone.

## 1. Inventory

| component | state | operations | hard about it | correct when |
|---|---|---|---|---|
| Agent applications `repo/agent_application.go` | `agent_applications`, `agents`, `agent_campuses`, `audit_events` | create, activate, decline | three requests lock applications and users in different orders; unique indexes that wait; commits that are not acknowledged | tables and audit agree; a user becomes one agent; answers are true |
| Agent lifecycle `repo/agent_lifecycle.go` | `agents.status`, application status, `sessions.revoked_at`, audit | suspend, reinstate | sessions appear while the suspension revokes them; a role revocation ends the same sessions in another order | agent and application agree; the audit log is a history; sessions end; nobody waits for ever |
| Privileged roles `repo/roles.go`, `cmd/admin` | `global_admin_roles`, `campus_operators`, audit, sessions | grant, revoke, bootstrap | a table lock next to row locks; roles read before they are locked; sessions locked one by one in any order | a bootstrap only when there is no admin; the log follows the role; nothing but sessions can deadlock |
| Identity and sessions `repo/identity.go`, `auth/`, `server/auth.go`, `server/principal.go` | `users`, `user_identities`, `sessions`; the browser's three cookies, a page's CSRF token | begin, complete, get, rotate CSRF token, logout | first sign-ins of one identity, accounts that swap addresses; a token that another tab's request replaces, or that is replaced and never sent back; callbacks that are loaded twice | users are whole; a session belongs to who consented; a page that is alone is never refused |
| Canonical records `repo/property.go` | `properties`, `property_unit_types`, audit | create, correct, read with details | stale forms, retries of lost requests, roles that are lost meanwhile; a page made of six statements | no correction is lost; the audit log is a chain; a page shows what was there |
| Agent offers `repo/property.go` | `agent_offers` | create, update, archive | autocommitted statements whose snapshot is older than their write | no edit is lost; archiving is final; whoever edits could manage the offer |
| Inquiries `repo/inquiry.go`, `inquiry-sheet.tsx` | `inquiries`; the sheet's submission ID | submit, retry, hand off | lost responses, overtaking retries, edited questions | recorded once; what is shown was recorded; refusals are true |
| Media `server/media.go`, `repo/media.go`, `storage/s3.go` | `*_media` rows, objects | upload a batch, remove | two stores, no common transaction, cleanup that can fail | rows have objects; batches are whole; removed once |
| Rate limiter `server/rate_limit.go` | token buckets in a table of 10,000 clients, lost with the process | allow, evict | eviction at the limit resets a bucket; the time is read before the lock | the table is bounded; a client keeps its limit until it is forgotten; Retry-After is true |
| Discovery and pagination `repo/discovery.go`, `data/filters.go` | none | two lists with filters, sort orders and pages | ties in the order; a page past the end; prices beyond the column | pages are pieces of one list; cards agree with the page they lead to |
| Server process and configuration `cmd/api/main.go`, `config/config.go` | handlers under way; what the start has opened | start, serve, shut down, die | a listener or dependency that fails half-way; answers cut off by the end | what is served is configured as production needs; exit code 0 means that everyone was answered |
| Phone numbers, validation, routing, campuses, migrations, seed CLI, generated queries, OpenAPI, web pages | none, or read-only | conversions, wiring and I/O | | |

Components interact through the database only, and through the cookies of the
browser. A handler reads the principal of the session first
(`requireAuthenticatedUser`, `requireCampusOperator`), calls one repository method,
and answers; roles, sessions and agent status may change between any two of these.
The admin CLI runs the same repository methods, in processes of its own. The web
client retries requests and holds versions (If-Match), CSRF tokens and submission
IDs over long times.

`PROJECT.json` lists the hazards line by line, each with the properties that
would notice it.

## 2. Conventions

* A process (`Procs`, `Requests`, `Uploads`, `Removers`) is a request, or a run
  of the CLI. `tx[p].pc` names its next SQL statement or, when it is over, its
  answer; answers have the names of the Go errors.
* One action is one statement. It reads the committed tables, since READ
  COMMITTED gives every statement a new snapshot. What it writes stays in
  `work[p]`, which others cannot read, until `Commit` makes it visible.
* A statement that updates rows is one action only when nothing can come between
  its snapshot and its write. Otherwise it is two: one that finds its rows, and
  one that locks them, sees their latest version and evaluates its WHERE clause
  again, while what it read of other tables is as old as the snapshot
  (`FindRow`/`LockRow`, `SelectUnit`/`Insert`). An UPDATE of several sessions
  locks them one at a time (`FindSessions`, then `LockSession` for each).
* Waiting is by guards: a statement is disabled while another transaction holds
  what it needs. In `AgentApplications`, `AgentLifecycle`, `AdminRoles` and `SignIn`
  the waits can be cyclic, and PostgreSQL's deadlock detector is an action of its
  own, `DeadlockAbort`, with the cycles of `RowLocks`. `Blockers(p)` are those that
  the next statement of p waits for. The other modules wait for one row at a time.
* `Interrupt` ends a transaction anywhere: queryTimeout, a lost connection or a
  crash of the server. `Commit` may succeed and still be answered with
  `ErrInternal`, since the acknowledgement can be lost.
* Variables marked "history" are not in the program. They remember what a
  property has to compare with a later state.
* Operators marked `(fault)` are faulty variants of the definition that follows
  them: a dropped lock, a missing guard, a swapped argument. No specification
  uses them. They are what `PROJECT.json` substitutes for the correct
  definition, to see that a property notices the mistake.
* Contents (phone numbers, prices, questions) are model values. Formatting,
  validation and logging are left out. Requests are the ones that have passed
  validation.

## 3. Modules and the code

**`AgentApplications`** models the three requests of `repo/agent_application.go`.
`StartCreate`, `StartActivate` and `StartDecline` are the handlers (and
`approve-agent` of the CLI, which checks no role, so activation starts for any
actor). Then create runs `LockApplicant`, `CheckLinked`, `InsertApplication`,
`Commit`; decline runs `LoadApplication`, `CheckScope`, `UpdateApplication`,
`ReferenceReviewer`, `WriteAudit`, `Commit`; activate runs the steps of both and
`InsertAgent` and `AssociateCampus`. `Blockers(p)` says whom each statement
waits for: `FOR UPDATE` locks on applications and users, the `FOR KEY SHARE`
lock of the reviewer's foreign key, and writers of the same key in the partial
unique index of pending applications or the unique columns of `agents`. An
administrator changes roles at any time. **`RowLocks`** has the lock modes, their
conflicts and cycles of waiting. **`AgentStages`** is the abstract specification:
an application has a stage, every request is one step, and there are no
transactions.

**`AgentLifecycle`** models `changeAgentStatus` (suspend and reinstate: lock the
agent, check the operator's scope, update agent and applications, find and
revoke the sessions, audit), with `CreateSession` and `RevokeSession` of
`repo/identity.go`, the expiry of sessions, and `revokeRoleSessions` of
`repo/roles.go` as rivals. An UPDATE of several sessions locks them one after the
other in any order (`FindSessions`, then `LockSession` for each, which looks at
the row again), so that a suspension and a role revocation can wait for each
other. Whether the operator has the role is open at each request
(`CheckScope`), since roles change at any time.

**`AdminRoles`** models `Grant` and `Revoke` of `repo/roles.go` for both role
tables: target, actor check, the bootstrap's SHARE ROW EXCLUSIVE lock (which
excludes the ROW EXCLUSIVE lock, `OpenTable`, that every other writer of
`global_admin_roles` takes first), the count of admins, the write, its audit event,
and the revocation of the target's sessions, which are found (`FindSessions`) and
then locked, looked at again and updated one after the other in any order
(`LockSession`). `Blockers` says whom a run waits for: the holders of the table
lock, the writers of its row, or who has locked the sessions that are left. The
history `bootstraps` remembers after how many events of its log a role was granted
without one.

**`SignIn`** models the tabs of one browser and the handlers that answer them.
`Start` is `googleAuthStart`; `Callback` and `Authenticate` are the return from
Google, with the attempt's cookie, and the exchange of the code, which Google
does once; `FindIdentity`, `CreateUser`, `CreateIdentity`, `LockUser`,
`WriteEmail`, `CommitUser` are the transaction of `UpsertUser` with the locks of
its unique indexes, and `CreateSession` follows. `Ask` sends the other requests
with the cookies of that moment; `Load`, `Rotate` and `Access` are `GetSession`
and the middleware, `LoadForLogout` and `Revoke` are `Logout`. The browser takes
the cookies of a response when it arrives (`NewJar`, `Receive`), or never
(`Lose`).

**`Configuration`** has `Load` and `Validate` of `config/config.go` as operators,
and **`RateLimiter`** the buckets and the table of `server/rate_limit.go`; the
arithmetic of the library's `rate.Limiter` is external. **`ApiServer`** composes
them with `cmd/api/main.go`: `LoadConfig` to `Listen` are the start, `ServeFails`,
`SelectError`, `SelectSignal`, `Shutdown`, `ShutdownTimeout` and `AwaitServe` the
two branches of the select, and `LimitedRequest` the middleware `rateLimitOIDC`.
`Kill` and `Restart` empty the limiter, which is in memory. Two histories of each
client, `least` and `most`, are buckets that nobody else touches: a request takes
from `least` whatever time it is counted at, and gives back to `most` how old that
time was, so that they are the same bucket if the client's requests were not
overtaken. Both begin again when the client is forgotten, and only then.
`ServerSpec` and `BrowsingSpec` (with `ServerInit`, `serverVars` and so on) are what
the other modules call `Spec`, `Init` and `vars`: `ApiServer` and `SignIn`, and
`Browsing` and `InquirySubmission`, have no name in common, so that each pair shares
a module of proofs.

**`Catalogue`** has the rows that readers see, each write one statement at its
commit. **`Browsing`** reads it: `Search` and `Turn` are pages of `Discover` or
`ListWithSummary`, one statement each; `OpenProperty` and the `Read...` actions are
the six statements of `GetWithDetails`. `Kobo` is the product of Go's `int`, which
wraps (`MaxInt`), before the query compares it with a column of `MaxInt4`. `Orders`
are all the orders that ORDER BY leaves to the database, so that a missing tie-break
would show.

**`PropertyCorrections`** models a client that reads a record, edits it and sends
a PATCH with the version it read, and the transaction of `Update` and
`UpdatePropertyUnitType`: read the record, update it WHERE id and version match
and the role still holds, tell a stale version from a lost role, audit, commit.
`AuditedFields` tells the two records apart.

**`AgentOffers`** models creation, update and archiving of the one offer an agent
can have for a unit type. Each is a single autocommitted statement with a
snapshot and a later write. Suspension enters as `ChangeAgent`. A user can be an
agent and an operator, and then manages the offer both ways.

**`InquirySubmission`** models the React sheet (`Open`, `Submit`, `Close`, lost
connections) and the handler that runs find, insert, find again, hand off and
classify, each autocommitted, while `ChangeOffer` pauses or archives the offer. The
history `seen` remembers whether the question was recorded when the request began,
and whether the offer has been unavailable since.

**`MediaUpload`** models an upload (put each object, insert each row in one
transaction that repeats the authority check, commit, clean up after an error),
removal of a row, calls to the object store that fail with or without effect, a
COMMIT whose result is unknown, and crashes.

**`MC*`** give the instances. `MCReaders` has `Browsing` and `InquirySubmission` side
by side: they share no variable, so each of its behaviours is one of the first or one
of the second, while the other stays where it began. `MCApiServer` lets requests reach
the limiter in one of the environments (`SpecOfOneLimiter`), since the limiter does not
depend on the environment. And **`*Proofs`** hold the proofs about the module
they are named after; **`AccessProofs`** is about what stands between a client and
the handlers, `ApiServer` and `SignIn`, and **`ReaderProofs`** about those who look
for a room, `Browsing` and `InquirySubmission`. The inductive invariant of a module
is at its end (for onboarding, in **`AgentApplicationsInv`**).

## 4. Runs

| run | checks | distinct states |
|---|---|---|
| `application_rivals` | `AuditMatches`, `AgentsMatch`, `TruthfulAnswers`, `ReviewedInScope`, `ImplementsStages` | 251,922 |
| `application_repeats` | `IInv`, `ImplementsStages`, `EveryRequestAnswered` | 117,102 |
| `lifecycle` | `ApplicationsFollow`, `LifecycleInv`, `KnownSessionsEnd`, `EveryRequestAnswered` | 233,629 |
| `late_session` | violation of `SuspensionRevokesEverySession` | |
| `roles` | `RolesInv`, `BootstrapIsFirst`, `ActorsAreAdmins`, `OnlySessionsDeadlock` | 1,497,417 |
| `unaudited_bootstrap` | violation of `EveryChangeAudited` | |
| `sign_in` | `SignInInv`, `SignedInAsConsented`, `TokensAgree`, `EveryRequestAnswered` | 275,823 |
| `api_server` | `ServerInv`, `LimiterInv`, `CleanExit` | 583,899 |
| `corrections` | `RecordInv`, `NoLostUpdate`, `CorrectedInScope` | 379,651 |
| `offers` | `OfferInv`, `NoLostUpdate`, `ArchiveIsFinal`, `EditedInScope` | 591,578 |
| `media` | `MediaInv`, `BatchesWhole`, `NoOrphans`, `RowsHaveObjects`, `WritesInScope` | 1,175,660 |
| `readers` | `BrowsingInv`, `DetailsHold`, `InquiryInv`, `HandoffMatches`, `RefusalsInv` | 976,826 |

An `...Inv` is the conjunction of the module's type invariant with the parts that
are about the same state: `LifecycleInv` has `AgentsAudited` and `SessionsAudited`,
`RolesInv` has `RolesAudited` and `SessionsEndOnce`, `RecordInv` has `AuditChain`,
`InquiryInv` has `RecordedOnce`, `RefusalsInv` has `RefusalTrue` of each request,
`OfferInv` has `VersionsNameContents`, `MediaInv` has `RemovedOnce`, `SignInInv` has
`UsersWhole`, `ServerInv` has `ServesAsConfigured`, `BrowsingInv` has
`PagesPartition`; `LimiterInv` has `LimitKept` and `RetryHonoured`, `DetailsHold`
has `DetailOfItsTime` and `DetailMatchesCards`. They also say what each request, or
each stage of a process or page, relies on between its steps, which is what makes
them inductive (section 5), and the runs check that as well.

What the passing runs show:

* *Onboarding.* However two requests interleave on three applications, an
  application has an audit event exactly when it was decided; the rows of
  `agents` and `agent_campuses` and the active applications are one relation;
  every answer that gives a reason gives the real one (so `CreateAgent` may
  report every unique violation as a phone conflict: for the same user the lock
  on `users` gets there first); and each commit is one step of `AgentStages`.
  The requests do wait in cycles, and each is answered.
* *Lifecycle.* Agent and application never part, the log of an agent alternates
  and ends in its status, and a session is revoked with one event even if its
  user signs out, is suspended and loses a role at the same time. The sessions
  that existed when a suspension or a role revocation began have ended when it
  commits, whatever order the rows are locked in; where two of them deadlock, one
  is aborted and both are answered.
* *Roles.* A grant without an actor takes effect only while there is no global
  admin, even if two run at once or race with revocations; actors were admins
  during the run. The log of every role, of global admins too, is a history that
  ends in what the role is: all that can be missing from it are bootstraps, each at
  a place where the role was not held. A session ends once. Two revocations from one
  user can deadlock over the sessions, which they lock in any order; nothing else
  can: not the table lock, and not the rows of the role tables. The run does not
  exclude that two admins revoke each other and leave none. That is what the code
  does and no document forbids it; the bootstrap is then open again. That the
  sessions which existed when a revocation began have ended when it commits is
  checked by the run `lifecycle`, where other requests end them too.
* *Signing in.* A user has one identity and an address of its own, though first
  sign-ins of one account and exchanges of addresses run at the same time, wait
  for each other's index entries and deadlock. A session is the consenting
  account's even when an address has moved from one account to another. A page
  that has been alone since it asked for its session has the token that the
  cookie and the server have, and is never answered 401 or 403, whatever other
  tabs did before, which responses were lost, and which tokens were replaced
  unseen. With other tabs at work it can be refused: that is why the page asks
  for its session again.
* *The process.* None of the environments below that `Validate` accepts serves in
  production without sign-in, secure cookies or HTTPS (of the origin in use, which
  has a default), and no failure on the way makes it. An exit with 0 means that no
  request was cut off: main waits for `Shutdown`, though `ListenAndServe` returns
  before it. The limiter's table does not outgrow its bound. A client gets no more
  than a bucket of its own holds, whoever else is served or forgotten meanwhile,
  until it is forgotten itself and begins with a full one. What a request that was
  overtaken between `time.Now()` and the lock can add to this is how old its time
  was. It is not refused what its own bucket holds, and a client that comes back
  when `Retry-After` said is let in, whatever happened between.
* *Corrections, offers.* A write replaces the record that its client showed,
  not a newer one. The contents "before" in the audit event are read without a
  lock, and are right all the same, because the version was.
* *Inquiries.* However often the sheet retries, one inquiry exists for its
  submission IDs, and the WhatsApp link carries the recorded question. A refusal is
  true: what was recorded before a request began is never refused, though the offer
  is gone; and an offer that is called unavailable was unavailable at some moment of
  the request, so that a retry is not refused for having been overtaken. (It can be
  refused, although another request has recorded the question meanwhile, if the offer
  closed after that.)
* *Media.* Batches are whole, objects have rows unless a call failed or the
  server crashed, and a row's object is never deleted unless the COMMIT was
  unsure. In that case the cleanup does delete objects of committed rows
  (`server/media.go` cleans up after any error of the repository), which
  `RowsHaveObjects` excludes by name through `unsure`.
* *Browsing.* While nobody writes, the pages of each list are disjoint, in order and
  complete, under the sort orders and filters of the run, and their metadata is
  right but past the end, where it is all zero. A page of a property that was read
  while others wrote shows nothing that was not there at some moment of its request,
  and everything that was there throughout (a medium of an offer, if the offer was).
  If nobody wrote it agrees with the cards of both lists: the counts, the lowest
  prices, the thumbnails. A price filter beyond 21,474,836 naira is answered with
  500, as the query parameter is an integer column's; beyond 9.2e16 the product of
  naira and 100 wraps, and the answer is that of another filter. What is said of
  completeness is said of the prices that are exact.

What the violations show (`findings` in `PROJECT.json`):

* a session created between the revocation statement of a suspension and its commit
  survives the suspension (`late_session`), while `docs/domain.md` says that all are
  revoked;
* the grant of the first global admin leaves no audit event (`unaudited_bootstrap`),
  since `Grant` writes one only if there is an actor, while `docs/domain.md` and
  `docs/architecture.md` say that state changes and their events commit together.

The models contain four more behaviours that a reader may not expect, and that no
property forbids:

* an agent suspended while the INSERT of `CreateAuthorizedAgentOffer` is under way
  still gets an offer, because the status was read in the statement's snapshot and
  the foreign key check succeeds after the wait (`SelectUnit`, `Insert` of
  `AgentOffers`);
* a question edited after a lost response is shown by the sheet as recorded, but
  the first one was (`InquirySubmission`; the link that is opened carries the
  recorded one);
* the objects of a batch whose COMMIT was answered with an error, but took effect,
  are deleted while their rows are served (`MediaUpload`);
* an offer can get media after it was archived (`Catalogue`).

**Bounds.** Two requests at a time are enough for a race, a wait and a wait cycle
of two, and a request meets any number of others, one after the other: two
sessions sign in and out during one suspension. Onboarding has three
applications: two of one user at two campuses (races for the user), or at one
campus (races for the index), and one of another user with the same phone number,
or at an inactive campus. One reviewer role is granted and revoked at any time;
u2 applies and activates as well, as the CLI allows. `MaxEvents` bounds the
audited changes of an agent or of all roles, `MaxVersion` the corrections of a
record: with 2 and 3, a change follows a change that follows a first one, so that
a stale version or a stale log is stale by more than one. `AgentLifecycle` has two
sessions of one user, enough for two updates to lock them in opposite orders.
`AdminRoles` has three users, two of them registered, one campus, and two sessions of
one user, so that two revocations can lock them in opposite orders. `AgentOffers` has
one agent, who can be an operator of the campus as well, and another operator.
`InquirySubmission` has one student, since submission IDs are keyed by the
student; two offers, the student's own among them; two IDs, enough to close the
sheet and open it again; and two requests, enough for one to outlive the sheet
and to be overtaken. `MediaUpload` has one batch of two files, so that it can fail
between files and between rows, and two removals; batches do not share keys, so
that another batch would add only its product.

`SignIn` has two tabs and two accounts with two addresses between them. Nobody has
signed in before, or both accounts have, one of them in this browser, where its
session is live; they can exchange addresses and deadlock. `MaxRequests` is 4:
enough to begin two attempts and complete both, or to begin, complete, ask for the
session and use it, with the other tab in between on the earlier session.
`ApiServer` has 64 environments, those that differ in one setting from a complete
production environment or from an empty one, and in the complete one the limiter
fills its table; two handlers; three clients in a table of two, so that each request
can evict; a bucket of two requests that fills in four ticks, three ticks to a
second, so that `Retry-After` is rounded; and four ticks. `Browsing` has two
properties, one of them with two unit types, three offers of which two compete in
one unit type, an image of a property and a video of an offer, two prices, so that
ties occur, `MaxInt4` between 2 and 3 naira, two writes during a page, two pages,
and 19 queries: each sort key and direction on one of the lists, the filters of
both, page sizes 1 and 2, and ranges of which one is beyond the column and one wraps
(`MaxInt` is just below 5 naira, so that 11 naira are taken for 1). A walk ends when
something is written, since pages before and after a write are pages of different
lists.

Requests that are answered return and start again, without bound, wherever the
state lets them and the module has no bound on them.

**Symmetry** is declared only for safety runs, over processes and keys that no
definition orders and that the constants do not tell apart.

**Fairness.** A connection that has a statement to execute executes it, and
PostgreSQL serves waiters of a lock in order: strong fairness of `Statement`,
because a rival may take and release the lock again and again. Weak fairness is
not enough there and more is not assumed: nobody has to start a request, to
sign in, to time out or to change a role. `DeadlockAbort` is weakly fair, as the
detector runs while the cycle lasts. In `SignIn` the browser owes nothing: only the
server's statements are fair. The other modules state no fairness: they have safety
properties only.

**Deadlock** is checked, except where the system may stop: a reader who looks at
nothing more or has no submission ID left, all runs of the CLI over at the bound, or
all requests of the tabs sent. (`ApiServer` also has the check off, as its clock stops.)

## 5. Proofs

Every theorem holds for every value of the constants that satisfies the
assumptions of its module. Sets need not be finite, so that there may be any
number of processes, users and rows; only the catalogue of `Browsing`, whose rows
are counted and sorted, is. Together the theorems state every invariant and every
action property that a passing run checks, and the refinement.

| module | theorem | states |
|---|---|---|
| `AgentApplicationsProofs` | `Inductive` | `Spec => []IInv` |
| | `TypeCorrect` | `Spec => []TypeOK` |
| | `AuditComplete` | `Spec => []AuditMatches` |
| | `OneAgentPerUser` | `Spec => []AgentsMatch` |
| | `AnswersTrue` | `Spec => []TruthfulAnswers` |
| | `ReviewersInScope` | `Spec => ReviewedInScope` |
| | `Refinement` | `Spec => ImplementsStages` |
| `AgentLifecycleProofs` | `Inductive` | `Spec => []LifecycleInv` |
| | `ApplicationsAgree` | `Spec => []ApplicationsFollow` |
| | `SessionsEnd` | `Spec => KnownSessionsEnd` |
| `AdminRolesProofs` | `Inductive` | `Spec => []RolesInv` |
| | `FirstAdmin` | `Spec => BootstrapIsFirst` |
| | `ActorsAdmitted` | `Spec => ActorsAreAdmins` |
| | `RolesNeverDeadlock` | `Spec => []OnlySessionsDeadlock` |
| `AccessProofs` | `ServerInductive` | `ServerSpec => []ServerInv` |
| | `ExitsClean` | `ServerSpec => []CleanExit` |
| | `LimiterInductive` | `ServerSpec => []LimiterInv` |
| | `SignInInductive` | `Spec => []SignInInv` |
| | `SignedIn` | `Spec => []SignedInAsConsented` |
| | `TokensKept` | `Spec => []TokensAgree` |
| `PropertyCorrectionsProofs` | `Inductive` | `Spec => []RecordInv` |
| | `UpdateNotLost` | `Spec => NoLostUpdate` |
| | `CorrectionsInScope` | `Spec => CorrectedInScope` |
| `AgentOffersProofs` | `Inductive` | `Spec => []OfferInv` |
| | `UpdateNotLost` | `Spec => NoLostUpdate` |
| | `ArchivedStays` | `Spec => ArchiveIsFinal` |
| | `EditsInScope` | `Spec => EditedInScope` |
| `ReaderProofs` | `InquiryInductive` | `Spec => []InquiryInv` |
| | `HandoffIsRecorded` | `Spec => []HandoffMatches` |
| | `RefusalsInductive` | `Spec => []RefusalsInv` |
| | `DetailsInductive` | `BrowsingSpec => []DetailsHold` |
| | `PagesInductive` | `BrowsingSpec => []BrowsingInv` |
| `MediaUploadProofs` | `Inductive` | `Spec => []MediaInv` |
| | `UploadsWhole` | `Spec => []BatchesWhole` |
| | `UploadsSwept` | `Spec => []NoOrphans` |
| | `ObjectsKept` | `Spec => []RowsHaveObjects` |
| | `RowsInScope` | `Spec => WritesInScope` |

*The shape of the arguments.* None of the properties is inductive as it stands:
whether a commit keeps the tables whole depends on what the transaction has read,
written and locked, which is not in the tables. Each invariant adds this, in
named parts: what a process relies on at each of its statements (`RequestOK`,
`WorkOK` and their like, one conjunct for each stretch of the handler) and what
keeps two processes apart (`ApartOK`, `OneWriter`, `OneInsert`: no common locks,
no clashing uncommitted writes). A step of one process is then dealt with in
three parts: its own part, by the lemma named after the action (`LockRowInv`,
`CommitInv`, ...); the parts of the others, by a *frame* lemma, which needs to
know only what the step leaves alone; and the tables, which only commits change.
`NextInv` puts the actions together.

*Onboarding* (`IInv`). It adds, for each process, `RequestOK` (the step belongs
to the operation), `HeldOK` (the locks it holds by then), `WorkOK` (what it has
written by then), `SeenOK` (what it has read is still so), `ScopeOK` and
`Truthful`, and for each pair `ApartOK`. `SeenOK` can be broken only by another
transaction's commit. Lemma `Protected` shows that a transaction that commits
writes only rows whose locks it holds: the application's and the applicant's. By
`ApartOK` no other process holds these, so what the others have read through
their own locks stands, and what they have inserted does not clash, because
unique indexes made them wait (`Granted`, `StillApart`). For the refinement,
`StageUnchanged` shows that every step but a commit stutters, and `CommitIsStage`
that a commit is `Submit`, `Approve` or `Reject`, whose guards are what `SeenOK`
remembers.

*Lifecycle* (`LifecycleInv`). Two facts carry it. `AgentOK`: from `LockAgent` on,
the agent has the status that the operation changes, since only the holder of the
lock commits a status; so the audit log alternates, and applications, which
`UpdateApplications` finds without a lock, still follow. `SessionsOK`: each
session that a suspension or role revocation could know of when it began is, once
it has looked, revoked, still to be locked, or locked and about to be revoked. A
session that another transaction revokes while it is still to be locked is
re-read when the lock is got.

*Roles* (`RolesInv`). `AuthorityOK`: a run without an actor holds SHARE ROW
EXCLUSIVE from the count to the commit, and `ApartOK` leaves nobody else a lock
of that table meanwhile, so that the count stays zero. `WorkOK`: the role row is
as it was when the run wrote it, and one that changes it in the name of an actor has
its event by the commit. The logs follow (`RolesAudited`): a commit of a bootstrap
has no event, and `AuthorityOK` says that it is about a global role while nobody has
one. `RolesNeverDeadlock` needs to know what a run holds where it waits: for the table
lock, neither a lock on the table nor a row; for the row of a role, the table at most.
So who waits for the table waits for a run that has it, and that run is past the
table; who waits for a row waits for a run that has written it, and all that such a
run can still wait for are sessions; and who waits for sessions waits for one that has
locked some, which only waits for sessions. Waits lead on this way and never back, so
that only those for sessions can close a cycle.

*Signing in* (`SignInInv`). `TablesOK` relates users, identities and sessions.
`WorkOK` says what an uncommitted `UpsertUser` has written, and that nobody has
committed the same address; `ApartOK` that no two transactions write the same
user, address or identity, which is what the waits for unique indexes buy. `SoleOK`
is the invariant behind `TokensAgree`: while a page is alone, its request has the
cookies that the browser has, so what it is told about its session is what
`sessions` holds when it is told. The proof is in two halves: `ServerOK`, which
does not know of pages, and `PagesOK`, which rests on it. `SignedIn` is part of
the first half: the identity that a session names never changes its user, since
`CreateIdentity` writes only where there was none.

*The process* (`ServerInv`, `CleanExit`). `BootedInOrder` says what each stage of
the start has established: `Validate` has accepted what `Load` made of the
environment, then the sign-in is as configured, then the media. `ServesAsConfigured`
follows from what `Validate` accepts (`LoadedConfig`). `StopsInOrder` says who is
still at work at each stage of the end: when main waits for the goroutine that
serves, no handler is left, and this is the only way to an exit with 0.

*The limiter* (`LimiterInv`). All is about a function of time: what a bucket has
available. `BucketsExact`: whatever other clients did, the bucket in the table is
between `least` and `most` of its client, because a request that is counted at an
old time finds no more than one counted now, and sets the bucket back by what `most`
is given. An eviction gives a full bucket to the client that is forgotten and begins
its histories again; it touches nobody else's. `LimitKept` follows. `RetryCovers`:
from an answer with `Retry-After` until its client is let in, what the bucket holds
and what is added by the moment that was named make a request: a refused request
takes nothing, requests of others do not touch the bucket, and one that was
forgotten begins full. `RetryHonoured` follows for the table as it is and for each
that an eviction can leave. The arithmetic is for any bucket size, price and rate;
rounding `Retry-After` up to seconds is part of it (`RetryAfterCovers`).

*The page of a property* (`DetailsHold`). The view remembers which rows were there
at some moment of the request (`ever`) and which names were there all along
(`always`). `RowsRemembered` relates them to the tables now, `PlacesRemembered` says
that what is shown belongs to the property, and `ShownInTurn` that each statement
has shown its part of `always`: what is left to show are the parts of the statements
that are left (`ReadsInTurn`). A write takes names from `always` and adds rows to
`ever` (`WriteRemembers`). At the end nothing is left (`EndOfItsTime`), and if
nothing was written, `ever` and `always` are the rows of now, from which the counts,
lowest prices and thumbnails of the cards follow (`EndMatchesCards`).

*The pages of a list* (`BrowsingInv`). `WalkOfItsTime` makes every page on the
screen an answer of the catalogue as it is. The rest is about one catalogue. The
sort keys of a query have one length and compare (`KeyType`, `KeysCompare`), and the
id breaks ties, so that `Before` is total and the rows have at most one enumeration
in order (`OneOrder`: two that differ differ first at some place, and each has to
put the other's row there later). So all pages are pieces of the same sequence
(`AnswerShows`), cut where the arithmetic of `Offset` and `CalculateMetadata` says
(`LastPage`), and what it enumerates is what was asked for, because a filter on an
aggregate says the same as one on the offers it is taken from (`LowestTells`,
`FilteredIsWanted`). Least elements of sets of numbers take the place of induction
(`LeastNat`). Without the tie-break `OneOrder` is false: that is the mutant of the run.
That the rows have such an enumeration at all, so that every page is answered, is
not needed for this; its proof would be an induction.

*Corrections, offers* (`RecordInv`, `OfferInv`). The heart is `Genuine`: a version
names one state of the record, so whoever holds the current version holds the
current contents, though they were read without a lock. It is why "before" in an
audit event is right, and why comparing versions is enough.

*Inquiries* (`InquiryInv`, `RefusalsInv`). `OneInquiry` is the unique index.
`RecordedOnce` needs in addition that everyone who speaks of a submission ID, a row,
a request that nobody waits for any more, or a sheet, means the same offer
(`OneOffer`), and that a sheet has used one ID (`SheetOK`). `RefusalsInv` rests on
`SeenOK`: inquiries are never deleted, so a question that was there when a request
began is found by its first statement, and no later statement is reached; an offer
that is unavailable at some statement has left its trace, because every change of an
offer reaches all requests under way.

*Media* (`MediaInv`). `RowsOK` and `ObjectsOK` say of each upload how many of its
objects and rows are there at each step. The cleanup counts upwards through the
files, so that an object that is left is one it has yet to come to. Removals of
one row exclude each other from `LockRow` to their commit.

*Assumptions.* They are the ones the code justifies, and the runs evaluate them:
`None` is no key and `Absent` no number (`NoneAssumption`, `ApiServerAssumption` and
the like); requests carry contents of their types, prices fit their column, and
bounds are numbers (`FieldAssumption`, `ContentAssumption`, `PriceAssumption`,
`SearchAssumption`, `IntAssumption`, `BoundAssumption`, `RateLimiterAssumption`);
tables are finite and ids are numbers (`FiniteAssumption`, `IdAssumption`); each row
has one owner (`SessionAssumption`, `UserAssumption`); names of one kind are not
names of another (`DistinctAssumption` of `AgentLifecycle`, `SubjectAssumption`,
`RequestAssumption`: an audit event is about an agent, a role or a session, a
request is an upload or a removal), but an agent of `AgentOffers` may be an
operator; object keys are new for each file (`FileAssumption`; the code draws a
UUID); earlier sign-ins had accounts and addresses of their own
(`SignInAssumption`).

*What the proofs found.* In `SignIn` the CASE arms of `NewJar` and the two
answers of `Access` overlapped, so that TLC's choice among them, the first, was
not what the formula said; they are exclusive now. `ServesAsConfigured` spoke of
the origin in the environment, while what `Validate` demands HTTPS of is the origin
in use, which has a default: none of the environments that TLC had tried left it
unset, and one does now. And the sessions that `LifecycleInv` audits, the locks of
removals, the place of each request, and what a walk over pages remembers had to be
stated before the invariants were inductive.

*Only model-checked.* `EveryRequestAnswered` (of onboarding, lifecycle and sign-in):
the proof system does not do liveness under fairness.

## 6. What is not modelled

* `phone.Normalize`, which is about single characters. Its comment says that it
  rejects non-numeric characters; the code drops them.
* The validation of request bodies, patches and files, JSON, routing, ETag syntax,
  imgproxy URLs: functions of one request, without state. The models take
  requests that have passed them.
* Text filters of the two lists, and the page buttons of the web client
  (`nearbyPages`).
* Whether the inquiry sheet ever leaves its pending state: `fetch` is called without
  a timeout, so that this is up to the browser when a response is lost.
* The check of `createProperty` and `createUnitType` that reads the principal of the
  middleware and is not repeated by the INSERT.
* The cryptography of cookies and ID tokens: an attempt's state, nonce and
  verifier are one value that nobody else has.
* Identifiers no request can know, that is, 404s for targets that never existed,
  except where the code takes them from users: an unknown user in `AdminRoles`.
* The foreign-key locks on `users` in `AdminRoles`: they conflict only with
  `FOR UPDATE` on users, which only onboarding takes; `AgentApplications` has the
  conflict from its side.
* Backups, migrations of data, the seed CLI, campus queries, rendering.

## 7. Plan

| step | module | question | state |
|---|---|---|---|
| 1 | `AgentApplications`, `AgentStages` | do rival requests make one agent of a user? | checked and proved |
| 2 | `AgentLifecycle` | do agent, application and sessions agree? | checked and proved |
| 3 | `InquirySubmission` | is a question recorded once? | checked and proved |
| 4 | `PropertyCorrections`, `AgentOffers` | are edits lost? | checked and proved |
| 5 | `AdminRoles` | who can become an admin? | checked and proved |
| 6 | `MediaUpload` | do rows and objects agree? | checked and proved |
| 7 | `SignIn` | who is signed in, and with which token? | checked and proved |
| 8 | `RateLimiter`, `Configuration`, `ApiServer` | what does the process promise? | checked and proved |
| 9 | `Catalogue`, `Browsing` | what do readers see while others write? | checked and proved |

What could follow: the handlers that read the principal once and write later
(`createProperty`, `createUnitType`), as a module between `SignIn` and `Catalogue`;
and text filters, as a choice among the rows that a query carries.
