# Verification of exam-builder-server

TLA+ models of this server, TLC configurations that check them on small
instances, and TLAPS proofs for every instance.  Source paths are relative to
the repository root.

## The system

One uvicorn process (`entrypoint.sh`) runs a FastAPI application.  Every
request is a coroutine with its own SQLAlchemy `AsyncSession` on PostgreSQL at
READ COMMITTED (`app/core/database.py`); it yields at each `await` on the
database, Redis, the image host or the mail server, so requests interleave
there and nowhere else.  There is no in-process lock: what keeps requests apart
is the database (unique indexes, row locks, atomic commit) and Redis (single
commands and MULTI/EXEC pipelines are atomic, sequences of them are not).

| Component | State | Operations | Hard behaviour |
|---|---|---|---|
| Grading (`services/submit_exam.py`, `crud/exam_repository.py`) | none | `get_grading_data`, answer key, validation, `grade` | repeated, missing and foreign answers; "first correct option" depends on row order |
| Submission and results (`services/submit_exam.py`, `services/get_results.py`, `crud/submission_repository.py`, `routes/submissions.py`) | `submission`, `answer` tables; open transactions | submit, read one result, list an exam's results | two submits of one assignment, blocking unique index, failure between flushes, lost commit acknowledgement, reads made of several queries |
| Exam catalog (`services/create_question.py`, `assemble_exam.py`, `assign_exam.py`, `storage/`) | `question`, `option`, `exam`, `exam_question`, `exam_assignment` tables; image host | create question, list questions, create exam, read exam, assign exam | image stored and question not, check-then-insert of assignments, repeated question ids |
| Token sessions (`auth/jwt_service.py`, `services/login.py`, `services/password_reset.py`, `routes/auth.py`) | `refresh_token`, `user` tables | login, refresh (rotation, family revocation), revoke all on reset | two rotations of one token, bulk UPDATE against rows committed after its snapshot, row locks, login racing a reset |
| Password reset (`auth/otp_service.py`, `services/password_reset.py`) | Redis keys: otp, cooldown, sends, reset token, owner | request code, verify code, reset password | check-then-act across awaits, keys that lose their expiry, a token consumed before the database fails |
| Access tokens (`api/deps.py`, `auth/jwt_service.py`) | `user.password_changed_at` | issue, validate | whole-second `iat` against a microsecond timestamp; overlapping resets |
| Rate limiting (`core/rate_limit.py`, `api/rate_limit.py`) | Redis counters; per-process windows and breaker | check | Redis counting a request that was given up, fallback at capacity, window boundary, breaker |
| Accounts (`services/create_user.py`, `crud/user_repository.py`, `routes/users.py`, `routes/auth.py`, `scripts/seed_admin.py`) | `user` table | register, create user, seed admin, login | check-then-insert on the unique email; login looks an email up exactly, a reset in lower case |
| Body limit (`core/middleware.py`) | bytes received | accept or reject a body | declared length against streamed length |
| Schemas, configuration, mail, migrations, bench script, container files | - | - | none of its own |

Interactions: routes resolve `rate_limit` and `get_current_user` before the
handler; all services share the database through repositories; the catalog
fills the tables that submission reads; a password reset revokes the sessions
that refresh rotates and invalidates the access tokens that `deps.py` accepts.

## Modules

| Module | Role |
|---|---|
| `Grading` | pure operators: rows of `get_grading_data`, answer key, validation, `grade` |
| `GradingProperties`, `GradingProofs` | grading one list as a state machine, what its outcome must be; proofs |
| `SubmitOnce` | abstract: every submit request is one atomic step |
| `ExamSubmission`, `...Properties`, `...Proofs` | submit and result handlers; what they guarantee; proofs about submits and about reads |
| `PublishedExams` | abstract: exams appear whole and fixed, pairs are assigned once |
| `ExamCatalog`, `...Properties`, `...Proofs` | question, exam and assignment handlers; what they guarantee; proofs |
| `TokenLedger` | abstract: grants, exchanges and revocations of refresh tokens as atomic steps |
| `TokenSessions`, `...Properties`, `...Proofs`, `...HistoryProofs` | login, refresh and database half of a reset; guarantees; proofs about one state; proofs about which request came first |
| `PasswordReset`, `...Properties`, `...Proofs` | Redis half of a forgotten password: codes, cooldown, cap, reset tokens; guarantees; proofs |
| `RateLimit`, `...Properties`, `...Proofs` | `check()` and the keys it is called with: Redis, timeout, breaker, fallback; guarantees; proofs |
| `Accounts`, `...Properties`, `...Proofs` | accounts and access tokens: register, create, seed, login, the rows a reset touches, `get_current_user`; guarantees; proofs |
| `MC*` | instances for TLC: sets, lists of bodies, symmetry |

The modules meet at three places.  `ExamCatalog` implements `PublishedExams`, and
`ExamSubmission` fills its catalog with the two steps of `PublishedExams`, one
atomic commit each; the grading rows it publishes are those of `Grading`.
`TokenSessions` starts a reset where Redis has resolved the reset token;
`PasswordReset` ends with that transaction as one step (`ChangePassword`).
`Accounts` shows the same transaction a third time, from the side of the user
row: `MailCode` stands for everything up to the resolved reset token, and the
refresh tokens are left to `TokenSessions`.  An access token depends on nothing
but the user row and its `iat`, so the two can be checked apart.

### From code to state and actions

*Requests.* A request is an element of a constant set and is served once:
`pc[r]` is the statement its handler is at, `req[r]` its body, `resp[r]` the
HTTP status the client gets.  Everything a handler does between two awaits is
one action.  `Receive...` starts a handler with any body.  A status of 500 also
stands for a dropped connection, so each `Commit...` action may end in its
success status or in 500: the COMMIT arrived, its acknowledgement did not.

*Tables.* A table is the set (or the function) of its committed rows.  Ids are
named after the request that draws them.  A transaction's unflushed and
uncommitted rows are in its write set (`tx`) and become visible at COMMIT; a
statement reads what is committed when it starts (READ COMMITTED).  An INSERT
that meets an uncommitted row with its key waits, and fails once that row is
committed.  A handler that raises leaves `async with AsyncSessionLocal()` and
thereby rolls back (`Fail`); `Crash` does this to every open request at once.

*Token rows.* An UPDATE locks its rows until its transaction ends (`locks`) and
waits for rows that others have locked.  A bulk UPDATE chooses its rows when it
starts (`aimed`), then visits them one by one in any order (`left`), looks
again at a row it waited for, and does not see rows committed meanwhile.
Transactions that wait for each other are resolved by the deadlock detector
(`AbortDeadlock`).  An INSERT into `refresh_token` takes a key-share lock on
its user row, which is compatible with `UPDATE "user"` of a column that is not
a key, so a login and a reset do not wait for each other.  The query for the
user in `rotate` is merged into `ReadToken`: nothing it reads can change.
`past` is a history variable, here and in `PasswordReset`: which requests were answered before this one
arrived, that is, which requests overlapped.

*Redis keys.* In `PasswordReset` a key is a component of a function over
addresses or tokens, `None` (or a counter of 0) when it does not exist.  Each
command or MULTI pipeline is an action; the request arrives with its first
one, since nothing happens before that another request could notice.  Expiry
is an action enabled for every key that was given one, except that a code
outlives the cooldown written with it (300 s and 60 s from one MULTI) and a
token's two keys go together.  `HINCRBY` on a missing key creates it without
hash and expiry (`Blank`).  A command that fails ends its handler with 500 and
leaves what was written; redis-py sends it once.  The user lookup of
`forgot_password` is the constant `Registered`; the mail may be lost, so any
code drawn may be presented or not.  Two codes are taken to differ, and the
loss of Redis itself is not modelled.

*Limiter.* `RateLimit` has a clock in seconds, the unit of every lifetime, and
any number of steps within a second.  `Arrive` looks at the breaker; `RedisRuns`
is the MULTI pipeline, which may run before or after `GiveUp`, or never;
`Receive` gets its reply.  The fallback is a function of the key.  A dict keeps its
insertion order, so an entry has a place in it, and the "arbitrary key" of the code is
the one whose place is smallest (`Oldest`).  `Restart`
empties the process's memory and keeps Redis.  `ran`, `fell`, `lost` and the
`first` of an entry are history: when a store counted a request, under which number
and in whose window, and when the fallback dropped a window under way.  Callers of `rate_limit` are authenticated already.  The value of
Retry-After, `RATE_LIMIT_ENABLED=false` and `reset_for_tests` are left out.

*Accounts and access tokens.* A row, a password and a token are named after the
request that made them.  The clock counts half seconds: `iat` and
`password_changed_at` are compared in whole seconds, and the fraction decides
only which came first.  It is read by `Issue` and `ChangePassword` alone, so
these two move it, by any amount.  `past` is history as above.  `Lower` is
`lower()` of PostgreSQL.  INSERT and COMMIT of one row are one step, since
another INSERT of that email could only wait in between; so are the UPDATE and
the COMMIT of a reset, whose `stamp` was taken before.  The role in the token is
not modelled because nothing reads it; a token past its lifetime is as good as
none.  The admin who calls POST /users is not modelled: the request starts where
`require_role` has let it pass.

*Left out in every module.* Titles, texts and other timestamps; rejections by
the limiter and malformed bodies, which only keep a request from its handler, as does a client
that sends none; in `ExamCatalog` callers who are no admins, whom
`require_role` turns away first.  There is no route that deletes or changes an
exam, question, assignment, submission or user, so rows only appear.

## Runs

| Run | Instance | Shows |
|---|---|---|
| `grading` | exams over 2 questions, 3 options in any distribution, all lists of up to 2 answers | key, validation and grades agree with the reference definitions |
| `submit_race` | 2 submits of 1 assignment, a viewer, a lister, 2 users and an admin, an exam that accepts the body or one that refuses it, fair | results stored once, whole, by their owner; true replies; whole and authorised reads; refinement of `SubmitOnce`; the inductive invariant; every request answered |
| `question_bank` | 2 questions (bodies with 0, 1, 2 correct options), 1 exam of up to 2 of them with repetitions, a list, a look | questions and exams are stored and read whole; image links lead to images |
| `assign_race` | 3 assignments of one exam, a student and a non-student, the exam and its question being made meanwhile, fair | true replies; refinement of `PublishedExams` (each pair once); every request is answered |
| `rotation_race` | 1 login, 3 refreshes with any token, one token that may expire, fair | spent tokens refused, reuse punished, refinement of `TokenLedger`, the inductive invariant, every request answered |
| `reset_race` | 2 logins, 2 refreshes, 1 reset of one user | only overlapping requests survive a reset, old passwords are refused, revocation has a cause |
| `reset_codes` | 2 code requests, 3 verifications, an address with an account and one without, cap of 1, 2 attempts | guesses that run at once are all counted, the right code works unless a cause is named, a lockout lifts the cooldown |
| `reset_tokens` | 2 code requests and 2 verifications, which may fail, 2 resets | replaced codes and tokens and spent tokens are refused, the counter loses its expiry only by a failure |
| `rate_limit` | 3 requests of a login typed in two spellings and of a reading user, limits 1 and 2, windows of 3 s, breaker of 2 s, a fallback of one entry, 3 s | how far a client may exceed its limit; nobody refused on account of others; the breaker closes again; the fallback keeps its capacity |
| `accounts` | a registration and seed_admin for one email in two spellings, 2 resets, 1 login, 1 use of a token, 2 s in half seconds | unique emails and true replies; who was told of a password can log in; access tokens end with a reset and not after it |
| `exchanged_once` | 1 login, 2 refreshes | violated, see findings |
| `token_used_once` | 1 code, 1 verification, 2 resets | violated, see findings |

*Why the bounds are enough to meet the hard cases.*  Two submits are the retry
of a request whose reply was lost, or a second tab: one holds the key, the other
waits or arrives later, and the holder may fail; what more submits and
assignments could add is covered by the proofs.  Three assignments compete for
the pair constraint and run apart.  Three refreshes are the least for reuse of a
token while another exchange is under way, and for two family revocations that
deadlock; two logins are two families.  With an attempt limit of
2 (5 in the code), three verifications are two concurrent wrong guesses and the
right one after them; with a cap of 1, the second code request meets the cap
unless the hour has passed.  Two options per question and two answers
per list are the least for "first correct option" and "last answer wins".  With
one entry in the fallback two clients displace each other's counter; three
requests exceed the limit of one by a window boundary, a time-out or a drop, and
the horizon is a window plus the tick that ends it, and longer than the breaker.
The burst
at the boundary of two windows needs a fourth request, and `reset_race` has no
second reset to overlap the first: both are left to the proofs, which hold for
any number.  A client keyed by address alone only differs in its key; adding one
exceeds the time for nothing new.  Five half seconds let a token be issued two seconds
before a reset, just less, or within its second; two resets are the least that
overlap, and two spellings the least that an exact and a lower-case lookup tell
apart.  TLC's
symmetry is used only in runs with safety properties alone.

*Deadlock checking* is off in every cfg: requests are served once, so the
system legitimately comes to rest when all are answered.  A request that is
stuck is what `EveryRequestIsAnswered` rules out.

*Fairness.* `FairSpec` has weak fairness of each handler's steps: the event
loop resumes a coroutine whose statement returned, and PostgreSQL wakes a
statement when the lock it waits for is free.  In `TokenSessions` the deadlock
detector is fair too (it runs after `deadlock_timeout`).  Weak fairness is
enough since nothing that a request waits for can be taken again and again for
ever by finitely many requests that are served once.  Nothing is assumed of
clients, expiry, failures and crashes.

## What the checks found

Two statements of the repository do not survive overlapping requests:

- `exchanged_once`: `token_service.py:22` has `rotate` raise for "a token that
  has already been rotated".  It reads `revoked` and flushes
  `UPDATE ... WHERE id` later; a second refresh that read the row before the
  first committed waits for the lock, then rotates the same token again.  Both
  get 200 and the family has two live tokens.
- `token_used_once`: `otp_service.py:123` has a reset token consumed
  "single-use".  It is read by GET and deleted by DEL, whose reply is not looked
  at; two resets that both read it both change the password.

What does hold is stated next to them: `SpentTokenIsRefused`,
`OnlyOverlapSurvivesBurn` and `SpentResetTokenIsRefused` say that only requests
that truly overlapped can do this, and that each later request sees the
revocation, also when the reply of the exchange was lost.  `ReuseIsPunished` adds
that such a request leaves no token alive that its family had when it came.

Other properties hold with exceptions that are worth knowing, each spelled out
in the property:

- `OnlyOverlapSurvivesReset`: a login or rotation that commits after the bulk
  UPDATE of a reset took its snapshot, and before the reset commits, leaves a
  refresh token that outlives the reset.
- `AccessEndsWithReset`: a reset takes `password_changed_at` before it locks the
  row, so of two overlapping ones the later commit may put the time back.  A
  token issued less than two seconds before a reset survives it by design.
- `RightPasswordLogsIn`: with two accounts whose emails differ in case only, the
  code of a reset may go to one and the new password to the other, since each of
  the two lookups takes any of the rows (`user_repository.py:16-23`).
- `AdmittedWithinBound`: a fixed window admits up to twice the limit, less one,
  within its length; the fallback counts apart from Redis and forgets what it
  drops, so a client may get the limit of each store.
- `RepliesAreTrue` of `Accounts`: of two registrations racing for an email one is
  answered 500, where the other order of events gives 409, and a registration
  whose login fails is answered 500 for an account that exists.

## What is proved

Every safety property of the passing runs, invariants and refinements, is stated
by a theorem.  The theorems of the eight `...Proofs` modules hold for every finite or infinite
set of requests, users, exams, emails and tokens, every limit and every window.
They rest on these assumptions, each of which TLC evaluates on a run:

| Assumption | Says |
|---|---|
| `SubmissionAssumption`, `CatalogAssumption`, `TokenAssumption`, `ResetAssumption`, `AccountAssumption` | the sets of requests are disjoint (kinds of handlers), `None` and the statuses are none of the data; an exam has finitely many rows; the caps of codes and attempts are positive |
| `ContentsAssumption`, `CodeAssumption`, `RecordAssumption`, `RowAssumption` | `None` is no record of the kind named |
| `GradingAssumption` | exams and banks are finite sets of rows with the columns' types, a question is in an exam once, option ids are unique, `None` is no number |
| `RateAssumption` | limits, windows, cooldown and capacity are positive; a login is limited in group `auth` |

Hardly a property is inductive as it stands.  Each module has an invariant that
is, a conjunction of named parts stated in its `...Properties`; TLC checked each
of them on the instances of the runs before it was proved.  The proof has a lemma
for each action, or for the actions that can disturb a part.

*Grading.* `GradingAlwaysConsistent` says that what is stored was computed from the
input; what that is, is a matter of the operators.  Rows without equals in
`ORDER BY` are in a strict order (`RowsOrdered`: unlike questions differ in order or
id, rows of one question in the option's id), so each has a place of its own and
no place is left out (`RowsSorted`, by counting).  `LoopResult` gives the value of the loop over any number of
rows.  The fold is a function that satisfies its recursion; `KeyGrows` shows that
the closed form "first correct option of the rows so far" satisfies it too, and
two that do agree everywhere, since a smallest number of rows on which they
differ cannot be.  `AnswerKeyFacts` (first correct option) and `SelectedFacts`
(last answer) then give `LastAnswerAlwaysDecides`, and `QuestionsAndOptions` gives
`StoredOptionsAlwaysBelong`.

*Submission.* `OneResultPerAssignment` is not inductive: two transactions that
hold the same key would break it at the second COMMIT.  `SubmitInvariant` adds
what excludes them: what a handler keeps in memory is what the tables say
(`InMemory`), a write set is what its handler has flushed (`WriteSets`), the
holder of a key is alone and nothing with that key is committed
(`KeyIsExclusive`), and a committed row is its request's (`CommittedRows`).
Each action has a lemma, `SubmitInvariantHolds` combines them, and from it follow
`TypeCorrectness`, `AtMostOneResult`, `ResultIsOwn`, `StoredResultsAreWhole`
(which also needs that answers and questions correspond one to one, hence finite
exams) and their sum `SoundResults`, `TrueReplies` and `SubmissionImplementsSubmitOnce`: COMMIT is
the abstract `Accept`, a failed INSERT `Conflict`, an early return `Refuse`, a
failure `Lose`, all else a stutter.

*Reads.* A handler that reads results makes two or three queries, each with a
snapshot of its own, so neither `ReadsAreWhole` nor `ReadsAreAuthorised` is
inductive.  `ReadInvariant` says what a handler knows between them: the rows it
has are committed, it may read them, it checked so before it asked, and its
answers are those committed for these rows.  The last stays true because
`SubmitInvariant` gives a COMMIT no answers to a result that is there already
(`TablesGrow`, `SameAnswers`).  `AuthorisedReads` and `WholeReads` follow, for
lists of any length, where the run lists at most one result.

*Tokens.* `SessionInvariant` says that a token is committed by its own
request's last step, that a refresh works on a committed token, and that a
transaction has locked the rows its handler has updated and no others.  The
last is what makes `CommitIssue` revoke exactly the token it exchanges, so that
`SessionsImplementTokenLedger` maps it to `Exchange`, a login's to `Grant`, the
bulk commits to `Revoke`.

*Token history.* What a later request sees depends on what the requests before it
did, so `HistoryInvariant` relates the tables to `past`.  A request in another's
past was answered (`PastIsAnswered`); a family only gets members from its own
login and from exchanges of its members (`FamiliesGrow`); a bulk UPDATE that has
finished left no row it aimed at unrevoked (`AimsAreReached`, `BurnsReachFamily`,
`ResetsReachUser`); a refresh that found its token spent is on its way to burn
every token that the family had when it came (`SpentTokenBurns`); a password read is one that no answered reset had
replaced (`PasswordsAreRecent`).  The six properties about spent tokens, reuse,
overlap and old passwords follow.

*Catalog.* `CatalogInvariant` ties what a handler remembers and what it has
flushed to the tables (`InMemory`, `WriteSets`), every committed row to its
request (`CommittedRows`), and makes the holder of a pair alone
(`PairIsExclusive`).  `BankIsAlwaysWhole` adds the counting: a list of options is
stored with one row per place, so exactly one of them is correct.
`CatalogReadsAreWhole` needs to know what a listing has between its queries
(`PartialReads`).  `CatalogImplementsPublishedExams` shows that an exam's rows,
once there, never change, although questions go on being stored (`OwnRows`), and
that what COMMIT publishes is gradable, which is what `ExamSubmission` assumes
of its catalog.

*Password reset.* `ResetInvariant` covers both runs.  A code is stored and read
only for the address it was drawn for (`CodesAreDrawn`), and one that was consumed
or written over is gone for good (`CodesAreGone`).  `GuessesAreCounted` is the
heart: of a code that its key still holds, no more wrong guesses were counted than
the key's counter says, however many ran between the read and the HINCRBY; so the
guess that reaches the limit locks the code, also when its DEL comes late.
`CodesEndForACause` and `LockoutsEndCooldown` give `SentCodeWorks` and
`LockoutLiftsCooldown`; `TokensAreOwned` and `TokensAreSpent` give
`UsedTokenIsRefused`; `LockoutUnblocks` and `OnlyFailureFreezesCounter` are
inductive with these and are parts of the invariant themselves.

*Limiter.* A store numbers the requests of a window from one on; a request is
refused when its number exceeds the limit.  `LimiterInvariant` says of either store
(`Counts`) that no number is given twice and the lower ones went to others, earlier
and in the same window (`CountsOnce`), that a stored entry knows the last number of
its window (`IsCurrent`), and that each window of a key was over, or lost by
the fallback, when the next was opened.  Hence at most two windows that were not
lost reach into a stretch of one window's length, and of two the number 1 of the
first was given before the stretch (`WindowsBound`); pairs of a window and a number
up to the limit are as many as requests admitted, which gives `AdmissionIsBounded`.
`RefusalHasACause` takes the limit's number of lower numbers.  `RoomIsLess`
counts what the fallback keeps when it is full, for `LimiterTypes`.
`BreakerIsTripped` says that an open breaker was opened by a request that gave up,
one cooldown before it closes; a clock that only moves forward then gives
`BreakerCloses`.  Requests and callers may be infinitely many: only finitely many
have begun (`Progress`).

*Accounts.* A row is its request's, has one email and is found by whoever was told
so (`Places`, `Progress`, `Found`), and the order of the clock is that of the
history (`Order`).  `LastReset` is what two overlapping resets need: the password
and the time of a row come from one and the same reset, and no reset that was
answered 200 lies wholly after it.  Unique emails, true replies,
`RightPasswordLogsIn`, `AccessEndsWithReset` and `NewSessionsAreAccepted` follow.

*Only model-checked.*  All liveness (`EveryRequestIsAnswered`), which is out of
the prover's reach together with ENABLED.  The two runs that expect a violation
refute their statements, so there is nothing of theirs to prove.

## Plan

1. `Grading`, `ExamSubmission` - done, grading, submission and reads proved.
2. `ExamCatalog` - done, proved, with the refinement of `PublishedExams`.
3. `TokenSessions` - done, proved, with the refinement of `TokenLedger`.
4. `PasswordReset` - done, proved.
5. `RateLimit` - done, proved.
6. `Accounts`, with access tokens - done, proved.
7. Composition of 3 and 4: from a mailed code to revoked sessions - not done; each
   half is proved with the other as one step.

Runs stay few: a module gets one run, two where one instance would be too large,
and one for a statement of the repository it refutes.

## Not modelled

Password hashing and HTML sanitising (pure library calls; a password equals
itself only), mail (pure I/O, errors dropped), schemas, configuration and
routers (declarative), migrations (run before the server starts), the
benchmark script and container files.  The body limit (`core/middleware.py`) is
sequential within one request: it compares the declared length and sums the
bytes that arrive, and no state outlives the request.
