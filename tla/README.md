# A TLA+ model of the my-school backend

The program is a NestJS server over one PostgreSQL database (Prisma). It has no
state of its own between requests: everything it promises is a relation between
database rows. Handlers are asynchronous functions; between two awaited
statements of one handler any number of statements of other handlers may run,
on this server or on another instance of it. Statements run at READ COMMITTED,
PostgreSQL's default, which nothing in the code changes. Most handlers check
something in one statement and write in a later one, so the questions worth
asking are which promises still hold when handlers interleave, and why.

## Inventory

| Part (src/src/modules) | State | Operations that change it | What is hard | Correct when |
|---|---|---|---|---|
| accounts | deposits, withdrawals, bills | create, update, delete of each | check-then-write under an advisory lock that three operations do not take; cascade; timeouts | withdrawals never exceed deposits, bills fit their withdrawal |
| request-access | access requests and their status | create, grant, cancel, approve, reject, revoke | several deciders on one row; duplicates | one decision per status; one open row per scope; revoke ends access |
| teachers, subjects, users | assignments, subjects, active flag | assign, unassign, delete subject, (de)activate | references set to NULL; pre-checks | one class teacher per section; references name what they need |
| academic-years | years, current flag, terms, copied sections | setCurrent, create, update, term CRUD | two-statement transaction, row locks; ranges merged from stale rows | one current year, never none; ordered, disjoint terms inside their year |
| auth, users | refresh tokens, password, first-login and active flags | login, refresh, logout, change and reset of passwords; create and (de)activate a user | counting sessions before inserting; rotation; three-statement password change | bounded sessions; sessions that were ended stay ended; a change of password ends older sessions |
| fees | structures, records, payments | structures, generated records, backfill, payments | status derived from a sum that is read before it is written | status agrees with the payments |
| students | enrollments, roll numbers | enroll, update, promote | roll number from a count; per-student transactions in a loop | a promotion covers its list and moves students; roll numbers continue; the year of an enrollment is that of its section |
| exams, grades, sections | exams, their subjects (papers), marks, class level | papers, finalize, unlock, discard, enter grades, update a section | open-exam check before a later write; a paper removed and added again | a closed exam does not change; an exam has a paper; marks within the total |
| attendance, school | day rows, absences, settings, holidays | save and delete a day; settings; holidays | three-statement transactions on two tables; first-use insert | the absences of a day are one save's; views add up; no attendance on days off |
| homework | homework rows | create, update, delete | access is checked by queries before the write, while it may be granted and revoked; the list and the single row say who may read in two ways | who is served was entitled during the call; the list shows what can be opened |
| announcements | rows of one table | create, update, delete | little: ownership | ownership |
| dashboard, health, common, config | none | none | reads of several snapshots | - |

How they interact: `academic-years` tells everybody which year is current
(`findCurrent`); the access policy of `request-access` is asked by grades,
homework, exams, attendance and the dashboard and reads what `teachers` writes;
`attendance` asks `school` whether a date is a school day;
`students` calls `fees` after every enrollment; deleting a subject reaches into
assignments, access requests, exams and homework through foreign keys;
deactivating a user matters to auth and to request-access. All interaction is
by calls inside one handler and by shared tables; there are no queues, timers
or callbacks.

PROJECT.json lists every component, modelled or not, and every hazard at the
line where it bites.

## How the modules are written

A handler that runs is a *request*: a name in the constant `Request`, with a
program counter `pc`, its arguments `call` and the values it has read and still
uses (`seen`, `count`). `Answer`, `Continue` and `Check` are the ways a step ends:
with an outcome, or at the next statement. Each awaited statement is one action; `Begin` starts a
call with any legal arguments. A check and the statement it reads from are one
action, because no other handler can run between them. A statement that fails
(row gone, unique index, foreign key) ends the call as refused, as the global
exception filter does. Rows are records; ids are model values, and a new row's
uuid is one nobody has mentioned. Columns no property reads are left out, and
so are response formats.

| Module | Models | Depends on |
|---|---|---|
| `Amounts` | sums of money over a table's rows | |
| `Ledger` | abstract: deposits, withdrawals and bills as atomic, balanced operations | `Amounts` |
| `Accounts` | accounts.service.ts | `Amounts`, `Ledger` |
| `AccessLifecycle` | abstract: what the callers of the access endpoints are promised | |
| `Scopes` | the teachers, sections and subjects that `RequestAccess` and `Homework` share | |
| `RequestAccess` | request-access.service.ts, access-policy.service.ts, with the parts of teachers, subjects and users it depends on | `Scopes`, `AccessLifecycle` |
| `AcademicYears` | academic-years.service.ts | |
| `Fees` | fees.service.ts, the part of `enroll` in students.service.ts that calls it, `update` of sections.service.ts | `Amounts` |
| `Sessions` | auth.service.ts, with the creation and the switch of a user in users.service.ts and the guards that look at the user | |
| `Enrollment` | the enrollments of students.service.ts | |
| `Exams` | exams.service.ts, `enterGrades` of grades.service.ts, `update` of sections.service.ts, `deleteTerm` of academic-years.service.ts | |
| `School` | school.service.ts: its handlers, and the statements of `isSchoolDay` | |
| `Attendance` | attendance.service.ts, composed with `School`, whose steps run inside `saveDay` | `School` |
| `Homework` | homework.service.ts, with the policy queries it makes | `Scopes` |
| `HomeworkAccess` | both at work on the same tables: the handlers of `Homework` between those of `RequestAccess` | `RequestAccess`, `Homework` |
| `AccountsProofs`, `FeesProofs`, `RequestAccessProofs`, `AcademicYearsProofs`, `SessionsProofs`, `EnrollmentProofs`, `ExamsProofs`, `AttendanceProofs` | theorems about the module each is named after; `RequestAccessProofs` also about `Homework` and `HomeworkAccess` | that module |
| `MC...` | instances for TLC | |

### Accounts

Six operations run in an interactive transaction whose first statement takes
`pg_advisory_xact_lock`; `createDeposit`, `deleteWithdrawal` and `deleteBill` do
not. `lock` is the holder. `pc` goes through `lock`, `row` (the row the path
names), `deposited` and `withdrawn` (the two sums), `withdrawal` and `spent` (the
withdrawal of a bill and the bills on it), `write` and, for `updateWithdrawal`
only, `reply`. The write is the last statement of its transaction, so it and
the commit are one step. `Expire` is Prisma's transaction timeout, at any
statement. Amounts are whole cents (`Decimal(12,2)`); `Total` counts the units
of money in a table, which needs no recursion and lets the provers use the
library's facts about cardinality.

`Ledger` has no lock, no request and no intermediate state: `ImplementsLedger`
says every change of the tables is one operation whose guard holds *at that
moment*, although the handler checked it some statements earlier.

### RequestAccess

A row has the name of the call that inserted it, so a run's calls are one-shot
(`ok` or `refused` at the end). `setStatus` is three statements: find the row
and check its status, update it where it still has that status, read it again.
`AccessLifecycle` is what a caller may rely on: each status change is made by
one call, that call is answered ok, and a refused call was refused while the
row did not have the status it needs. Its `Decide` step is the conditional
update; the read that follows may see a later status and still answers ok.
Users, teacher profiles and sections are never deleted by any service, so
looking them up always succeeds; class levels and the current year are fixed.
`createAssignment` compares the subject's level with the section's (`SameLevel`),
while access also needs the current year (`ValidScope`, a part of `SameLevel`). `MaxRunning` is the number of handlers in flight.

The history variable `alone` is TRUE as long as no two handlers have ever been
in flight together. Some properties hold only that long; they are named
`Serial...`. Their checks are right one call after another, and what a mutant
takes from a check breaks them; that two overlapping calls break them too is the
price of checking in one statement and writing in another, and two runs show
it where a document of the repository says otherwise. The same variable and convention appear in
the modules below.

### AcademicYears

Only `setCurrentYear` is a transaction of two statements, so row locks are
modelled there: `ClearOthers` fixes the rows its `updateMany` will reach (those
current when it starts), `LockRow` waits for each row's lock and changes it if it
still is current, `SetAndCommit` does the second update and the commit.
`BreakDeadlock` is PostgreSQL's deadlock detector. Whether a name is taken is a
choice at the statement that finds out. Initially there are any years with
ordered dates, and any of them may be current: nothing in the schema keeps it to
one, and academic-years.notes.md:34 knows that seeds and races can leave several.
So `SerialSetCurrentClearsOthers` speaks of what a call does, not of how many years are
current. `DeleteTerm` changes terms only; that the foreign key clears the term of
exams is part of `Exams`.

### Fees

One academic year. A student enrolls once (`InsertEnrollment`), which generates a
fee record as a best effort, with the statements `promote` uses as well; `backfill`
goes through the students it found with an ACTIVE enrollment, in any order, and
generates what is missing. Both go through `ReadLevel`, `FindStructure` and
`InsertFeeRecord`, where the unique index on student and year turns a second
insert into nothing.

The class level of a section is read twice, and may change at any time
(`UpdateSection`). `FindEnrollments` takes a snapshot of the levels with the
enrollments (Prisma fetches both in two queries; they are one instant here), and
`SkipWithoutStructure` looks for the price of that level; the generation reads the
level again. In between it may have become one without a price: then the
generation ends early, and the student is counted as created and has no record.
fees.notes.md:26 knows it, so `BackfillCoversEnrolled` excepts the students whose
section has changed its level since the backfill found them (the history `moved`). `recordPayment` checks the record,
inserts the payment, sums and derives the status, writes it, and reads its
answer: no transaction anywhere. `StatementFails` is a database error at any
statement; it ends the call as failed, except that a failure after the insert of
an enrollment is logged only. The columns are floating point: where a sum of
several payments should equal the total, `Derived` allows either outcome of
`>=`. Initially there are any prices, enrollments and unpaid records. That a
student leaves is not modelled: fees.service.ts never looks at it again.

### Sessions

A user is known by the mobile number and may not exist yet (`NoUser`). A session
is a row of refresh_tokens, named after the call that stored it, with the user,
the family, the second the token was signed in (`iat`), the second the row was
created in (`at`) and, as a history, the password it was begun with (`under`).
The clock is a variable, and `Tick` its only action that no handler takes. Two tokens
of a family signed in one second are the same string, because their payloads
are; `HashTaken` is the unique hash refusing the second. `login` counts and stores
in two statements of a transaction that locks nothing; `refresh` reads the row,
then the owner, then rotates; `changePassword` writes the password, ends the
sessions and begins its own in three statements, while `adminResetPassword` does
both in one transaction. `Holds` says what a client can present: a refresh token
it was given, an access token that came with a session, a first-login token.
bcrypt's verdict is equality here.

`EndedFamiliesStayEnded` is the promise of refresh-token families: once all
sessions of a family are revoked, and no refresh is past its check, nothing
brings one back, in any interleaving and with any failure.

### Enrollment

An enrollment is the row of a student and a year. `promote` goes through its list
with `todo`, `previous` and the roll number it has given out last: `SkipOrGoOn`,
`FindPrevious`, `CommitPromotion`. The unique index ends a promotion in the middle
with what it has committed. Checks on profiles and sections, which nothing
deletes, are one step. Initially there is one year of enrollments with any roll
numbers; lists may name unknown students and one student twice.

### Exams

A paper is the row of an exam and a subject, a grade the row of a paper and a
student; `by` is the call that stored a row, so a paper that was removed and
added again is another row with other grades. `enterGrades` checks the exam, the
paper, the access and the marks in statements of their own and then replaces the
grades in a transaction of two statements (`DeleteGrades`, `CreateGrades`). The
section's class level may change at any time (`UpdateSection`), which the level
checks of papers do not see; `create` matches its subjects one after another, so
the level may change between two of them. `DeleteTerm` is the deletion of a term:
the foreign key of exams is ON DELETE SET NULL and nobody asks whether an exam is
closed, so `SerialClosedExamsFrozen` promises its term only as long as that exists.
`lowered` and `levels` are histories that say which exceptions the code makes
itself. `levels` are the levels the section has had. `lowered` are the calls whose
paper got a smaller total after they had read it to check their marks (`Readers`):
those that have stored their grades, and those still on their way. A call that
reads the paper later is not among them, so what it enters has to be within the
new total.

### School and Attendance

`School` has the settings rows (`findFirst` picks any), the holidays and the
statements that read and write them; it is no specification of its own.
`Attendance` extends it with the days and absences of one section. `saveDay` and
`deleteDay` are transactions whose statements are steps: `UpsertDay` takes the lock
on the day's row, `FindAbsences` fixes the rows a `deleteMany` will reach,
`LockAbsences` waits for the transactions that hold them, and the last statement
commits. A save and a deletion lock the two tables in opposite orders;
PostgreSQL ends such a deadlock, which is `StatementFails` here. The views run
their queries with `Promise.all`, so `ReadDays` and `ReadAbsences` come in any order.

### Homework

The callers are an admin, teachers and students; what they may do hangs on
assignments, approved access, enrollments and subjects, which change at any moment
(`AssignmentChanges`, `AccessChanges`, `EnrollmentChanges`, `SubjectDeleted`: the
writes of `Enrollment` and `RequestAccess`, without their handlers). A deleted subject
leaves its assignments without one (`Lost`) and is refused while homework names it.
`create`, `update`,
`delete` and `findOne` run statement by statement: `MatchSubject` or
`FindHomework`, then the two queries of `resolveSubjectAccess` in turn
(`FindCoverage`, `FindGrant`), or for `findOne` the two of a teacher side by side
(`QueryAnswered`), then `Insert` or `Write`. A call that fails leaves nothing, so its
slot is free again. `MayWrite` and `MayRead` are the access policy in one piece, and
`entitled` is the history that says whether it held at some moment of the call.
That is what a check before a write can give; access that is revoked between the
check and the write is used once more. `findAll` is the operator `ListedFor`: what it
shows is compared with `MayRead` in every state, not while its two queries run.
Homework may be given for a year that is not the section's, since `create`
compares levels but not years; no student can see it then.

`HomeworkAccess` puts the handlers themselves beside the calls about homework:
it extends both modules, which share `subjects` (`Scopes`) and are otherwise named apart
(a call about homework is a `Caller` with its `at` and `asks` where `RequestAccess` has a
`Request` with `pc` and `call`). `Views` says that `assigned` and `approved`, which
`Homework` lets change freely, are what the queries of the policy select from the rows of
`RequestAccess`; `HomeworkRestricts` is the foreign key by which homework keeps a
subject, and a step is one of `Homework` or one of `RequestAccess`. That `Homework` allows
every such step is a theorem, so what holds for `Homework`, where anything may change
between two statements, holds for the two together. No run has this product of two
state spaces: it is what the theorems compose.

## Runs

| Run | Bounds | Result |
|---|---|---|
| accounts | 2 requests at once (unbounded in number), 1 deposit, 2 withdrawals, 1 bill, amounts 1-2, all nine operations | both invariants and the refinement of `Ledger` hold, every request is answered, the lock comes free |
| access | 3 calls of all operations, all in flight, 1 teacher, 2 subjects of which 1 is taught in the section | one winner per status, refinement of `AccessLifecycle`; while handlers do not overlap, one open row per scope, one class teacher, and no subject teacher without a subject |
| years | 3 calls of setCurrent and create, all in flight, 2 years | every call is answered, there is always a current year once there is one; while handlers do not overlap, the chosen year becomes the only one |
| terms | 3 calls on a year's dates and its terms, 2 in flight, 1 year, 3 dates | terms stay within a year whose dates stay; while handlers do not overlap, years and terms are in order and terms disjoint |
| fees | 3 calls of all operations, all in flight, 2 students of one section, 2 class levels, prices 2-3, payments of 1 | a status never claims more than was paid and never falls back to PENDING; a backfill that skips nobody covers whom it found, unless the level of the section changes while it runs; while handlers do not overlap, the status matches the payments |
| sessions | 3 calls of all operations, all in flight, 1 user, 2 passwords, 1 session from before, limit 2, tokens live 2 seconds of 3 | a family that is over stays over, one second gives a family one token; while handlers do not overlap, the limit holds and sessions match the password |
| enrollment | 2 calls of all operations, 2 students and an unknown id, 2 years with a section each, lists of 2 | an answered promotion covers its list; an enrollment's year is its section's; while handlers do not overlap, roll numbers continue and promotions move |
| exams | 3 calls of all operations, all in flight, 1 exam, 1 student, 2 levels with 2 and 1 subjects, 2 terms of which 1 is of the exam's year, totals and marks 1-2 | marks fit the total of their paper unless it was lowered after they were checked; while handlers do not overlap, closed exams stay as they are, but for a term that is deleted, and an exam has a paper |
| attendance | 3 calls of all operations of both modules, all in flight, 1 date, 1 student, 2 choices of days off | the absences of a day are one save's; while handlers do not overlap, views add up and days are saved on school days |
| homework | 2 calls of all operations, any number one after another until they succeed, 1 earlier row or none, an admin, a teacher and a student, 1 section with 2 subjects, 2 years, at most 2 assignments and approvals at a time (the constraint `FewScopes`) | whoever is served was entitled during the call; a list shows exactly what can be opened |

Why these bounds are enough to be interesting: two requests are the least that
interleave, and every check of `Accounts` compares one request's sums with the
others' writes, of which one at a time can hold the lock; two withdrawals
make a sum more than one row and are needed to move a bill; two amounts let a change grow or shrink a row. What holds for larger
tables and amounts is what `AccountsProofs` proves. On an access request two
deciders race after a third call has created the row; two creations and a
revoke make a duplicate matter. A cycle of row locks needs two transactions and
a third can wait behind them. A stale date range needs two updates, an overlap
two terms, and a third call can move what the first two have made. A stale sum
needs two payments, and a third call can be the backfill that made the record.
A session limit of 2 is passed by the third session; a revoked token is presented
again after a rotation by a third call; two logins and a change of password race
in all orders. A promotion of two students has a middle. A paper that is removed,
added again and graded takes three calls, as does a total that is lowered between two
entries; so do two saves and a deletion of one day.
With one student, a save of nobody and one of the student still differ, and two
saves of the student show whether absences are mixed. For homework, two calls on one
earlier row change it under each other; a teacher of one subject, the class teacher and a
teacher with granted access differ with two subjects, and the two scopes at a
time let one be taken while the other comes.

Deadlock is checked in the runs of `Accounts`, `RequestAccess` and `Homework`. In
the other modules the calls are one-shot and little else moves, so every behaviour
ends when all are answered; those configurations switch the deadlock check off.
In `AcademicYears` `EveryCallAnswered` says instead that nothing stops before; in
`Attendance`, the only other module where a handler waits, `StatementFails` is the
database ending a deadlock. Symmetry is used
in the runs without liveness only.

### Where the code does not do what its documents say

Two runs are expected to find a violation; PROJECT.json quotes the documents.

- `access_deletion`: no overlap needed; a subject is deleted under a pending
  request, which is approved later and names no subject.
- `fees_status`: two concurrent payments; the older sum is written last.

Where handlers do not overlap the second does not happen, as `SerialStatusMatches`
says. Other promises that overlapping calls break in the same way have no run of
their own: two concurrent `setCurrent` leave two current years, two grants of one
scope leave access after a revoke, an update of each end of a year crosses
its dates, two removals leave an exam without a paper, a deletion beside a save
leaves absences without their day, concurrent logins pass the session limit. The
module notes of the repository name most of them as known races.

## Fairness

`FairSpec` adds weak fairness of `Proceed(r)` for each request and none of `Begin`:
a started handler is run on by the event loop and its statements are answered
by the database, but nobody has to call. For `Accounts` the actions of `Proceed`
include `Expire`: while the lock is taken a waiting transaction may time out,
which is why it cannot wait for ever (Prisma ends an interactive transaction
after its timeout). For `AcademicYears` they include `BreakDeadlock`.

## What is proved

Every safety invariant and every action property that a passing run checks is a
theorem, for all values of the constants: any number of calls, of rows, students,
years or dates, any amounts. Both refinements, of `Ledger` and of `AccessLifecycle`,
are theorems too, and so is that `HomeworkAccess` implements `Homework`. A run
says that a property holds on a small instance; the theorem that the instance was
not too small. PROJECT.json lists which theorem states which property.

All proofs go the same way. What matters depends on what a handler has read some
statements earlier, so no property is inductive as it stands. `Inv` adds, for each
handler and each statement (`Fits`, in `Accounts` `Known`, in `Fees` `Local`), what
the handler may still rely on when it gets there, whatever others have done
meanwhile; one lemma says which changes of the tables others can make, and that
these facts survive them; then each action is a lemma of its own. The `Serial...`
properties need a second invariant (`Calm`, `Lone`, `Serial`) that is claimed while
`alone` holds only: there is one handler in flight, and what it has read is still
exactly so.

- `AccountsProofs`: `TypeOK`, `DepositsCoverAllWithdrawals`, `BillsFitTheirWithdrawal`
  and `ImplementsLedger`. At most one request is past `lock` with a locked operation,
  and it is `lock`; what the holder has read *bounds* the tables for as long as it
  holds the lock. The bound, not equality, is what survives: `createDeposit` may add
  deposits after they were summed, `deleteWithdrawal` and `deleteBill` may remove
  rows after they were summed, and each of these only helps the check that was
  made. From the same facts every write is an operation of `Ledger` whose guard
  holds at the write.
- `FeesProofs`: `TypeOK`, `StatusNeverAhead`, `NeverPendingAgain`,
  `BackfillCoversEnrolled` and `SerialStatusMatches`. The status a handler is about to
  write claims no more than the payments bear out, its record exists and keeps its
  total, its own payment is among the rows. Records keep their total and payments
  are only added (`Grows`). For the backfill, `Covered` says that every student it is
  past has a record, is the one it is at, was counted as skipped, or is of a section
  that has moved; prices are never deleted, so as long as the level stays, the
  structure the backfill has seen is the one the generation finds. While handlers
  do not overlap and none fails, a status matches or is still to be written by the
  payment in flight.
- `RequestAccessProofs`: `TypeOK`, `OneWinnerPerStatus`, `ImplementsLifecycle`,
  `OneOpenRow`, `SerialOneClassTeacher`, `SubjectTeachersHaveASubject`. A status only
  moves on, so a row that was seen in the status a call needs is there or past it
  (`Ahead`) ever after; `Sole`: no two calls have moved one row out of one status. The
  refinement follows: a call is answered ok only after its own update, and refused
  only when its row is past.
- The same module, about homework: `OnlyTheEntitledAreServed` and `ListedIsReadable` of
  `Homework`, that `HomeworkAccess` implements `Homework`, and both properties, with
  `HomeworkHasItsSubject`, for the two together. `Serving` says what a call has made
  sure of: at `write` the caller has been entitled to the row it found, at `view` if
  one of the queries has said yes. The lists need that assignments are of teachers and
  enrollments of students (`TablesTyped`). For the composition `Scoped` says that an
  access row or an assignment that names a subject names one of its section's level,
  also while the handler that has checked this is still on its way to the insert, and
  that ids are unique; with `Views`, each of the five writes adds or takes away at most one scope,
  or none if another row has the same one, and a deletion takes a subject from all.
  `Recorded`: who is entitled is remembered at once, so what a call cannot see changes
  nothing for it.
- `SessionsProofs`: `TypeOK`, `EndedFamiliesStayEnded`, `SerialSessionLimit`,
  `SerialSessionsMatchPassword`. Rows are never deleted and `isRevoked` is only ever
  set; a family has one row per second, so a row that is stored is in no family
  that is over. For the limit, `Room` says by how much the live sessions are fewer at
  each statement; for the password, `Matching` says that a mismatch is that of the
  change of password in flight, which ends it with its next statements.
- `AcademicYearsProofs`: `TypeOK`, `TermsWithinYear`, `NeverWithoutCurrent`,
  `SerialDatesInOrder`, `SerialSetCurrentClearsOthers`. The
  dates a handler is about to write have each been compared with their year
  (`Bounded`); two updates that store one date each leave a row nobody has looked at,
  and it is within the year all the same. Locked rows are current and of one
  transaction (`Locks`).
- `EnrollmentProofs`: `TypeOK`, `PromoteCoversAll`, `SerialRollsStayDense`,
  `SerialPromotionMoves`. `Covered`: whom the promotion is past has a row in the target
  year, the rest of the list is still to do. `Knows`: the number given out last is the
  number of active students. The roll numbers take some counting: a set of n
  numbers 1 to n grows by n + 1.
- `ExamsProofs`: `TypeOK`, `MarksWithinTotal`, `SerialExamKeepsAPaper`,
  `SerialClosedExamsFrozen`. Marks are compared with a paper that may be removed and
  added again before they are stored; `Faithful` says that a row with the same `by`
  has at least the total that was read, or `lowered` has the very call that read it.
  `Knows`: the exam that was found open still is, the papers that were counted still
  are there. Exams of a term that is deleted lose it and nothing else (`TermFrozen`).
- `AttendanceProofs`: `TypeOK`, `OneSaveWins`, `SerialViewsAddUp`,
  `SerialSavedOnSchoolDays`. One save at a time is past `upsert` for a date
  (`Exclusive`, the lock on the day's row), so between its `deleteMany` and its commit
  the absences only shrink.

The assumptions are those named `...Assumption` in the modules, which every run
evaluates: numbers are numbers, amounts positive, operations known, `None` is no
value of the code. Some are there for the proofs and are as much the code's:

- sessions: the rows from before are finitely many and not named like calls;
- enrollments: there are finitely many known students and years, so that a count
  of rows is a number;
- request access: `None` is no record of an operation and a row; exams: the string
  "none" is no term. Both say that two values that stand for nothing differ from
  those that stand for something.

The lemmas on totals (a total grows with its table, and changes by the difference
when a row is added, removed or resized) are in `AccountsProofs` and, for payments,
in `FeesProofs`.

Only model-checked are:

- liveness (`NothingHangs`, `EveryCallAnswered`): fairness and
  ENABLED are out of the prover's reach;
- that the two documents cited above are wrong: a counterexample is a run.

Nothing here is a recursive function of its input, and no module uses RECURSIVE.

## Theorems worth adding

That the `Serial...` properties could be had with weaker hypotheses than `alone`, for
one row or one section at a time. The composition of `Enrollment` with `Fees` and
`Homework`, which take from it the same way what `Homework` takes from `RequestAccess`.

## Not modelled

- Announcements: handlers that write one row no other operation reads.
- The dashboard and the listing endpoints read only, and nothing depends on
  what they return. The views of attendance are modelled, because they combine
  the tables that a save and a deletion write.
- `create` and `update` of subjects, `create` of sections, profile updates of
  users, teachers and students: a query whether a name is free and one write,
  whose unique index decides when two calls overlap.
- Guards, filters and validation reject requests before any state is touched,
  except for the guards that look at the user, which are steps of `Sessions`.
- Health check, configuration and bootstrap have no state; seeds, reset, agent
  documentation and deployment scripts run on an idle system.
