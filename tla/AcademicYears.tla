--------------------------- MODULE AcademicYears ---------------------------
(***************************************************************************)
(* academic-years.service.ts: which year is current, the dates of years    *)
(* and of the terms inside them, and the sections a new year copies.       *)
(*                                                                         *)
(* Every call is a request of its own, answered once; every awaited        *)
(* statement is a step, at READ COMMITTED.  Only setCurrentYear runs a     *)
(* transaction of two statements, so only there row locks are modelled:    *)
(* an UPDATE waits for the transaction that has changed its row, and then  *)
(* looks at the row again, but not for rows it did not see when it started.*)
(* Dates are whole days.  A term has the name of the call that created it. *)
(* Names of years and terms are left out: whether the unique index, or the *)
(* query before it, finds a name taken is a choice.  Years are never       *)
(* deleted.                                                                *)
(***************************************************************************)
EXTENDS Integers, FiniteSets

CONSTANTS Request, Year, Date, SectionName,
          Ops,           \* the operations called in this instance
          MaxRunning,    \* how many handlers may be in flight at once
          None

TermWrites == {"createTerm", "updateTerm", "deleteTerm"}

ASSUME AcademicYearsAssumption ==
    /\ Date \subseteq Int
    /\ None \notin Date \cup Year \cup Request
    /\ Ops \subseteq TermWrites \cup {"setCurrent", "create", "update"}

VARIABLES
    years,      \* [start, end] of each year, or NoYear
    current,    \* the years whose committed row has isCurrent = true
    terms,      \* Term rows
    sections,   \* the section names of each year
    todo,       \* rows a request's updateMany still has to reach
    held,       \* rows a request's open transaction has changed, and locks
    pc, call, seen,
    alone,      \* history: no two handlers have been in flight at once so far
    resized     \* history: the years whose dates an update has written

vars == <<years, current, terms, sections, todo, held, pc, call, seen, alone, resized>>
tables == <<years, current, terms, sections>>
locks == <<todo, held>>

NoYear == [start |-> None, end |-> None]

Ranges == {d \in [start : Date, end : Date] : d.start < d.end}

MaybeDates == [start : Date \cup {None}, end : Date \cup {None}]

Existing == {y \in Year : years[y] # NoYear}

Nothing == [range |-> NoYear, copied |-> {}]

NoCall == [op |-> "none", year |-> None, term |-> None, dates |-> NoYear, copy |-> FALSE]

Body(op, ys, ids, dates, copies) ==
    [op : {op}, year : ys, term : ids, dates : dates, copy : copies]

\* assertValidDateRange compares two arguments of create and createTerm before
\* any statement; an update without dates changes a name only
Calls ==
    {c \in UNION {
         Body("setCurrent", Year, {None}, {NoYear}, {FALSE}),
         Body("create", Year, {None}, Ranges, BOOLEAN),
         Body("update", Year, {None}, MaybeDates, {FALSE}),
         Body("createTerm", Year, {None}, Ranges, {FALSE}),
         Body("updateTerm", Year, Request, MaybeDates, {FALSE}),
         Body("deleteTerm", Year, Request, {NoYear}, {FALSE})} : c.op \in Ops}

\* What earlier calls have left: nothing in the schema keeps two years from
\* being current.
Init ==
    /\ years \in [Year -> Ranges \cup {NoYear}]
    /\ current \in SUBSET Existing
    /\ terms = {}
    /\ sections \in [Year -> SUBSET SectionName]
    /\ \A y \in Year \ Existing : sections[y] = {}
    /\ todo = [r \in Request |-> {}]
    /\ held = [r \in Request |-> {}]
    /\ pc = [r \in Request |-> "idle"]
    /\ call = [r \in Request |-> NoCall]
    /\ seen = [r \in Request |-> Nothing]
    /\ alone = TRUE
    /\ resized = {}

Done == {"ok", "refused"}

Running == {r \in Request : pc[r] \notin Done \cup {"idle"}}

FirstStep(c) == CASE c.op = "create" -> "name"
                  [] c.op = "update" -> "read"
                  [] OTHER -> "exists"

\* a new year's uuid names no year, and nobody can have mentioned it
Fresh(y) == y \notin Existing /\ \A r \in Request : call[r].year # y

Begin(r, c) ==
    /\ pc[r] = "idle" /\ Cardinality(Running) < MaxRunning
    /\ c.op = "create" => Fresh(c.year)
    /\ call' = [call EXCEPT ![r] = c]
    /\ pc' = [pc EXCEPT ![r] = FirstStep(c)]
    /\ alone' = (alone /\ Running = {})
    /\ UNCHANGED <<tables, locks, resized, seen>>

\* an answered call leaves nothing behind but its outcome
Remember(r, s, what) ==
    /\ pc' = [pc EXCEPT ![r] = s]
    /\ call' = [call EXCEPT ![r] = IF s \in Done THEN NoCall ELSE @]
    /\ seen' = [seen EXCEPT ![r] = IF s \in Done THEN Nothing ELSE what]
    /\ UNCHANGED alone

Goto(r, s) == Remember(r, s, seen[r])

Only(r, s) == Goto(r, s) /\ UNCHANGED <<tables, locks, resized>>

Check(r, holds, s) == Only(r, IF holds THEN s ELSE "refused")

NameTaken(r) == Only(r, "refused")

AssertYearExists(r) ==
    /\ pc[r] = "exists"
    /\ Check(r, call[r].year \in Existing,
             CASE call[r].op = "setCurrent" -> "current"
               [] call[r].op = "createTerm" -> "bounds"
               [] OTHER -> "term")

-----------------------------------------------------------------------------
(* setCurrent                                                               *)

LockedByOther(r, y) == \E q \in Request \ {r} : y \in held[q]

\* findFirst where isCurrent: any one of them, if there are several
FindCurrent(r) ==
    /\ pc[r] = "current"
    /\ \/ current = {} /\ Only(r, "clear")
       \/ \E y \in current : Check(r, y # call[r].year, "clear")

\* Mutant of ClearOthers: the flag of the previous year is never cleared.
ClearNothing(r) == pc[r] = "clear" /\ Only(r, "set")

\* updateMany where isCurrent starts: it will reach the rows it sees now
ClearOthers(r) ==
    /\ pc[r] = "clear"
    /\ todo' = [todo EXCEPT ![r] = current]
    /\ Goto(r, "lock") /\ UNCHANGED <<tables, held, resized>>

\* it changes, and locks, one row after the other, if it still is current
LockRow(r) ==
    /\ pc[r] = "lock"
    /\ \/ \E y \in todo[r] :
            /\ ~LockedByOther(r, y)
            /\ todo' = [todo EXCEPT ![r] = @ \ {y}]
            /\ held' = [held EXCEPT ![r] = @ \cup (current \cap {y})]
            /\ UNCHANGED <<tables, seen, pc, call, alone, resized>>
       \/ todo[r] = {} /\ Only(r, "set")

\* Mutant of SetAndCommit: each statement is committed on its own.
ClearThenSet(r) ==
    /\ pc[r] = "set"
    /\ ~LockedByOther(r, call[r].year)
    /\ IF held[r] # {}
       THEN /\ current' = current \ held[r]
            /\ UNCHANGED <<pc, call, seen, alone, resized>>
       ELSE /\ current' = current \cup {call[r].year}
            /\ Goto(r, "ok")
    /\ held' = [held EXCEPT ![r] = {}]
    /\ UNCHANGED <<years, terms, sections, todo, resized>>

\* Mutant of SetAndCommit: the rows stay locked after the commit.
CommitAndHold(r) ==
    /\ pc[r] = "set"
    /\ ~LockedByOther(r, call[r].year)
    /\ current' = (current \ held[r]) \cup {call[r].year}
    /\ Goto(r, "ok") /\ UNCHANGED <<years, terms, sections, todo, held, resized>>

\* the second update, and the commit of both
SetAndCommit(r) ==
    /\ pc[r] = "set"
    /\ ~LockedByOther(r, call[r].year)
    /\ current' = (current \ held[r]) \cup {call[r].year}
    /\ held' = [held EXCEPT ![r] = {}]
    /\ Goto(r, "ok") /\ UNCHANGED <<years, terms, sections, todo, resized>>

WaitsFor(r, q) ==
    \/ pc[r] = "lock" /\ todo[r] # {} /\ todo[r] \subseteq {y \in Year : LockedByOther(r, y)}
                      /\ todo[r] \cap held[q] # {}
    \/ pc[r] = "set" /\ call[r].year \in held[q]

\* PostgreSQL ends one of several transactions that wait for each other
BreakDeadlock(r) ==
    /\ \E S \in SUBSET Request :
         /\ r \in S
         /\ \A p \in S : \E q \in S \ {p} : WaitsFor(p, q)
    /\ todo' = [todo EXCEPT ![r] = {}]
    /\ held' = [held EXCEPT ![r] = {}]
    /\ Goto(r, "refused") /\ UNCHANGED <<tables, resized>>

-----------------------------------------------------------------------------
(* create and update of a year                                              *)

AssertNameNotTaken(r) ==
    /\ pc[r] = "name"
    /\ NameTaken(r) \/ Only(r, IF call[r].copy THEN "copy" ELSE "insert")

ReadSectionsToCopy(r) ==
    /\ pc[r] = "copy"
    /\ \E names \in IF current = {} THEN {{}} ELSE {sections[y] : y \in current} :
         Remember(r, "insert", [seen[r] EXCEPT !.copied = names])
    /\ UNCHANGED <<tables, locks, resized>>

InsertYear(r) ==
    /\ pc[r] = "insert"
    /\ \/ /\ years' = [years EXCEPT ![call[r].year] = call[r].dates]
          /\ sections' = [sections EXCEPT ![call[r].year] = seen[r].copied]
          /\ Goto(r, "ok") /\ UNCHANGED <<current, terms, locks, resized>>
       \/ NameTaken(r)

\* dto.startDate ?? existing.startDate, and the same for endDate
Merged(dates, stored) ==
    [start |-> IF dates.start = None THEN stored.start ELSE dates.start,
     end   |-> IF dates.end = None THEN stored.end ELSE dates.end]

Ordered(range) == range.start < range.end

ReadYear(r) ==
    LET y == call[r].year
    IN  /\ pc[r] = "read"
        /\ Check(r, y \in Existing /\ Ordered(Merged(call[r].dates, years[y])), "write")

UpdateYear(r) ==
    LET y == call[r].year
    IN  /\ pc[r] = "write" /\ call[r].op = "update"
        /\ \/ /\ ~LockedByOther(r, y)
              /\ years' = [years EXCEPT ![y] = Merged(call[r].dates, @)]
              /\ resized' = resized \cup {y}
              /\ Goto(r, "ok") /\ UNCHANGED <<current, terms, sections, locks>>
           \/ NameTaken(r)

-----------------------------------------------------------------------------
(* terms                                                                    *)

\* the row is found; dates it is about to get are checked at once, and first
\* completed by the stored ones
ReadTerm(r) ==
    LET c == call[r]
        found == {t \in terms : t.id = c.term /\ t.year = c.year}
    IN  /\ pc[r] = "term"
        /\ \/ \E t \in found :
                IF c.dates = NoYear
                THEN Only(r, "write")
                ELSE /\ Remember(r, IF Ordered(Merged(c.dates, t)) THEN "bounds" ELSE "refused",
                                 [seen[r] EXCEPT !.range = Merged(c.dates, t)])
                     /\ UNCHANGED <<tables, locks, resized>>
           \/ found = {} /\ Only(r, "refused")

\* the dates the handler checks: its own, completed by the stored ones
Checked(r) == IF call[r].op = "createTerm" THEN call[r].dates ELSE seen[r].range

\* Mutant of CheckBounds: only the start of a term is compared.
CheckStartOnly(r) ==
    /\ pc[r] = "bounds"
    /\ Check(r, years[call[r].year].start <= Checked(r).start, "overlap")

CheckBounds(r) ==
    LET y == years[call[r].year]
    IN  /\ pc[r] = "bounds"
        /\ Check(r, y.start <= Checked(r).start /\ Checked(r).end <= y.end, "overlap")

Overlap(s, t) == s.start < t.end /\ s.end > t.start

\* Mutant of AssertNoTermOverlap: a term that ends inside another is missed.
MissOverlapAtEnd(r) ==
    /\ pc[r] = "overlap"
    /\ Check(r, ~\E t \in terms : /\ t.year = call[r].year /\ t.id # call[r].term
                                  /\ t.start <= Checked(r).start
                                  /\ Overlap(t, Checked(r)), "write")

AssertNoTermOverlap(r) ==
    /\ pc[r] = "overlap"
    /\ Check(r, ~\E t \in terms : /\ t.year = call[r].year /\ t.id # call[r].term
                                  /\ Overlap(t, Checked(r)), "write")

CreateTerm(r) ==
    LET c == call[r]
    IN  /\ pc[r] = "write" /\ c.op = "createTerm"
        /\ \/ /\ terms' = terms \cup {[id |-> r, year |-> c.year,
                                       start |-> c.dates.start, end |-> c.dates.end]}
              /\ Goto(r, "ok") /\ UNCHANGED <<years, current, sections, locks, resized>>
           \/ NameTaken(r)

\* Mutant of UpdateTerm: both columns are written, undefined ones included.
WriteUndefinedDates(r) ==
    LET c == call[r]
    IN  /\ pc[r] = "write" /\ c.op = "updateTerm"
        /\ terms' = {IF t.id = c.term THEN [t EXCEPT !.start = c.dates.start,
                                                     !.end = c.dates.end] ELSE t : t \in terms}
        /\ Goto(r, "ok") /\ UNCHANGED <<years, current, sections, locks, resized>>

\* only the columns the body names are written; the row may have gone (P2025)
UpdateTerm(r) ==
    LET c == call[r]
        new(t) == [id |-> t.id, year |-> t.year,
                   start |-> Merged(c.dates, t).start, end |-> Merged(c.dates, t).end]
    IN  /\ pc[r] = "write" /\ c.op = "updateTerm"
        /\ \/ /\ \E t \in terms : t.id = c.term
              /\ terms' = {IF t.id = c.term THEN new(t) ELSE t : t \in terms}
              /\ Goto(r, "ok") /\ UNCHANGED <<years, current, sections, locks, resized>>
           \/ Only(r, "refused")

\* exams of the term lose it by their foreign key: that is DeleteTerm of Exams
DeleteTerm(r) ==
    LET gone == {t \in terms : t.id = call[r].term}
    IN  /\ pc[r] = "write" /\ call[r].op = "deleteTerm"
        /\ terms' = terms \ gone
        /\ Goto(r, IF gone = {} THEN "refused" ELSE "ok")
        /\ UNCHANGED <<years, current, sections, locks, resized>>

-----------------------------------------------------------------------------
Proceed(r) ==
    \/ AssertYearExists(r)
    \/ FindCurrent(r) \/ ClearOthers(r) \/ LockRow(r) \/ SetAndCommit(r) \/ BreakDeadlock(r)
    \/ AssertNameNotTaken(r) \/ ReadSectionsToCopy(r) \/ InsertYear(r)
    \/ ReadYear(r) \/ UpdateYear(r)
    \/ ReadTerm(r) \/ CheckBounds(r) \/ AssertNoTermOverlap(r)
    \/ CreateTerm(r) \/ UpdateTerm(r) \/ DeleteTerm(r)

Next == \E r \in Request : Proceed(r) \/ \E c \in Calls : Begin(r, c)

Spec == Init /\ [][Next]_vars

\* The event loop runs every started handler on, and the database grants a
\* free lock and resolves a deadlock.
FairSpec == Spec /\ \A r \in Request : WF_vars(Proceed(r))

-----------------------------------------------------------------------------
(* Properties *)

TermRow == [id : Request, year : Existing, start : Date, end : Date]

Step == Done \cup {"idle", "exists", "current", "clear", "lock", "set", "name", "copy",
                   "insert", "read", "write", "term", "bounds", "overlap"}

\* Rows, arguments and locals have their types, a term belongs to a year that
\* exists, and only an open transaction of setCurrent holds row locks.
TypeOK ==
    /\ years \in [Year -> [start : Date, end : Date] \cup {NoYear}]
    /\ current \subseteq Existing
    /\ terms \subseteq TermRow
    /\ sections \in [Year -> SUBSET SectionName]
    /\ \A r \in Request : /\ todo[r] # {} => pc[r] = "lock"
                          /\ held[r] # {} => pc[r] \in {"lock", "set"}
    /\ pc \in [Request -> Step]
    /\ call \in [Request -> Calls \cup {NoCall}]

OnlyOneBecomesCurrent == \A y \in current' \ current : current' = {y}

\* While handlers do not overlap setCurrentYear clears every other flag, also
\* when several years were current before: findFirst has no choice to make.
SerialSetCurrentClearsOthers == [][alone => OnlyOneBecomesCurrent]_vars

\* Once a year is current some year always is, at every commit: the two
\* updates of setCurrentYear are never seen apart.
NeverWithoutCurrent == [][current # {} => current' # {}]_vars

\* Waiting for row locks, in whatever order they are taken, ends.
EveryCallAnswered == \A r \in Request : pc[r] # "idle" ~> pc[r] \in Done

\* Years and terms start before they end, also when both dates change.
RangesOrdered ==
    /\ \A y \in Existing : Ordered(years[y])
    /\ \A t \in terms : Ordered(t)

\* Two terms of a year do not overlap.
TermsDontOverlap ==
    \A t, u \in terms : t.year = u.year /\ Overlap(t, u) => t = u

\* While handlers do not overlap, merging a date with the stored one keeps years
\* and terms in order, and the terms of a year do not overlap.
SerialDatesInOrder == alone => RangesOrdered /\ TermsDontOverlap

\* A term stays within its year, also when concurrent updates each write one of
\* its two dates, unless an update has changed the year's own dates.
TermsWithinYear ==
    \A t \in terms : t.year \notin resized =>
        years[t.year].start <= t.start /\ t.end <= years[t.year].end
=============================================================================
