------------------------- MODULE AcademicYearsProofs -------------------------
(***************************************************************************)
(* Which year is current, and the dates of years and terms, for any number *)
(* of concurrent calls, years, terms and dates.                            *)
(*                                                                         *)
(* A handler that is about to write a term has compared each date it will  *)
(* write with its year (Bounded).  Another update may have stored the      *)
(* other date meanwhile, which was compared just the same, so the row that *)
(* results lies within the year, although nobody has looked at it.  Years  *)
(* keep their dates unless they are resized, and a new year has no terms   *)
(* because its id is fresh (Grows, Distinct).                              *)
(***************************************************************************)
EXTENDS AcademicYears, TLAPS

Range == [start : Date, end : Date]

Locals == [range : Range \cup {NoYear}, copied : SUBSET SectionName]

TermRows == [id : Request, year : Year, start : Date, end : Date]

Tables ==
    /\ years \in [Year -> Range \cup {NoYear}]
    /\ current \subseteq Existing
    /\ terms \subseteq TermRows /\ \A t \in terms : t.year \in Existing
    /\ sections \in [Year -> SUBSET SectionName]

Types ==
    /\ Tables
    /\ todo \in [Request -> SUBSET Year]
    /\ held \in [Request -> SUBSET Year]
    /\ pc \in [Request -> Step]
    /\ call \in [Request -> Calls \cup {NoCall}]
    /\ seen \in [Request -> Locals]

\* A term is known by the call that has created it, and was answered.
OneRowPerId ==
    /\ \A t, u \in terms : t.id = u.id => t = u
    /\ \A t \in terms : pc[t.id] \in Done

\* Open transactions have changed rows that are current, each its own.
Locks ==
    /\ \A r \in Request : /\ todo[r] # {} => pc[r] = "lock"
                          /\ held[r] # {} => pc[r] \in {"lock", "set"}
                          /\ held[r] \subseteq current
    /\ \A r, q \in Request : r # q => held[r] \cap held[q] = {}

Creating == {"name", "copy", "insert"}

\* New years have ids of their own.
Distinct ==
    \A r, q \in Request : pc[r] \in Creating /\ pc[q] \in Creating /\ r # q => call[r].year # call[q].year

Writing == {"bounds", "overlap", "write"}

\* the call is about to give a term dates
Dates(c) == c.op = "createTerm" \/ (c.op = "updateTerm" /\ c.dates # NoYear)

\* Checked, for a handler whose locals are l
Completed(c, l) == IF c.op = "createTerm" THEN c.dates ELSE l.range

\* each date of the call is one that is compared
Agrees(dates, range) ==
    /\ dates.start # None => dates.start = range.start
    /\ dates.end # None => dates.end = range.end

Bounded(y, range) == years[y].start <= range.start /\ range.end <= years[y].end

\* What handler r relies on at statement p with locals l.
FitsAt(r, p, l) ==
    LET c == call[r] IN
    /\ p \notin Done \cup {"idle"} => c \in Calls
    /\ p = "exists" => c.op \in {"setCurrent"} \cup TermWrites
    /\ p \in {"current", "clear", "lock", "set"} => c.op = "setCurrent" /\ c.year \in Existing
    /\ p \in Creating => c.op = "create" /\ c.year \notin Existing
    /\ p = "read" => c.op = "update"
    /\ p = "term" => c.op \in {"updateTerm", "deleteTerm"} /\ c.year \in Existing
    /\ p \in {"bounds", "overlap"} => c.op \in {"createTerm", "updateTerm"} /\ Dates(c)
    /\ p = "write" => c.op \in {"update"} \cup TermWrites
    /\ p \in Writing => c.year \in Existing
    /\ p \in Writing /\ c.op = "updateTerm" =>
         pc[c.term] \in Done /\ \A t \in terms : t.id = c.term => t.year = c.year
    /\ p \in Writing /\ Dates(c) =>
         Completed(c, l) \in Range /\ Agrees(c.dates, Completed(c, l))
    /\ p \in {"overlap", "write"} /\ Dates(c) =>
         c.year \in resized \/ Bounded(c.year, Completed(c, l))

Fits(r) == FitsAt(r, pc[r], seen[r])

Inv ==
    /\ Types
    /\ OneRowPerId
    /\ Locks
    /\ Distinct
    /\ TermsWithinYear
    /\ \A r \in Request : Fits(r)

-----------------------------------------------------------------------------
(* What every step has in common *)

LEMMA CallFacts ==
    ASSUME NEW c \in Calls
    PROVE  /\ c.op \in {"setCurrent", "create", "update"} \cup TermWrites /\ c.year \in Year
           /\ c.op \in {"create", "createTerm"} => c.dates \in Range /\ Ordered(c.dates) /\ c.dates # NoYear
           /\ c.op \in {"update", "updateTerm"} => c.dates \in MaybeDates
           /\ c.op \in {"updateTerm", "deleteTerm"} => c.term \in Request
           /\ c.op = "createTerm" => c.term = None
           /\ c.op = "deleteTerm" => c.dates = NoYear
<1>1. \A d \in Ranges : d \in Range /\ Ordered(d) /\ d # NoYear
  <2> SUFFICES ASSUME NEW d \in Ranges PROVE d \in Range /\ Ordered(d) /\ d # NoYear
    OBVIOUS
  <2>1. d \in Range /\ Ordered(d) /\ d.start \in Date
    BY DEF Range, Ranges, Ordered
  <2>2. d.start # None
    BY <2>1, AcademicYearsAssumption
  <2> QED BY <2>1, <2>2 DEF NoYear
<1> HIDE DEF NoYear
<1>2. /\ c.op \in {"setCurrent", "create", "update"} \cup TermWrites /\ c.year \in Year
      /\ c.op \in {"create", "createTerm"} => c.dates \in Ranges
      /\ c.op \in {"update", "updateTerm"} => c.dates \in MaybeDates
      /\ c.op \in {"updateTerm", "deleteTerm"} => c.term \in Request
      /\ c.op = "createTerm" => c.term = None
      /\ c.op = "deleteTerm" => c.dates = NoYear
  <2>1. \/ c \in Body("setCurrent", Year, {None}, {NoYear}, {FALSE})
        \/ c \in Body("create", Year, {None}, Ranges, BOOLEAN)
        \/ c \in Body("update", Year, {None}, MaybeDates, {FALSE})
        \/ c \in Body("createTerm", Year, {None}, Ranges, {FALSE})
        \/ c \in Body("updateTerm", Year, Request, MaybeDates, {FALSE})
        \/ c \in Body("deleteTerm", Year, Request, {NoYear}, {FALSE})
    BY DEF Calls
  <2> HIDE DEF Ranges, MaybeDates
  <2> QED BY <2>1 DEF Body, TermWrites
<1> QED BY <1>1, <1>2

\* dto ?? existing, for dates that are stored
LEMMA MergedFacts ==
    ASSUME NEW dates \in MaybeDates, NEW stored, stored.start \in Date, stored.end \in Date
    PROVE  Merged(dates, stored) \in Range /\ Agrees(dates, Merged(dates, stored))
BY DEF MaybeDates, Merged, Range, Agrees

\* A step of r leaves the other handlers where they are.
Others(r) == \A q \in Request \ {r} : pc'[q] = pc[q] /\ call'[q] = call[q] /\ seen'[q] = seen[q]

LEMMA Moved ==
    ASSUME Types, NEW r \in Request, NEW s \in Step, NEW l \in Locals, Remember(r, s, l)
    PROVE  /\ pc'[r] = s /\ Others(r)
           /\ s \notin Done => call' = call /\ seen'[r] = l
           /\ pc' \in [Request -> Step]
           /\ call' \in [Request -> Calls \cup {NoCall}]
           /\ seen' \in [Request -> Locals]
<1>1. /\ pc' = [pc EXCEPT ![r] = s]
      /\ call' = [call EXCEPT ![r] = IF s \in Done THEN NoCall ELSE @]
      /\ seen' = [seen EXCEPT ![r] = IF s \in Done THEN Nothing ELSE l]
  BY DEF Remember
<1>2. Nothing \in Locals
  BY DEF Nothing, Locals
<1> HIDE DEF Nothing, NoCall
<1> QED BY <1>1, <1>2 DEF Types, Others

\* What a step of r may do to the tables.
Grows(r) ==
    /\ \A y \in Existing : y \in Existing' /\ (years'[y] = years[y] \/ y \in resized')
    /\ \A y \in Existing' : y \in Existing \/ (pc[r] = "insert" /\ y = call[r].year)
    /\ resized \subseteq resized'
    /\ \A t \in terms' : (\E u \in terms : u.id = t.id /\ u.year = t.year) \/ t.id = r

LEMMA FitsStable ==
    ASSUME Inv, NEW r \in Request, pc[r] \notin Done, Grows(r), Others(r), NEW q \in Request, q # r
    PROVE  Fits(q)'
<1> DEFINE c == call[q]
<1>1. FitsAt(q, pc[q], seen[q]) /\ pc'[q] = pc[q] /\ call'[q] = c /\ seen'[q] = seen[q]
  BY DEF Inv, Fits, Others
<1>2. pc[q] \in Creating => c.year \notin Existing'
  BY <1>1 DEF FitsAt, Grows, Inv, Distinct, Creating
<1>3. ASSUME pc[q] \in Writing, c.op = "updateTerm"
      PROVE  pc'[c.term] \in Done /\ \A t \in terms' : t.id = c.term => t.year = c.year
  <2>1. pc[c.term] \in Done /\ \A t \in terms : t.id = c.term => t.year = c.year
    BY <1>1, <1>3 DEF FitsAt
  <2>2. c.term \in Request
    BY <1>1, <1>3, CallFacts DEF FitsAt, Writing, Done
  <2> QED BY <2>1, <2>2 DEF Grows, Others
<1>4. \A range : c.year \in Existing /\ (c.year \in resized \/ Bounded(c.year, range)) =>
                   (c.year \in resized \/ Bounded(c.year, range))'
  BY <1>1 DEF Grows, Bounded
<1>5. c.year \in Existing => c.year \in Existing'
  BY DEF Grows
<1> HIDE DEF c
<1>6. pc[q] \in {"overlap", "write"} /\ Dates(c) => c.year \in resized' \/ Bounded(c.year, Completed(c, seen[q]))'
  <2> SUFFICES ASSUME pc[q] \in {"overlap", "write"}, Dates(c)
               PROVE  c.year \in resized' \/ Bounded(c.year, Completed(c, seen[q]))'
    OBVIOUS
  <2>1. c.year \in Existing /\ (c.year \in resized \/ Bounded(c.year, Completed(c, seen[q])))
    BY <1>1 DEF FitsAt, Writing, c
  <2>2. PICK range : range = Completed(c, seen[q])
    OBVIOUS
  <2>3. (c.year \in resized \/ Bounded(c.year, range))'
    BY <1>4, <2>1, <2>2
  <2>4. Completed(c, seen[q])' = range
    BY <1>1, <2>2 DEF Completed, c
  <2> QED BY <1>1, <2>3, <2>4 DEF Bounded, c
<1> QED BY <1>1, <1>2, <1>3, <1>5, <1>6 DEF Fits, FitsAt, c

LEMMA RunningFacts ==
    ASSUME Inv, NEW r \in Request, pc[r] \notin Done \cup {"idle"}
    PROVE  /\ FitsAt(r, pc[r], seen[r]) /\ seen[r] \in Locals /\ call[r] \in Calls
           /\ pc[r] # "lock" => todo[r] = {}
           /\ pc[r] \notin {"lock", "set"} => held[r] = {}
           /\ todo[r] \in SUBSET Year /\ held[r] \in SUBSET current
BY DEF Inv, Types, Fits, FitsAt, Locks

\* A step of handler r that is not its first.
LEMMA MoveKeeps ==
    ASSUME Inv, NEW r \in Request, pc[r] \notin Done \cup {"idle"}, NEW s \in Step \ {"idle"},
           NEW l \in Locals, Remember(r, s, l), Tables', Grows(r), OneRowPerId', Locks', TermsWithinYear',
           todo' \in [Request -> SUBSET Year], held' \in [Request -> SUBSET Year],
           s \in Creating => pc[r] \in Creating, s \notin Done => FitsAt(r, s, l)'
    PROVE  Inv'
<1>1. /\ pc'[r] = s /\ Others(r)
      /\ s \notin Done => call' = call /\ seen'[r] = l
      /\ pc' \in [Request -> Step]
      /\ call' \in [Request -> Calls \cup {NoCall}]
      /\ seen' \in [Request -> Locals]
  BY Moved DEF Inv
<1>2. Types'
  BY <1>1 DEF Types
<1>3. \A q \in Request \ {r} : Fits(q)'
  BY <1>1, FitsStable
<1>4. Fits(r)'
  <2>1. CASE s \in Done
    BY <1>1, <2>1 DEF Fits, FitsAt, Done, Creating, Writing
  <2>2. CASE s \notin Done
    BY <1>1, <2>2 DEF Fits, FitsAt
  <2> QED BY <2>1, <2>2
<1>5. Distinct'
  BY <1>1 DEF Inv, Distinct, Others, Creating, Done
<1> QED BY <1>2, <1>3, <1>4, <1>5 DEF Inv

\* ... and that changes no table and no lock.
LEMMA QuietKeeps ==
    ASSUME Inv, NEW r \in Request, pc[r] \notin Done \cup {"idle"}, NEW s \in Step \ {"idle"},
           NEW l \in Locals, Remember(r, s, l), UNCHANGED <<tables, locks, resized>>,
           todo[r] = {}, held[r] # {} => s = "set",
           s \in Creating => pc[r] \in Creating, s \notin Done => FitsAt(r, s, l)
    PROVE  Inv'
<1>1. pc'[r] = s /\ Others(r) /\ (s \notin Done => call' = call)
  BY Moved DEF Inv
<1>2. /\ UNCHANGED <<years, current, terms, sections, todo, held, resized>>
  BY DEF tables, locks
<1>3. Tables' /\ Grows(r) /\ TermsWithinYear'
  BY <1>2 DEF Inv, Types, Tables, Existing, Grows, TermsWithinYear
<1>4. /\ todo' \in [Request -> SUBSET Year] /\ held' \in [Request -> SUBSET Year]
  BY <1>2 DEF Inv, Types
<1>5. \A q \in Request : pc[q] \in Done => pc'[q] \in Done
  BY <1>1 DEF Others
<1>6. OneRowPerId'
  BY <1>2, <1>5 DEF Inv, OneRowPerId, Types, Tables, TermRows
<1>7. Locks'
  BY <1>1, <1>2 DEF Inv, Locks, Others
<1>8. ASSUME s \notin Done PROVE FitsAt(r, s, l)'
  <2>1. pc[r] # s \/ pc[r] = s
    OBVIOUS
  <2>2. /\ FitsAt(r, s, l) /\ call' = call
    BY <1>1, <1>8
  <2>3. s \in Writing /\ call[r].op = "updateTerm" => call[r].term \in Request
    BY <2>2, CallFacts DEF FitsAt, Writing, Done
  <2> QED BY <1>2, <1>5, <2>2, <2>3 DEF FitsAt, Existing, Bounded
<1> QED BY <1>1, <1>3, <1>4, <1>6, <1>7, <1>8, MoveKeeps

\* Only(r, s), outside setCurrent's transaction
LEMMA OnlyKeeps ==
    ASSUME Inv, NEW r \in Request, pc[r] \notin Done \cup {"idle", "lock", "set"},
           NEW s \in Step \ {"idle"}, Only(r, s),
           s \in Creating => pc[r] \in Creating, s \notin Done => FitsAt(r, s, seen[r])
    PROVE  Inv'
<1>1. PICK l \in Locals : l = seen[r]
  BY RunningFacts
<1>2. Remember(r, s, l) /\ UNCHANGED <<tables, locks, resized>> /\ (s \notin Done => FitsAt(r, s, l))
  BY <1>1 DEF Only, Goto
<1> QED BY <1>2, RunningFacts, QuietKeeps

LEMMA RefusedKeeps ==
    ASSUME Inv, NEW r \in Request, pc[r] \notin Done \cup {"idle", "lock", "set"}, Only(r, "refused")
    PROVE  Inv'
BY OnlyKeeps DEF Done, Step, Creating

-----------------------------------------------------------------------------
(* One lemma per action *)

LEMMA BeginKeeps ==
    ASSUME Inv, NEW r \in Request, NEW c \in Calls, Begin(r, c)
    PROVE  Inv'
<1>1. /\ pc[r] = "idle" /\ UNCHANGED <<years, current, terms, sections, todo, held, seen, resized>>
      /\ call' = [call EXCEPT ![r] = c] /\ pc' = [pc EXCEPT ![r] = FirstStep(c)]
      /\ c.op = "create" => Fresh(c.year)
  BY DEF Begin, tables, locks
<1>2. /\ FirstStep(c) \in {"name", "read", "exists"}
      /\ FirstStep(c) = "name" <=> c.op = "create"
      /\ FirstStep(c) = "read" <=> c.op = "update"
  BY DEF FirstStep
<1>3. Types'
  <2> HIDE DEF NoCall
  <2>1. Tables'
    BY <1>1 DEF Inv, Types, Tables, Existing
  <2>2. FirstStep(c) \in Step
    BY <1>2 DEF Step
  <2> QED BY <1>1, <2>1, <2>2 DEF Inv, Types
<1>4. Others(r) /\ pc'[r] = FirstStep(c) /\ call'[r] = c /\ seen'[r] = seen[r]
  BY <1>1 DEF Others, Inv, Types
<1>5. Grows(r)
  BY <1>1 DEF Grows, Existing
<1>6. \A q \in Request : pc[q] \in Done => pc'[q] \in Done
  BY <1>1, <1>4 DEF Others, Done
<1>7. Fits(r)'
  BY <1>1, <1>2, <1>4, CallFacts DEF Fits, FitsAt, Fresh, Creating, Writing, Done, Existing
<1>8. Distinct'
  BY <1>1, <1>2, <1>4 DEF Inv, Distinct, Fresh, Others, Creating
<1>9. OneRowPerId' /\ TermsWithinYear'
  BY <1>1, <1>6 DEF Inv, OneRowPerId, TermsWithinYear, Types, Tables, TermRows
<1>10. Locks'
  BY <1>1, <1>2, <1>4 DEF Inv, Locks, Others
<1>11. \A q \in Request \ {r} : Fits(q)'
  BY <1>1, <1>4, <1>5, FitsStable DEF Done
<1> QED BY <1>3, <1>7, <1>8, <1>9, <1>10, <1>11 DEF Inv

LEMMA ExistsKeeps ==
    ASSUME Inv, NEW r \in Request, AssertYearExists(r)
    PROVE  Inv'
<1>1. /\ pc[r] = "exists" /\ pc[r] \notin Done \cup {"idle", "lock", "set"}
      /\ FitsAt(r, "exists", seen[r]) /\ call[r] \in Calls
  BY RunningFacts DEF AssertYearExists, Done
<1>2. CASE Only(r, "refused")
  BY <1>1, <1>2, RefusedKeeps
<1>3. CASE /\ call[r].year \in Existing
           /\ \/ call[r].op = "setCurrent" /\ Only(r, "current")
              \/ call[r].op = "createTerm" /\ Only(r, "bounds")
              \/ call[r].op \in {"updateTerm", "deleteTerm"} /\ Only(r, "term")
  <2>1. /\ call[r].op = "setCurrent" => FitsAt(r, "current", seen[r])
        /\ call[r].op \in {"updateTerm", "deleteTerm"} => FitsAt(r, "term", seen[r])
    BY <1>1, <1>3 DEF FitsAt, Creating, Writing, Done
  <2>2. call[r].op = "createTerm" => FitsAt(r, "bounds", seen[r])
    BY <1>1, <1>3, CallFacts DEF FitsAt, Creating, Writing, Done, Dates, Completed, Agrees
  <2> QED BY <1>1, <1>3, <2>1, <2>2, OnlyKeeps DEF Step, Creating
<1>4. call[r].op \in {"setCurrent"} \cup TermWrites
  BY <1>1 DEF FitsAt
<1> QED BY <1>2, <1>3, <1>4 DEF AssertYearExists, Check, TermWrites

LEMMA FindCurrentKeeps ==
    ASSUME Inv, NEW r \in Request, FindCurrent(r)
    PROVE  Inv'
<1>1. /\ pc[r] = "current" /\ pc[r] \notin Done \cup {"idle", "lock", "set"}
      /\ FitsAt(r, "current", seen[r]) /\ call[r] \in Calls
  BY RunningFacts DEF FindCurrent, Done
<1>2. FitsAt(r, "clear", seen[r])
  BY <1>1 DEF FitsAt, Creating, Writing, Done
<1>3. Only(r, "clear") \/ Only(r, "refused")
  BY DEF FindCurrent, Check
<1> QED BY <1>1, <1>2, <1>3, OnlyKeeps, RefusedKeeps DEF Step, Creating

\* setCurrent's transaction changes current and locks only
LEMMA SetCurrentStep ==
    ASSUME Inv, NEW r \in Request, pc[r] \notin Done \cup {"idle"}, NEW s \in Step \ {"idle"},
           Goto(r, s), UNCHANGED <<years, terms, sections, resized>>,
           current' \subseteq Existing, Locks',
           todo' \in [Request -> SUBSET Year], held' \in [Request -> SUBSET Year],
           s \notin Creating \cup Writing, s \notin Done => FitsAt(r, s, seen[r])
    PROVE  Inv'
<1>1. PICK l \in Locals : l = seen[r]
  BY RunningFacts
<1>2. Remember(r, s, l) /\ (s \notin Done => FitsAt(r, s, l))
  BY <1>1 DEF Goto
<1>3. pc'[r] = s /\ Others(r) /\ (s \notin Done => call' = call)
  BY <1>2, Moved DEF Inv
<1>4. Tables' /\ Grows(r) /\ TermsWithinYear'
  BY DEF Inv, Types, Tables, Existing, Grows, TermsWithinYear
<1>5. \A q \in Request : pc[q] \in Done => pc'[q] \in Done
  BY <1>3 DEF Others
<1>6. OneRowPerId'
  BY <1>5 DEF Inv, OneRowPerId, Types, Tables, TermRows
<1>7. s \notin Done => FitsAt(r, s, l)'
  BY <1>2, <1>3 DEF FitsAt, Existing, Writing
<1> QED BY <1>2, <1>4, <1>6, <1>7, MoveKeeps

LEMMA ClearOthersKeeps ==
    ASSUME Inv, NEW r \in Request, ClearOthers(r)
    PROVE  Inv'
<1>1. /\ pc[r] = "clear" /\ pc[r] \notin Done \cup {"idle"} /\ FitsAt(r, "clear", seen[r])
      /\ seen[r] \in Locals /\ UNCHANGED <<years, current, terms, sections, held, resized>>
      /\ Goto(r, "lock") /\ held[r] = {}
  BY RunningFacts DEF ClearOthers, Done, tables
<1>2. todo' \in [Request -> SUBSET Year] /\ \A q \in Request \ {r} : todo'[q] = todo[q]
  BY DEF ClearOthers, Inv, Types, Tables, Existing
<1>3. pc'[r] = "lock" /\ Others(r)
  BY <1>1, Moved DEF Goto, Step, Inv
<1>4. Locks'
  BY <1>1, <1>2, <1>3 DEF Inv, Locks, Others
<1>5. FitsAt(r, "lock", seen[r])
  BY <1>1 DEF FitsAt, Creating, Writing, Done
<1>6. current' \subseteq Existing /\ held' \in [Request -> SUBSET Year]
  BY <1>1 DEF Inv, Types, Tables
<1> QED BY <1>1, <1>2, <1>4, <1>5, <1>6, SetCurrentStep DEF Step, Creating, Writing

\* A row is locked when it still is current: held rows stay current, because
\* no other transaction has changed them.
LEMMA LockRowKeeps ==
    ASSUME Inv, NEW r \in Request, LockRow(r)
    PROVE  Inv'
<1>1. /\ pc[r] = "lock" /\ FitsAt(r, "lock", seen[r]) /\ seen[r] \in Locals
      /\ todo[r] \in SUBSET Year /\ held[r] \in SUBSET current
  BY RunningFacts DEF LockRow, Done
<1>2. CASE todo[r] = {} /\ Only(r, "set")
  <2>1. PICK l \in Locals : l = seen[r]
    BY <1>1
  <2>2. FitsAt(r, "set", l)
    BY <1>1, <2>1 DEF FitsAt, Creating, Writing, Done
  <2> QED BY <1>1, <1>2, <2>1, <2>2, QuietKeeps DEF Only, Goto, Step, Creating, Done
<1>3. CASE \E y \in todo[r] :
             /\ ~LockedByOther(r, y)
             /\ todo' = [todo EXCEPT ![r] = @ \ {y}]
             /\ held' = [held EXCEPT ![r] = @ \cup (current \cap {y})]
             /\ UNCHANGED <<tables, seen, pc, call, alone, resized>>
  <2>1. PICK y \in todo[r] :
             /\ ~LockedByOther(r, y)
             /\ todo' = [todo EXCEPT ![r] = @ \ {y}]
             /\ held' = [held EXCEPT ![r] = @ \cup (current \cap {y})]
             /\ UNCHANGED <<years, current, terms, sections, seen, pc, call, resized>>
    BY <1>3 DEF tables
  <2>2. /\ todo' \in [Request -> SUBSET Year] /\ held' \in [Request -> SUBSET Year]
        /\ todo'[r] = todo[r] \ {y} /\ held'[r] = held[r] \cup (current \cap {y})
        /\ \A q \in Request \ {r} : todo'[q] = todo[q] /\ held'[q] = held[q]
    BY <1>1, <2>1 DEF Inv, Types
  <2>3. Types'
    BY <2>1, <2>2 DEF Inv, Types, Tables, Existing
  <2>4. \A q \in Request \ {r} : y \notin held[q]
    BY <2>1 DEF LockedByOther
  <2>5. Locks'
    BY <1>1, <2>1, <2>2, <2>4 DEF Inv, Locks
  <2>6. OneRowPerId' /\ Distinct' /\ TermsWithinYear' /\ \A q \in Request : Fits(q)'
    BY <2>1 DEF Inv, OneRowPerId, Distinct, TermsWithinYear, Fits, FitsAt, Existing, Bounded
  <2> QED BY <2>3, <2>5, <2>6 DEF Inv
<1> QED BY <1>2, <1>3 DEF LockRow

LEMMA SetAndCommitKeeps ==
    ASSUME Inv, NEW r \in Request, SetAndCommit(r) \/ BreakDeadlock(r)
    PROVE  Inv'
<1>1. pc[r] \in {"lock", "set"}
  <2>1. CASE BreakDeadlock(r)
    <3>1. PICK S \in SUBSET Request : r \in S /\ \A p \in S : \E q \in S \ {p} : WaitsFor(p, q)
      BY <2>1 DEF BreakDeadlock
    <3> QED BY <3>1 DEF WaitsFor
  <2> QED BY <2>1 DEF SetAndCommit
<1>2. /\ FitsAt(r, pc[r], seen[r]) /\ seen[r] \in Locals /\ call[r] \in Calls
      /\ UNCHANGED <<years, terms, sections, resized>> /\ held' = [held EXCEPT ![r] = {}]
  BY <1>1, RunningFacts DEF SetAndCommit, BreakDeadlock, Done, tables
<1>3. PICK s \in {"ok", "refused"} : Goto(r, s)
  BY DEF SetAndCommit, BreakDeadlock
<1>4. pc'[r] = s /\ Others(r)
  BY <1>2, <1>3, Moved DEF Goto, Step, Done, Inv
<1>5. /\ todo' \in [Request -> SUBSET Year] /\ todo'[r] = {}
      /\ \A q \in Request \ {r} : todo'[q] = todo[q]
  <2>1. CASE SetAndCommit(r)
    <3>1. pc[r] = "set" /\ todo' = todo
      BY <2>1 DEF SetAndCommit
    <3> QED BY <3>1 DEF Inv, Types, Locks
  <2>2. CASE BreakDeadlock(r)
    BY <2>2 DEF BreakDeadlock, Inv, Types
  <2> QED BY <2>1, <2>2
<1>6. /\ held' \in [Request -> SUBSET Year] /\ held'[r] = {}
      /\ \A q \in Request \ {r} : held'[q] = held[q]
  BY <1>2 DEF Inv, Types
<1>7. current' \subseteq Existing /\ current \ held[r] \subseteq current'
  <2>1. call[r].year \in Existing
    BY <1>1, <1>2 DEF FitsAt
  <2> QED BY <2>1 DEF SetAndCommit, BreakDeadlock, Inv, Types, Tables, tables
<1>8. Locks'
  BY <1>4, <1>5, <1>6, <1>7 DEF Inv, Locks, Others
<1> QED BY <1>1, <1>2, <1>3, <1>5, <1>6, <1>7, <1>8, SetCurrentStep DEF Step, Done, Creating, Writing

LEMMA NameKeeps ==
    ASSUME Inv, NEW r \in Request, AssertNameNotTaken(r)
    PROVE  Inv'
<1>1. /\ pc[r] = "name" /\ pc[r] \notin Done \cup {"idle", "lock", "set"}
      /\ FitsAt(r, "name", seen[r]) /\ call[r] \in Calls
  BY RunningFacts DEF AssertNameNotTaken, Done
<1>2. FitsAt(r, "copy", seen[r]) /\ FitsAt(r, "insert", seen[r])
  BY <1>1 DEF FitsAt, Creating, Writing, Done
<1>3. Only(r, "copy") \/ Only(r, "insert") \/ Only(r, "refused")
  BY DEF AssertNameNotTaken, NameTaken
<1> QED BY <1>1, <1>2, <1>3, OnlyKeeps, RefusedKeeps DEF Step, Creating

LEMMA CopyKeeps ==
    ASSUME Inv, NEW r \in Request, ReadSectionsToCopy(r)
    PROVE  Inv'
<1>1. /\ pc[r] = "copy" /\ pc[r] \notin Done \cup {"idle", "lock", "set"}
      /\ FitsAt(r, "copy", seen[r]) /\ seen[r] \in Locals
  BY RunningFacts DEF ReadSectionsToCopy, Done
<1>2. PICK names \in SUBSET SectionName : Remember(r, "insert", [seen[r] EXCEPT !.copied = names])
  BY DEF ReadSectionsToCopy, Inv, Types, Tables, Existing
<1>3. PICK l \in Locals : l = [seen[r] EXCEPT !.copied = names]
  BY <1>1 DEF Locals
<1>4. FitsAt(r, "insert", l)
  BY <1>1 DEF FitsAt, Creating, Writing, Done
<1>5. Remember(r, "insert", l) /\ UNCHANGED <<tables, locks, resized>>
  BY <1>2, <1>3 DEF ReadSectionsToCopy
<1> QED BY <1>1, <1>4, <1>5, RunningFacts, QuietKeeps DEF Step, Creating, Done

\* The new year has no terms yet, and nobody has its id.
LEMMA InsertYearKeeps ==
    ASSUME Inv, NEW r \in Request, InsertYear(r)
    PROVE  Inv'
<1>1. /\ pc[r] = "insert" /\ pc[r] \notin Done \cup {"idle", "lock", "set"}
      /\ FitsAt(r, "insert", seen[r]) /\ seen[r] \in Locals /\ call[r] \in Calls
  BY RunningFacts DEF InsertYear, Done
<1>2. CASE Only(r, "refused")
  BY <1>1, <1>2, RefusedKeeps
<1>3. CASE /\ years' = [years EXCEPT ![call[r].year] = call[r].dates]
           /\ sections' = [sections EXCEPT ![call[r].year] = seen[r].copied]
           /\ Goto(r, "ok") /\ UNCHANGED <<current, terms, locks, resized>>
  <2>1. PICK y \in Year : y = call[r].year
    BY <1>1, CallFacts
  <2>2. PICK d \in Range : d = call[r].dates /\ d # NoYear
    BY <1>1, CallFacts DEF FitsAt, Creating
  <2>3. seen[r].copied \in SUBSET SectionName
    BY <1>1 DEF Locals
  <2>4. /\ years' = [years EXCEPT ![y] = d] /\ sections' = [sections EXCEPT ![y] = seen[r].copied]
        /\ UNCHANGED <<current, terms, todo, held, resized>> /\ y \notin Existing
    BY <1>1, <1>3, <2>1, <2>2 DEF locks, FitsAt, Creating
  <2>5. years'[y] = d /\ \A x \in Year \ {y} : years'[x] = years[x]
    BY <2>4 DEF Inv, Types, Tables
  <2>6. Existing' = Existing \cup {y}
    BY <2>2, <2>5 DEF Existing
  <2>7. Tables'
    <3> HIDE DEF NoYear
    <3>1. years' \in [Year -> Range \cup {NoYear}]
      BY <2>2, <2>4 DEF Inv, Types, Tables
    <3>2. sections' \in [Year -> SUBSET SectionName]
      BY <2>3, <2>4 DEF Inv, Types, Tables
    <3> QED BY <2>4, <2>6, <3>1, <3>2 DEF Inv, Types, Tables
  <2>8. Grows(r)
    BY <1>1, <2>1, <2>4, <2>5, <2>6 DEF Grows, Existing
  <2>9. TermsWithinYear'
    BY <2>4, <2>5 DEF Inv, TermsWithinYear, Types, Tables, Existing
  <2>10. PICK l \in Locals : l = seen[r]
    BY <1>1
  <2>11. Remember(r, "ok", l)
    BY <1>3, <2>10 DEF Goto
  <2>12. pc'[r] = "ok" /\ Others(r)
    BY <2>11, Moved DEF Step, Done, Inv
  <2>13. Locks'
    BY <1>1, <2>4, <2>12 DEF Inv, Locks, Others
  <2>14. OneRowPerId'
    BY <2>4, <2>12 DEF Inv, OneRowPerId, Others, Done, Types, Tables, TermRows
  <2>15. todo' \in [Request -> SUBSET Year] /\ held' \in [Request -> SUBSET Year]
    BY <2>4 DEF Inv, Types
  <2> QED BY <1>1, <2>7, <2>8, <2>9, <2>11, <2>13, <2>14, <2>15, MoveKeeps DEF Step, Done, Creating
<1> QED BY <1>2, <1>3 DEF InsertYear, NameTaken

LEMMA ReadYearKeeps ==
    ASSUME Inv, NEW r \in Request, ReadYear(r)
    PROVE  Inv'
<1>1. /\ pc[r] = "read" /\ pc[r] \notin Done \cup {"idle", "lock", "set"}
      /\ FitsAt(r, "read", seen[r]) /\ call[r] \in Calls
  BY RunningFacts DEF ReadYear, Done
<1>2. CASE Only(r, "refused")
  BY <1>1, <1>2, RefusedKeeps
<1>3. CASE call[r].year \in Existing /\ Only(r, "write")
  <2>1. FitsAt(r, "write", seen[r])
    BY <1>1, <1>3 DEF FitsAt, Creating, Writing, Done, Dates
  <2> QED BY <1>1, <1>3, <2>1, OnlyKeeps DEF Step, Creating
<1> QED BY <1>2, <1>3 DEF ReadYear, Check

LEMMA UpdateYearKeeps ==
    ASSUME Inv, NEW r \in Request, UpdateYear(r)
    PROVE  Inv'
<1>1. /\ pc[r] = "write" /\ pc[r] \notin Done \cup {"idle", "lock", "set"} /\ call[r].op = "update"
      /\ FitsAt(r, "write", seen[r]) /\ seen[r] \in Locals /\ call[r] \in Calls
  BY RunningFacts DEF UpdateYear, Done
<1>2. CASE Only(r, "refused")
  BY <1>1, <1>2, RefusedKeeps
<1>3. CASE /\ years' = [years EXCEPT ![call[r].year] = Merged(call[r].dates, @)]
           /\ resized' = resized \cup {call[r].year}
           /\ Goto(r, "ok") /\ UNCHANGED <<current, terms, sections, locks>>
  <2>1. PICK y \in Existing : y = call[r].year
    BY <1>1 DEF FitsAt, Writing
  <2>2. years[y].start \in Date /\ years[y].end \in Date
    BY DEF Existing, Inv, Types, Tables, Range
  <2>3. PICK d \in Range : d = Merged(call[r].dates, years[y])
    BY <1>1, <2>2, CallFacts, MergedFacts
  <2>4. d # NoYear
    BY AcademicYearsAssumption DEF Range, NoYear
  <2>5. /\ years' = [years EXCEPT ![y] = d] /\ resized' = resized \cup {y}
        /\ UNCHANGED <<current, terms, sections, todo, held>>
    BY <1>3, <2>1, <2>3 DEF locks
  <2>6. years'[y] = d /\ \A x \in Year \ {y} : years'[x] = years[x]
    BY <2>5 DEF Inv, Types, Tables, Existing
  <2>7. Existing' = Existing
    BY <2>4, <2>6 DEF Existing
  <2>8. Tables'
    <3> HIDE DEF NoYear
    <3>1. years' \in [Year -> Range \cup {NoYear}]
      BY <2>3, <2>5 DEF Inv, Types, Tables
    <3> QED BY <2>5, <2>7, <3>1 DEF Inv, Types, Tables
  <2>9. Grows(r)
    BY <2>5, <2>6, <2>7 DEF Grows, Existing
  <2>10. TermsWithinYear'
    BY <2>5, <2>6 DEF Inv, TermsWithinYear, Types, Tables, Existing
  <2>11. PICK l \in Locals : l = seen[r]
    BY <1>1
  <2>12. Remember(r, "ok", l)
    BY <1>3, <2>11 DEF Goto
  <2>13. pc'[r] = "ok" /\ Others(r)
    BY <2>12, Moved DEF Step, Done, Inv
  <2>14. Locks'
    BY <1>1, <2>5, <2>13 DEF Inv, Locks, Others
  <2>15. OneRowPerId'
    BY <2>5, <2>13 DEF Inv, OneRowPerId, Others, Done, Types, Tables, TermRows
  <2>16. todo' \in [Request -> SUBSET Year] /\ held' \in [Request -> SUBSET Year]
    BY <2>5 DEF Inv, Types
  <2> QED BY <1>1, <2>8, <2>9, <2>10, <2>12, <2>14, <2>15, <2>16, MoveKeeps DEF Step, Done, Creating
<1> QED BY <1>2, <1>3 DEF UpdateYear, NameTaken

\* Statements that write terms only, and are a call's last.
LEMMA TermStep ==
    ASSUME Inv, NEW r \in Request, pc[r] = "write", NEW s \in {"ok", "refused"}, Goto(r, s),
           UNCHANGED <<years, current, sections, locks, resized>>,
           terms' \subseteq TermRows, \A t, u \in terms' : t.id = u.id => t = u,
           \A t \in terms' : \/ \E u \in terms : u.id = t.id /\ u.year = t.year
                             \/ t.id = r /\ t.year \in Existing,
           TermsWithinYear'
    PROVE  Inv'
<1>1. PICK l \in Locals : l = seen[r]
  BY RunningFacts DEF Done
<1>2. Remember(r, s, l)
  BY <1>1 DEF Goto
<1>3. pc'[r] = s /\ Others(r)
  BY <1>2, Moved DEF Step, Done, Inv
<1>4. Tables'
  BY DEF Inv, Types, Tables, Existing
<1>5. Grows(r)
  BY DEF Grows, Existing
<1>6. OneRowPerId'
  BY <1>3 DEF Inv, OneRowPerId, Others, Done, TermRows
<1>7. UNCHANGED <<todo, held>>
  BY DEF locks
<1>8. Locks'
  BY <1>3, <1>7 DEF Inv, Locks, Others
<1>9. todo' \in [Request -> SUBSET Year] /\ held' \in [Request -> SUBSET Year]
  BY <1>7 DEF Inv, Types
<1> QED BY <1>2, <1>4, <1>5, <1>6, <1>8, <1>9, MoveKeeps DEF Step, Done, Creating

LEMMA ReadTermKeeps ==
    ASSUME Inv, NEW r \in Request, ReadTerm(r)
    PROVE  Inv'
<1> DEFINE c == call[r]
<1>1. /\ pc[r] = "term" /\ pc[r] \notin Done \cup {"idle", "lock", "set"}
      /\ FitsAt(r, "term", seen[r]) /\ seen[r] \in Locals /\ c \in Calls
  BY RunningFacts DEF ReadTerm, Done
<1>2. CASE Only(r, "refused")
  BY <1>1, <1>2, RefusedKeeps
<1>3. ASSUME NEW t \in terms, t.id = c.term, t.year = c.year
      PROVE  pc[c.term] \in Done /\ \A u \in terms : u.id = c.term => u.year = c.year
  BY <1>3 DEF Inv, OneRowPerId
<1>4. ASSUME NEW t \in terms, t.id = c.term, t.year = c.year, c.dates = NoYear, Only(r, "write")
      PROVE  Inv'
  <2>1. ~Dates(c)
    BY <1>1, <1>4 DEF FitsAt, Dates
  <2>2. FitsAt(r, "write", seen[r])
    <3> HIDE DEF NoYear
    <3> QED BY <1>1, <1>3, <1>4, <2>1 DEF FitsAt, Creating, Writing, Done, TermWrites
  <2> QED BY <1>1, <1>4, <2>2, OnlyKeeps DEF Step, Creating
<1>5. ASSUME NEW t \in terms, t.id = c.term, t.year = c.year, c.dates # NoYear,
             NEW s \in {"bounds", "refused"}, UNCHANGED <<tables, locks, resized>>,
             Remember(r, s, [seen[r] EXCEPT !.range = Merged(c.dates, t)])
      PROVE  Inv'
  <2>1. c.op = "updateTerm" /\ c.dates \in MaybeDates
    <3> HIDE DEF NoYear
    <3> QED BY <1>1, <1>5, CallFacts DEF FitsAt
  <2>2. t.start \in Date /\ t.end \in Date
    BY DEF Inv, Types, Tables, TermRows
  <2>3. PICK d \in Range : d = Merged(c.dates, t) /\ Agrees(c.dates, d)
    BY <2>1, <2>2, MergedFacts
  <2>4. PICK l \in Locals : l = [seen[r] EXCEPT !.range = d] /\ l.range = d
    <3> DEFINE l == [seen[r] EXCEPT !.range = d]
    <3>1. l \in Locals /\ l.range = d
      BY <1>1 DEF Locals
    <3> QED BY <3>1, Zenon
  <2>5. Remember(r, s, l)
    BY <1>5, <2>3, <2>4
  <2>6. FitsAt(r, "bounds", l)
    <3> HIDE DEF NoYear
    <3> QED BY <1>1, <1>3, <1>5, <2>1, <2>3, <2>4 DEF FitsAt, Creating, Writing, Done, Dates, Completed
  <2> QED BY <1>1, <1>5, <2>5, <2>6, RunningFacts, QuietKeeps DEF Step, Creating, Done
<1>6. CASE \E t \in terms : t.id = c.term /\ t.year = c.year /\ c.dates = NoYear /\ Only(r, "write")
  BY <1>4, <1>6
<1>7. CASE \E t \in terms : \E s \in {"bounds", "refused"} :
             /\ t.id = c.term /\ t.year = c.year /\ c.dates # NoYear
             /\ Remember(r, s, [seen[r] EXCEPT !.range = Merged(c.dates, t)])
             /\ UNCHANGED <<tables, locks, resized>>
  BY <1>5, <1>7
<1> HIDE DEF NoYear
<1> QED BY <1>2, <1>6, <1>7 DEF ReadTerm

LEMMA CheckBoundsKeeps ==
    ASSUME Inv, NEW r \in Request, CheckBounds(r)
    PROVE  Inv'
<1>1. /\ pc[r] = "bounds" /\ pc[r] \notin Done \cup {"idle", "lock", "set"}
      /\ FitsAt(r, "bounds", seen[r]) /\ call[r] \in Calls
  BY RunningFacts DEF CheckBounds, Done
<1>2. CASE Only(r, "refused")
  BY <1>1, <1>2, RefusedKeeps
<1>3. CASE Bounded(call[r].year, Checked(r)) /\ Only(r, "overlap")
  <2>1. Checked(r) = Completed(call[r], seen[r])
    BY DEF Checked, Completed
  <2>2. FitsAt(r, "overlap", seen[r])
    BY <1>1, <1>3, <2>1 DEF FitsAt, Creating, Writing, Done
  <2> QED BY <1>1, <1>3, <2>2, OnlyKeeps DEF Step, Creating
<1> QED BY <1>2, <1>3 DEF CheckBounds, Check, Bounded

LEMMA OverlapKeeps ==
    ASSUME Inv, NEW r \in Request, AssertNoTermOverlap(r)
    PROVE  Inv'
<1>1. /\ pc[r] = "overlap" /\ pc[r] \notin Done \cup {"idle", "lock", "set"}
      /\ FitsAt(r, "overlap", seen[r]) /\ call[r] \in Calls
  BY RunningFacts DEF AssertNoTermOverlap, Done
<1>2. FitsAt(r, "write", seen[r])
  BY <1>1 DEF FitsAt, Creating, Writing, Done, TermWrites
<1>3. Only(r, "write") \/ Only(r, "refused")
  BY DEF AssertNoTermOverlap, Check
<1> QED BY <1>1, <1>2, <1>3, OnlyKeeps, RefusedKeeps DEF Step, Creating

LEMMA CreateTermKeeps ==
    ASSUME Inv, NEW r \in Request, CreateTerm(r)
    PROVE  Inv'
<1> DEFINE c == call[r]
<1>1. /\ pc[r] = "write" /\ pc[r] \notin Done \cup {"idle", "lock", "set"} /\ c.op = "createTerm"
      /\ FitsAt(r, "write", seen[r]) /\ c \in Calls
  BY RunningFacts DEF CreateTerm, Done
<1>2. CASE Only(r, "refused")
  BY <1>1, <1>2, RefusedKeeps
<1>3. CASE /\ terms' = terms \cup {[id |-> r, year |-> c.year, start |-> c.dates.start, end |-> c.dates.end]}
           /\ Goto(r, "ok") /\ UNCHANGED <<years, current, sections, locks, resized>>
  <2>1. c.dates \in Range /\ c.year \in Existing /\ (c.year \in resized \/ Bounded(c.year, c.dates))
    BY <1>1, CallFacts DEF FitsAt, Dates, Completed, Writing
  <2>2. PICK t \in TermRows : t = [id |-> r, year |-> c.year, start |-> c.dates.start, end |-> c.dates.end]
    BY <2>1 DEF Range, TermRows, Existing
  <2>3. terms' = terms \cup {t} /\ t.id = r /\ t.year = c.year /\ t.start = c.dates.start /\ t.end = c.dates.end
    BY <1>3, <2>2
  <2>4. \A u \in terms : u.id # r
    BY <1>1 DEF Inv, OneRowPerId
  <2>5. TermsWithinYear'
    BY <1>3, <2>1, <2>3 DEF Inv, TermsWithinYear, Bounded
  <2>6. \A u, v \in terms' : u.id = v.id => u = v
    BY <2>3, <2>4 DEF Inv, OneRowPerId
  <2>7. terms' \subseteq TermRows
    BY <2>3 DEF Inv, Types, Tables
  <2> QED BY <1>1, <1>3, <2>1, <2>3, <2>5, <2>6, <2>7, TermStep
<1> QED BY <1>2, <1>3 DEF CreateTerm, NameTaken

\* What an update makes of a term
Dated(c, t) ==
    [id |-> t.id, year |-> t.year,
     start |-> Merged(c.dates, t).start, end |-> Merged(c.dates, t).end]

\* Each date that is written was compared with the year, and the other one was
\* when it was stored.
LEMMA UpdateTermKeeps ==
    ASSUME Inv, NEW r \in Request, UpdateTerm(r)
    PROVE  Inv'
<1> DEFINE c == call[r]
<1>1. /\ pc[r] = "write" /\ pc[r] \notin Done \cup {"idle", "lock", "set"} /\ c.op = "updateTerm"
      /\ FitsAt(r, "write", seen[r]) /\ c \in Calls /\ c.dates \in MaybeDates
  BY RunningFacts, CallFacts DEF UpdateTerm, Done
<1>2. CASE Only(r, "refused")
  BY <1>1, <1>2, RefusedKeeps
<1>3. CASE /\ terms' = {IF t.id = c.term THEN Dated(c, t) ELSE t : t \in terms}
           /\ Goto(r, "ok") /\ UNCHANGED <<years, current, sections, locks, resized>>
  <2>1. ASSUME NEW t \in terms
        PROVE  /\ t \in TermRows /\ Dated(c, t) \in TermRows
               /\ Dated(c, t).id = t.id /\ Dated(c, t).year = t.year
               /\ Dated(c, t).start = (IF c.dates.start = None THEN t.start ELSE c.dates.start)
               /\ Dated(c, t).end = (IF c.dates.end = None THEN t.end ELSE c.dates.end)
    BY <1>1 DEF Inv, Types, Tables, TermRows, Dated, Merged, MaybeDates
  <2>2. \A u \in terms' : \E t \in terms : u = t \/ (t.id = c.term /\ u = Dated(c, t))
    BY <1>3
  <2>3. ASSUME NEW t \in terms, t.id = c.term, t.year \notin resized
        PROVE  Bounded(t.year, Dated(c, t))
    <3>1. t.year = c.year /\ Bounded(t.year, t)
      BY <1>1, <2>3 DEF FitsAt, Writing, Inv, TermsWithinYear, Bounded
    <3>2. CASE Dates(c)
      <4>1. Agrees(c.dates, Completed(c, seen[r])) /\ Bounded(t.year, Completed(c, seen[r]))
        BY <1>1, <2>3, <3>1, <3>2 DEF FitsAt, Writing
      <4> QED BY <2>1, <3>1, <4>1 DEF Agrees, Bounded
    <3>3. CASE ~Dates(c)
      <4>1. c.dates.start = None /\ c.dates.end = None
        BY <1>1, <3>3 DEF Dates, NoYear
      <4> QED BY <2>1, <3>1, <4>1 DEF Bounded
    <3> QED BY <3>2, <3>3
  <2>4. TermsWithinYear'
    BY <1>3, <2>1, <2>2, <2>3 DEF Inv, TermsWithinYear, Bounded
  <2>5. \A u, v \in terms' : u.id = v.id => u = v
    <3>1. \A t, u \in terms : t.id = u.id => t = u
      BY DEF Inv, OneRowPerId
    <3> QED BY <1>3, <2>1, <3>1
  <2>6. terms' \subseteq TermRows
    BY <2>1, <2>2
  <2>7. \A u \in terms' : \E t \in terms : t.id = u.id /\ t.year = u.year
    BY <2>1, <2>2
  <2> QED BY <1>1, <1>3, <2>4, <2>5, <2>6, <2>7, TermStep
<1> QED BY <1>2, <1>3 DEF UpdateTerm, Dated

LEMMA DeleteTermKeeps ==
    ASSUME Inv, NEW r \in Request, DeleteTerm(r)
    PROVE  Inv'
<1>1. terms' \subseteq terms /\ UNCHANGED <<years, current, sections, locks, resized>>
  BY DEF DeleteTerm
<1>2. PICK s \in {"ok", "refused"} : Goto(r, s)
  BY DEF DeleteTerm
<1>3. TermsWithinYear' /\ terms' \subseteq TermRows /\ \A t, u \in terms' : t.id = u.id => t = u
  BY <1>1 DEF Inv, TermsWithinYear, OneRowPerId, Types, Tables
<1> QED BY <1>1, <1>2, <1>3, TermStep DEF DeleteTerm

-----------------------------------------------------------------------------
(* The invariant, and the theorems that need no more *)

LEMMA NextKeeps ==
    ASSUME Inv, [Next]_vars
    PROVE  Inv'
<1>1. CASE UNCHANGED vars
  BY <1>1 DEF vars, Inv, Types, Tables, Existing, OneRowPerId, Locks, Distinct, TermsWithinYear,
              Fits, FitsAt, Bounded
<1>2. ASSUME NEW r \in Request, Proceed(r)
      PROVE  Inv'
  BY <1>2, ExistsKeeps, FindCurrentKeeps, ClearOthersKeeps, LockRowKeeps, SetAndCommitKeeps,
     NameKeeps, CopyKeeps, InsertYearKeeps, ReadYearKeeps, UpdateYearKeeps, ReadTermKeeps,
     CheckBoundsKeeps, OverlapKeeps, CreateTermKeeps, UpdateTermKeeps, DeleteTermKeeps DEF Proceed
<1> QED BY <1>1, <1>2, BeginKeeps DEF Next

LEMMA InitHolds == Init => Inv
<1> SUFFICES ASSUME Init PROVE Inv
  OBVIOUS
<1>1. \A r \in Request : pc[r] = "idle" /\ todo[r] = {} /\ held[r] = {}
  BY DEF Init
<1>2. Types
  <2>1. Nothing \in Locals
    BY DEF Nothing, Locals
  <2>2. Tables
    BY DEF Init, Tables, Existing, Range, Ranges
  <2> HIDE DEF Nothing, NoCall
  <2> QED BY <2>1, <2>2 DEF Init, Types, Step
<1>3. OneRowPerId /\ TermsWithinYear
  BY DEF Init, OneRowPerId, TermsWithinYear
<1>4. Locks /\ Distinct
  BY <1>1 DEF Locks, Distinct, Creating
<1>5. \A r \in Request : Fits(r)
  BY <1>1 DEF Fits, FitsAt, Done, Creating, Writing
<1> QED BY <1>2, <1>3, <1>4, <1>5 DEF Inv

LEMMA Invariance == Spec => []Inv
BY InitHolds, NextKeeps, PTL DEF Spec

\* Rows, arguments and locals have their types, terms are of years that exist,
\* and only an open transaction of setCurrent holds locks.
THEOREM YearsTypeCorrect == Spec => []TypeOK
<1>1. Inv => TypeOK
  BY DEF Inv, Types, Tables, Locks, TypeOK, TermRow, TermRows, Range
<1> QED BY <1>1, Invariance, PTL

\* A term stays within its year, whatever calls run beside each other, unless
\* an update has changed the dates of the year.
THEOREM TermsStayWithin == Spec => []TermsWithinYear
<1>1. Inv => TermsWithinYear
  BY DEF Inv
<1> QED BY <1>1, Invariance, PTL

\* Only setCurrent's commit changes which years are current.
LEMMA CurrentStays ==
    ASSUME [Next]_vars, \A r \in Request : ~SetAndCommit(r)
    PROVE  UNCHANGED current
<1>1. ASSUME NEW r \in Request, Proceed(r)
      PROVE  UNCHANGED current
  <2>1. CASE AssertYearExists(r) \/ FindCurrent(r) \/ ClearOthers(r) \/ LockRow(r) \/ BreakDeadlock(r)
    BY <2>1 DEF AssertYearExists, FindCurrent, ClearOthers, LockRow, BreakDeadlock, Check, Only, tables
  <2>2. CASE AssertNameNotTaken(r) \/ ReadSectionsToCopy(r) \/ InsertYear(r) \/ ReadYear(r) \/ UpdateYear(r)
    BY <2>2 DEF AssertNameNotTaken, ReadSectionsToCopy, InsertYear, ReadYear, UpdateYear, NameTaken,
                Check, Only, tables
  <2>3. CASE ReadTerm(r) \/ CheckBounds(r) \/ AssertNoTermOverlap(r)
    BY <2>3 DEF ReadTerm, CheckBounds, AssertNoTermOverlap, Check, Only, tables
  <2>4. CASE CreateTerm(r) \/ UpdateTerm(r) \/ DeleteTerm(r)
    BY <2>4 DEF CreateTerm, UpdateTerm, DeleteTerm, NameTaken, Only, tables
  <2> QED BY <1>1, <2>1, <2>2, <2>3, <2>4 DEF Proceed
<1>2. ASSUME NEW r \in Request, NEW c \in Calls, Begin(r, c)
      PROVE  UNCHANGED current
  BY <1>2 DEF Begin, tables
<1> QED BY <1>1, <1>2 DEF Next, vars

\* No commit leaves the school without a current year once it has one: the two
\* updates of setCurrent are committed together.
THEOREM AlwaysACurrentYear == Spec => NeverWithoutCurrent
<1>1. ASSUME NEW r \in Request, SetAndCommit(r)
      PROVE  current' # {}
  BY <1>1 DEF SetAndCommit
<1>2. [Next]_vars => (current # {} => current' # {})
  BY <1>1, CurrentStays
<1> QED BY <1>2, PTL DEF Spec, NeverWithoutCurrent

-----------------------------------------------------------------------------
(* While handlers do not overlap *)

Alone == \A r, q \in Running : r = q

Tidy == RangesOrdered /\ TermsDontOverlap

\* What the one handler in flight relies on at statement p with locals l.
KnowsAt(r, p, l) ==
    LET c == call[r] IN
    /\ p = "lock" => current \subseteq todo[r] \cup held[r]
    /\ p = "set" => current \subseteq held[r]
    /\ p = "write" /\ c.op = "update" => Ordered(Merged(c.dates, years[c.year]))
    /\ p \in Writing /\ c.op = "updateTerm" /\ Dates(c) =>
         Ordered(l.range) /\ \A t \in terms : t.id = c.term => l.range = Merged(c.dates, t)
    /\ p = "write" /\ Dates(c) =>
         \A t \in terms : t.year = c.year /\ t.id # c.term => ~Overlap(t, Completed(c, l))

Knows(r) == KnowsAt(r, pc[r], seen[r])

Calm == alone => Alone /\ Tidy /\ \A r \in Request : Knows(r)

LEMMA Flight ==
    ASSUME Inv, Calm, alone, NEW r \in Request, pc[r] \notin Done \cup {"idle"}
    PROVE  /\ Tidy /\ KnowsAt(r, pc[r], seen[r])
           /\ \A q \in Request \ {r} : pc[q] \in Done \cup {"idle"}
BY DEF Calm, Alone, Running, Knows

LEMMA CalmMove ==
    ASSUME Inv, Calm, NEW r \in Request, pc[r] \notin Done \cup {"idle"}, NEW s \in Step \ {"idle"},
           NEW l \in Locals, Remember(r, s, l), alone => Tidy',
           alone /\ s \notin Done => KnowsAt(r, s, l)'
    PROVE  Calm'
<1> SUFFICES ASSUME alone PROVE Alone' /\ \A q \in Request : Knows(q)'
  BY DEF Calm, Remember
<1>1. /\ pc'[r] = s /\ Others(r) /\ (s \notin Done => seen'[r] = l)
  BY Moved DEF Inv
<1>2. \A q \in Request \ {r} : pc'[q] \in Done \cup {"idle"}
  BY <1>1, Flight DEF Others
<1>3. \A q \in Request : pc'[q] \in Done \cup {"idle"} => Knows(q)'
  BY DEF Knows, KnowsAt, Done, Writing
<1>4. s \notin Done => Knows(r)'
  BY <1>1 DEF Knows, KnowsAt
<1>5. Alone'
  BY <1>2 DEF Alone, Running
<1> QED BY <1>1, <1>2, <1>3, <1>4, <1>5

LEMMA CalmQuiet ==
    ASSUME Inv, Calm, NEW r \in Request, pc[r] \notin Done \cup {"idle"}, NEW s \in Step \ {"idle"},
           NEW l \in Locals, Remember(r, s, l), UNCHANGED <<tables, locks>>,
           alone /\ s \notin Done => KnowsAt(r, s, l)
    PROVE  Calm'
<1>1. UNCHANGED <<years, current, terms, todo, held>>
  BY DEF tables, locks
<1>2. alone => Tidy'
  BY <1>1 DEF Calm, Tidy, RangesOrdered, TermsDontOverlap, Existing
<1>3. alone /\ s \notin Done => KnowsAt(r, s, l)'
  <2> SUFFICES ASSUME alone, s \notin Done PROVE KnowsAt(r, s, l)'
    OBVIOUS
  <2>1. call'[r] = call[r]
    BY Moved DEF Inv
  <2> QED BY <1>1, <2>1 DEF KnowsAt
<1> QED BY <1>2, <1>3, CalmMove

LEMMA CalmOnly ==
    ASSUME Inv, Calm, NEW r \in Request, pc[r] \notin Done \cup {"idle"}, NEW s \in Step \ {"idle"},
           Only(r, s), alone /\ s \notin Done => KnowsAt(r, s, seen[r])
    PROVE  Calm'
<1>1. PICK l \in Locals : l = seen[r]
  BY RunningFacts
<1>2. Remember(r, s, l) /\ UNCHANGED <<tables, locks>> /\ (alone /\ s \notin Done => KnowsAt(r, s, l))
  BY <1>1 DEF Only, Goto
<1> QED BY <1>2, CalmQuiet

\* Statements after which a handler knows nothing new.
Plain == {"current", "clear", "name", "copy", "insert", "read", "term"}

LEMMA CalmPlain ==
    ASSUME Inv, Calm, NEW r \in Request, pc[r] \notin Done \cup {"idle"}, NEW s \in Plain \cup Done,
           Only(r, s)
    PROVE  Calm'
<1>1. s \in Step \ {"idle"} /\ (s \notin Done => KnowsAt(r, s, seen[r]))
  BY DEF Plain, Step, Done, KnowsAt, Writing
<1> QED BY <1>1, CalmOnly

LEMMA BeginCalm ==
    ASSUME Inv, Calm, NEW r \in Request, NEW c \in Calls, Begin(r, c)
    PROVE  Calm'
<1> SUFFICES ASSUME alone, Running = {} PROVE Alone' /\ Tidy' /\ \A q \in Request : Knows(q)'
  BY DEF Calm, Begin
<1>1. /\ UNCHANGED <<years, terms>> /\ pc' = [pc EXCEPT ![r] = FirstStep(c)]
  BY DEF Begin, tables
<1>2. FirstStep(c) \in {"name", "read", "exists"}
  BY DEF FirstStep
<1>3. pc'[r] = FirstStep(c) /\ \A q \in Request \ {r} : pc'[q] \in Done \cup {"idle"}
  BY <1>1 DEF Inv, Types, Running
<1>4. \A q \in Request : pc'[q] \in Done \cup {"idle", "name", "read", "exists"}
  BY <1>2, <1>3
<1>5. \A q \in Request : Knows(q)'
  BY <1>4 DEF Knows, KnowsAt, Writing, Done
<1>6. Tidy' /\ Alone'
  BY <1>1, <1>3 DEF Calm, Tidy, RangesOrdered, TermsDontOverlap, Existing, Alone, Running
<1> QED BY <1>5, <1>6

LEMMA ChecksCalm ==
    ASSUME Inv, Calm, NEW r \in Request,
           AssertYearExists(r) \/ FindCurrent(r) \/ AssertNameNotTaken(r)
    PROVE  Calm'
<1>1. pc[r] \notin Done \cup {"idle"} /\ (pc[r] = "exists" => FitsAt(r, "exists", seen[r]))
  BY RunningFacts DEF AssertYearExists, FindCurrent, AssertNameNotTaken, Done
<1>2. CASE \E s \in Plain \cup Done : Only(r, s)
  BY <1>1, <1>2, CalmPlain
<1>3. CASE call[r].op = "createTerm" /\ Only(r, "bounds")
  <2>1. KnowsAt(r, "bounds", seen[r])
    BY <1>3 DEF KnowsAt
  <2> QED BY <1>1, <1>3, <2>1, CalmOnly DEF Step
<1>4. CASE AssertYearExists(r)
  BY <1>1, <1>2, <1>3, <1>4 DEF AssertYearExists, Check, Plain, Done, FitsAt, TermWrites
<1> QED BY <1>2, <1>4 DEF FindCurrent, AssertNameNotTaken, NameTaken, Check, Plain, Done

LEMMA SetCurrentCalm ==
    ASSUME Inv, Calm, NEW r \in Request,
           ClearOthers(r) \/ LockRow(r) \/ SetAndCommit(r) \/ BreakDeadlock(r)
    PROVE  Calm'
<1>1. pc[r] \in {"clear", "lock", "set"}
  <2>1. CASE BreakDeadlock(r)
    <3>1. PICK S \in SUBSET Request : r \in S /\ \A p \in S : \E q \in S \ {p} : WaitsFor(p, q)
      BY <2>1 DEF BreakDeadlock
    <3> QED BY <3>1 DEF WaitsFor
  <2> QED BY <2>1 DEF ClearOthers, LockRow, SetAndCommit
<1>2. pc[r] \notin Done \cup {"idle"} /\ seen[r] \in Locals /\ todo[r] \in SUBSET Year
  BY <1>1, RunningFacts DEF Done
<1>3. alone => KnowsAt(r, pc[r], seen[r])
  BY <1>2, Flight
<1>4. UNCHANGED <<years, terms>>
  BY DEF ClearOthers, LockRow, SetAndCommit, BreakDeadlock, Only, tables
<1>5. alone => Tidy'
  BY <1>4 DEF Calm, Tidy, RangesOrdered, TermsDontOverlap, Existing
<1>6. PICK l \in Locals : l = seen[r]
  BY <1>2
<1>7. CASE ClearOthers(r)
  <2>1. todo'[r] = current /\ current' = current /\ Remember(r, "lock", l)
    BY <1>6, <1>7 DEF ClearOthers, Goto, tables, Inv, Types
  <2>2. KnowsAt(r, "lock", l)'
    BY <2>1 DEF KnowsAt, Writing
  <2> QED BY <1>2, <1>5, <2>1, <2>2, CalmMove DEF Step, Done
<1>8. CASE todo[r] = {} /\ Only(r, "set") /\ pc[r] = "lock"
  <2>1. alone => KnowsAt(r, "set", seen[r])
    BY <1>3, <1>8 DEF KnowsAt, Writing
  <2> QED BY <1>2, <1>8, <2>1, CalmOnly DEF Step, Done
<1>9. CASE pc[r] = "lock" /\ \E y \in todo[r] :
             /\ ~LockedByOther(r, y)
             /\ todo' = [todo EXCEPT ![r] = @ \ {y}]
             /\ held' = [held EXCEPT ![r] = @ \cup (current \cap {y})]
             /\ UNCHANGED <<tables, seen, pc, call, alone, resized>>
  <2> SUFFICES ASSUME alone PROVE Alone' /\ \A q \in Request : Knows(q)'
    BY <1>5, <1>9 DEF Calm
  <2>1. UNCHANGED <<current, seen, pc, call>>
    BY <1>9 DEF tables
  <2>2. current \subseteq todo'[r] \cup held'[r]
    BY <1>3, <1>9 DEF KnowsAt, Inv, Types
  <2>3. Knows(r)'
    BY <1>9, <2>1, <2>2 DEF Knows, KnowsAt, Writing
  <2>4. \A q \in Request \ {r} : pc'[q] \in Done \cup {"idle"}
    BY <1>2, <2>1, Flight
  <2>5. \A q \in Request \ {r} : Knows(q)'
    BY <2>4 DEF Knows, KnowsAt, Done, Writing
  <2> QED BY <2>1, <2>3, <2>5 DEF Alone, Calm, Running
<1>10. CASE \E s \in {"ok", "refused"} : Goto(r, s)
  BY <1>2, <1>5, <1>6, <1>10, CalmMove DEF Goto, Step, Done
<1> QED BY <1>7, <1>8, <1>9, <1>10 DEF LockRow, SetAndCommit, BreakDeadlock

LEMMA YearCalm ==
    ASSUME Inv, Calm, NEW r \in Request,
           ReadSectionsToCopy(r) \/ InsertYear(r) \/ ReadYear(r) \/ UpdateYear(r)
    PROVE  Calm'
<1>1. /\ pc[r] \notin Done \cup {"idle"} /\ FitsAt(r, pc[r], seen[r]) /\ seen[r] \in Locals
      /\ call[r] \in Calls
  BY RunningFacts DEF ReadSectionsToCopy, InsertYear, ReadYear, UpdateYear, Done
<1>2. alone => Tidy /\ KnowsAt(r, pc[r], seen[r])
  BY <1>1, Flight
<1>3. CASE Only(r, "refused")
  BY <1>1, <1>3, CalmPlain DEF Done
<1>4. CASE ReadSectionsToCopy(r)
  <2>1. PICK names \in SUBSET SectionName : Remember(r, "insert", [seen[r] EXCEPT !.copied = names])
    BY <1>4 DEF ReadSectionsToCopy, Inv, Types, Tables, Existing
  <2>2. PICK l \in Locals : l = [seen[r] EXCEPT !.copied = names]
    BY <1>1 DEF Locals
  <2>3. KnowsAt(r, "insert", l)
    BY DEF KnowsAt, Writing
  <2>4. Remember(r, "insert", l) /\ UNCHANGED <<tables, locks>>
    BY <1>4, <2>1, <2>2 DEF ReadSectionsToCopy
  <2> QED BY <1>1, <2>3, <2>4, CalmQuiet DEF Step, Done
<1>5. CASE call[r].op = "update" /\ Ordered(Merged(call[r].dates, years[call[r].year])) /\ Only(r, "write")
  <2>1. KnowsAt(r, "write", seen[r])
    BY <1>5 DEF KnowsAt, Dates
  <2> QED BY <1>1, <1>5, <2>1, CalmOnly DEF Step
<1>6. ASSUME NEW y \in Year, y = call[r].year, NEW d, years' = [years EXCEPT ![y] = d],
             Goto(r, "ok"), UNCHANGED terms, alone => Ordered(d)
      PROVE  Calm'
  <2>1. years'[y] = d /\ \A x \in Year \ {y} : years'[x] = years[x]
    BY <1>6 DEF Inv, Types, Tables
  <2>2. alone => Tidy'
    BY <1>2, <1>6, <2>1 DEF Tidy, RangesOrdered, TermsDontOverlap, Existing
  <2>3. PICK l \in Locals : l = seen[r]
    BY <1>1
  <2> QED BY <1>1, <1>6, <2>2, <2>3, CalmMove DEF Goto, Step, Done
<1>7. CASE InsertYear(r)
  <2>1. PICK d : d = call[r].dates
    OBVIOUS
  <2>2. Ordered(d) /\ call[r].year \in Year
    BY <1>1, <1>7, <2>1, CallFacts DEF InsertYear, FitsAt, Creating
  <2> QED BY <1>3, <1>6, <1>7, <2>1, <2>2 DEF InsertYear, NameTaken
<1>8. CASE UpdateYear(r)
  <2>1. PICK d : d = Merged(call[r].dates, years[call[r].year])
    OBVIOUS
  <2>2. call[r].year \in Year /\ (alone => Ordered(d))
    BY <1>1, <1>2, <1>8, <2>1, CallFacts DEF UpdateYear, KnowsAt
  <2>3. CASE /\ years' = [years EXCEPT ![call[r].year] = Merged(call[r].dates, @)]
             /\ Goto(r, "ok") /\ UNCHANGED terms
    BY <1>6, <2>1, <2>2, <2>3
  <2> QED BY <1>3, <1>8, <2>3 DEF UpdateYear, NameTaken
<1>9. CASE ReadYear(r)
  BY <1>1, <1>3, <1>5, <1>9 DEF ReadYear, Check, FitsAt
<1> QED BY <1>4, <1>7, <1>8, <1>9

LEMMA TermChecksCalm ==
    ASSUME Inv, Calm, NEW r \in Request, ReadTerm(r) \/ CheckBounds(r) \/ AssertNoTermOverlap(r)
    PROVE  Calm'
<1> DEFINE c == call[r]
<1>1. /\ pc[r] \notin Done \cup {"idle"} /\ FitsAt(r, pc[r], seen[r]) /\ seen[r] \in Locals
      /\ c \in Calls /\ pc[r] \in {"term", "bounds", "overlap"}
  BY RunningFacts DEF ReadTerm, CheckBounds, AssertNoTermOverlap, Done
<1>2. alone => Tidy /\ KnowsAt(r, pc[r], seen[r])
  BY <1>1, Flight
<1>3. CASE Only(r, "refused")
  BY <1>1, <1>3, CalmPlain DEF Done
<1>4. CASE pc[r] = "term" /\ c.dates = NoYear /\ Only(r, "write")
  <2>1. KnowsAt(r, "write", seen[r])
    <3> HIDE DEF NoYear
    <3> QED BY <1>1, <1>4 DEF KnowsAt, FitsAt, Dates
  <2> QED BY <1>1, <1>4, <2>1, CalmOnly DEF Step
<1>5. ASSUME pc[r] = "term", NEW t \in terms, t.id = c.term, c.dates # NoYear,
             NEW s \in {"bounds", "refused"}, UNCHANGED <<tables, locks>>,
             s = "bounds" => Ordered(Merged(c.dates, t)),
             Remember(r, s, [seen[r] EXCEPT !.range = Merged(c.dates, t)])
      PROVE  Calm'
  <2>1. c.op = "updateTerm" /\ c.dates \in MaybeDates
    <3> HIDE DEF NoYear
    <3> QED BY <1>1, <1>5, CallFacts DEF FitsAt
  <2>2. t.start \in Date /\ t.end \in Date
    BY DEF Inv, Types, Tables, TermRows
  <2>3. PICK d \in Range : d = Merged(c.dates, t)
    BY <2>1, <2>2, MergedFacts
  <2>4. PICK l \in Locals : l = [seen[r] EXCEPT !.range = d] /\ l.range = d
    <3> DEFINE l == [seen[r] EXCEPT !.range = d]
    <3>1. l \in Locals /\ l.range = d
      BY <1>1 DEF Locals
    <3> QED BY <3>1, Zenon
  <2>5. Remember(r, s, l)
    BY <1>5, <2>3, <2>4
  <2>6. \A u \in terms : u.id = c.term => u = t
    BY <1>5 DEF Inv, OneRowPerId
  <2>7. s = "bounds" => KnowsAt(r, s, l)
    BY <1>5, <2>3, <2>4, <2>6 DEF KnowsAt
  <2> QED BY <1>1, <1>5, <2>5, <2>7, CalmQuiet DEF Step, Done
<1>6. CASE ReadTerm(r)
  <2>1. CASE \E t \in terms : \E s \in {"bounds", "refused"} :
               /\ t.id = c.term /\ c.dates # NoYear /\ (s = "bounds" => Ordered(Merged(c.dates, t)))
               /\ Remember(r, s, [seen[r] EXCEPT !.range = Merged(c.dates, t)])
               /\ UNCHANGED <<tables, locks, resized>>
    BY <1>5, <1>6, <2>1 DEF ReadTerm
  <2> HIDE DEF NoYear
  <2> QED BY <1>3, <1>4, <1>6, <2>1 DEF ReadTerm
<1>7. CASE CheckBounds(r)
  <2>1. alone => KnowsAt(r, "overlap", seen[r])
    BY <1>2, <1>7 DEF CheckBounds, KnowsAt, Writing
  <2> QED BY <1>1, <1>3, <1>7, <2>1, CalmOnly DEF CheckBounds, Check, Step
<1>8. CASE AssertNoTermOverlap(r) /\ ~Only(r, "refused")
  <2>1. Only(r, "write") /\ \A t \in terms : t.year = c.year /\ t.id # c.term => ~Overlap(t, Checked(r))
    BY <1>8 DEF AssertNoTermOverlap, Check
  <2>2. Checked(r) = Completed(c, seen[r])
    BY DEF Checked, Completed
  <2>3. c.op # "update" /\ pc[r] = "overlap"
    BY <1>1, <1>8 DEF FitsAt, AssertNoTermOverlap
  <2>4. alone => KnowsAt(r, "write", seen[r])
    BY <1>2, <2>1, <2>2, <2>3 DEF KnowsAt, Writing
  <2> QED BY <1>1, <2>1, <2>4, CalmOnly DEF Step
<1> QED BY <1>3, <1>6, <1>7, <1>8

\* A term that is written overlaps none of its year, and the others did not.
LEMMA TermWritesCalm ==
    ASSUME Inv, Calm, NEW r \in Request, CreateTerm(r) \/ UpdateTerm(r) \/ DeleteTerm(r)
    PROVE  Calm'
<1> DEFINE c == call[r]
<1>1. /\ pc[r] = "write" /\ pc[r] \notin Done \cup {"idle"} /\ FitsAt(r, "write", seen[r])
      /\ seen[r] \in Locals /\ c \in Calls
  BY RunningFacts DEF CreateTerm, UpdateTerm, DeleteTerm, Done
<1>2. alone => Tidy /\ KnowsAt(r, "write", seen[r])
  BY <1>1, Flight
<1>3. CASE Only(r, "refused")
  BY <1>1, <1>3, CalmPlain DEF Done
<1>4. ASSUME alone => Tidy', Goto(r, "ok") \/ Goto(r, "refused")
      PROVE  Calm'
  <2>1. PICK l \in Locals : l = seen[r]
    BY <1>1
  <2> QED BY <1>1, <1>4, <2>1, CalmMove DEF Goto, Step, Done
<1>5. CASE CreateTerm(r) /\ ~Only(r, "refused")
  <2>1. PICK t \in TermRows : t = [id |-> r, year |-> c.year, start |-> c.dates.start, end |-> c.dates.end]
    BY <1>1, <1>5, CallFacts DEF CreateTerm, TermRows, Range, FitsAt
  <2>2. /\ terms' = terms \cup {t} /\ Goto(r, "ok") /\ years' = years
        /\ t.year = c.year /\ t.start = c.dates.start /\ t.end = c.dates.end
    BY <1>5, <2>1 DEF CreateTerm, NameTaken
  <2>3. c.op = "createTerm" /\ Ordered(c.dates) /\ c.term = None /\ Dates(c) /\ Completed(c, seen[r]) = c.dates
    BY <1>1, <1>5, CallFacts DEF CreateTerm, Dates, Completed
  <2>4. \A u \in terms : u.id # None
    BY AcademicYearsAssumption DEF Inv, Types, Tables, TermRows
  <2>5. alone => \A u \in terms : u.year = t.year => ~Overlap(u, t) /\ ~Overlap(t, u)
    BY <1>2, <2>2, <2>3, <2>4 DEF KnowsAt, Overlap
  <2>6. Ordered(t)
    BY <2>2, <2>3 DEF Ordered
  <2>7. alone => Tidy'
    BY <1>2, <2>2, <2>5, <2>6 DEF Tidy, RangesOrdered, TermsDontOverlap, Existing
  <2> QED BY <1>4, <2>2, <2>7
<1>6. CASE UpdateTerm(r) /\ ~Only(r, "refused")
  <2>1. /\ terms' = {IF t.id = c.term THEN Dated(c, t) ELSE t : t \in terms}
        /\ Goto(r, "ok") /\ years' = years /\ c.op = "updateTerm"
    BY <1>6 DEF UpdateTerm, Dated
  <2>2. ASSUME alone, NEW t \in terms, t.id = c.term
        PROVE  /\ Dated(c, t).id = t.id /\ Dated(c, t).year = t.year /\ Ordered(Dated(c, t))
               /\ \A u \in terms : u.year = t.year /\ u # t =>
                    ~Overlap(u, Dated(c, t)) /\ ~Overlap(Dated(c, t), u)
    <3>1. /\ Dated(c, t).id = t.id /\ Dated(c, t).year = t.year
          /\ Dated(c, t).start = Merged(c.dates, t).start /\ Dated(c, t).end = Merged(c.dates, t).end
      BY DEF Dated
    <3>2. \A u \in terms : u # t => u.id # c.term
      BY <2>2 DEF Inv, OneRowPerId
    <3>3. t.year = c.year
      BY <1>1, <2>1, <2>2 DEF FitsAt, Writing
    <3>4. CASE Dates(c)
      <4>1. /\ seen[r].range = Merged(c.dates, t) /\ Ordered(seen[r].range)
            /\ Completed(c, seen[r]) = seen[r].range
        BY <1>2, <2>1, <2>2, <3>4 DEF KnowsAt, Writing, Completed
      <4>2. \A u \in terms : u.year = t.year /\ u # t => ~Overlap(u, seen[r].range)
        BY <1>2, <2>2, <3>2, <3>3, <3>4, <4>1 DEF KnowsAt
      <4> QED BY <3>1, <4>1, <4>2 DEF Ordered, Overlap
    <3>5. CASE ~Dates(c)
      <4>1. Dated(c, t).start = t.start /\ Dated(c, t).end = t.end
        BY <2>1, <3>1, <3>5 DEF Dates, NoYear, Merged
      <4>2. Ordered(t) /\ \A u \in terms : u.year = t.year /\ u # t => ~Overlap(u, t) /\ ~Overlap(t, u)
        BY <1>2, <2>2 DEF Tidy, RangesOrdered, TermsDontOverlap
      <4> QED BY <3>1, <4>1, <4>2 DEF Ordered, Overlap
    <3> QED BY <3>1, <3>4, <3>5
  <2>3. \A t, u \in terms : t.id = u.id => t = u
    BY DEF Inv, OneRowPerId
  <2>4. ASSUME alone
        PROVE  \A u \in terms' : /\ Ordered(u)
                                 /\ \A v \in terms' : u.year = v.year /\ Overlap(u, v) => u = v
    <3>1. \A u \in terms' : \/ u \in terms /\ u.id # c.term
                            \/ \E t \in terms : t.id = c.term /\ u = Dated(c, t)
      BY <2>1
    <3>2. \A t \in terms : Ordered(t) /\ \A u \in terms : t.year = u.year /\ Overlap(t, u) => t = u
      BY <1>2, <2>4 DEF Tidy, RangesOrdered, TermsDontOverlap
    <3>3. \A u \in terms' : Ordered(u)
      BY <2>2, <2>4, <3>1, <3>2
    <3>4. ASSUME NEW u \in terms', NEW v \in terms', u.year = v.year, Overlap(u, v)
          PROVE  u = v
      BY <2>2, <2>3, <2>4, <3>1, <3>2, <3>4
    <3> QED BY <3>3, <3>4
  <2>5. alone => Tidy'
    BY <1>2, <2>1, <2>4 DEF Tidy, RangesOrdered, TermsDontOverlap, Existing
  <2> QED BY <1>4, <2>1, <2>5
<1>7. CASE DeleteTerm(r)
  <2>1. terms' \subseteq terms /\ years' = years /\ (Goto(r, "ok") \/ Goto(r, "refused"))
    BY <1>7 DEF DeleteTerm
  <2>2. alone => Tidy'
    BY <1>2, <2>1 DEF Tidy, RangesOrdered, TermsDontOverlap, Existing
  <2> QED BY <1>4, <2>1, <2>2
<1> QED BY <1>3, <1>5, <1>6, <1>7

LEMMA NextCalm ==
    ASSUME Inv, Calm, [Next]_vars
    PROVE  Calm'
<1>1. CASE UNCHANGED vars
  BY <1>1 DEF vars, Calm, Alone, Running, Tidy, RangesOrdered, TermsDontOverlap, Existing, Knows, KnowsAt
<1>2. ASSUME NEW r \in Request, Proceed(r)
      PROVE  Calm'
  BY <1>2, ChecksCalm, SetCurrentCalm, YearCalm, TermChecksCalm, TermWritesCalm DEF Proceed
<1> QED BY <1>1, <1>2, BeginCalm DEF Next

LEMMA InitCalm == Init => Calm
<1> SUFFICES ASSUME Init PROVE Calm
  OBVIOUS
<1>1. \A r \in Request : pc[r] = "idle"
  BY DEF Init
<1>2. Alone /\ \A r \in Request : Knows(r)
  BY <1>1 DEF Alone, Running, Knows, KnowsAt, Writing
<1>3. Tidy
  BY DEF Init, Tidy, RangesOrdered, TermsDontOverlap, Existing, Ranges, Ordered
<1> QED BY <1>2, <1>3 DEF Calm

LEMMA CalmInvariance == Spec => [](Inv /\ Calm)
<1>1. Init => Inv /\ Calm
  BY InitHolds, InitCalm
<1>2. (Inv /\ Calm) /\ [Next]_vars => (Inv /\ Calm)'
  BY NextKeeps, NextCalm
<1> QED BY <1>1, <1>2, PTL DEF Spec

\* While handlers do not overlap, years and terms start before they end, also
\* when an update names one of the two dates, and no two terms of a year overlap.
THEOREM DatesStayInOrder == Spec => []SerialDatesInOrder
<1>1. Calm => SerialDatesInOrder
  BY DEF Calm, Tidy, SerialDatesInOrder
<1> QED BY <1>1, CalmInvariance, PTL

\* While handlers do not overlap, the year that becomes current is the only one,
\* also when several were current before.
THEOREM OneBecomesCurrent == Spec => SerialSetCurrentClearsOthers
<1>1. ASSUME Inv, Calm, [Next]_vars, alone
      PROVE  OnlyOneBecomesCurrent
  <2>1. CASE UNCHANGED current
    BY <2>1 DEF OnlyOneBecomesCurrent
  <2>2. ASSUME NEW r \in Request, SetAndCommit(r)
        PROVE  OnlyOneBecomesCurrent
    <3>1. pc[r] = "set" /\ current' = (current \ held[r]) \cup {call[r].year}
      BY <2>2 DEF SetAndCommit
    <3>2. current \subseteq held[r]
      BY <1>1, <3>1 DEF Calm, Knows, KnowsAt
    <3> QED BY <3>1, <3>2 DEF OnlyOneBecomesCurrent
  <2> QED BY <1>1, <2>1, <2>2, CurrentStays
<1>2. Inv /\ Calm /\ [Next]_vars => (alone => OnlyOneBecomesCurrent)
  BY <1>1
<1> QED BY <1>2, CalmInvariance, PTL DEF Spec, SerialSetCurrentClearsOthers
=============================================================================
