--------------------------- MODULE SessionsProofs ---------------------------
(***************************************************************************)
(* Sessions that are over stay over, nobody has more live sessions than    *)
(* the limit, and none outlives the password it was begun with, for any    *)
(* number of users, calls and sessions and however far the clock runs.     *)
(*                                                                         *)
(* Rows are never deleted and keep all columns but isRevoked, which is     *)
(* only ever set (Grows): what a handler has read of a token's row stays   *)
(* true until it uses it.  Fits says what a handler relies on at each      *)
(* statement.                                                              *)
(***************************************************************************)
EXTENDS Sessions, TLAPS, FiniteSetTheorems

SessionRow == [user : User, family : Id, iat : Nat, at : Nat, revoked : BOOLEAN, under : Password]

Locals == [under : Password \cup {None}, oldest : Id \cup {None}, iat : Nat \cup {None}]

At == Done \cup {"idle", "credentials", "count", "store", "token", "family", "owner", "rotate",
                 "authenticate", "user", "password", "write", "revoke", "session",
                 "number", "insert"}

Types ==
    /\ users \in [User -> UserRow \cup {NoUser}]
    /\ sessions \in [Id -> SessionRow \cup {NoSession}]
    /\ invited \subseteq User /\ now \in Nat /\ alone \in BOOLEAN
    /\ pc \in [Request -> At]
    /\ call \in [Request -> Calls \cup {NoCall}]
    /\ seen \in [Request -> Locals]

\* A session has a family that began with a stored session and a user who
\* exists, and no other of its family was begun in the same second.
Sound ==
    /\ \A i \in Rows : /\ sessions[i].iat <= sessions[i].at
                       /\ sessions[i].family \in Rows
                       /\ users[sessions[i].user] # NoUser
    /\ \A i, j \in Rows : /\ sessions[i].family = sessions[j].family
                          /\ sessions[i].iat = sessions[j].iat
                          => i = j

\* What handler r relies on at statement p with locals l.
FitsAt(r, p, l) ==
    /\ p \notin Done => r \notin Rows
    /\ p \notin Done \cup {"idle"} => call[r] \in Calls /\ Holds(call[r])
    /\ p \in {"credentials", "count", "store"} => call[r].op = "login"
    /\ p \in {"token", "family", "owner", "rotate"} => call[r].op = "refresh"
    /\ p = "authenticate" => call[r].op = "logout"
    /\ p = "user" => call[r].op \in {"changePassword", "reset", "activate", "deactivate"}
    /\ p \in {"password", "session"} => call[r].op = "changePassword"
    /\ p = "write" => call[r].op \in {"reset", "activate", "deactivate"}
    /\ p = "revoke" => call[r].op \in {"logout", "changePassword"}
    /\ p \in {"number", "insert"} => call[r].op = "create"
    /\ p \in {"count", "store", "password", "write", "session"} => users[call[r].user] # NoUser
    /\ p = "revoke" /\ call[r].op = "changePassword" => users[call[r].user] # NoUser
    /\ p \in {"count", "store", "session"} => l.under \in Password
    /\ p \in {"store", "rotate", "session"} => l.iat \in Nat /\ l.iat <= now

Fits(r) == FitsAt(r, pc[r], seen[r])

Inv == Types /\ Sound /\ \A r \in Request : Fits(r)

-----------------------------------------------------------------------------
(* What every step has in common *)

\* The rows a step of r may leave.
Grows(r) ==
    /\ \A i \in Rows : /\ i \in Rows'
                       /\ sessions'[i].user = sessions[i].user
                       /\ sessions'[i].family = sessions[i].family
                       /\ sessions'[i].iat = sessions[i].iat
                       /\ sessions'[i].at = sessions[i].at
                       /\ sessions'[i].under = sessions[i].under
                       /\ sessions[i].revoked => sessions'[i].revoked
    /\ Rows' \subseteq Rows \cup {r}
    /\ invited \subseteq invited'
    /\ now <= now'
    /\ \A u \in User : users[u] # NoUser => users'[u] # NoUser

\* A step of r leaves the other handlers where they are.
Only(r) == \A q \in Request \ {r} : pc'[q] = pc[q] /\ call'[q] = call[q] /\ seen'[q] = seen[q]

LEMMA CallFacts ==
    ASSUME NEW c \in Calls
    PROVE  /\ c.op \in Calling
           /\ c.op \in {"login", "changePassword", "reset", "create", "activate", "deactivate", "logout"}
                => c.user \in User
           /\ c.op = "refresh" => c.token \in Id
           /\ c.op \in {"login"} => c.given \in Password
           /\ c.op \in {"changePassword", "reset", "create"} => c.new \in Password
BY DEF Calls, Body, Calling

LEMMA HoldsStable ==
    ASSUME Types, NEW r, Grows(r), NEW c, Holds(c)
    PROVE  Holds(c)'
<1>1. c.op = "refresh" => c.token \in Rows'
  BY DEF Grows, Holds
<1>2. ASSUME NEW i \in Rows, sessions[i].user = c.user
      PROVE  \E j \in Rows' : sessions'[j].user = c.user
  BY <1>2 DEF Grows
<1>3. c.kind = "first_login" => c.user \in invited'
  BY DEF Grows, Holds
<1> QED BY <1>1, <1>2, <1>3 DEF Holds

LEMMA FitsStable ==
    ASSUME Inv, Types', NEW r \in Request, Grows(r), NEW q \in Request, q # r,
           pc'[q] = pc[q], call'[q] = call[q], seen'[q] = seen[q]
    PROVE  Fits(q)'
<1>1. Fits(q)
  BY DEF Inv
<1>2. Holds(call[q]) => Holds(call[q])'
  BY HoldsStable DEF Inv
<1>3. users[call[q].user] # NoUser => (call[q].user \in User => users'[call[q].user] # NoUser)
  BY DEF Grows
<1>4. q \notin Rows => q \notin Rows'
  BY DEF Grows
<1>5. now \in Nat /\ now' \in Nat /\ now <= now'
  BY DEF Inv, Types, Grows
<1> QED BY <1>1, <1>2, <1>3, <1>4, <1>5, CallFacts DEF Fits, FitsAt, Done

LEMMA Lifts ==
    ASSUME Inv, Types', Sound', NEW r \in Request, Grows(r), Only(r), Fits(r)'
    PROVE  Inv'
<1>1. ASSUME NEW q \in Request, q # r
      PROVE  Fits(q)'
  BY <1>1, FitsStable DEF Only
<1> QED BY <1>1 DEF Inv

Columns == users \in [User -> UserRow \cup {NoUser}]
           /\ sessions \in [Id -> SessionRow \cup {NoSession}] /\ invited \subseteq User

Kept(r) == Inv' /\ Grows(r) /\ Only(r)

LEMMA NothingTyped == Nothing \in Locals
BY DEF Nothing, Locals

\* An answer relies on nothing, whatever it has written.
LEMMA AnswerKeeps ==
    ASSUME Inv, NEW r \in Request, NEW outcome \in Done, Answer(r, outcome),
           Columns', Sound', Grows(r)
    PROVE  Kept(r)
<1>1. /\ pc' = [pc EXCEPT ![r] = outcome]
      /\ call' = [call EXCEPT ![r] = NoCall]
      /\ seen' = [seen EXCEPT ![r] = Nothing]
      /\ now' = now /\ alone' = alone
  BY DEF Answer
<1> HIDE DEF NoCall, Nothing
<1>2. Types'
  <2>1. outcome \in At
    BY DEF At
  <2> QED BY <1>1, <2>1, NothingTyped DEF Types, Columns, Inv
<1>3. Only(r)
  BY <1>1 DEF Only, Inv, Types
<1>4. Fits(r)'
  BY <1>1 DEF Fits, FitsAt, Inv, Types, Done
<1> QED BY <1>2, <1>3, <1>4, Lifts DEF Kept

LEMMA ContinueKeeps ==
    ASSUME Inv, NEW r \in Request, NEW s \in At, NEW what \in Locals, Continue(r, s, what),
           Columns', Sound', Grows(r), Fits(r)'
    PROVE  Kept(r)
<1>1. Types'
  BY DEF Continue, Types, Columns, Inv
<1>2. Only(r)
  BY DEF Continue, Only, Inv, Types
<1> QED BY <1>1, <1>2, Lifts DEF Kept

\* Steps that write no table.
LEMMA QuietTables ==
    ASSUME Inv, UNCHANGED tables, now' = now, NEW r
    PROVE  Columns' /\ Sound' /\ Grows(r)
<1>1. Rows' = Rows
  BY DEF tables, Rows
<1>2. Columns' /\ Sound'
  BY <1>1 DEF tables, Columns, Sound, Inv, Types
<1> QED BY <1>1, <1>2 DEF tables, Grows, Inv, Types

LEMMA QuietAnswer ==
    ASSUME Inv, NEW r \in Request, NEW outcome \in Done, Answer(r, outcome), UNCHANGED tables
    PROVE  Kept(r)
<1>1. now' = now
  BY DEF Answer
<1> QED BY <1>1, QuietTables, AnswerKeeps

LEMMA QuietContinue ==
    ASSUME Inv, NEW r \in Request, NEW s \in At, NEW what \in Locals, Continue(r, s, what),
           UNCHANGED tables, FitsAt(r, s, what)
    PROVE  Kept(r)
<1>1. now' = now /\ call' = call /\ pc'[r] = s /\ seen'[r] = what
  BY DEF Continue, Inv, Types
<1>2. Rows' = Rows
  BY DEF tables, Rows
<1>3. Holds(call[r]) => Holds(call[r])'
  BY <1>1, <1>2 DEF Holds, tables
<1>4. Fits(r)'
  BY <1>1, <1>2, <1>3 DEF Fits, FitsAt, tables
<1> QED BY <1>1, <1>4, QuietTables, ContinueKeeps

\* A revoked row is the row with its flag set.
LEMMA RevokedRow ==
    ASSUME NEW row \in SessionRow, NEW v \in BOOLEAN
    PROVE  /\ [row EXCEPT !.revoked = v] \in SessionRow
           /\ [row EXCEPT !.revoked = v].user = row.user
           /\ [row EXCEPT !.revoked = v].family = row.family
           /\ [row EXCEPT !.revoked = v].iat = row.iat
           /\ [row EXCEPT !.revoked = v].at = row.at
           /\ [row EXCEPT !.revoked = v].under = row.under
           /\ [row EXCEPT !.revoked = v].revoked = v
BY DEF SessionRow

LEMMA NoSessionRevoked == ASSUME NEW b \in BOOLEAN PROVE [NoSession EXCEPT !.revoked = @ \/ b] = NoSession
<1>1. NoSession.revoked = TRUE
  BY DEF NoSession
<1>2. (NoSession.revoked \/ b) = TRUE
  BY <1>1
<1>3. [NoSession EXCEPT !.revoked = TRUE] = NoSession
  <2> DEFINE w == [NoSession EXCEPT !.revoked = TRUE]
  <2>1. w = [f \in DOMAIN NoSession |-> IF f = "revoked" THEN TRUE ELSE NoSession[f]]
    OBVIOUS
  <2>2. NoSession = [f \in DOMAIN NoSession |-> NoSession[f]]
    BY DEF NoSession
  <2>3. \A f \in DOMAIN NoSession : (IF f = "revoked" THEN TRUE ELSE NoSession[f]) = NoSession[f]
    BY <1>1
  <2> QED BY <2>1, <2>2, <2>3, Zenon
<1>4. [NoSession EXCEPT !.revoked = @ \/ b] = [NoSession EXCEPT !.revoked = TRUE]
  BY <1>2
<1> QED BY <1>3, <1>4

LEMMA RevokedFacts ==
    ASSUME Types, NEW rows, NEW i \in Id
    PROVE  /\ i \in Rows => /\ Revoked(rows)[i] \in SessionRow
                            /\ Revoked(rows)[i].user = sessions[i].user
                            /\ Revoked(rows)[i].family = sessions[i].family
                            /\ Revoked(rows)[i].iat = sessions[i].iat
                            /\ Revoked(rows)[i].at = sessions[i].at
                            /\ Revoked(rows)[i].under = sessions[i].under
                            /\ sessions[i].revoked => Revoked(rows)[i].revoked
                            /\ i \in rows => Revoked(rows)[i].revoked
           /\ i \notin Rows => Revoked(rows)[i] = NoSession
<1>1. Revoked(rows)[i] = [sessions[i] EXCEPT !.revoked = @ \/ i \in rows]
  BY DEF Revoked
<1>2. (i \in rows) \in BOOLEAN
  OBVIOUS
<1>3. CASE i \in Rows
  <2>1. sessions[i] \in SessionRow
    BY <1>3 DEF Rows, Types
  <2>2. sessions[i].revoked \in BOOLEAN
    BY <2>1 DEF SessionRow
  <2>3. PICK v \in BOOLEAN : v = (sessions[i].revoked \/ i \in rows)
    BY <1>2, <2>2
  <2>4. Revoked(rows)[i] = [sessions[i] EXCEPT !.revoked = v]
    BY <1>1, <2>3
  <2>5. (sessions[i].revoked => v) /\ (i \in rows => v)
    BY <2>3
  <2> QED BY <1>3, <2>1, <2>4, <2>5, RevokedRow
<1>4. CASE i \notin Rows
  BY <1>1, <1>2, <1>4, NoSessionRevoked DEF Rows
<1> QED BY <1>3, <1>4

LEMMA RevokesNothing == Types => Revoked({}) = sessions
<1> SUFFICES ASSUME Types PROVE Revoked({}) = sessions
  OBVIOUS
<1>1. ASSUME NEW i \in Id
      PROVE  Revoked({})[i] = sessions[i]
  <2>1. sessions[i].revoked \in BOOLEAN
    <3>1. sessions[i] \in SessionRow \/ sessions[i] = NoSession
      BY DEF Types
    <3>2. NoSession.revoked \in BOOLEAN
      BY DEF NoSession
    <3>3. sessions[i] \in SessionRow => sessions[i].revoked \in BOOLEAN
      BY DEF SessionRow
    <3> QED BY <3>1, <3>2, <3>3
  <2>2. Revoked({})[i] = [sessions[i] EXCEPT !.revoked = @]
    <3>1. (sessions[i].revoked \/ i \in {}) = sessions[i].revoked
      BY <2>1
    <3> QED BY <3>1 DEF Revoked
  <2> QED BY <2>2 DEF Types, SessionRow, NoSession
<1> QED BY <1>1 DEF Revoked, Types

LEMMA NoSessionIsNoRow == NoSession \notin SessionRow
BY SessionsAssumption DEF SessionRow, NoSession

\* What a revocation, and the insertion of a row, leave of the tables.
LEMMA Revokes ==
    ASSUME Inv, NEW rows, NEW r, sessions' = Revoked(rows), UNCHANGED <<invited, now>>,
           users' \in [User -> UserRow \cup {NoUser}],
           \A u \in User : users[u] # NoUser => users'[u] # NoUser
    PROVE  /\ Columns' /\ Sound' /\ Grows(r) /\ Rows' = Rows
           /\ \A i \in rows \cap Rows : sessions'[i].revoked
<1>1. Types /\ Sound
  BY DEF Inv
<1>2. Rows' = Rows
  BY <1>1, RevokedFacts, NoSessionIsNoRow DEF Rows
<1>3. ASSUME NEW i \in Rows
      PROVE  /\ sessions'[i].user = sessions[i].user /\ sessions[i].user \in User
             /\ sessions'[i].family = sessions[i].family
             /\ sessions'[i].iat = sessions[i].iat
             /\ sessions'[i].at = sessions[i].at
             /\ sessions'[i].under = sessions[i].under
             /\ sessions[i].revoked => sessions'[i].revoked
             /\ i \in rows => sessions'[i].revoked
  <2>1. i \in Id /\ sessions[i] \in SessionRow
    BY <1>1 DEF Rows, Types
  <2>2. sessions[i].user \in User
    BY <2>1 DEF SessionRow
  <2> QED BY <1>1, <2>1, <2>2, RevokedFacts
<1>4. Columns'
  <2>1. sessions' = [i \in Id |-> sessions'[i]]
    BY DEF Revoked
  <2>2. \A i \in Id : sessions'[i] \in SessionRow \cup {NoSession}
    BY <1>1, RevokedFacts
  <2>3. sessions' \in [Id -> SessionRow \cup {NoSession}]
    BY <2>1, <2>2
  <2> QED BY <1>1, <2>3 DEF Columns, Types
<1>5. Sound'
  BY <1>1, <1>2, <1>3 DEF Sound
<1>6. Grows(r)
  BY <1>1, <1>2, <1>3 DEF Grows, Types
<1> QED BY <1>2, <1>3, <1>4, <1>5, <1>6

LEMMA Inserts ==
    ASSUME Inv, NEW rows, NEW r \in Request, r \notin Rows, NEW row \in SessionRow,
           sessions' = [Revoked(rows) EXCEPT ![r] = row], UNCHANGED <<users, invited, now>>,
           row.iat <= row.at, row.family \in Rows \cup {r}, users[row.user] # NoUser,
           \A i \in Rows : sessions[i].family = row.family => sessions[i].iat # row.iat
    PROVE  /\ Columns' /\ Sound' /\ Grows(r) /\ Rows' = Rows \cup {r} /\ sessions'[r] = row
           /\ \A i \in rows \cap Rows : sessions'[i].revoked
<1>1. Types /\ Sound
  BY DEF Inv
<1>2. r \in Id /\ sessions'[r] = row
  BY DEF Revoked, Id
<1>3. \A i \in Id : i # r => sessions'[i] = Revoked(rows)[i]
  BY DEF Revoked
<1>4. Rows' = Rows \cup {r}
  BY <1>1, <1>2, <1>3, RevokedFacts, NoSessionIsNoRow DEF Rows
<1>5. ASSUME NEW i \in Rows
      PROVE  /\ sessions'[i].user = sessions[i].user /\ sessions[i].user \in User
             /\ sessions'[i].family = sessions[i].family
             /\ sessions'[i].iat = sessions[i].iat
             /\ sessions'[i].at = sessions[i].at
             /\ sessions'[i].under = sessions[i].under
             /\ sessions[i].revoked => sessions'[i].revoked
             /\ i \in rows => sessions'[i].revoked
  <2>1. i \in Id /\ sessions[i] \in SessionRow /\ i # r
    BY <1>1 DEF Rows, Types
  <2>2. sessions[i].user \in User
    BY <2>1 DEF SessionRow
  <2> QED BY <1>1, <1>3, <2>1, <2>2, RevokedFacts
<1>6. Columns'
  <2>1. sessions' = [i \in Id |-> sessions'[i]]
    BY DEF Revoked
  <2>2. \A i \in Id : sessions'[i] \in SessionRow \cup {NoSession}
    BY <1>1, <1>2, <1>3, RevokedFacts
  <2>3. sessions' \in [Id -> SessionRow \cup {NoSession}]
    BY <2>1, <2>2
  <2> QED BY <1>1, <2>3 DEF Columns, Types
<1>7. Sound'
  BY <1>1, <1>2, <1>4, <1>5 DEF Sound
<1>8. Grows(r)
  BY <1>1, <1>4, <1>5 DEF Grows, Types
<1> QED BY <1>2, <1>4, <1>5, <1>6, <1>7, <1>8

-----------------------------------------------------------------------------
(* One lemma per action *)

LEMMA FitsNow == ASSUME Inv, NEW r \in Request PROVE FitsAt(r, pc[r], seen[r]) /\ seen[r] \in Locals
BY DEF Inv, Fits, Types

LEMMA BeginKeeps ==
    ASSUME Inv, NEW r \in Request, NEW c \in Calls, Begin(r, c)
    PROVE  Kept(r)
<1>1. /\ pc[r] = "idle" /\ Holds(c) /\ UNCHANGED <<tables, now, seen>>
      /\ call' = [call EXCEPT ![r] = c]
      /\ pc' = [pc EXCEPT ![r] = FirstStep(c)]
      /\ alone' \in BOOLEAN
  BY DEF Begin
<1>2. FirstStep(c) \in At
  BY DEF FirstStep, At
<1>3. Types'
  BY <1>1, <1>2 DEF Inv, Types, tables
<1>4. Only(r)
  BY <1>1 DEF Only, Inv, Types
<1>5. Holds(c)'
  BY <1>1, QuietTables, HoldsStable DEF Inv
<1>6. r \notin Rows'
  BY <1>1, FitsNow DEF FitsAt, Rows, tables, Done
<1>7. pc'[r] = FirstStep(c) /\ call'[r] = c
  BY <1>1 DEF Inv, Types
<1>8. Fits(r)'
  BY <1>5, <1>6, <1>7, CallFacts DEF Fits, FitsAt, FirstStep, Done, Calling
<1> QED BY <1>1, <1>3, <1>4, <1>8, QuietTables, Lifts DEF Kept

\* Local typing: what a handler may note.
LEMMA LocalsFacts ==
    ASSUME NEW l \in Locals
    PROVE  /\ \A p \in Password : [Nothing EXCEPT !.under = p] \in Locals
           /\ \A t \in Nat : /\ [l EXCEPT !.iat = t] \in Locals
                             /\ [l EXCEPT !.iat = t].iat = t
BY DEF Locals, Nothing

LEMMA CheckCredentialsKeeps ==
    ASSUME Inv, NEW r \in Request, CheckCredentials(r)
    PROVE  Kept(r)
<1> DEFINE u == users[call[r].user]
           what == [Nothing EXCEPT !.under = call[r].given]
<1>1. /\ pc[r] = "credentials" /\ FitsAt(r, "credentials", seen[r])
      /\ call[r].op = "login" /\ call[r] \in Calls
      /\ call[r].user \in User /\ call[r].given \in Password
  BY FitsNow, CallFacts DEF CheckCredentials, FitsAt, Done
<1>2. CASE Answer(r, "refused") /\ UNCHANGED tables
  BY <1>2, QuietAnswer DEF Done
<1>3. CASE /\ Answer(r, "ok") /\ invited' = invited \cup {call[r].user}
           /\ UNCHANGED <<users, sessions>>
  <2>1. Columns' /\ Sound' /\ Grows(r)
    BY <1>1, <1>3 DEF Columns, Sound, Grows, Rows, Inv, Types, Answer
  <2> QED BY <1>3, <2>1, AnswerKeeps DEF Done
<1>4. CASE /\ u.password = call[r].given /\ Continue(r, "count", what) /\ UNCHANGED tables
  <2>1. users[call[r].user] # NoUser
    BY <1>1, <1>4, SessionsAssumption DEF NoUser
  <2>2. what \in Locals /\ what.under = call[r].given
    BY <1>1, LocalsFacts DEF Nothing, Locals
  <2>3. FitsAt(r, "count", what)
    BY <1>1, <2>1, <2>2 DEF FitsAt, Done
  <2> QED BY <1>4, <2>2, <2>3, QuietContinue DEF At
<1> QED BY <1>2, <1>3, <1>4 DEF CheckCredentials

LEMMA CountSessionsKeeps ==
    ASSUME Inv, NEW r \in Request, CountSessions(r)
    PROVE  Kept(r)
<1>1. pc[r] = "count" /\ FitsAt(r, "count", seen[r]) /\ seen[r] \in Locals
  BY FitsNow DEF CountSessions
<1>2. PICK i \in Id \cup {None} :
        Continue(r, "store", [seen[r] EXCEPT !.oldest = i, !.iat = now]) /\ UNCHANGED tables
  BY DEF CountSessions, Oldest, Live, Rows
<1> DEFINE what == [seen[r] EXCEPT !.oldest = i, !.iat = now]
<1>3. what \in Locals /\ what.under = seen[r].under /\ what.iat = now /\ now \in Nat
  <2>1. now \in Nat
    BY DEF Inv, Types
  <2>2. PICK l \in Locals : l = seen[r]
    BY <1>1
  <2>3. /\ [l EXCEPT !.oldest = i, !.iat = now] \in Locals
        /\ [l EXCEPT !.oldest = i, !.iat = now].under = l.under
        /\ [l EXCEPT !.oldest = i, !.iat = now].iat = now
    BY <2>1 DEF Locals
  <2> QED BY <2>1, <2>2, <2>3
<1>4. FitsAt(r, "store", what)
  BY <1>1, <1>3 DEF FitsAt, Done
<1> QED BY <1>2, <1>3, <1>4, QuietContinue DEF At

LEMMA StoreSessionKeeps ==
    ASSUME Inv, NEW r \in Request, StoreSession(r)
    PROVE  Kept(r)
<1>1. pc[r] = "store" /\ FitsAt(r, "store", seen[r])
  BY FitsNow DEF StoreSession
<1>2. /\ r \notin Rows /\ call[r].user \in User /\ users[call[r].user] # NoUser
      /\ seen[r].under \in Password /\ seen[r].iat \in Nat /\ seen[r].iat <= now /\ now \in Nat
  BY <1>1, CallFacts DEF FitsAt, Done, Inv, Types
<1> DEFINE row == Session(call[r].user, r, seen[r].iat, seen[r].under)
<1>3. /\ row \in SessionRow /\ row.iat <= row.at /\ row.family = r /\ row.user = call[r].user
  BY <1>2 DEF Session, SessionRow, Id
<1>4. /\ row.family \in Rows \cup {r} /\ users[row.user] # NoUser
      /\ \A i \in Rows : sessions[i].family = row.family => sessions[i].iat # row.iat
  BY <1>2, <1>3 DEF Inv, Sound
<1>5. /\ sessions' = [Revoked({seen[r].oldest}) EXCEPT ![r] = row]
      /\ Answer(r, "ok") /\ UNCHANGED <<users, invited, now>>
  BY DEF StoreSession, Answer
<1> HIDE DEF row, Session
<1>6. Columns' /\ Sound' /\ Grows(r)
  BY <1>2, <1>3, <1>4, <1>5, Inserts
<1> QED BY <1>5, <1>6, AnswerKeeps DEF Done

LEMMA ReadTokenKeeps ==
    ASSUME Inv, NEW r \in Request, ReadToken(r)
    PROVE  Kept(r)
<1>1. pc[r] = "token" /\ FitsAt(r, "token", seen[r]) /\ seen[r] \in Locals
  BY FitsNow DEF ReadToken
<1>2. FitsAt(r, "family", seen[r]) /\ FitsAt(r, "owner", seen[r])
  BY <1>1 DEF FitsAt, Done
<1>3. CASE Answer(r, "refused") /\ UNCHANGED tables
  BY <1>3, QuietAnswer DEF Done
<1>4. CASE \E s \in {"family", "owner"} : Continue(r, s, seen[r]) /\ UNCHANGED tables
  BY <1>1, <1>2, <1>4, QuietContinue DEF At
<1> QED BY <1>3, <1>4 DEF ReadToken

LEMMA RevokeFamilyKeeps ==
    ASSUME Inv, NEW r \in Request, RevokeFamily(r)
    PROVE  Kept(r)
<1>1. /\ Answer(r, "refused") /\ UNCHANGED <<users, invited, now>>
      /\ sessions' = Revoked(Family(sessions[call[r].token].family))
  BY DEF RevokeFamily, Answer
<1>2. Columns' /\ Sound' /\ Grows(r)
  BY <1>1, Revokes DEF Inv, Types
<1> QED BY <1>1, <1>2, AnswerKeeps DEF Done

LEMMA ReadOwnerKeeps ==
    ASSUME Inv, NEW r \in Request, ReadOwner(r)
    PROVE  Kept(r)
<1>1. pc[r] = "owner" /\ FitsAt(r, "owner", seen[r]) /\ seen[r] \in Locals
  BY FitsNow DEF ReadOwner
<1> DEFINE what == [seen[r] EXCEPT !.iat = now]
<1>2. what \in Locals /\ what.iat = now /\ now \in Nat
  BY <1>1, LocalsFacts DEF Inv, Types
<1>3. FitsAt(r, "rotate", what)
  BY <1>1, <1>2 DEF FitsAt, Done
<1>4. \/ Answer(r, "refused") /\ UNCHANGED tables
      \/ Continue(r, "rotate", what) /\ UNCHANGED tables
  BY DEF ReadOwner
<1> QED BY <1>2, <1>3, <1>4, QuietAnswer, QuietContinue DEF Done, At

LEMMA RotateKeeps ==
    ASSUME Inv, NEW r \in Request, Rotate(r)
    PROVE  Kept(r)
<1> DEFINE old == sessions[call[r].token]
           row == Session(old.user, old.family, seen[r].iat, old.under)
<1>1. pc[r] = "rotate" /\ FitsAt(r, "rotate", seen[r])
  BY FitsNow DEF Rotate
<1>2. /\ r \notin Rows /\ call[r].token \in Rows
      /\ seen[r].iat \in Nat /\ seen[r].iat <= now /\ now \in Nat
  BY <1>1 DEF FitsAt, Done, Inv, Types, Holds
<1>3. CASE Answer(r, "refused") /\ UNCHANGED tables
  BY <1>3, QuietAnswer DEF Done
<1>4. CASE /\ ~HashTaken(old.family, seen[r].iat)
           /\ sessions' = [Revoked({call[r].token}) EXCEPT ![r] = row]
           /\ Answer(r, "ok") /\ UNCHANGED <<users, invited>>
  <2>1. old \in SessionRow /\ old.family \in Rows /\ users[old.user] # NoUser
    BY <1>2 DEF Rows, Inv, Types, Sound
  <2>2. /\ row \in SessionRow /\ row.iat <= row.at /\ row.iat = seen[r].iat
        /\ row.family = old.family /\ row.user = old.user
    BY <1>2, <2>1 DEF Session, SessionRow
  <2>3. /\ row.family \in Rows \cup {r} /\ users[row.user] # NoUser
        /\ \A i \in Rows : sessions[i].family = row.family => sessions[i].iat # row.iat
    BY <1>4, <2>1, <2>2 DEF HashTaken, Family
  <2>4. now' = now
    BY <1>4 DEF Answer
  <2> HIDE DEF row
  <2>5. Columns' /\ Sound' /\ Grows(r)
    BY <1>2, <1>4, <2>1, <2>2, <2>3, <2>4, Inserts
  <2> QED BY <1>4, <2>5, AnswerKeeps DEF Done
<1> QED BY <1>3, <1>4 DEF Rotate, tables

LEMMA AuthenticateKeeps ==
    ASSUME Inv, NEW r \in Request, Authenticate(r)
    PROVE  Kept(r)
<1>1. FitsAt(r, "authenticate", seen[r]) /\ seen[r] \in Locals
  BY FitsNow DEF Authenticate
<1>2. FitsAt(r, "revoke", seen[r])
  BY <1>1 DEF FitsAt, Done
<1>3. \/ Answer(r, "refused") /\ UNCHANGED tables
      \/ Continue(r, "revoke", seen[r]) /\ UNCHANGED tables
  BY DEF Authenticate
<1> QED BY <1>1, <1>2, <1>3, QuietAnswer, QuietContinue DEF Done, At

LEMMA ReadUserKeeps ==
    ASSUME Inv, NEW r \in Request, ReadUser(r)
    PROVE  Kept(r)
<1>1. FitsAt(r, "user", seen[r]) /\ seen[r] \in Locals
  BY FitsNow DEF ReadUser
<1>2. CASE Answer(r, "refused") /\ UNCHANGED tables
  BY <1>2, QuietAnswer DEF Done
<1>3. CASE /\ users[call[r].user].active \/ users[call[r].user] # NoUser
           /\ Continue(r, IF call[r].op = "changePassword" THEN "password" ELSE "write", seen[r])
           /\ UNCHANGED tables
  <2>1. users[call[r].user] # NoUser
    BY <1>3 DEF NoUser
  <2>2. CASE call[r].op = "changePassword"
    <3>1. FitsAt(r, "password", seen[r])
      BY <1>1, <2>1, <2>2 DEF FitsAt, Done
    <3> QED BY <1>1, <1>3, <2>2, <3>1, QuietContinue DEF At
  <2>3. CASE call[r].op # "changePassword"
    <3>1. FitsAt(r, "write", seen[r])
      BY <1>1, <2>1, <2>3 DEF FitsAt, Done
    <3> QED BY <1>1, <1>3, <2>3, <3>1, QuietContinue DEF At
  <2> QED BY <2>2, <2>3
<1> QED BY <1>2, <1>3 DEF ReadUser

\* Writes of a user's row leave the sessions sound.
LEMMA UserWrites ==
    ASSUME Inv, NEW r, UNCHANGED <<sessions, invited, now>>,
           users' \in [User -> UserRow \cup {NoUser}],
           \A u \in User : users[u] # NoUser => users'[u] # NoUser
    PROVE  Columns' /\ Sound' /\ Grows(r)
<1>1. Rows' = Rows
  BY DEF Rows
<1>2. \A i \in Rows : sessions[i].user \in User
  BY DEF Rows, Inv, Types, SessionRow
<1> QED BY <1>1, <1>2 DEF Columns, Sound, Grows, Inv, Types

LEMMA NoUserIsNoRow == NoUser \notin UserRow
BY SessionsAssumption DEF NoUser, UserRow

LEMMA UpdatePasswordKeeps ==
    ASSUME Inv, NEW r \in Request, UpdatePassword(r)
    PROVE  Kept(r)
<1> DEFINE u == call[r].user
           b == users[u].first /\ call[r].kind # "first_login"
<1>1. FitsAt(r, "password", seen[r]) /\ seen[r] \in Locals
  BY FitsNow DEF UpdatePassword
<1>2. u \in User /\ users[u] \in UserRow /\ call[r].new \in Password
  BY <1>1, CallFacts DEF FitsAt, Done, Inv, Types
<1>3. users' = [users EXCEPT ![u] = [users[u] EXCEPT !.password = call[r].new, !.first = b]]
  BY <1>2 DEF UpdatePassword, Inv, Types
<1>4. [users[u] EXCEPT !.password = call[r].new, !.first = b] \in UserRow
  <2>1. b \in BOOLEAN
    BY <1>2 DEF UserRow
  <2>2. PICK v \in BOOLEAN : v = b
    BY <2>1
  <2>3. [users[u] EXCEPT !.password = call[r].new, !.first = v] \in UserRow
    BY <1>2 DEF UserRow
  <2> QED BY <2>2, <2>3
<1> HIDE DEF b
<1>5. /\ users' \in [User -> UserRow \cup {NoUser}]
      /\ \A w \in User : users[w] # NoUser => users'[w] # NoUser
  BY <1>2, <1>3, <1>4, NoUserIsNoRow DEF Inv, Types
<1>6. /\ UNCHANGED <<sessions, invited, now, call>> /\ Continue(r, "revoke", seen[r])
  BY DEF UpdatePassword, Continue
<1>7. Columns' /\ Sound' /\ Grows(r)
  BY <1>5, <1>6, UserWrites
<1>8. Fits(r)'
  <2>1. pc'[r] = "revoke" /\ call'[r] = call[r]
    BY <1>6 DEF Continue, Inv, Types
  <2>2. Holds(call[r])'
    BY <1>1, <1>6, <1>7, HoldsStable DEF FitsAt, Done, Inv
  <2>3. Rows' = Rows
    BY <1>6 DEF Rows
  <2> QED BY <1>1, <1>2, <1>5, <2>1, <2>2, <2>3 DEF Fits, FitsAt, Done
<1> QED BY <1>1, <1>6, <1>7, <1>8, ContinueKeeps DEF At

LEMMA RevokeAllKeeps ==
    ASSUME Inv, NEW r \in Request, RevokeAll(r)
    PROVE  Kept(r)
<1>1. FitsAt(r, "revoke", seen[r]) /\ seen[r] \in Locals
  BY FitsNow DEF RevokeAll
<1>2. /\ sessions' = Revoked(OwnedBy(call[r].user)) /\ UNCHANGED <<users, invited, now>>
  BY DEF RevokeAll, Answer, Continue
<1>3. Columns' /\ Sound' /\ Grows(r) /\ Rows' = Rows
  BY <1>2, Revokes DEF Inv, Types
<1>4. CASE Answer(r, "ok")
  BY <1>3, <1>4, AnswerKeeps DEF Done
<1> DEFINE what == [seen[r] EXCEPT !.under = call[r].new, !.iat = now]
<1>5. CASE call[r].op = "changePassword" /\ Continue(r, "session", what)
  <2>1. call[r].new \in Password /\ now \in Nat
    BY <1>1, <1>5, CallFacts DEF FitsAt, Done, Inv, Types
  <2>2. what \in Locals /\ what.under = call[r].new /\ what.iat = now
    BY <1>1, <2>1 DEF Locals
  <2>3. pc'[r] = "session" /\ call'[r] = call[r] /\ seen'[r] = what
    BY <1>5 DEF Continue, Inv, Types
  <2>4. Holds(call[r])'
    BY <1>1, <1>3, <2>3, HoldsStable DEF FitsAt, Done, Inv
  <2>5. Fits(r)'
    BY <1>1, <1>2, <1>3, <1>5, <2>1, <2>2, <2>3, <2>4 DEF Fits, FitsAt, Done
  <2> QED BY <1>3, <1>5, <2>2, <2>5, ContinueKeeps DEF At
<1>6. call[r].op \in {"logout", "changePassword"}
  BY <1>1 DEF FitsAt
<1> QED BY <1>4, <1>5, <1>6 DEF RevokeAll

LEMMA CreateSessionKeeps ==
    ASSUME Inv, NEW r \in Request, CreateSession(r)
    PROVE  Kept(r)
<1> DEFINE row == Session(call[r].user, r, seen[r].iat, seen[r].under)
<1>1. FitsAt(r, "session", seen[r])
  BY FitsNow DEF CreateSession
<1>2. /\ r \notin Rows /\ call[r].user \in User /\ users[call[r].user] # NoUser
      /\ seen[r].under \in Password /\ seen[r].iat \in Nat /\ seen[r].iat <= now /\ now \in Nat
  BY <1>1, CallFacts DEF FitsAt, Done, Inv, Types
<1>3. /\ row \in SessionRow /\ row.iat <= row.at /\ row.family = r /\ row.user = call[r].user
  BY <1>2 DEF Session, SessionRow, Id
<1>4. /\ row.family \in Rows \cup {r} /\ users[row.user] # NoUser
      /\ \A i \in Rows : sessions[i].family = row.family => sessions[i].iat # row.iat
  BY <1>2, <1>3 DEF Inv, Sound
<1>5. /\ sessions' = [Revoked({}) EXCEPT ![r] = row]
      /\ Answer(r, "ok") /\ UNCHANGED <<users, invited, now>>
  BY RevokesNothing DEF CreateSession, Answer, Inv
<1> HIDE DEF row, Session
<1>6. Columns' /\ Sound' /\ Grows(r)
  BY <1>2, <1>3, <1>4, <1>5, Inserts
<1> QED BY <1>5, <1>6, AnswerKeeps DEF Done

LEMMA ResetPasswordKeeps ==
    ASSUME Inv, NEW r \in Request, ResetPassword(r)
    PROVE  Kept(r)
<1> DEFINE u == call[r].user
<1>1. FitsAt(r, "write", seen[r]) /\ call[r].op = "reset"
  BY FitsNow DEF ResetPassword
<1>2. u \in User /\ users[u] \in UserRow /\ call[r].new \in Password
  BY <1>1, CallFacts DEF FitsAt, Done, Inv, Types
<1>3. users' = [users EXCEPT ![u] = [users[u] EXCEPT !.password = call[r].new, !.first = TRUE]]
  BY <1>2 DEF ResetPassword, Inv, Types
<1>4. [users[u] EXCEPT !.password = call[r].new, !.first = TRUE] \in UserRow
  BY <1>2 DEF UserRow
<1>5. /\ users' \in [User -> UserRow \cup {NoUser}]
      /\ \A w \in User : users[w] # NoUser => users'[w] # NoUser
  BY <1>2, <1>3, <1>4, NoUserIsNoRow DEF Inv, Types
<1>6. Answer(r, "ok") /\ sessions' = Revoked(OwnedBy(u)) /\ UNCHANGED <<invited, now>>
  BY DEF ResetPassword, Answer
<1>7. Columns' /\ Sound' /\ Grows(r)
  BY <1>5, <1>6, Revokes
<1> QED BY <1>6, <1>7, AnswerKeeps DEF Done

LEMMA CheckNumbersKeeps ==
    ASSUME Inv, NEW r \in Request, CheckNumbers(r)
    PROVE  Kept(r)
<1>1. FitsAt(r, "number", seen[r]) /\ seen[r] \in Locals
  BY FitsNow DEF CheckNumbers
<1>2. FitsAt(r, "insert", seen[r])
  BY <1>1 DEF FitsAt, Done
<1>3. \/ Answer(r, "refused") /\ UNCHANGED tables
      \/ Continue(r, "insert", seen[r]) /\ UNCHANGED tables
  BY DEF CheckNumbers
<1> QED BY <1>1, <1>2, <1>3, QuietAnswer, QuietContinue DEF Done, At

LEMMA InsertUserKeeps ==
    ASSUME Inv, NEW r \in Request, InsertUser(r)
    PROVE  Kept(r)
<1> DEFINE row == [password |-> call[r].new, active |-> TRUE, first |-> TRUE]
<1>1. FitsAt(r, "insert", seen[r])
  BY FitsNow DEF InsertUser
<1>2. call[r].user \in User /\ row \in UserRow
  BY <1>1, CallFacts DEF FitsAt, Done, UserRow
<1>3. CASE Answer(r, "refused") /\ UNCHANGED tables
  BY <1>3, QuietAnswer DEF Done
<1>4. CASE users' = [users EXCEPT ![call[r].user] = row] /\ Answer(r, "ok")
  <2>1. /\ users' \in [User -> UserRow \cup {NoUser}]
        /\ \A w \in User : users[w] # NoUser => users'[w] # NoUser
    BY <1>2, <1>4, NoUserIsNoRow DEF Inv, Types
  <2>2. UNCHANGED <<sessions, invited, now>>
    BY <1>4 DEF InsertUser, Answer
  <2> QED BY <1>4, <2>1, <2>2, UserWrites, AnswerKeeps DEF Done
<1> QED BY <1>3, <1>4 DEF InsertUser, tables

LEMMA SwitchUserKeeps ==
    ASSUME Inv, NEW r \in Request, SwitchUser(r)
    PROVE  Kept(r)
<1> DEFINE u == call[r].user
           b == (call[r].op = "activate")
<1>1. FitsAt(r, "write", seen[r])
  BY FitsNow DEF SwitchUser
<1>2. u \in User /\ users[u] \in UserRow
  BY <1>1, CallFacts DEF FitsAt, Done, Inv, Types
<1>3. users' = [users EXCEPT ![u] = [users[u] EXCEPT !.active = b]]
  BY <1>2 DEF SwitchUser, Inv, Types
<1>4. [users[u] EXCEPT !.active = b] \in UserRow
  <2>1. PICK v \in BOOLEAN : v = b
    OBVIOUS
  <2>2. [users[u] EXCEPT !.active = v] \in UserRow
    BY <1>2 DEF UserRow
  <2> QED BY <2>1, <2>2
<1> HIDE DEF b
<1>5. /\ users' \in [User -> UserRow \cup {NoUser}]
      /\ \A w \in User : users[w] # NoUser => users'[w] # NoUser
  BY <1>2, <1>3, <1>4, NoUserIsNoRow DEF Inv, Types
<1>6. Answer(r, "ok") /\ UNCHANGED <<sessions, invited, now>>
  BY DEF SwitchUser, Answer
<1> QED BY <1>5, <1>6, UserWrites, AnswerKeeps DEF Done

LEMMA TickKeeps ==
    ASSUME Inv, Tick
    PROVE  Inv'
<1>1. /\ now \in Nat /\ now' = now + 1 /\ UNCHANGED <<tables, pc, call, seen, alone>>
  BY DEF Tick, Inv, Types
<1>2. Rows' = Rows
  BY <1>1 DEF Rows, tables
<1>3. Types' /\ Sound'
  BY <1>1, <1>2 DEF Inv, Types, Sound, tables
<1>4. ASSUME NEW r \in Request
      PROVE  Fits(r)'
  <2>1. Fits(r)
    BY DEF Inv
  <2>2. Holds(call[r]) => Holds(call[r])'
    BY <1>1, <1>2 DEF Holds, tables
  <2>3. \A t \in Nat : t <= now => t <= now'
    BY <1>1
  <2> QED BY <1>1, <1>2, <2>1, <2>2, <2>3 DEF Fits, FitsAt, tables
<1> QED BY <1>3, <1>4 DEF Inv

LEMMA StatementFailsKeeps ==
    ASSUME Inv, NEW r \in Request, StatementFails(r)
    PROVE  Kept(r)
BY QuietAnswer DEF StatementFails, Done

LEMMA StepKeeps ==
    ASSUME Inv, NEW r \in Request, Step(r)
    PROVE  Kept(r)
BY CheckCredentialsKeeps, CountSessionsKeeps, StoreSessionKeeps, ReadTokenKeeps,
   RevokeFamilyKeeps, ReadOwnerKeeps, RotateKeeps, AuthenticateKeeps, ReadUserKeeps,
   UpdatePasswordKeeps, RevokeAllKeeps, CreateSessionKeeps, ResetPasswordKeeps,
   CheckNumbersKeeps, InsertUserKeeps, SwitchUserKeeps, StatementFailsKeeps
   DEF Step

LEMMA NextKeeps ==
    ASSUME Inv, [Next]_vars
    PROVE  Inv'
<1>1. CASE UNCHANGED vars
  <2>1. Rows' = Rows
    BY <1>1 DEF vars, Rows
  <2> QED BY <1>1, <2>1 DEF vars, Inv, Types, Sound, Fits, FitsAt, Holds
<1>2. CASE Tick
  BY <1>2, TickKeeps
<1>3. CASE \E r \in Request : Step(r) \/ \E c \in Calls : Begin(r, c)
  BY <1>3, StepKeeps, BeginKeeps DEF Kept
<1> QED BY <1>1, <1>2, <1>3 DEF Next

LEMMA InitHolds == Init => Inv
<1> SUFFICES ASSUME Init PROVE Inv
  OBVIOUS
<1>1. PICK owner \in [Old -> {u \in User : users[u] # NoUser /\ ~users[u].first} \cup {None}] :
        sessions = [i \in Id |-> IF i \in Old /\ owner[i] # None
                                 THEN Session(owner[i], i, 0, users[owner[i]].password)
                                 ELSE NoSession]
  BY DEF Init
<1>2. /\ users \in [User -> UserRow \cup {NoUser}] /\ now = 0 /\ invited = {} /\ alone = TRUE
      /\ pc = [r \in Request |-> "idle"]
      /\ call = [r \in Request |-> NoCall]
      /\ seen = [r \in Request |-> Nothing]
  BY DEF Init
<1>3. ASSUME NEW i \in Id, i \in Old, owner[i] # None
      PROVE  /\ sessions[i] \in SessionRow /\ sessions[i].iat = 0 /\ sessions[i].at = 0
             /\ sessions[i].family = i /\ sessions[i].user = owner[i]
             /\ users[owner[i]] # NoUser
  <2>1. owner[i] \in User /\ users[owner[i]] # NoUser
    BY <1>3
  <2>2. users[owner[i]].password \in Password
    BY <1>2, <2>1 DEF UserRow
  <2> QED BY <1>1, <1>2, <1>3, <2>1, <2>2 DEF Session, SessionRow
<1>4. \A i \in Id : i \notin Old \/ owner[i] = None => sessions[i] = NoSession
  BY <1>1
<1>5. Rows = {i \in Old : owner[i] # None}
  BY <1>3, <1>4, NoSessionIsNoRow DEF Rows, Id
<1> HIDE DEF NoSession, NoCall, Nothing
<1>6. Types
  <2>1. sessions \in [Id -> SessionRow \cup {NoSession}]
    BY <1>1, <1>3, <1>4
  <2> QED BY <1>2, <2>1, NothingTyped DEF Types, At
<1>7. Sound
  BY <1>3, <1>5 DEF Sound, Id
<1>8. ASSUME NEW r \in Request
      PROVE  Fits(r)
  BY <1>2, <1>5, SessionsAssumption DEF Fits, FitsAt
<1> QED BY <1>6, <1>7, <1>8 DEF Inv

LEMMA Invariance == Spec => []Inv
BY InitHolds, NextKeeps, PTL DEF Spec

LEMMA InvTypeOK == Inv => TypeOK
<1> SUFFICES ASSUME Inv PROVE TypeOK
  OBVIOUS
<1>1. ASSUME NEW i \in Rows
      PROVE  /\ sessions[i] \in SessionRow /\ sessions[i].iat \in 0 .. sessions[i].at
             /\ \A j \in Family(sessions[i].family) \ {i} : sessions[j].iat # sessions[i].iat
  <2>1. sessions[i] \in SessionRow
    BY DEF Rows, Inv, Types
  <2> QED BY <2>1 DEF SessionRow, Inv, Sound, Family
<1>2. \A r \in Running : call[r] \in Calls /\ Holds(call[r])
  BY DEF Running, Inv, Fits, FitsAt
<1> QED BY <1>1, <1>2 DEF TypeOK, SessionRow, Inv, Types

\* The rows of users and sessions, the hashes and what handlers hold are well
\* formed in every reachable state, for any number of users, calls and rows.
THEOREM SessionsTypeCorrect == Spec => []TypeOK
BY Invariance, InvTypeOK, PTL

-----------------------------------------------------------------------------
(* Sessions that are over stay over                                         *)

\* A step of r neither adds a row to a family that is over, nor lets a refresh
\* of one pass its checks.
Respects(r) ==
    /\ r \in Rows' => ~Ended(sessions'[r].family) \/ r \in Rows
    /\ pc'[r] \in {"owner", "rotate"} =>
         call'[r].token \in Rows /\ ~Ended(sessions[call'[r].token].family)

LEMMA RespectsIsEnough ==
    ASSUME Inv, Inv', NEW r \in Request, Grows(r), Only(r), Respects(r), NEW f \in Id, Ended(f)
    PROVE  Ended(f)'
<1>1. Family(f)' = Family(f)
  <2>1. \A i \in Rows : i \in Rows' /\ sessions'[i].family = sessions[i].family
    BY DEF Grows
  <2>2. r \in Rows' => r \in Rows \/ sessions'[r].family # f
    BY DEF Respects
  <2> QED BY <2>1, <2>2 DEF Family, Grows
<1>2. \A i \in Family(f)' : sessions'[i].revoked
  BY <1>1 DEF Ended, Grows, Family
<1>3. ASSUME NEW q \in Request, pc'[q] \in {"owner", "rotate"}
      PROVE  sessions'[call'[q].token].family # f
  <2>1. CASE q = r
    BY <1>3, <2>1 DEF Respects, Grows
  <2>2. CASE q # r
    <3>1. pc'[q] = pc[q] /\ call'[q] = call[q]
      BY <2>2 DEF Only
    <3>2. call[q].token \in Rows
      BY <1>3, <3>1 DEF Inv, Fits, FitsAt, Holds, Done
    <3> QED BY <1>3, <3>1, <3>2 DEF Grows, Ended
  <2> QED BY <2>1, <2>2
<1> QED BY <1>1, <1>2, <1>3 DEF Ended

\* Steps that leave the rows, and are no step of a refresh past its checks.
LEMMA RespectsQuietly ==
    ASSUME Inv, NEW r \in Request, UNCHANGED sessions, pc'[r] \notin {"owner", "rotate"}
    PROVE  Respects(r)
BY DEF Respects, Rows

LEMMA OutcomeKnown ==
    ASSUME Inv, NEW r \in Request
    PROVE  /\ \A o : Answer(r, o) => pc'[r] = o
           /\ \A s, w : Continue(r, s, w) => pc'[r] = s /\ call' = call /\ seen'[r] = w
BY DEF Answer, Continue, Inv, Types

LEMMA RefreshRespects ==
    ASSUME Inv, NEW r \in Request,
           ReadToken(r) \/ RevokeFamily(r) \/ ReadOwner(r) \/ Rotate(r), Kept(r)
    PROVE  Respects(r)
<1> DEFINE i == call[r].token
<1>1. /\ pc[r] \in {"token", "family", "owner", "rotate"} /\ FitsAt(r, pc[r], seen[r])
      /\ r \notin Rows /\ i \in Rows
  BY FitsNow DEF ReadToken, RevokeFamily, ReadOwner, Rotate, FitsAt, Done, Holds
<1>2. CASE ReadToken(r)
  <2>1. Rows' = Rows
    BY <1>2 DEF ReadToken, tables, Rows
  <2>2. CASE Answer(r, "refused")
    BY <1>1, <2>1, <2>2, OutcomeKnown DEF Respects
  <2>3. CASE sessions[i].revoked /\ Continue(r, "family", seen[r])
    BY <1>1, <2>1, <2>3, OutcomeKnown DEF Respects
  <2>4. CASE ~sessions[i].revoked /\ Continue(r, "owner", seen[r])
    <3>1. i \in Family(sessions[i].family)
      BY <1>1 DEF Family
    <3>2. ~Ended(sessions[i].family)
      BY <2>4, <3>1 DEF Ended
    <3> QED BY <1>1, <2>1, <2>4, <3>2, OutcomeKnown DEF Respects
  <2> QED BY <1>2, <2>2, <2>3, <2>4 DEF ReadToken
<1>3. CASE RevokeFamily(r)
  <2>1. sessions' = Revoked(Family(sessions[i].family)) /\ UNCHANGED <<invited, now, users>>
        /\ Answer(r, "refused")
    BY <1>3 DEF RevokeFamily, Answer
  <2>2. Rows' = Rows
    BY <2>1, Revokes DEF Inv, Types
  <2> QED BY <1>1, <2>1, <2>2, OutcomeKnown DEF Respects
<1>4. CASE pc[r] \in {"owner", "rotate"}
  <2>1. ~Ended(sessions[i].family)
    BY <1>4 DEF Ended
  <2>2. CASE ReadOwner(r)
    <3>1. Rows' = Rows /\ (Answer(r, "refused") \/ \E w : Continue(r, "rotate", w))
      BY <2>2 DEF ReadOwner, tables, Rows
    <3> QED BY <1>1, <2>1, <3>1, OutcomeKnown DEF Respects
  <2>3. CASE Rotate(r)
    <3>1. pc'[r] \notin {"owner", "rotate"}
      BY <2>3, OutcomeKnown DEF Rotate
    <3>2. r \in Rows' => sessions'[r].family = sessions[i].family
      <4>1. CASE UNCHANGED sessions
        BY <1>1, <4>1 DEF Rows
      <4>2. CASE sessions' = [Revoked({i}) EXCEPT ![r] =
                   Session(sessions[i].user, sessions[i].family, seen[r].iat, sessions[i].under)]
        <5>1. r \in Id
          BY DEF Id
        <5> QED BY <4>2, <5>1 DEF Revoked, Session
      <4> QED BY <2>3, <4>1, <4>2 DEF Rotate
    <3> QED BY <2>1, <3>1, <3>2 DEF Respects
  <2> QED BY <1>2, <1>3, <1>4, <2>2, <2>3 DEF ReadToken, RevokeFamily
<1> QED BY <1>2, <1>3, <1>4 DEF ReadOwner, Rotate

\* Login and a change of password begin families of their own.
LEMMA BeginningsRespect ==
    ASSUME Inv, NEW r \in Request, StoreSession(r) \/ CreateSession(r)
    PROVE  Respects(r)
<1>1. r \notin Rows /\ pc[r] \in {"store", "session"}
  BY FitsNow DEF StoreSession, CreateSession, FitsAt, Done
<1>2. Family(r) = {}
  BY <1>1 DEF Family, Inv, Sound
<1>3. sessions'[r].family = r
  <2>1. r \in Id
    BY DEF Id
  <2>2. DOMAIN sessions = Id
    BY DEF Inv, Types
  <2> QED BY <2>1, <2>2 DEF StoreSession, CreateSession, Revoked, Session
<1>4. pc'[r] = "ok"
  BY OutcomeKnown DEF StoreSession, CreateSession
<1> QED BY <1>2, <1>3, <1>4 DEF Respects, Ended

LEMMA OthersRespect ==
    ASSUME Inv, NEW r \in Request,
           \/ CheckCredentials(r) \/ CountSessions(r) \/ Authenticate(r) \/ ReadUser(r)
           \/ UpdatePassword(r) \/ CheckNumbers(r) \/ InsertUser(r) \/ SwitchUser(r)
           \/ StatementFails(r)
    PROVE  Respects(r)
<1>1. UNCHANGED sessions
  BY DEF CheckCredentials, CountSessions, Authenticate, ReadUser, UpdatePassword, CheckNumbers,
         InsertUser, SwitchUser, StatementFails, tables
<1>2. CASE CheckCredentials(r) \/ CountSessions(r) \/ Authenticate(r) \/ ReadUser(r) \/ UpdatePassword(r)
  <2>1. CASE CheckCredentials(r)
    BY <1>1, <2>1, OutcomeKnown, RespectsQuietly DEF CheckCredentials
  <2>2. CASE CountSessions(r)
    <3>1. \E w : Continue(r, "store", w)
      BY <2>2 DEF CountSessions
    <3>2. pc'[r] = "store"
      BY <3>1, OutcomeKnown
    <3> QED BY <1>1, <3>2, RespectsQuietly
  <2>3. CASE Authenticate(r) \/ UpdatePassword(r)
    BY <1>1, <2>3, OutcomeKnown, RespectsQuietly DEF Authenticate, UpdatePassword
  <2>4. CASE ReadUser(r)
    <3>1. pc'[r] \in {"password", "write", "refused"}
      BY <2>4, OutcomeKnown DEF ReadUser
    <3> QED BY <1>1, <3>1, RespectsQuietly
  <2> QED BY <1>2, <2>1, <2>2, <2>3, <2>4
<1>3. CASE CheckNumbers(r) \/ InsertUser(r) \/ SwitchUser(r) \/ StatementFails(r)
  BY <1>1, <1>3, OutcomeKnown, RespectsQuietly DEF CheckNumbers, InsertUser, SwitchUser, StatementFails
<1> QED BY <1>2, <1>3

LEMMA RevocationsRespect ==
    ASSUME Inv, NEW r \in Request, RevokeAll(r) \/ ResetPassword(r), Kept(r)
    PROVE  Respects(r)
<1>1. r \notin Rows /\ pc[r] \in {"revoke", "write"}
  BY FitsNow DEF RevokeAll, ResetPassword, FitsAt, Done
<1>2. pc'[r] \in {"ok", "session"}
  BY OutcomeKnown DEF RevokeAll, ResetPassword
<1>3. r \notin Rows'
  <2>1. sessions' = Revoked(OwnedBy(call[r].user)) /\ r \in Id
    BY DEF RevokeAll, ResetPassword, Id
  <2>2. sessions'[r] = NoSession
    BY <1>1, <2>1, RevokedFacts DEF Inv
  <2> QED BY <2>2 DEF Rows
<1> QED BY <1>2, <1>3 DEF Respects

LEMMA StepRespects ==
    ASSUME Inv, NEW r \in Request, Step(r), Kept(r)
    PROVE  Respects(r)
BY RefreshRespects, BeginningsRespect, OthersRespect, RevocationsRespect DEF Step

LEMMA EndedStays ==
    ASSUME Inv, [Next]_vars, NEW f \in Id, Ended(f)
    PROVE  Ended(f)'
<1>1. Inv'
  BY NextKeeps
<1>2. CASE UNCHANGED vars
  BY <1>2 DEF vars, Ended, Family, Rows
<1>3. CASE Tick
  BY <1>3 DEF Tick, tables, Ended, Family, Rows
<1>4. CASE \E r \in Request : Step(r)
  BY <1>1, <1>4, StepKeeps, StepRespects, RespectsIsEnough DEF Kept
<1>5. ASSUME NEW r \in Request, NEW c \in Calls, Begin(r, c)
      PROVE  Ended(f)'
  <2>1. Kept(r)
    BY <1>5, BeginKeeps
  <2>2. UNCHANGED sessions /\ pc'[r] = FirstStep(c)
    BY <1>5 DEF Begin, tables, Inv, Types
  <2>3. Respects(r)
    BY <2>2, RespectsQuietly DEF FirstStep
  <2> QED BY <1>1, <2>1, <2>3, RespectsIsEnough DEF Kept
<1> QED BY <1>2, <1>3, <1>4, <1>5 DEF Next

\* No interleaving of logins, refreshes, logouts and changes of users brings the
\* sessions of a family back once they are over, for any number of them.
THEOREM EndedStayEnded == Spec => EndedFamiliesStayEnded
<1>1. Inv /\ [Next]_vars => [\A f \in Id : Ended(f) => Ended(f)']_vars
  BY EndedStays
<1> QED BY <1>1, Invariance, PTL DEF Spec, EndedFamiliesStayEnded

-----------------------------------------------------------------------------
(* The limit of sessions, while handlers do not overlap                     *)

\* What the lone handler relies on: without the session it is about to end,
\* or with none left, the user has room for one more.
Room(r) ==
    \A u \in User :
        /\ pc[r] = "store" /\ call[r].user = u =>
             Cardinality(Live(u) \ {seen[r].oldest}) < MaxSessions
        /\ pc[r] \in {"owner", "rotate"} /\ sessions[call[r].token].user = u =>
             Cardinality(Live(u) \ {call[r].token}) < MaxSessions
        /\ pc[r] = "session" /\ call[r].user = u => Live(u) = {}

Limited == \A u \in User : Cardinality(Live(u)) <= MaxSessions

Serial ==
    /\ IsFiniteSet(Rows)
    /\ alone => /\ \A q, r \in Running : q = r
                /\ Limited
                /\ \A r \in Running : Room(r)

LEMMA StepRuns ==
    ASSUME Inv, NEW r \in Request, Step(r)
    PROVE  r \in Running /\ alone' = alone /\ now' = now
<1>1. /\ \A o : Answer(r, o) => alone' = alone /\ now' = now
      /\ \A s, w : Continue(r, s, w) => alone' = alone /\ now' = now
  BY DEF Answer, Continue
<1>2. CASE CheckCredentials(r) \/ CountSessions(r) \/ StoreSession(r)
  <2>1. CountSessions(r) => pc[r] = "count"
    BY DEF CountSessions
  <2>2. CountSessions(r) => \E w : Continue(r, "store", w)
    BY DEF CountSessions
  <2>3. alone' = alone /\ now' = now
    BY <1>1, <1>2, <2>2 DEF CheckCredentials, StoreSession
  <2> QED BY <1>2, <2>1, <2>3 DEF Running, Done, CheckCredentials, StoreSession
<1>3. CASE ReadToken(r) \/ RevokeFamily(r) \/ ReadOwner(r) \/ Rotate(r)
  BY <1>1, <1>3 DEF ReadToken, RevokeFamily, ReadOwner, Rotate, Running, Done
<1>4. CASE Authenticate(r) \/ ReadUser(r) \/ UpdatePassword(r) \/ RevokeAll(r) \/ CreateSession(r)
  BY <1>1, <1>4 DEF Authenticate, ReadUser, UpdatePassword, RevokeAll, CreateSession, Running, Done
<1>5. CASE ResetPassword(r) \/ CheckNumbers(r) \/ InsertUser(r) \/ SwitchUser(r) \/ StatementFails(r)
  BY <1>1, <1>5 DEF ResetPassword, CheckNumbers, InsertUser, SwitchUser, StatementFails, Running, Done
<1> QED BY <1>2, <1>3, <1>4, <1>5 DEF Step

LEMMA LiveFinite ==
    ASSUME Serial, NEW u, NEW T \in SUBSET Live(u)
    PROVE  IsFiniteSet(T) /\ Cardinality(T) \in Nat /\ Cardinality(T) <= Cardinality(Live(u))
<1>1. Live(u) \subseteq Rows
  BY DEF Live
<1>2. IsFiniteSet(Live(u))
  BY <1>1, FS_Subset DEF Serial
<1> QED BY <1>2, FS_Subset, FS_CardinalityType

\* A session gone makes room for one.
LEMMA OneLess ==
    ASSUME Serial, Limited, NEW u \in User, NEW i \in Live(u)
    PROVE  Cardinality(Live(u) \ {i}) < MaxSessions
<1>1. IsFiniteSet(Live(u)) /\ Cardinality(Live(u)) \in Nat
  BY LiveFinite
<1>2. Cardinality(Live(u) \ {i}) = Cardinality(Live(u)) - 1
  BY <1>1, FS_RemoveElement
<1> QED BY <1>1, <1>2, SessionsAssumption DEF Limited

\* Room for one is room for one.
LEMMA OneMore ==
    ASSUME Serial, NEW u, NEW S \in SUBSET Live(u), Cardinality(S) < MaxSessions,
           NEW r, NEW T \in SUBSET (S \cup {r})
    PROVE  Cardinality(T) <= MaxSessions
<1>1. IsFiniteSet(S) /\ Cardinality(S) \in Nat
  BY LiveFinite
<1>2. IsFiniteSet(S \cup {r}) /\ Cardinality(S \cup {r}) <= Cardinality(S) + 1
  BY <1>1, FS_AddElement
<1>3. Cardinality(T) <= Cardinality(S \cup {r}) /\ Cardinality(T) \in Nat
      /\ Cardinality(S \cup {r}) \in Nat
  BY <1>2, FS_Subset, FS_CardinalityType
<1> QED BY <1>1, <1>2, <1>3, SessionsAssumption

\* No step but an insertion gives a user a live session.
LEMMA LiveShrinks ==
    ASSUME Inv, Inv', NEW r, Grows(r), NEW u
    PROVE  /\ Live(u)' \subseteq Live(u) \cup {r}
           /\ r \notin Rows' => Live(u)' \subseteq Live(u)
           /\ sessions'[r].user # u => Live(u)' \subseteq Live(u)
<1>1. ASSUME NEW i \in Live(u)', i # r
      PROVE  i \in Live(u)
  <2>1. i \in Rows' /\ i \in Rows /\ sessions'[i].iat = sessions[i].iat
        /\ sessions'[i].user = sessions[i].user /\ (sessions[i].revoked => sessions'[i].revoked)
    BY <1>1 DEF Live, Grows
  <2>2. sessions[i].iat \in Nat /\ now \in Nat /\ now' \in Nat /\ now <= now' /\ Ttl \in Nat
    BY <2>1, SessionsAssumption DEF Rows, Inv, Types, SessionRow, Grows
  <2>3. Expired(i) => Expired(i)'
    BY <2>1, <2>2 DEF Expired
  <2> QED BY <1>1, <2>1, <2>3 DEF Live
<1> QED BY <1>1 DEF Live

LEMMA LimitShrinks ==
    ASSUME Serial, Limited, \A u \in User : Live(u)' \subseteq Live(u)
    PROVE  Limited'
<1>1. ASSUME NEW u \in User
      PROVE  Cardinality(Live(u)') <= MaxSessions
  <2>1. Live(u)' \in SUBSET Live(u) /\ Live(u) \in SUBSET Live(u)
    OBVIOUS
  <2>2. /\ Cardinality(Live(u)') \in Nat /\ Cardinality(Live(u)) \in Nat
        /\ Cardinality(Live(u)') <= Cardinality(Live(u))
    BY <2>1, LiveFinite
  <2> QED BY <2>2, SessionsAssumption DEF Limited
<1> QED BY <1>1 DEF Limited

LEMMA SerialLifts ==
    ASSUME Inv, Serial, NEW r \in Request, Step(r), Kept(r),
           alone => Limited' /\ Room(r)'
    PROVE  Serial'
<1>1. r \in Running /\ alone' = alone
  BY StepRuns
<1>2. IsFiniteSet(Rows')
  <2>1. Rows' \in SUBSET (Rows \cup {r})
    BY DEF Kept, Grows
  <2> QED BY <2>1, FS_AddElement, FS_Subset DEF Serial
<1>3. ASSUME alone, NEW q \in Running'
      PROVE  q = r
  <2>1. q # r => q \in Running
    BY <1>3 DEF Running, Kept, Only
  <2> QED BY <1>1, <1>3, <2>1 DEF Serial
<1> QED BY <1>1, <1>2, <1>3 DEF Serial

\* An answer asks for no room.
LEMMA RoomAfter ==
    ASSUME NEW r, pc'[r] \notin {"store", "owner", "rotate", "session"}
    PROVE  Room(r)'
BY DEF Room

LEMMA SerialQuiet ==
    ASSUME Inv, Serial, NEW r \in Request, Step(r), Kept(r), r \notin Rows',
           pc'[r] \notin {"store", "owner", "rotate", "session"}
    PROVE  Serial'
<1>1. \A u \in User : Live(u)' \subseteq Live(u)
  BY LiveShrinks DEF Kept
<1> QED BY <1>1, LimitShrinks, RoomAfter, SerialLifts DEF Serial

\* Reads, refusals, and the writes that begin no session.
LEMMA OthersSerial ==
    ASSUME Inv, Serial, NEW r \in Request, Step(r), Kept(r),
           \/ CheckCredentials(r) \/ RevokeFamily(r) \/ Authenticate(r) \/ ReadUser(r)
           \/ UpdatePassword(r) \/ ResetPassword(r)
           \/ CheckNumbers(r) \/ InsertUser(r) \/ SwitchUser(r) \/ StatementFails(r)
    PROVE  Serial'
<1>1. r \notin Rows /\ r \in Id
  BY StepRuns, FitsNow DEF Running, FitsAt, Id
<1>2. r \notin Rows'
  <2>1. UNCHANGED sessions \/ \E rows : sessions' = Revoked(rows)
    BY DEF CheckCredentials, RevokeFamily, Authenticate, ReadUser, UpdatePassword, ResetPassword,
           CheckNumbers, InsertUser, SwitchUser, StatementFails, tables
  <2>2. sessions'[r] = NoSession
    BY <1>1, <2>1, RevokedFacts DEF Inv, Rows
  <2> QED BY <2>2 DEF Rows
<1>3. pc'[r] \notin {"store", "owner", "rotate", "session"}
  <2>1. CASE CheckCredentials(r) \/ RevokeFamily(r) \/ Authenticate(r) \/ UpdatePassword(r)
    BY <2>1, OutcomeKnown DEF CheckCredentials, RevokeFamily, Authenticate, UpdatePassword
  <2>2. CASE ReadUser(r) \/ ResetPassword(r)
    BY <2>2, OutcomeKnown DEF ReadUser, ResetPassword
  <2>3. CASE CheckNumbers(r) \/ InsertUser(r) \/ SwitchUser(r) \/ StatementFails(r)
    BY <2>3, OutcomeKnown DEF CheckNumbers, InsertUser, SwitchUser, StatementFails
  <2> QED BY <2>1, <2>2, <2>3
<1> QED BY <1>2, <1>3, SerialQuiet

LEMMA SameLive ==
    ASSUME UNCHANGED <<sessions, now>>
    PROVE  Rows' = Rows /\ \A u : Live(u)' = Live(u)
BY DEF Live, Rows, Expired

\* Login looks for the session that has to go.
LEMMA CountSessionsSerial ==
    ASSUME Inv, Serial, NEW r \in Request, CountSessions(r), Kept(r), Step(r)
    PROVE  Serial'
<1> DEFINE who == call[r].user
           go == IF Cardinality(Live(who)) >= MaxSessions THEN Oldest(Live(who)) ELSE {None}
<1>1. PICK i : i \in go /\ Continue(r, "store", [seen[r] EXCEPT !.oldest = i, !.iat = now])
  BY Zenon DEF CountSessions
<1>2. who \in User /\ seen[r] \in Locals /\ Types
  BY FitsNow, CallFacts DEF CountSessions, FitsAt, Done, Inv
<1>3. pc'[r] = "store" /\ call' = call /\ seen'[r].oldest = i
  <2>1. pc'[r] = "store" /\ call' = call /\ seen'[r] = [seen[r] EXCEPT !.oldest = i, !.iat = now]
    BY <1>1, OutcomeKnown
  <2>2. [seen[r] EXCEPT !.oldest = i, !.iat = now].oldest = i
    BY <1>2 DEF Locals
  <2> QED BY <2>1, <2>2
<1>4. (\A u : Live(u)' = Live(u)) /\ Rows' = Rows
  BY SameLive, StepRuns DEF CountSessions, tables
<1>5. ASSUME Limited
      PROVE  Cardinality(Live(who) \ {i}) < MaxSessions
  <2>1. CASE i \in Live(who)
    BY <1>2, <1>5, <2>1, OneLess
  <2>2. CASE i \notin Live(who)
    <3>1. Oldest(Live(who)) \subseteq Live(who)
      BY DEF Oldest
    <3>2. ~(Cardinality(Live(who)) >= MaxSessions)
      BY <1>1, <2>2, <3>1
    <3>3. Cardinality(Live(who)) \in Nat /\ Live(who) \ {i} = Live(who)
      BY <2>2, LiveFinite
    <3> QED BY <3>2, <3>3, SessionsAssumption
  <2> QED BY <2>1, <2>2
<1>6. alone => Room(r)'
  BY <1>3, <1>4, <1>5 DEF Room, Serial
<1>7. alone => Limited'
  BY <1>4 DEF Limited, Serial
<1> QED BY <1>6, <1>7, SerialLifts

\* Refresh looks at its token, which has room in its own place.
LEMMA ReadsOfRefreshSerial ==
    ASSUME Inv, Serial, NEW r \in Request, ReadToken(r) \/ ReadOwner(r), Kept(r), Step(r)
    PROVE  Serial'
<1> DEFINE i == call[r].token
           u == sessions[i].user
<1>1. /\ r \notin Rows /\ i \in Rows /\ u \in User /\ r \in Running /\ UNCHANGED <<sessions, now>>
      /\ sessions[i].revoked \in BOOLEAN
  <2>1. i \in Rows /\ r \notin Rows
    BY FitsNow DEF ReadToken, ReadOwner, FitsAt, Done, Holds
  <2> QED BY <2>1, StepRuns DEF ReadToken, ReadOwner, tables, Rows, Inv, Types, SessionRow
<1>2. (\A w : Live(w)' = Live(w)) /\ Rows' = Rows
  BY <1>1, SameLive
<1>3. CASE pc'[r] \in {"refused", "family"}
  BY <1>1, <1>2, <1>3, SerialQuiet
<1>4. CASE call' = call /\ pc'[r] \in {"owner", "rotate"}
           /\ (alone => Cardinality(Live(u) \ {i}) < MaxSessions)
  <2>1. alone => Room(r)'
    BY <1>1, <1>2, <1>4 DEF Room
  <2>2. alone => Limited'
    BY <1>2 DEF Limited, Serial
  <2> QED BY <2>1, <2>2, SerialLifts
<1>5. CASE ReadToken(r)
  <2>1. CASE ~Expired(i) /\ ~sessions[i].revoked /\ Continue(r, "owner", seen[r])
    <3>1. i \in Live(u)
      BY <1>1, <2>1 DEF Live
    <3> QED BY <1>1, <1>4, <2>1, <3>1, OneLess, OutcomeKnown DEF Serial
  <2>2. CASE Answer(r, "refused") \/ Continue(r, "family", seen[r])
    BY <1>3, <2>2, OutcomeKnown
  <2> QED BY <1>5, <2>1, <2>2 DEF ReadToken
<1>6. CASE ReadOwner(r)
  <2>1. CASE Answer(r, "refused")
    BY <1>3, <2>1, OutcomeKnown
  <2>2. CASE \E w : Continue(r, "rotate", w)
    <3>1. alone => Room(r)
      BY <1>1 DEF Serial
    <3>2. alone => Cardinality(Live(u) \ {i}) < MaxSessions
      BY <1>1, <1>6, <3>1 DEF ReadOwner, Room
    <3> QED BY <1>4, <2>2, <3>2, OutcomeKnown
  <2> QED BY <1>6, <2>1, <2>2 DEF ReadOwner
<1> QED BY <1>5, <1>6

\* Insertions: the session that goes makes room for the one that comes.
LEMMA InsertionSerial ==
    ASSUME Inv, Serial, NEW r \in Request, Step(r), Kept(r), NEW gone, NEW u \in User,
           sessions'[r].user = u, gone \in Rows => sessions'[gone].revoked, gone # r,
           alone => Cardinality(Live(u) \ {gone}) < MaxSessions,
           pc'[r] \in Done
    PROVE  Serial'
<1>1. ASSUME alone, NEW w \in User
      PROVE  Cardinality(Live(w)') <= MaxSessions
  <2>1. CASE w = u
    <3>1. Live(u)' \subseteq Live(u) \cup {r}
      BY LiveShrinks DEF Kept
    <3>2. gone \notin Live(u)'
      <4>1. Rows' \subseteq Rows \cup {r}
        BY DEF Kept, Grows
      <4> QED BY <4>1 DEF Live
    <3>3. Live(u)' \subseteq (Live(u) \ {gone}) \cup {r}
      BY <3>1, <3>2
    <3>4. Live(u) \ {gone} \in SUBSET Live(u) /\ Live(u)' \in SUBSET ((Live(u) \ {gone}) \cup {r})
      BY <3>3
    <3>5. Cardinality(Live(u) \ {gone}) < MaxSessions
      BY <1>1
    <3>6. Cardinality(Live(u)') <= MaxSessions
      BY <3>4, <3>5, OneMore
    <3> QED BY <2>1, <3>6
  <2>2. CASE w # u
    <3>1. Live(w)' \subseteq Live(w)
      BY <2>2, LiveShrinks DEF Kept
    <3>2. Live(w)' \in SUBSET Live(w) /\ Live(w) \in SUBSET Live(w)
      BY <3>1
    <3>3. /\ Cardinality(Live(w)') \in Nat /\ Cardinality(Live(w)) \in Nat
          /\ Cardinality(Live(w)') <= Cardinality(Live(w))
      BY <3>2, LiveFinite
    <3> QED BY <1>1, <3>3, SessionsAssumption DEF Serial, Limited
  <2> QED BY <2>1, <2>2
<1>2. alone => Limited'
  BY <1>1 DEF Limited
<1>3. Room(r)'
  BY RoomAfter DEF Done
<1> QED BY <1>2, <1>3, SerialLifts

LEMMA StoreSessionSerial ==
    ASSUME Inv, Serial, NEW r \in Request, StoreSession(r), Kept(r), Step(r)
    PROVE  Serial'
<1> DEFINE u == call[r].user
           gone == seen[r].oldest
           row == Session(u, r, seen[r].iat, seen[r].under)
<1>1. /\ pc[r] = "store" /\ r \notin Rows /\ r \in Id /\ u \in User /\ r \in Running /\ Types
      /\ Cardinality(Live(u)) \in Nat
  BY FitsNow, CallFacts, StepRuns, LiveFinite DEF StoreSession, FitsAt, Done, Id, Inv
<1>2. sessions' = [Revoked({gone}) EXCEPT ![r] = row] /\ pc'[r] = "ok"
  BY OutcomeKnown DEF StoreSession
<1>3. sessions'[r].user = u
  BY <1>1, <1>2 DEF Revoked, Session
<1>4. alone => Cardinality(Live(u) \ {gone}) < MaxSessions
  BY <1>1 DEF Serial, Room
<1>5. CASE gone # r
  <2>1. gone \in Rows => sessions'[gone].revoked
    <3>1. gone \in Rows => gone \in Id /\ sessions'[gone] = Revoked({gone})[gone]
      BY <1>2, <1>5 DEF Rows, Revoked
    <3> QED BY <1>1, <3>1, RevokedFacts
  <2> QED BY <1>1, <1>2, <1>3, <1>4, <1>5, <2>1, InsertionSerial DEF Done
<1>6. CASE gone = r
  <2>1. Live(u) \ {gone} = Live(u) \ {None}
    BY <1>1, <1>6, SessionsAssumption DEF Live, Rows, Id
  <2>2. None \notin Rows /\ None # r
    BY <1>1, SessionsAssumption DEF Rows, Id
  <2> QED BY <1>1, <1>2, <1>3, <1>4, <2>1, <2>2, InsertionSerial DEF Done
<1> QED BY <1>5, <1>6

LEMMA RotateSerial ==
    ASSUME Inv, Serial, NEW r \in Request, Rotate(r), Kept(r), Step(r)
    PROVE  Serial'
<1> DEFINE i == call[r].token
           u == sessions[i].user
           row == Session(u, sessions[i].family, seen[r].iat, sessions[i].under)
<1>1. /\ pc[r] = "rotate" /\ r \notin Rows /\ i \in Rows /\ r \in Id /\ r \in Running /\ Types
      /\ pc'[r] \in Done
  BY FitsNow, StepRuns, OutcomeKnown DEF Rotate, FitsAt, Done, Holds, Id, Inv
<1>2. u \in User
  BY <1>1 DEF Types, Rows, SessionRow
<1>3. CASE UNCHANGED sessions
  BY <1>1, <1>3, SerialQuiet DEF Rows, Done
<1>4. CASE sessions' = [Revoked({i}) EXCEPT ![r] = row]
  <2>1. sessions'[r].user = u
    BY <1>1, <1>4 DEF Revoked, Session
  <2>2. i # r /\ i \in Id /\ sessions'[i] = Revoked({i})[i]
    BY <1>1, <1>4 DEF Rows, Revoked
  <2>3. sessions'[i].revoked
    BY <1>1, <2>2, RevokedFacts
  <2>4. alone => Cardinality(Live(u) \ {i}) < MaxSessions
    BY <1>1, <1>2 DEF Serial, Room
  <2> QED BY <1>1, <1>2, <2>1, <2>2, <2>3, <2>4, InsertionSerial
<1> QED BY <1>3, <1>4 DEF Rotate

\* Every session of the user is over, and the next is the only one.
LEMMA RevokeAllSerial ==
    ASSUME Inv, Serial, NEW r \in Request, RevokeAll(r), Kept(r), Step(r)
    PROVE  Serial'
<1>0. /\ r \notin Rows /\ r \in Id /\ call[r].user \in User /\ Types
      /\ sessions' = Revoked(OwnedBy(call[r].user)) /\ UNCHANGED <<users, invited, now>>
  BY FitsNow, CallFacts, StepRuns DEF RevokeAll, FitsAt, Done, Id, Inv
<1>u. PICK u \in User : u = call[r].user
  BY <1>0
<1>1. /\ r \notin Rows /\ r \in Id /\ Types
      /\ sessions' = Revoked(OwnedBy(u)) /\ UNCHANGED <<users, invited, now>>
  BY <1>0, <1>u
<1>2. r \notin Rows'
  BY <1>1, RevokedFacts DEF Rows
<1>3. CASE pc'[r] = "ok"
  BY <1>2, <1>3, SerialQuiet
<1>4. CASE pc'[r] = "session" /\ call' = call
  <2>1. Live(u)' = {}
    <3>1. ASSUME NEW j \in Live(u)'
          PROVE  FALSE
      <4>1. j \in Rows /\ sessions[j].user = u
        BY <1>2, <3>1 DEF Live, Kept, Grows
      <4>2. sessions'[j].revoked
        BY <1>1, <4>1, RevokedFacts DEF OwnedBy, Rows
      <4> QED BY <3>1, <4>2 DEF Live
    <3> QED BY <3>1
  <2>2. Room(r)'
    BY <1>u, <1>4, <2>1 DEF Room
  <2>3. \A w \in User : Live(w)' \subseteq Live(w)
    BY <1>2, LiveShrinks DEF Kept
  <2> QED BY <2>2, <2>3, LimitShrinks, SerialLifts DEF Serial
<1>5. Answer(r, "ok") \/ \E w : Continue(r, "session", w)
  BY DEF RevokeAll
<1> QED BY <1>3, <1>4, <1>5, OutcomeKnown

LEMMA CreateSessionSerial ==
    ASSUME Inv, Serial, NEW r \in Request, CreateSession(r), Kept(r), Step(r)
    PROVE  Serial'
<1> DEFINE u == call[r].user
<1>1. /\ pc[r] = "session" /\ r \notin Rows /\ r \in Id /\ u \in User /\ r \in Running /\ Types
      /\ None \notin Rows /\ None # r
  BY FitsNow, CallFacts, StepRuns, SessionsAssumption DEF CreateSession, FitsAt, Done, Id, Inv, Rows
<1>2. sessions'[r].user = u /\ pc'[r] = "ok"
  BY <1>1, OutcomeKnown DEF CreateSession, Session, Types
<1>3. alone => Cardinality(Live(u) \ {None}) < MaxSessions
  <2>1. alone => Live(u) \ {None} = {}
    BY <1>1 DEF Serial, Room
  <2> QED BY <2>1, FS_EmptySet, SessionsAssumption
<1> QED BY <1>1, <1>2, <1>3, InsertionSerial DEF Done

LEMMA StepSerial ==
    ASSUME Inv, Serial, NEW r \in Request, Step(r), Kept(r)
    PROVE  Serial'
BY OthersSerial, CountSessionsSerial, ReadsOfRefreshSerial, StoreSessionSerial, RotateSerial,
   RevokeAllSerial, CreateSessionSerial
   DEF Step

LEMMA BeginSerial ==
    ASSUME Inv, Serial, NEW r \in Request, NEW c \in Calls, Begin(r, c), Kept(r)
    PROVE  Serial'
<1>1. /\ UNCHANGED <<sessions, now>> /\ alone' = (alone /\ Running = {})
      /\ pc'[r] = FirstStep(c)
  BY DEF Begin, tables, Inv, Types
<1>2. Rows' = Rows /\ \A u : Live(u)' = Live(u)
  BY <1>1, SameLive
<1>3. Room(r)'
  BY <1>1, RoomAfter DEF FirstStep
<1>4. ASSUME alone', NEW q \in Running'
      PROVE  q = r
  <2>1. q # r => q \in Running
    BY <1>4 DEF Running, Kept, Only
  <2> QED BY <1>1, <1>4, <2>1
<1> QED BY <1>1, <1>2, <1>3, <1>4 DEF Serial, Limited

LEMMA TickLive ==
    ASSUME Inv, Tick
    PROVE  \A u : Live(u)' \subseteq Live(u)
<1>1. UNCHANGED sessions /\ now' = now + 1 /\ now \in Nat
  BY DEF Tick, tables, Inv, Types
<1>2. ASSUME NEW i \in Rows, Expired(i)
      PROVE  Expired(i)'
  <2>1. sessions[i].iat \in Nat /\ Ttl \in Nat
    BY SessionsAssumption DEF Rows, Inv, Types, SessionRow
  <2> QED BY <1>1, <1>2, <2>1 DEF Expired
<1> QED BY <1>1, <1>2 DEF Live, Rows

LEMMA TickSerial ==
    ASSUME Inv, Serial, Tick
    PROVE  Serial'
<1>1. Inv' /\ UNCHANGED <<tables, pc, call, seen, alone>> /\ now' = now + 1 /\ now \in Nat
  BY TickKeeps DEF Tick, Inv, Types
<1>2. Rows' = Rows /\ Running' = Running
  BY <1>1 DEF Rows, Running, tables
<1>3. \A u : Live(u)' \subseteq Live(u)
  BY TickLive
<1>4. alone => Limited'
  BY <1>3, LimitShrinks DEF Serial
<1>5. ASSUME NEW u \in User, NEW x, Cardinality(Live(u) \ {x}) < MaxSessions
      PROVE  Cardinality(Live(u)' \ {x}) < MaxSessions
  <2>1. Live(u) \ {x} \in SUBSET Live(u) /\ Live(u)' \ {x} \in SUBSET (Live(u) \ {x})
    BY <1>3
  <2>2. /\ Cardinality(Live(u)' \ {x}) \in Nat /\ Cardinality(Live(u) \ {x}) \in Nat
        /\ Cardinality(Live(u)' \ {x}) <= Cardinality(Live(u) \ {x})
    BY <2>1, LiveFinite, FS_Subset, FS_CardinalityType
  <2> QED BY <1>5, <2>2, SessionsAssumption
<1>6. ASSUME NEW r, Room(r)
      PROVE  Room(r)'
  <2>1. pc' = pc /\ call' = call /\ seen' = seen /\ sessions' = sessions
    BY <1>1 DEF tables
  <2> QED BY <1>3, <1>5, <1>6, <2>1 DEF Room
<1> QED BY <1>1, <1>2, <1>4, <1>6 DEF Serial

LEMMA NextSerial ==
    ASSUME Inv, Serial, [Next]_vars
    PROVE  Serial'
<1>1. CASE UNCHANGED vars
  <2>1. Rows' = Rows /\ Running' = Running /\ (\A u : Live(u)' = Live(u))
    BY <1>1, SameLive DEF vars, Running
  <2> QED BY <1>1, <2>1 DEF vars, Serial, Limited, Room
<1>2. CASE Tick
  BY <1>2, TickSerial
<1>3. CASE \E r \in Request : Step(r) \/ \E c \in Calls : Begin(r, c)
  BY <1>3, StepKeeps, BeginKeeps, StepSerial, BeginSerial
<1> QED BY <1>1, <1>2, <1>3 DEF Next

LEMMA InitSerial == Init => Serial
<1> SUFFICES ASSUME Init PROVE Serial
  OBVIOUS
<1>1. PICK owner \in [Old -> {u \in User : users[u] # NoUser /\ ~users[u].first} \cup {None}] :
        /\ \A u \in User : Cardinality({i \in Old : owner[i] = u}) <= MaxSessions
        /\ sessions = [i \in Id |-> IF i \in Old /\ owner[i] # None
                                    THEN Session(owner[i], i, 0, users[owner[i]].password)
                                    ELSE NoSession]
  BY DEF Init
<1>2. Running = {}
  BY DEF Init, Running
<1>3. \A i \in Id : i \notin Old => sessions[i] = NoSession
  BY <1>1
<1>4. Rows \in SUBSET Old
  BY <1>3 DEF Rows
<1>5. IsFiniteSet(Rows)
  BY <1>4, FS_Subset, SessionsAssumption
<1>6. ASSUME NEW u \in User
      PROVE  Cardinality(Live(u)) <= MaxSessions
  <2> DEFINE mine == {i \in Old : owner[i] = u}
  <2>1. ASSUME NEW i \in Live(u)
        PROVE  i \in mine
    <3>1. i \in Old /\ i \in Id /\ sessions[i].user = u /\ sessions[i] # NoSession
      BY <1>4, <2>1 DEF Live, Rows
    <3>2. sessions[i] = Session(owner[i], i, 0, users[owner[i]].password)
      BY <1>1, <3>1
    <3> QED BY <3>1, <3>2 DEF Session
  <2>2. mine \in SUBSET Old /\ Live(u) \in SUBSET mine
    BY <2>1
  <2>3. IsFiniteSet(mine)
    BY <2>2, FS_Subset, SessionsAssumption
  <2>4. /\ Cardinality(mine) \in Nat /\ Cardinality(Live(u)) \in Nat
        /\ Cardinality(Live(u)) <= Cardinality(mine)
    BY <2>2, <2>3, FS_Subset, FS_CardinalityType
  <2>5. Cardinality(mine) <= MaxSessions
    BY <1>1
  <2> QED BY <2>4, <2>5, SessionsAssumption
<1> QED BY <1>2, <1>5, <1>6 DEF Serial, Limited

LEMMA SerialInvariance == Spec => []Serial
BY InitSerial, NextSerial, Invariance, PTL DEF Spec

\* However many logins, refreshes and changes of password there are, one after
\* the other they leave nobody with more live sessions than the limit.
THEOREM SessionLimitHolds == Spec => []SerialSessionLimit
<1>1. Serial => SerialSessionLimit
  BY DEF Serial, Limited, SerialSessionLimit
<1> QED BY <1>1, SerialInvariance, PTL

-----------------------------------------------------------------------------
(* No live session outlives the password it was begun with                  *)

Unfailed == alone /\ \A r \in Request : pc[r] # "failed"

\* r has written a new password and is about to end the sessions under the old.
Changes(r, u) == pc[r] = "revoke" /\ call[r].op = "changePassword" /\ call[r].user = u

Match(u) == \A i \in Live(u) : sessions[i].under = users[u].password

\* What the lone handler has read of a password is what it is now.
Begun(r) ==
    \A u \in User :
        /\ pc[r] \in {"count", "store", "session"} /\ call[r].user = u =>
             seen[r].under = users[u].password
        /\ pc[r] \in {"owner", "rotate"} /\ sessions[call[r].token].user = u =>
             sessions[call[r].token].under = users[u].password
        /\ Changes(r, u) => call[r].new = users[u].password

Matching ==
    Unfailed => /\ \A u \in User : Match(u) \/ \E r \in Running : Changes(r, u)
                /\ \A r \in Running : Begun(r)

\* A step of a lone handler r, after which no statement has failed, is asked
\* for no more than this.
LEMMA MatchingLifts ==
    ASSUME Inv, Serial, Matching, NEW r \in Request, Step(r), Kept(r),
           Unfailed /\ pc'[r] # "failed" =>
               Begun(r)' /\ \A u \in User : Match(u)' \/ Changes(r, u)'
    PROVE  Matching'
<1>1. r \in Running /\ alone' = alone
  BY StepRuns
<1>2. Unfailed' => Unfailed /\ pc'[r] # "failed"
  BY <1>1 DEF Unfailed, Kept, Only, Running, Done
<1>3. ASSUME alone, NEW q \in Running'
      PROVE  q = r
  <2>1. q # r => q \in Running
    BY <1>3 DEF Running, Kept, Only
  <2> QED BY <1>1, <1>3, <2>1 DEF Serial
<1>4. \A u : Changes(r, u)' => r \in Running'
  BY DEF Changes, Running, Done
<1> QED BY <1>1, <1>2, <1>3, <1>4 DEF Matching, Unfailed

\* A lone handler that is changing no password finds all sessions in order.
LEMMA AllMatch ==
    ASSUME Serial, Matching, Unfailed, NEW r \in Running, NEW u \in User, ~Changes(r, u)
    PROVE  Match(u)
BY DEF Serial, Matching, Unfailed

\* Sessions in order stay so unless their user's password is written.
LEMMA MatchStays ==
    ASSUME Inv, NEW r \in Request, Kept(r), NEW u \in User, Match(u),
           users'[u].password = users[u].password,
           r \in Rows' /\ sessions'[r].user = u => sessions'[r].under = users'[u].password
    PROVE  Match(u)'
<1>1. ASSUME NEW i \in Live(u)'
      PROVE  sessions'[i].under = users'[u].password
  <2>1. CASE i = r
    BY <1>1, <2>1 DEF Live
  <2>2. CASE i # r
    <3>1. Live(u)' \subseteq Live(u) \cup {r}
      BY LiveShrinks DEF Kept
    <3>2. i \in Live(u) /\ i \in Rows
      BY <1>1, <2>2, <3>1 DEF Live
    <3> QED BY <3>2 DEF Match, Kept, Grows
  <2> QED BY <2>1, <2>2
<1> QED BY <1>1 DEF Match

\* Steps that write neither a password nor a new row.
LEMMA QuietMatching ==
    ASSUME Inv, Serial, Matching, NEW r \in Request, Step(r), Kept(r),
           UNCHANGED <<users, sessions>>, pc[r] # "revoke",
           Unfailed /\ pc'[r] # "failed" => Begun(r)'
    PROVE  Matching'
<1>1. r \in Running /\ r \notin Rows'
  BY StepRuns, FitsNow DEF Running, FitsAt, Rows
<1>2. ASSUME Unfailed, NEW u \in User
      PROVE  Match(u)'
  <2>1. Match(u)
    BY <1>1, <1>2, AllMatch DEF Changes
  <2> QED BY <1>1, <2>1, MatchStays
<1> QED BY <1>2, MatchingLifts

LEMMA BegunAfter ==
    ASSUME NEW r, pc'[r] \notin {"count", "store", "session", "owner", "rotate", "revoke"}
    PROVE  Begun(r)'
BY DEF Begun, Changes

LEMMA ReadsMatching ==
    ASSUME Inv, Serial, Matching, NEW r \in Request, Step(r), Kept(r),
           \/ CheckCredentials(r) \/ CountSessions(r) \/ ReadToken(r) \/ ReadOwner(r)
           \/ Authenticate(r) \/ ReadUser(r) \/ CheckNumbers(r) \/ StatementFails(r)
    PROVE  Matching'
<1>1. r \in Running /\ FitsAt(r, pc[r], seen[r]) /\ seen[r] \in Locals /\ Types
  BY StepRuns, FitsNow DEF Inv
<1>2. Unfailed => Begun(r)
  BY <1>1 DEF Matching
<1>3. CASE CheckCredentials(r)
  <2> DEFINE what == [Nothing EXCEPT !.under = call[r].given]
  <2>1. UNCHANGED <<users, sessions>> /\ pc[r] # "revoke"
    BY <1>3 DEF CheckCredentials, tables
  <2>2. CASE \E o \in Done : Answer(r, o)
    BY <1>1, <2>1, <2>2, OutcomeKnown, BegunAfter, QuietMatching DEF Done
  <2>3. CASE users[call[r].user].password = call[r].given /\ Continue(r, "count", what)
    <3>1. pc'[r] = "count" /\ call' = call /\ seen'[r] = what
      BY <2>3, OutcomeKnown
    <3>2. what.under = call[r].given
      BY DEF Nothing
    <3>3. Begun(r)'
      BY <2>1, <2>3, <3>1, <3>2 DEF Begun, Changes
    <3> QED BY <2>1, <3>3, QuietMatching
  <2> QED BY <1>3, <2>2, <2>3 DEF CheckCredentials, Done
<1>4. CASE CountSessions(r)
  <2>1. UNCHANGED <<users, sessions>> /\ pc[r] = "count"
    BY <1>4, Zenon DEF CountSessions, tables
  <2>2. PICK i : Continue(r, "store", [seen[r] EXCEPT !.oldest = i, !.iat = now])
    BY <1>4, Zenon DEF CountSessions
  <2>3. pc'[r] = "store" /\ call' = call /\ seen'[r].under = seen[r].under
    <3>1. seen'[r] = [seen[r] EXCEPT !.oldest = i, !.iat = now] /\ pc'[r] = "store" /\ call' = call
      BY <2>2, OutcomeKnown
    <3>2. [seen[r] EXCEPT !.oldest = i, !.iat = now].under = seen[r].under
      BY <1>1 DEF Locals
    <3> QED BY <3>1, <3>2
  <2>4. Unfailed => Begun(r)'
    BY <1>2, <2>1, <2>3 DEF Begun, Changes
  <2> QED BY <2>1, <2>4, QuietMatching
<1>5. CASE ReadToken(r)
  <2> DEFINE i == call[r].token
  <2>1. UNCHANGED <<users, sessions>> /\ pc[r] = "token" /\ i \in Rows /\ sessions[i].user \in User
    BY <1>1, <1>5 DEF ReadToken, tables, FitsAt, Done, Holds, Types, Rows, SessionRow
  <2>2. CASE Answer(r, "refused") \/ Continue(r, "family", seen[r])
    BY <1>1, <2>1, <2>2, OutcomeKnown, BegunAfter, QuietMatching
  <2>3. CASE ~Expired(i) /\ ~sessions[i].revoked /\ Continue(r, "owner", seen[r])
    <3>1. i \in Live(sessions[i].user)
      BY <2>1, <2>3 DEF Live
    <3>2. Unfailed => sessions[i].under = users[sessions[i].user].password
      BY <1>1, <2>1, <3>1, AllMatch DEF Match, Changes
    <3>3. pc'[r] = "owner" /\ call' = call
      BY <2>3, OutcomeKnown
    <3>4. Unfailed => Begun(r)'
      BY <2>1, <3>2, <3>3 DEF Begun, Changes
    <3> QED BY <2>1, <3>4, QuietMatching
  <2> QED BY <1>5, <2>2, <2>3 DEF ReadToken
<1>6. CASE ReadOwner(r)
  <2>1. UNCHANGED <<users, sessions>> /\ pc[r] = "owner"
    BY <1>6 DEF ReadOwner, tables
  <2>2. CASE Answer(r, "refused")
    BY <1>1, <2>1, <2>2, OutcomeKnown, BegunAfter, QuietMatching
  <2>3. CASE \E w : Continue(r, "rotate", w)
    <3>1. pc'[r] = "rotate" /\ call' = call
      BY <2>3, OutcomeKnown
    <3>2. Unfailed => Begun(r)'
      BY <1>2, <2>1, <3>1 DEF Begun, Changes
    <3> QED BY <2>1, <3>2, QuietMatching
  <2> QED BY <1>6, <2>2, <2>3 DEF ReadOwner
<1>7. CASE Authenticate(r)
  <2>1. UNCHANGED <<users, sessions>> /\ pc[r] = "authenticate" /\ call[r].op = "logout"
    BY <1>1, <1>7 DEF Authenticate, tables, FitsAt
  <2>2. pc'[r] = "refused" \/ (pc'[r] = "revoke" /\ call' = call)
    BY <1>7, OutcomeKnown DEF Authenticate
  <2>3. Begun(r)'
    BY <2>1, <2>2 DEF Begun, Changes
  <2> QED BY <2>1, <2>3, QuietMatching
<1>8. CASE ReadUser(r) \/ CheckNumbers(r)
  <2>1. UNCHANGED <<users, sessions>> /\ pc[r] # "revoke"
    BY <1>8 DEF ReadUser, CheckNumbers, tables
  <2>2. pc'[r] \in {"refused", "password", "write", "insert"}
    <3>1. CASE ReadUser(r)
      BY <3>1, OutcomeKnown DEF ReadUser
    <3>2. CASE CheckNumbers(r)
      BY <3>2, OutcomeKnown DEF CheckNumbers
    <3> QED BY <1>8, <3>1, <3>2
  <2> QED BY <2>1, <2>2, BegunAfter, QuietMatching
<1>9. CASE StatementFails(r)
  BY <1>9, OutcomeKnown, MatchingLifts DEF StatementFails
<1> QED BY <1>3, <1>4, <1>5, <1>6, <1>7, <1>8, <1>9

LEMMA UpdatePasswordMatching ==
    ASSUME Inv, Serial, Matching, NEW r \in Request, UpdatePassword(r), Step(r), Kept(r)
    PROVE  Matching'
<1>1. /\ r \in Running /\ pc[r] = "password" /\ call[r].op = "changePassword"
      /\ call[r].user \in User /\ users[call[r].user] \in UserRow /\ r \notin Rows
      /\ users \in [User -> UserRow \cup {NoUser}] /\ UNCHANGED sessions
  BY StepRuns, FitsNow, CallFacts DEF UpdatePassword, FitsAt, Done, Inv, Types
<1>2. pc'[r] = "revoke" /\ call' = call
  BY OutcomeKnown DEF UpdatePassword
<1>3. /\ users'[call[r].user].password = call[r].new
      /\ \A w \in User : w # call[r].user => users'[w] = users[w]
  BY <1>1 DEF UpdatePassword, UserRow
<1>4. Begun(r)'
  BY <1>1, <1>2, <1>3 DEF Begun, Changes
<1>5. r \notin Rows'
  BY <1>1 DEF Rows
<1>6. ASSUME Unfailed, NEW w \in User
      PROVE  Match(w)' \/ Changes(r, w)'
  <2>1. CASE w = call[r].user
    BY <1>1, <1>2, <2>1 DEF Changes
  <2>2. CASE w # call[r].user
    <3>1. Match(w)
      BY <1>1, <1>6, AllMatch DEF Changes
    <3> QED BY <1>3, <1>5, <2>2, <3>1, MatchStays
  <2> QED BY <2>1, <2>2
<1> QED BY <1>4, <1>6, MatchingLifts

\* Ending a user's sessions leaves none to match, and the others as they are.
LEMMA EndingMatching ==
    ASSUME Inv, Serial, Matching, NEW r \in Request, Step(r), Kept(r), NEW u \in User,
           sessions' = Revoked(OwnedBy(u)),
           \A w \in User \ {u} : users'[w] = users[w] /\ ~Changes(r, w),
           Unfailed => Begun(r)'
    PROVE  Matching'
<1>1. r \in Running /\ r \notin Rows /\ r \in Id /\ Types
  BY StepRuns, FitsNow DEF FitsAt, Running, Inv, Id
<1>2. r \notin Rows'
  BY <1>1, RevokedFacts DEF Rows
<1>3. Match(u)'
  <2>1. ASSUME NEW j \in Live(u)'
        PROVE  FALSE
    <3>1. j \in Rows /\ j \in Id /\ sessions[j].user = u
      BY <1>2, <2>1 DEF Live, Kept, Grows, Rows
    <3>2. sessions'[j].revoked
      BY <1>1, <3>1, RevokedFacts DEF OwnedBy
    <3> QED BY <2>1, <3>2 DEF Live
  <2> QED BY <2>1 DEF Match
<1>4. ASSUME Unfailed, NEW w \in User, w # u
      PROVE  Match(w)'
  <2>1. Match(w)
    BY <1>1, <1>4, AllMatch
  <2> QED BY <1>2, <1>4, <2>1, MatchStays
<1> QED BY <1>3, <1>4, MatchingLifts

LEMMA EndingsMatching ==
    ASSUME Inv, Serial, Matching, NEW r \in Request, RevokeAll(r) \/ ResetPassword(r),
           Step(r), Kept(r)
    PROVE  Matching'
<1>1. /\ r \in Running /\ call[r].user \in User /\ pc[r] \in {"revoke", "write"}
      /\ sessions' = Revoked(OwnedBy(call[r].user)) /\ seen[r] \in Locals
  BY StepRuns, FitsNow, CallFacts DEF RevokeAll, ResetPassword, FitsAt, Done
<1>2. \A w \in User \ {call[r].user} : users'[w] = users[w] /\ ~Changes(r, w)
  BY DEF Changes, RevokeAll, ResetPassword, Inv, Types
<1>3. Unfailed => Begun(r)'
  <2>1. CASE ResetPassword(r)
    BY <2>1, OutcomeKnown, BegunAfter DEF ResetPassword
  <2>2. CASE RevokeAll(r) /\ Answer(r, "ok")
    BY <2>2, OutcomeKnown, BegunAfter
  <2>3. CASE /\ RevokeAll(r) /\ call[r].op # "logout"
             /\ Continue(r, "session", [seen[r] EXCEPT !.under = call[r].new, !.iat = now])
    <3>1. /\ pc'[r] = "session" /\ call' = call /\ users' = users
          /\ seen'[r] = [seen[r] EXCEPT !.under = call[r].new, !.iat = now]
      BY <2>3, OutcomeKnown DEF RevokeAll
    <3>2. seen'[r].under = call[r].new
      BY <1>1, <3>1 DEF Locals
    <3>3. Changes(r, call[r].user)
      BY <2>3, FitsNow DEF RevokeAll, Changes, FitsAt
    <3>4. Unfailed => call[r].new = users[call[r].user].password
      BY <1>1, <3>3 DEF Matching, Begun
    <3> QED BY <3>1, <3>2, <3>4 DEF Begun, Changes
  <2> QED BY <2>1, <2>2, <2>3 DEF RevokeAll
<1> QED BY <1>1, <1>2, <1>3, EndingMatching

\* Steps that leave the passwords of all who have sessions, and insert at most
\* one, begun with its user's password.
LEMMA KeptPasswordsMatching ==
    ASSUME Inv, Serial, Matching, NEW r \in Request, Step(r), Kept(r), pc'[r] \in Done,
           pc[r] # "revoke",
           \A u \in User : users'[u].password = users[u].password \/ users[u] = NoUser,
           Unfailed => \A u \in User : r \in Rows' /\ sessions'[r].user = u =>
                                         sessions'[r].under = users'[u].password,
           r \in Rows' => users' = users
    PROVE  Matching'
<1>1. r \in Running
  BY StepRuns
<1>2. ASSUME Unfailed, NEW u \in User
      PROVE  Match(u)'
  <2>1. Match(u)
    BY <1>1, <1>2, AllMatch DEF Changes
  <2>2. CASE users'[u].password = users[u].password
    BY <1>2, <2>1, <2>2, MatchStays
  <2>3. CASE users[u] = NoUser /\ r \notin Rows'
    <3>1. Live(u)' \subseteq Live(u)
      BY <2>3, LiveShrinks DEF Kept
    <3>2. Live(u) = {}
      BY <2>3 DEF Live, Inv, Sound
    <3> QED BY <3>1, <3>2 DEF Match
  <2> QED BY <2>2, <2>3
<1> QED BY <1>2, BegunAfter, MatchingLifts DEF Done

LEMMA UsersMatching ==
    ASSUME Inv, Serial, Matching, NEW r \in Request, InsertUser(r) \/ SwitchUser(r) \/ RevokeFamily(r),
           Step(r), Kept(r)
    PROVE  Matching'
<1>1. /\ r \notin Rows /\ r \in Id /\ pc[r] # "revoke" /\ users \in [User -> UserRow \cup {NoUser}]
      /\ Types
  BY FitsNow DEF InsertUser, SwitchUser, RevokeFamily, FitsAt, Done, Id, Inv, Types
<1>2. r \notin Rows'
  <2>1. UNCHANGED sessions \/ \E rows : sessions' = Revoked(rows)
    BY DEF InsertUser, SwitchUser, RevokeFamily
  <2> QED BY <1>1, <2>1, RevokedFacts DEF Rows
<1>3. pc'[r] \in Done
  BY OutcomeKnown DEF InsertUser, SwitchUser, RevokeFamily, Done
<1>4. \A u \in User : users'[u].password = users[u].password \/ users[u] = NoUser
  BY <1>1 DEF InsertUser, SwitchUser, RevokeFamily, UserRow
<1> QED BY <1>1, <1>2, <1>3, <1>4, KeptPasswordsMatching

LEMMA InsertionsMatching ==
    ASSUME Inv, Serial, Matching, NEW r \in Request,
           StoreSession(r) \/ CreateSession(r) \/ Rotate(r), Step(r), Kept(r)
    PROVE  Matching'
<1>1. /\ r \in Running /\ r \notin Rows /\ r \in Id /\ pc[r] \in {"store", "session", "rotate"}
      /\ FitsAt(r, pc[r], seen[r]) /\ UNCHANGED users /\ DOMAIN sessions = Id
  BY StepRuns, FitsNow DEF StoreSession, CreateSession, Rotate, FitsAt, Done, Id, Inv, Types
<1>2. pc'[r] \in Done
  BY OutcomeKnown DEF StoreSession, CreateSession, Rotate, Done
<1>3. Unfailed => Begun(r)
  BY <1>1 DEF Matching
<1>4. ASSUME Unfailed, NEW u \in User, r \in Rows', sessions'[r].user = u
      PROVE  sessions'[r].under = users[u].password
  <2>1. CASE StoreSession(r) \/ CreateSession(r)
    <3>1. sessions'[r] = Session(call[r].user, r, seen[r].iat, seen[r].under)
      BY <1>1, <2>1 DEF StoreSession, CreateSession, Revoked
    <3>2. pc[r] \in {"store", "session"} /\ sessions'[r].user = call[r].user
          /\ sessions'[r].under = seen[r].under
      BY <2>1, <3>1 DEF Session, StoreSession, CreateSession
    <3> QED BY <1>3, <1>4, <3>2 DEF Begun
  <2>2. CASE Rotate(r)
    <3> DEFINE i == call[r].token
    <3>1. sessions' # sessions
      BY <1>1, <1>4 DEF Rows
    <3>2. sessions'[r] = Session(sessions[i].user, sessions[i].family, seen[r].iat, sessions[i].under)
      BY <1>1, <2>2, <3>1 DEF Rotate, Revoked
    <3>3. pc[r] = "rotate" /\ sessions'[r].user = sessions[i].user
          /\ sessions'[r].under = sessions[i].under
      BY <2>2, <3>2 DEF Session, Rotate
    <3> QED BY <1>3, <1>4, <3>3 DEF Begun
  <2> QED BY <2>1, <2>2
<1> QED BY <1>1, <1>2, <1>4, KeptPasswordsMatching

LEMMA StepMatching ==
    ASSUME Inv, Serial, Matching, NEW r \in Request, Step(r), Kept(r)
    PROVE  Matching'
BY ReadsMatching, UpdatePasswordMatching, EndingsMatching, UsersMatching, InsertionsMatching DEF Step

LEMMA BeginMatching ==
    ASSUME Inv, Serial, Matching, NEW r \in Request, NEW c \in Calls, Begin(r, c), Kept(r)
    PROVE  Matching'
<1>1. /\ UNCHANGED <<users, sessions, now>> /\ alone' = (alone /\ Running = {})
      /\ pc'[r] = FirstStep(c) /\ pc[r] = "idle"
  BY DEF Begin, tables, Inv, Types
<1>2. \A u : Live(u)' = Live(u)
  BY <1>1, SameLive
<1>3. Begun(r)'
  BY <1>1, BegunAfter DEF FirstStep
<1>4. ASSUME alone', NEW q \in Running'
      PROVE  q = r
  <2>1. q # r => q \in Running
    BY <1>4 DEF Running, Kept, Only
  <2> QED BY <1>1, <1>4, <2>1
<1>5. Unfailed' => Unfailed /\ Running = {}
  BY <1>1 DEF Unfailed, Kept, Only
<1>6. Unfailed' => \A u \in User : Match(u)'
  BY <1>1, <1>2, <1>5 DEF Matching, Match
<1> QED BY <1>3, <1>4, <1>6 DEF Matching, Unfailed

LEMMA TickMatching ==
    ASSUME Inv, Serial, Matching, Tick
    PROVE  Matching'
<1>1. Inv' /\ UNCHANGED <<users, sessions, invited, pc, call, seen, alone>> /\ now' = now + 1 /\ now \in Nat
  BY TickKeeps DEF Tick, Inv, Types, tables
<1>2. Rows' = Rows /\ Running' = Running
  BY <1>1 DEF Rows, Running
<1>3. \A u : Live(u)' \subseteq Live(u)
  BY TickLive
<1> QED BY <1>1, <1>2, <1>3 DEF Matching, Unfailed, Match, Changes, Begun

LEMMA NextMatching ==
    ASSUME Inv, Serial, Matching, [Next]_vars
    PROVE  Matching'
<1>1. CASE UNCHANGED vars
  <2>1. Running' = Running /\ (\A u : Live(u)' = Live(u))
    BY <1>1, SameLive DEF vars, Running
  <2> QED BY <1>1, <2>1 DEF vars, Matching, Unfailed, Match, Changes, Begun
<1>2. CASE Tick
  BY <1>2, TickMatching
<1>3. CASE \E r \in Request : Step(r) \/ \E c \in Calls : Begin(r, c)
  BY <1>3, StepKeeps, BeginKeeps, StepMatching, BeginMatching
<1> QED BY <1>1, <1>2, <1>3 DEF Next

LEMMA InitMatching == Init => Matching
<1> SUFFICES ASSUME Init PROVE Matching
  OBVIOUS
<1>1. PICK owner \in [Old -> {u \in User : users[u] # NoUser /\ ~users[u].first} \cup {None}] :
        sessions = [i \in Id |-> IF i \in Old /\ owner[i] # None
                                 THEN Session(owner[i], i, 0, users[owner[i]].password)
                                 ELSE NoSession]
  BY DEF Init
<1>2. Running = {}
  BY DEF Init, Running
<1>3. ASSUME NEW u \in User, NEW i \in Live(u)
      PROVE  sessions[i].under = users[u].password
  <2>1. i \in Id /\ sessions[i].user = u /\ sessions[i] # NoSession
    BY <1>3 DEF Live, Rows
  <2>2. sessions[i] = Session(owner[i], i, 0, users[owner[i]].password)
    BY <1>1, <2>1
  <2> QED BY <2>1, <2>2 DEF Session
<1> QED BY <1>2, <1>3 DEF Matching, Match

LEMMA MatchingInvariance == Spec => []Matching
BY InitMatching, NextMatching, Invariance, SerialInvariance, PTL DEF Spec

\* Once a password is changed or reset no session begun with the one before is
\* live, whatever was called and in whatever order, while calls do not overlap.
THEOREM SessionsMatchPassword == Spec => []SerialSessionsMatchPassword
<1>1. Matching => SerialSessionsMatchPassword
  BY DEF Matching, Unfailed, Match, SerialSessionsMatchPassword
<1> QED BY <1>1, MatchingInvariance, PTL
=============================================================================
