------------------------------ MODULE Sessions ------------------------------
(***************************************************************************)
(* auth.service.ts and the writes of users.service.ts that it depends on:  *)
(* login, refresh, logout, change and reset of a password, creation and    *)
(* switch of a user, and the rows that make a user's sessions.  A user is  *)
(* known by the mobile number, which is unique; a temporary password is    *)
(* any password.                                                           *)
(*                                                                         *)
(* Every call is a request of its own, answered once; every awaited        *)
(* statement is a step, at READ COMMITTED, and may fail.  A transaction    *)
(* whose writes nobody sees before its commit is one step.  A session row  *)
(* has the name of the call that stored it, a family that of the login or  *)
(* password change it began with.  The clock counts seconds, the           *)
(* resolution of a JWT: two refresh tokens of one family signed in one     *)
(* second are the same string and have the same hash.  A refresh token and *)
(* its row expire together.  Access and first-login tokens are not stored; *)
(* that a client has one is all that matters here.                         *)
(***************************************************************************)
EXTENDS Naturals, FiniteSets

CONSTANTS Request, User, Password,
          Old,         \* sessions from before
          MaxSessions, \* MAX_ACTIVE_SESSIONS
          Ttl,         \* lifetime of a refresh token, in seconds
          MaxTime,     \* bound: when the clock stops
          Ops,         \* the operations called in this instance
          None

Calling == {"login", "refresh", "logout", "changePassword", "reset", "create", "activate", "deactivate"}

ASSUME SessionsAssumption ==
    /\ MaxSessions \in Nat \ {0} /\ Ttl \in Nat \ {0} /\ MaxTime \in Nat
    /\ Request \cap Old = {} /\ IsFiniteSet(Old)
    /\ None \notin Request \cup Old \cup User \cup Password \cup Nat
    /\ Ops \subseteq Calling

VARIABLES
    users,      \* [password, active, first] of each user, or NoUser
    sessions,   \* RefreshToken rows, or NoSession
    invited,    \* users who were given a first-login token
    now,        \* the time
    pc, call, seen,
    alone       \* history: no two handlers have been in flight at once so far

vars == <<users, sessions, invited, now, pc, call, seen, alone>>
tables == <<users, sessions, invited>>

Id == Request \cup Old

NoUser == [password |-> None, active |-> FALSE, first |-> FALSE]

UserRow == [password : Password, active : BOOLEAN, first : BOOLEAN]

NoSession == [user |-> None, family |-> None, iat |-> None, at |-> None,
              revoked |-> TRUE, under |-> None]

Rows == {i \in Id : sessions[i] # NoSession}

Expired(i) == now >= sessions[i].iat + Ttl

\* isRevoked = false and expiresAt > now
Live(u) == {i \in Rows : sessions[i].user = u /\ ~sessions[i].revoked /\ ~Expired(i)}

Body(op, who, tokens, kinds, given, new) ==
    [op : {op}, user : who, token : tokens, kind : kinds, given : given, new : new]

Calls ==
    {c \in UNION {
         Body("login", User, {None}, {None}, Password, {None}),
         Body("refresh", {None}, Id, {None}, {None}, {None}),
         Body("logout", User, {None}, {None}, {None}, {None}),
         Body("changePassword", User, {None}, {"access", "first_login"}, Password, Password),
         Body("reset", User, {None}, {None}, {None}, Password),
         Body("create", User, {None}, {"admin", "teacher", "student"}, {None}, Password),
         Body("activate", User, {None}, {None}, {None}, {None}),
         Body("deactivate", User, {None}, {None}, {None}, {None})} : c.op \in Ops}

NoCall == [op |-> "none", user |-> None, token |-> None, kind |-> None,
           given |-> None, new |-> None]

\* what a handler has read: the password it has verified, the session to push
\* out, and the second in which it has signed the new refresh token
Nothing == [under |-> None, oldest |-> None, iat |-> None]

Session(u, f, iat, under) ==
    [user |-> u, family |-> f, iat |-> iat, at |-> now, revoked |-> FALSE, under |-> under]

\* what earlier calls have left
Init ==
    /\ users \in [User -> UserRow \cup {NoUser}]
    /\ now = 0
    /\ \E owner \in [Old -> {u \in User : users[u] # NoUser /\ ~users[u].first} \cup {None}] :
         /\ \A u \in User : Cardinality({i \in Old : owner[i] = u}) <= MaxSessions
         /\ sessions = [i \in Id |-> IF i \in Old /\ owner[i] # None
                                     THEN Session(owner[i], i, 0, users[owner[i]].password)
                                     ELSE NoSession]
    /\ invited = {}
    /\ pc = [r \in Request |-> "idle"]
    /\ call = [r \in Request |-> NoCall]
    /\ seen = [r \in Request |-> Nothing]
    /\ alone = TRUE

Done == {"ok", "refused", "failed"}

Running == {r \in Request : pc[r] \notin Done \cup {"idle"}}

FirstStep(c) == CASE c.op = "login" -> "credentials"
                  [] c.op = "refresh" -> "token"
                  [] c.op = "logout" -> "authenticate"
                  [] c.op = "create" -> "number"
                  [] OTHER -> "user"

\* what the client of a call holds: a refresh token it was given, an access
\* token, which comes with a session, or a first-login token
Holds(c) ==
    /\ c.op = "refresh" => c.token \in Rows
    /\ c.op = "logout" \/ c.kind = "access" => \E i \in Rows : sessions[i].user = c.user
    /\ c.kind = "first_login" => c.user \in invited

Begin(r, c) ==
    /\ pc[r] = "idle" /\ Holds(c)
    /\ call' = [call EXCEPT ![r] = c]
    /\ pc' = [pc EXCEPT ![r] = FirstStep(c)]
    /\ alone' = (alone /\ Running = {})
    /\ UNCHANGED <<tables, now, seen>>

\* an answered call leaves nothing behind but its outcome
Answer(r, outcome) ==
    /\ pc' = [pc EXCEPT ![r] = outcome]
    /\ call' = [call EXCEPT ![r] = NoCall]
    /\ seen' = [seen EXCEPT ![r] = Nothing]
    /\ UNCHANGED <<now, alone>>

Continue(r, s, what) ==
    /\ pc' = [pc EXCEPT ![r] = s]
    /\ seen' = [seen EXCEPT ![r] = what]
    /\ UNCHANGED <<call, now, alone>>

Revoked(rows) == [i \in Id |-> [sessions[i] EXCEPT !.revoked = @ \/ i \in rows]]

-----------------------------------------------------------------------------
(* login                                                                    *)

\* comparePassword stands for bcrypt's verdict.  A user who has to choose a
\* password first gets a token for that and no session.
CheckCredentials(r) ==
    LET u == users[call[r].user] IN
    /\ pc[r] = "credentials"
    /\ IF u.password # call[r].given \/ ~u.active
       THEN Answer(r, "refused") /\ UNCHANGED tables
       ELSE IF u.first
       THEN /\ Answer(r, "ok")
            /\ invited' = invited \cup {call[r].user}
            /\ UNCHANGED <<users, sessions>>
       ELSE /\ Continue(r, "count", [Nothing EXCEPT !.under = call[r].given])
            /\ UNCHANGED tables

Oldest(rows) == {i \in rows : \A j \in rows : sessions[i].at <= sessions[j].at}

\* Mutant of CountSessions: the limit compared with > instead of >=.
CountOneMore(r) ==
    LET live == Live(call[r].user) IN
    /\ pc[r] = "count"
    /\ \E i \in IF Cardinality(live) > MaxSessions THEN Oldest(live) ELSE {None} :
         Continue(r, "store", [seen[r] EXCEPT !.oldest = i, !.iat = now])
    /\ UNCHANGED tables

\* the token is signed, and the transaction reads the live sessions
CountSessions(r) ==
    LET live == Live(call[r].user) IN
    /\ pc[r] = "count"
    /\ \E i \in IF Cardinality(live) >= MaxSessions THEN Oldest(live) ELSE {None} :
         Continue(r, "store", [seen[r] EXCEPT !.oldest = i, !.iat = now])
    /\ UNCHANGED tables

\* revokes the session that has to go and inserts the new one: one commit
StoreSession(r) ==
    /\ pc[r] = "store"
    /\ sessions' = [Revoked({seen[r].oldest}) EXCEPT
                      ![r] = Session(call[r].user, r, seen[r].iat, seen[r].under)]
    /\ Answer(r, "ok")
    /\ UNCHANGED <<users, invited>>

-----------------------------------------------------------------------------
(* refresh                                                                  *)

\* Mutant of ReadToken: a revoked token is not told from a good one.
AcceptRevoked(r) ==
    /\ pc[r] = "token"
    /\ IF Expired(call[r].token) THEN Answer(r, "refused")
       ELSE Continue(r, "owner", seen[r])
    /\ UNCHANGED tables

\* The JWT's own expiry is checked before the row is looked up.  The row of a
\* token that was given to a client is never deleted.
ReadToken(r) ==
    /\ pc[r] = "token"
    /\ IF Expired(call[r].token) THEN Answer(r, "refused")
       ELSE Continue(r, IF sessions[call[r].token].revoked THEN "family" ELSE "owner", seen[r])
    /\ UNCHANGED tables

Family(f) == {i \in Rows : sessions[i].family = f}

\* a token that was revoked before ends all sessions that descend from its login
RevokeFamily(r) ==
    /\ pc[r] = "family"
    /\ sessions' = Revoked(Family(sessions[call[r].token].family))
    /\ Answer(r, "refused")
    /\ UNCHANGED <<users, invited>>

\* include: { user } is a second query; then the new token is signed
ReadOwner(r) ==
    /\ pc[r] = "owner"
    /\ IF Expired(call[r].token) \/ ~users[sessions[call[r].token].user].active
       THEN Answer(r, "refused")
       ELSE Continue(r, "rotate", [seen[r] EXCEPT !.iat = now])
    /\ UNCHANGED tables

\* tokenHash is unique: no session yet of this family and second
HashTaken(f, iat) == \E i \in Family(f) : sessions[i].iat = iat

\* Mutant of Rotate: the hash is not unique.
RotateUnchecked(r) ==
    LET old == sessions[call[r].token] IN
    /\ pc[r] = "rotate"
    /\ sessions' = [Revoked({call[r].token}) EXCEPT
                      ![r] = Session(old.user, old.family, seen[r].iat, old.under)]
    /\ Answer(r, "ok")
    /\ UNCHANGED <<users, invited>>

\* The update names the row by its id only, whatever became of it meanwhile.
\* A taken hash rolls both writes back.
Rotate(r) ==
    LET old == sessions[call[r].token] IN
    /\ pc[r] = "rotate"
    /\ IF HashTaken(old.family, seen[r].iat)
       THEN Answer(r, "refused") /\ UNCHANGED sessions
       ELSE /\ sessions' = [Revoked({call[r].token}) EXCEPT
                             ![r] = Session(old.user, old.family, seen[r].iat, old.under)]
            /\ Answer(r, "ok")
    /\ UNCHANGED <<users, invited>>

-----------------------------------------------------------------------------
(* logout, change and reset of a password, and the switch of a user         *)

\* JwtStrategy.validate
Authenticate(r) ==
    /\ pc[r] = "authenticate"
    /\ IF users[call[r].user].active THEN Continue(r, "revoke", seen[r])
       ELSE Answer(r, "refused")
    /\ UNCHANGED tables

\* the row the other operations begin with, and what they ask of it
ReadUser(r) ==
    LET u == users[call[r].user]
        c == call[r] IN
    /\ pc[r] = "user"
    /\ IF /\ u.active \/ (c.op = "activate" /\ u # NoUser)
          /\ c.kind = "access" => c.given = u.password
          /\ c.op = "changePassword" => c.new # u.password
       THEN Continue(r, IF c.op = "changePassword" THEN "password" ELSE "write", seen[r])
       ELSE Answer(r, "refused")
    /\ UNCHANGED tables

UpdatePassword(r) ==
    LET u == call[r].user IN
    /\ pc[r] = "password"
    /\ users' = [users EXCEPT ![u].password = call[r].new,
                             ![u].first = @ /\ call[r].kind # "first_login"]
    /\ Continue(r, "revoke", seen[r])
    /\ UNCHANGED <<sessions, invited>>

\* Mutant of RevokeAll: the sessions stay.
RevokeNone(r) ==
    /\ pc[r] = "revoke"
    /\ IF call[r].op = "logout" THEN Answer(r, "ok")
       ELSE Continue(r, "session", [seen[r] EXCEPT !.under = call[r].new, !.iat = now])
    /\ UNCHANGED tables

OwnedBy(u) == {i \in Rows : sessions[i].user = u}

\* revokeAllUserTokens: the end of a logout, the middle of a change
RevokeAll(r) ==
    /\ pc[r] = "revoke"
    /\ sessions' = Revoked(OwnedBy(call[r].user))
    /\ IF call[r].op = "logout" THEN Answer(r, "ok")
       ELSE Continue(r, "session", [seen[r] EXCEPT !.under = call[r].new, !.iat = now])
    /\ UNCHANGED <<users, invited>>

\* a changed password begins a session, past the limit if others logged in meanwhile
CreateSession(r) ==
    /\ pc[r] = "session"
    /\ sessions' = [sessions EXCEPT ![r] = Session(call[r].user, r, seen[r].iat, seen[r].under)]
    /\ Answer(r, "ok")
    /\ UNCHANGED <<users, invited>>

\* adminResetPassword: a temporary password, and no session outlives it
ResetPassword(r) ==
    LET u == call[r].user IN
    /\ pc[r] = "write" /\ call[r].op = "reset"
    /\ users' = [users EXCEPT ![u].password = call[r].new, ![u].first = TRUE]
    /\ sessions' = Revoked(OwnedBy(u))
    /\ Answer(r, "ok")
    /\ UNCHANGED invited

\* assertMobileNotTaken; the code of a teacher or student may be taken too
CheckNumbers(r) ==
    /\ pc[r] = "number"
    /\ \/ users[call[r].user] = NoUser /\ Continue(r, "insert", seen[r])
       \/ /\ users[call[r].user] # NoUser \/ call[r].kind # "admin"
          /\ Answer(r, "refused")
    /\ UNCHANGED tables

\* the unique index refuses a number that was taken meanwhile
InsertUser(r) ==
    LET u == call[r].user IN
    /\ pc[r] = "insert"
    /\ IF users[u] # NoUser
       THEN Answer(r, "refused") /\ UNCHANGED users
       ELSE /\ users' = [users EXCEPT ![u] = [password |-> call[r].new, active |-> TRUE, first |-> TRUE]]
            /\ Answer(r, "ok")
    /\ UNCHANGED <<sessions, invited>>

\* no session is revoked: a deactivated user's tokens are refused where they are used
SwitchUser(r) ==
    /\ pc[r] = "write" /\ call[r].op \in {"activate", "deactivate"}
    /\ users' = [users EXCEPT ![call[r].user].active = (call[r].op = "activate")]
    /\ Answer(r, "ok")
    /\ UNCHANGED <<sessions, invited>>

-----------------------------------------------------------------------------

\* a statement fails and rolls its transaction back; earlier commits stay
StatementFails(r) == r \in Running /\ Answer(r, "failed") /\ UNCHANGED tables

Tick ==
    /\ now < MaxTime
    /\ now' = now + 1
    /\ UNCHANGED <<tables, pc, call, seen, alone>>

Step(r) ==
    \/ CheckCredentials(r) \/ CountSessions(r) \/ StoreSession(r)
    \/ ReadToken(r) \/ RevokeFamily(r) \/ ReadOwner(r) \/ Rotate(r)
    \/ Authenticate(r) \/ ReadUser(r) \/ UpdatePassword(r) \/ RevokeAll(r)
    \/ CreateSession(r) \/ ResetPassword(r)
    \/ CheckNumbers(r) \/ InsertUser(r) \/ SwitchUser(r)
    \/ StatementFails(r)

Next ==
    \/ Tick
    \/ \E r \in Request : Step(r) \/ \E c \in Calls : Begin(r, c)

Spec == Init /\ [][Next]_vars

-----------------------------------------------------------------------------
(* Properties                                                               *)

\* Rows have the types of their columns, a refresh token its own hash, and a
\* handler reads only sessions that are stored.
TypeOK ==
    /\ users \in [User -> UserRow \cup {NoUser}]
    /\ \A i \in Rows : /\ sessions[i].user \in User /\ sessions[i].family \in Id
                       /\ sessions[i].at \in Nat /\ sessions[i].under \in Password
                       /\ sessions[i].iat \in 0 .. sessions[i].at
                       /\ sessions[i].revoked \in BOOLEAN
    /\ \A i \in Rows : \A j \in Family(sessions[i].family) \ {i} :
         sessions[j].iat # sessions[i].iat
    /\ invited \subseteq User /\ now \in Nat /\ alone \in BOOLEAN
    /\ \A r \in Running : call[r] \in Calls /\ Holds(call[r])

\* While handlers do not overlap nobody has more live sessions than the limit,
\* whichever way they were begun: login pushes the oldest out, refresh replaces
\* one, a password change ends the rest.
SerialSessionLimit == alone => \A u \in User : Cardinality(Live(u)) <= MaxSessions

\* A live session was begun with the password its user has now: changing or
\* resetting one ends every session under the one before.  It holds while
\* handlers do not overlap and no statement fails: changePassword writes the
\* password, ends the sessions and begins its own in three statements.
SerialSessionsMatchPassword ==
    alone /\ Running = {} /\ (\A r \in Request : pc[r] # "failed") =>
        \A u \in User : \A i \in Live(u) : sessions[i].under = users[u].password

\* sessions of f are over: all are revoked, and no refresh has passed its checks
Ended(f) ==
    /\ \A i \in Family(f) : sessions[i].revoked
    /\ Family(f) # {}
    /\ ~\E r \in Request : /\ pc[r] \in {"owner", "rotate"}
                           /\ sessions[call[r].token].family = f

\* Sessions that are over stay over: neither a refresh, whatever token of the
\* family it is given, nor a login, a change of password or a switch of the
\* user brings them back, in any interleaving.
EndedFamiliesStayEnded == [][\A f \in Id : Ended(f) => Ended(f)']_vars
=============================================================================
