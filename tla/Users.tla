-------------------------------- MODULE Users --------------------------------
(***************************************************************************)
(* users-service: POST /auth/register, /auth/login and /auth/verify over   *)
(* one table of PostgreSQL.                                                *)
(*                                                                         *)
(* The handlers are coroutines of one event loop, and each runs its own    *)
(* transaction, READ COMMITTED, on a connection of the pool: a step is     *)
(* what a handler does from one await of the database to the next.  What   *)
(* the handlers leave to the database is here too: the unique index makes  *)
(* an INSERT wait for a transaction that has inserted the same login, and  *)
(* an UPDATE waits for the row and evaluates its WHERE again.              *)
(*                                                                         *)
(* A hash stands for its password and its scheme.  Other writers of the    *)
(* table change a password to an argon2 hash of another one.               *)
(***************************************************************************)
EXTENDS Integers, FiniteSets

CONSTANTS
  Logins,         \* normalized logins
  Width,          \* characters of a normalized login
  Passwords,      \* [text, length, has: the classes of its characters]
  NoPassword, NoRow, NoToken,
  Registrations,  \* POST /auth/register requests, each of its own user id
  SignIns,        \* POST /auth/login requests
  Verifications,  \* POST /auth/verify requests
  Name,           \* the login a request sends: [login: its normalized form, length]
  Password,       \* the password a request sends
  LegacyPassword, \* passwords of the users, if any, from before argon2
  Lifetime,       \* seconds a token is valid for
  PoolSize,       \* connections of the pool
  Faults,         \* what the environment may do wrong
  MaxChanges,     \* bound: passwords changed by other writers
  MaxTime         \* bound of the clock

Requests    == Registrations \cup SignIns
CharClasses == {"upper", "lower", "digit", "special"}
FaultKinds  == {"db", "lost", "crash", "migration"}

ASSUME LoginsAssumption ==
  /\ Width \in [Logins -> Nat]
  /\ Registrations \cap SignIns = {} /\ Registrations \cap Logins = {}
ASSUME PasswordsAssumption ==
  /\ \A p \in Passwords : p.length \in Nat /\ p.has \subseteq CharClasses
  /\ NoPassword \notin Passwords
ASSUME RequestsAssumption ==
  /\ Name \in [Requests -> [login : Logins, length : Nat]]
  /\ Password \in [Requests -> Passwords]
  /\ "garbage" \notin SignIns
ASSUME LegacyAssumption == \E L \in SUBSET Logins : LegacyPassword \in [L -> Passwords]
ASSUME BoundsAssumption ==
  /\ Lifetime \in Nat /\ PoolSize \in Nat \ {0}
  /\ Faults \subseteq FaultKinds /\ MaxChanges \in Nat /\ MaxTime \in Nat

-----------------------------------------------------------------------------
(* Inputs.                                                                 *)

NormalizeLogin(r) == Name[r].login

(* validate_password_policy: the schema has stripped the blanks before.    *)
ValidPassword(p) == p.length \in 12 .. 128 /\ p.has = CharClasses

ValidLogin(r)        == Name[r].length \in 3 .. 255
ValidRegistration(r) == ValidLogin(r) /\ ValidPassword(Password[r])

(* The mutant forgets that 128 characters may be registered.               *)
Mutant_ValidSignInShort(s) == ValidLogin(s) /\ Password[s].length \in 1 .. 127
ValidSignIn(s) == ValidLogin(s) /\ Password[s].length \in 1 .. 128

(* The users known before argon2 had passwords the policy accepts.         *)
ASSUME LegacyIsValid == \A l \in DOMAIN LegacyPassword : ValidPassword(LegacyPassword[l])

-----------------------------------------------------------------------------
(* The table.                                                              *)

(* The mutant stores the password.                                         *)
Mutant_HashOfPlain(scheme, p) == p
HashOf(scheme, p) == [scheme |-> scheme, password |-> p]
Hashes == [scheme : {"argon2", "pbkdf2"}, password : Passwords]
Row    == [id : Registrations \cup Logins, normalized_login : Logins, password_hash : Hashes]

Deprecated(hash) == hash.scheme = "pbkdf2"

LegacyRows == {[id |-> l, normalized_login |-> l, password_hash |-> HashOf("pbkdf2", LegacyPassword[l])] :
                 l \in DOMAIN LegacyPassword}

(* One revision.  The table, its unique index and the number of the        *)
(* revision appear in one transaction; the mutant runs the statements on   *)
(* their own.                                                              *)
Revision == {"table", "index", "version"}
Mutant_UpgradedStepwise == {{"table"}, Revision}
Upgraded == {Revision}

(* alembic upgrade head; the entry point starts the service even if it     *)
(* fails.                                                                  *)
Migrated(s) == IF s # {} THEN {s}
               ELSE Upgraded \cup (IF "migration" \in Faults THEN {{}} ELSE {})

Tokens == [sub : Registrations \cup Logins, normalized_login : Logins,
           iat : Int, exp : Int, at : Int]

VARIABLES
  rows,      \* the committed rows
  schema,    \* what the migration has created
  service,   \* whether the process runs
  pc,        \* where each registration and each login is
  seen,      \* the row a login has read
  locking,   \* logins whose UPDATE has a row, until they commit
  token,     \* the token a login was answered with
  vpc,       \* what each verification was answered
  shown,     \* the login whose token a verification shows
  clock,     \* half seconds
  changes,   \* passwords changed by other writers
  current,   \* history: the password last set for each login
  expect     \* history: what a login's answer should be

vars == <<rows, schema, service, pc, seen, locking, token, vpc, shown, clock, changes,
          current, expect>>

Registering == {"select", "insert", "commit"}
SigningIn   == {"lookup", "check", "rehash", "commitRehash"}
Working     == Registering \cup SigningIn
Answers     == {"created", "conflict", "token", "refused", "invalid", "failed"}

TypeOK ==
  /\ rows \subseteq Row
  /\ schema \subseteq Revision
  /\ service \in {"up", "down"}
  /\ pc \in [Requests -> Working \cup Answers \cup {"idle"}]
  /\ seen \in [SignIns -> Row \cup {NoRow}]
  /\ locking \subseteq SignIns
  /\ token \in [SignIns -> Tokens \cup {NoToken}]
  /\ vpc \in [Verifications -> {"idle", "active", "inactive"}]
  /\ shown \in [Verifications -> SignIns \cup {"garbage"}]
  /\ clock \in 0 .. MaxTime
  /\ changes \in 0 .. MaxChanges
  /\ current \in [Logins -> Passwords \cup {NoPassword}]
  /\ expect \in [SignIns -> {"any", "right", "wrong"}]

Init ==
  /\ \/ rows = {} /\ schema = {} /\ current = [l \in Logins |-> NoPassword]
     \/ /\ rows = LegacyRows /\ schema = Revision
        /\ current = [l \in Logins |-> IF l \in DOMAIN LegacyPassword THEN LegacyPassword[l]
                                                                      ELSE NoPassword]
  /\ service = "down"
  /\ pc = [r \in Requests |-> "idle"]
  /\ seen = [s \in SignIns |-> NoRow] /\ locking = {}
  /\ token = [s \in SignIns |-> NoToken]
  /\ vpc = [v \in Verifications |-> "idle"] /\ shown = [v \in Verifications |-> "garbage"]
  /\ clock = 0 /\ changes = 0
  /\ expect = [s \in SignIns |-> "any"]

Goto(r, label) == pc' = [pc EXCEPT ![r] = label]

(* A request has a connection from its first statement to its answer.      *)
Connected == {r \in Requests : pc[r] \in Working \ {"select", "lookup"}}
Free      == Cardinality(Connected) < PoolSize

OfLogin(l) == {row \in rows : row.normalized_login = l}

(* The password of a login becomes p: no login in progress is sure of its  *)
(* answer any more.                                                        *)
SetPassword(l, p) ==
  /\ current' = [current EXCEPT ![l] = p]
  /\ expect' = [s \in SignIns |-> IF NormalizeLogin(s) = l THEN "any" ELSE expect[s]]

-----------------------------------------------------------------------------
(* POST /auth/register.                                                    *)

Receive(r) ==
  /\ service = "up" /\ pc[r] = "idle"
  /\ Goto(r, IF ValidRegistration(r) THEN "select" ELSE "invalid")
  /\ UNCHANGED <<rows, schema, service, seen, locking, token, vpc, shown, clock, changes,
                 current, expect>>

(* get_by_normalized_login; without the table the statement fails.         *)
Select(r) ==
  /\ pc[r] = "select" /\ Free
  /\ Goto(r, IF "table" \notin schema THEN "failed"
             ELSE IF OfLogin(NormalizeLogin(r)) = {} THEN "insert" ELSE "conflict")
  /\ UNCHANGED <<rows, schema, service, seen, locking, token, vpc, shown, clock, changes,
                 current, expect>>

(* The registrations an INSERT has to wait for.                            *)
Pending(r) == {o \in Registrations \ {r} : /\ pc[o] = "commit"
                                           /\ NormalizeLogin(o) = NormalizeLogin(r)}

Inserted(r) ==
  \/ Width[NormalizeLogin(r)] > 255 /\ Goto(r, "failed")
  \/ /\ Width[NormalizeLogin(r)] <= 255
     /\ "index" \in schema /\ OfLogin(NormalizeLogin(r)) # {}
     /\ Goto(r, "conflict")
  \/ /\ Width[NormalizeLogin(r)] <= 255
     /\ "index" \notin schema \/ OfLogin(NormalizeLogin(r)) \cup Pending(r) = {}
     /\ Goto(r, "commit")

(* create_user: flush and refresh.  One mutant does not wait for the       *)
(* other transaction, one writes on a second connection.                   *)
Mutant_InsertEager(r) ==
  /\ pc[r] = "insert"
  /\ IF OfLogin(NormalizeLogin(r)) \cup Pending(r) # {} THEN Goto(r, "conflict")
                                                        ELSE Inserted(r)
  /\ UNCHANGED <<rows, schema, service, seen, locking, token, vpc, shown, clock, changes,
                 current, expect>>
Mutant_InsertSecondSession(r) ==
  /\ pc[r] = "insert" /\ Free /\ Inserted(r)
  /\ UNCHANGED <<rows, schema, service, seen, locking, token, vpc, shown, clock, changes,
                 current, expect>>
Insert(r) ==
  /\ pc[r] = "insert" /\ Inserted(r)
  /\ UNCHANGED <<rows, schema, service, seen, locking, token, vpc, shown, clock, changes,
                 current, expect>>

(* The commit takes effect, even if its answer may be lost.                *)
Commit(r) ==
  /\ pc[r] = "commit"
  /\ rows' = rows \cup {[id |-> r, normalized_login |-> NormalizeLogin(r),
                         password_hash |-> HashOf("argon2", Password[r])]}
  /\ SetPassword(NormalizeLogin(r), Password[r])
  /\ Goto(r, "created") \/ ("lost" \in Faults /\ Goto(r, "failed"))
  /\ UNCHANGED <<schema, service, seen, locking, token, vpc, shown, clock, changes>>

-----------------------------------------------------------------------------
(* POST /auth/login.                                                       *)

(* What the answer of a login that begins now should be, unless its        *)
(* password changes meanwhile.                                             *)
Expected(s) ==
  IF current[NormalizeLogin(s)] # Password[s] THEN "wrong"
  ELSE IF ValidLogin(s) THEN "right" ELSE "any"

ReceiveSignIn(s) ==
  /\ service = "up" /\ pc[s] = "idle"
  /\ Goto(s, IF ValidSignIn(s) THEN "lookup" ELSE "invalid")
  /\ expect' = [expect EXCEPT ![s] = Expected(s)]
  /\ UNCHANGED <<rows, schema, service, seen, locking, token, vpc, shown, clock, changes,
                 current>>

Lookup(s) ==
  /\ pc[s] = "lookup" /\ Free
  /\ \/ /\ "table" \notin schema
        /\ Goto(s, "failed") /\ UNCHANGED seen
     \/ /\ "table" \in schema /\ OfLogin(NormalizeLogin(s)) = {}
        /\ Goto(s, "refused") /\ UNCHANGED seen
     \/ \E row \in OfLogin(NormalizeLogin(s)) :
          /\ "table" \in schema
          /\ Goto(s, "check") /\ seen' = [seen EXCEPT ![s] = row]
  /\ UNCHANGED <<rows, schema, service, locking, token, vpc, shown, clock, changes, current,
                 expect>>

(* create_access_token: seconds, rounded down.                             *)
Issue(s) ==
  /\ Goto(s, "token")
  /\ token' = [token EXCEPT ![s] = [sub |-> seen[s].id,
                                    normalized_login |-> seen[s].normalized_login,
                                    iat |-> clock \div 2,
                                    exp |-> (clock + 2 * Lifetime) \div 2,
                                    at |-> clock]]

(* verify_password_and_update, on what was read.                           *)
Check(s) ==
  /\ pc[s] = "check"
  /\ \/ seen[s].password_hash.password # Password[s]
        /\ Goto(s, "refused") /\ UNCHANGED token
     \/ /\ seen[s].password_hash.password = Password[s]
        /\ Deprecated(seen[s].password_hash)
        /\ Goto(s, "rehash") /\ UNCHANGED token
     \/ /\ seen[s].password_hash.password = Password[s]
        /\ ~Deprecated(seen[s].password_hash)
        /\ Issue(s)
  /\ UNCHANGED <<rows, schema, service, seen, locking, vpc, shown, clock, changes, current,
                 expect>>

(* The row the UPDATE finds; the mutant does not compare the hashes.       *)
Mutant_MatchedAny(s) == {row \in rows : row.id = seen[s].id}
Matched(s) == {row \in rows : /\ row.id = seen[s].id
                              /\ row.password_hash = seen[s].password_hash}

(* update_password_hash, when no other transaction has the row.            *)
Locked(id) == \E s \in locking : seen[s].id = id

Rehash(s) ==
  /\ pc[s] = "rehash" /\ ~Locked(seen[s].id)
  /\ locking' = IF Matched(s) # {} THEN locking \cup {s} ELSE locking
  /\ Goto(s, "commitRehash")
  /\ UNCHANGED <<rows, schema, service, seen, token, vpc, shown, clock, changes, current,
                 expect>>

WithHash(id, hash) ==
  {IF row.id = id THEN [row EXCEPT !.password_hash = hash] ELSE row : row \in rows}

(* The mutant closes the session without commit.                           *)
Mutant_CommitRehashNot(s) ==
  /\ pc[s] = "commitRehash"
  /\ locking' = locking \ {s} /\ Issue(s)
  /\ UNCHANGED <<rows, schema, service, seen, vpc, shown, clock, changes, current, expect>>
CommitRehash(s) ==
  /\ pc[s] = "commitRehash"
  /\ rows' = IF s \in locking THEN WithHash(seen[s].id, HashOf("argon2", Password[s])) ELSE rows
  /\ locking' = locking \ {s}
  /\ Issue(s) \/ ("lost" \in Faults /\ Goto(s, "failed") /\ UNCHANGED token)
  /\ UNCHANGED <<schema, service, seen, vpc, shown, clock, changes, current, expect>>

-----------------------------------------------------------------------------
(* POST /auth/verify: no await, and no state but the clock.                *)

(* PyJWT compares the clock with whole seconds; the mutant accepts a token *)
(* at the moment it expires.                                               *)
Mutant_VerifyTokenLate(t) == t.iat * 2 <= clock /\ clock <= t.exp * 2
VerifyToken(t) == t.iat * 2 <= clock /\ clock < t.exp * 2

Mutant_AnswerUnchecked(x) == IF x \in SignIns /\ ~VerifyToken(token[x]) THEN "inactive" ELSE "active"
Answer(x) == IF x \in SignIns /\ VerifyToken(token[x]) THEN "active" ELSE "inactive"

Verify(v) ==
  /\ service = "up" /\ vpc[v] = "idle"
  /\ \E x \in {s \in SignIns : pc[s] = "token"} \cup {"garbage"} :
       /\ shown' = [shown EXCEPT ![v] = x]
       /\ vpc' = [vpc EXCEPT ![v] = Answer(x)]
  /\ UNCHANGED <<rows, schema, service, pc, seen, locking, token, clock, changes, current,
                 expect>>

-----------------------------------------------------------------------------
(* The environment.                                                        *)

(* A statement fails, or no connection is free in time: 500, and the       *)
(* transaction is rolled back.                                             *)
DbError(r) ==
  /\ "db" \in Faults /\ pc[r] \in Working
  /\ Goto(r, "failed") /\ locking' = locking \ {r}
  /\ UNCHANGED <<rows, schema, service, seen, token, vpc, shown, clock, changes, current,
                 expect>>

(* Another writer of the table changes a password, in one statement.       *)
ChangePassword(row, p) ==
  /\ changes < MaxChanges /\ changes' = changes + 1
  /\ ~Locked(row.id)
  /\ ValidPassword(p)
  /\ rows' = WithHash(row.id, HashOf("argon2", p))
  /\ SetPassword(row.normalized_login, p)
  /\ UNCHANGED <<schema, service, pc, seen, locking, token, vpc, shown, clock>>

(* The process dies and its transactions are rolled back; a commit that    *)
(* takes effect as it dies is a lost answer followed by the death.         *)
Crash ==
  /\ "crash" \in Faults /\ service = "up" /\ service' = "down"
  /\ pc' = [r \in Requests |-> IF pc[r] \in Working THEN "failed" ELSE pc[r]]
  /\ locking' = {}
  /\ UNCHANGED <<rows, schema, seen, token, vpc, shown, clock, changes, current, expect>>

Start ==
  /\ service = "down" /\ service' = "up"
  /\ schema' \in Migrated(schema)
  /\ UNCHANGED <<rows, pc, seen, locking, token, vpc, shown, clock, changes, current, expect>>

Tick ==
  /\ clock < MaxTime /\ clock' = clock + 1
  /\ UNCHANGED <<rows, schema, service, pc, seen, locking, token, vpc, shown, changes, current,
                 expect>>

-----------------------------------------------------------------------------
Register(r) == Select(r) \/ Insert(r) \/ Commit(r)
SignIn(s)   == Lookup(s) \/ Check(s) \/ Rehash(s) \/ CommitRehash(s)

Next ==
  \/ \E r \in Registrations : Receive(r) \/ Register(r)
  \/ \E s \in SignIns : ReceiveSignIn(s) \/ SignIn(s)
  \/ \E v \in Verifications : Verify(v)
  \/ \E r \in Requests : DbError(r)
  \/ \E row \in rows, p \in Passwords : ChangePassword(row, p)
  \/ Crash \/ Start \/ Tick

(* While some step is possible, the event loop and the database take one.  *)
Fairness == WF_vars(\/ \E r \in Registrations : Register(r)
                    \/ \E s \in SignIns : SignIn(s))

Spec == Init /\ [][Next]_vars /\ Fairness

-----------------------------------------------------------------------------
(* Properties.                                                             *)

(* A login names one user.  Of the registrations of one login, in any      *)
(* spelling and however they overlap, one is answered 201, and its row is  *)
(* kept, across restarts and migrations.                                   *)
UniqueAccount ==
  /\ \A x, y \in rows : x.normalized_login = y.normalized_login => x = y
  /\ \A r \in Registrations : pc[r] = "created" =>
       /\ \E row \in rows : row.id = r /\ row.normalized_login = NormalizeLogin(r)
       /\ \A o \in Registrations :
            pc[o] = "created" /\ NormalizeLogin(o) = NormalizeLogin(r) => o = r

(* 409 is never the answer for a login nobody has: a registration that     *)
(* loses to another one, which then fails, is not refused.                 *)
ConflictIsReal ==
  \A r \in Registrations : pc[r] = "conflict" => OfLogin(NormalizeLogin(r)) # {}

(* Nothing but a registration and a change sets a password: the rehash of  *)
(* a login that began earlier does not bring the old one back.             *)
PasswordKept == \A row \in rows : row.password_hash.password = current[row.normalized_login]

(* A login with the password last set, by an acknowledged registration or  *)
(* not, is never refused, and one with any other password never gets a     *)
(* token, unless the password changes while it runs.                       *)
LoginDecided ==
  \A s \in SignIns : /\ expect[s] = "right" => pc[s] \notin {"refused", "invalid"}
                     /\ expect[s] = "wrong" => pc[s] # "token"

(* After a login that succeeds, the user has no deprecated hash.           *)
RehashedOnLogin ==
  \A s \in SignIns : pc[s] = "token" =>
    \A row \in OfLogin(NormalizeLogin(s)) : ~Deprecated(row.password_hash)

(* A token reported active is that of a user who logged in, and names it.  *)
ActiveMeansUser ==
  \A v \in Verifications : vpc[v] = "active" =>
    /\ shown[v] \in SignIns
    /\ \E row \in OfLogin(NormalizeLogin(shown[v])) :
         /\ token[shown[v]].sub = row.id
         /\ token[shown[v]].normalized_login = row.normalized_login

(* A token is active for its lifetime, to half a second, and not longer,   *)
(* although both ends are rounded to seconds.                              *)
TokenWindow ==
  [][\A v \in Verifications, s \in SignIns :
       vpc[v] = "idle" /\ vpc'[v] # "idle" /\ shown'[v] = s =>
         /\ vpc'[v] = "active"   => clock - token[s].at < 2 * Lifetime
         /\ vpc'[v] = "inactive" => clock - token[s].at >= 2 * Lifetime - 1]_vars

(* All requests get their answers, although an INSERT waits for another    *)
(* registration, an UPDATE for another login, and all of them for a        *)
(* connection.                                                             *)
AllAnswered == []<>(\A r \in Requests : pc[r] \notin Working)

=============================================================================
