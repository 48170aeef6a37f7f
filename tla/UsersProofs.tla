----------------------------- MODULE UsersProofs -----------------------------
(* Theorems about Users, for every number of requests, users, connections   *)
(* and changes, and every fault.                                            *)
EXTENDS Users, TLAPS

(* The table.  A user id stands for one login, the unique index is there    *)
(* before the first row, and a transaction that has inserted a login is     *)
(* the only one and has no row yet.                                         *)
TableInv ==
  /\ schema \in {{}, Revision}
  /\ rows # {} => schema = Revision
  /\ \A r \in Registrations : pc[r] \in {"insert", "commit"} => schema = Revision
  /\ \A x, y \in rows : x.normalized_login = y.normalized_login => x = y
  /\ \A x \in rows : x.normalized_login = IF x.id \in Registrations THEN NormalizeLogin(x.id)
                                                                   ELSE x.id
  /\ \A r \in Registrations :
       /\ pc[r] = "commit" => OfLogin(NormalizeLogin(r)) \cup Pending(r) = {}
       /\ pc[r] = "created" => \E x \in rows : x.id = r
       /\ pc[r] = "conflict" => OfLogin(NormalizeLogin(r)) # {}

(* Passwords are those last set, and satisfy the policy.                    *)
PasswordInv ==
  /\ PasswordKept
  /\ \A l \in Logins : /\ OfLogin(l) = {} => current[l] = NoPassword
                       /\ current[l] # NoPassword => ValidPassword(current[l])
  /\ \A r \in Registrations : pc[r] \in Registering => ValidPassword(Password[r])

(* What the answer of a login should be, until it has one.                  *)
ExpectInv(s) ==
  pc[s] \in SigningIn => /\ expect[s] = "right" => current[NormalizeLogin(s)] = Password[s]
                         /\ expect[s] = "wrong" => current[NormalizeLogin(s)] # Password[s]

(* What a login has read, and what has become of the row since: a row that  *)
(* is still deprecated is as it was read.                                   *)
SameUser(s) ==
  /\ seen[s] \in Row /\ seen[s].normalized_login = NormalizeLogin(s)
  /\ OfLogin(NormalizeLogin(s)) # {}
  /\ \A x \in OfLogin(NormalizeLogin(s)) :
       x.id = seen[s].id /\ (Deprecated(x.password_hash) => x.password_hash = seen[s].password_hash)

SeenInv(s) ==
  /\ pc[s] \in {"check", "rehash", "commitRehash", "token"} => SameUser(s)
  /\ pc[s] = "check" /\ expect[s] # "any" =>
       seen[s].password_hash.password = current[NormalizeLogin(s)]
  /\ pc[s] \in {"rehash", "commitRehash"} =>
       expect[s] # "wrong" /\ seen[s].password_hash = HashOf("pbkdf2", Password[s])
  /\ pc[s] = "commitRehash" =>
       \A x \in OfLogin(NormalizeLogin(s)) :
         IF s \in locking THEN x.password_hash = seen[s].password_hash
                          ELSE ~Deprecated(x.password_hash)
  /\ s \in locking => /\ pc[s] = "commitRehash"
                      /\ \A t \in locking : seen[t].id = seen[s].id => t = s

(* What a token says, and of whom.                                          *)
IssuedAt(s, t) ==
  [sub |-> seen[s].id, normalized_login |-> seen[s].normalized_login,
   iat |-> t \div 2, exp |-> (t + 2 * Lifetime) \div 2, at |-> t]

TokenInv(s) ==
  pc[s] = "token" =>
    /\ token[s] = IssuedAt(s, token[s].at)
    /\ token[s].at \in 0 .. clock
    /\ \A x \in OfLogin(NormalizeLogin(s)) : ~Deprecated(x.password_hash)

VerifyInv ==
  \A v \in Verifications : vpc[v] = "active" => shown[v] \in SignIns /\ pc[shown[v]] = "token"

SignInInv == \A s \in SignIns : ExpectInv(s) /\ SeenInv(s) /\ TokenInv(s)

UsersInv ==
  /\ TypeOK /\ TableInv /\ PasswordInv /\ SignInInv /\ VerifyInv
  /\ LoginDecided

-----------------------------------------------------------------------------
(* Types.                                                                   *)

LEMMA HashType ==
  ASSUME NEW scheme \in {"argon2", "pbkdf2"}, NEW p \in Passwords
  PROVE  HashOf(scheme, p) \in Hashes
  BY DEF HashOf, Hashes

LEMMA Inputs ==
  /\ \A r \in Requests : NormalizeLogin(r) \in Logins /\ Password[r] \in Passwords
  /\ Registrations \subseteq Requests /\ SignIns \subseteq Requests
  /\ Registrations \cap SignIns = {} /\ Registrations \cap Logins = {}
  BY LoginsAssumption, RequestsAssumption DEF NormalizeLogin, Requests

LEMMA LegacyType ==
  /\ DOMAIN LegacyPassword \subseteq Logins
  /\ \A l \in DOMAIN LegacyPassword : LegacyPassword[l] \in Passwords
  /\ LegacyRows \subseteq Row
<1>1. PICK L \in SUBSET Logins : LegacyPassword \in [L -> Passwords] BY LegacyAssumption
<1>2. \A l \in DOMAIN LegacyPassword : HashOf("pbkdf2", LegacyPassword[l]) \in Hashes
  BY <1>1, HashType
<1> QED BY <1>1, <1>2 DEF LegacyRows, Row

(* Rows after an UPDATE: the same users with the same logins.               *)
LEMMA Updated ==
  ASSUME rows \subseteq Row, NEW id, NEW hash \in Hashes
  PROVE  /\ WithHash(id, hash) \subseteq Row
         /\ \A x \in rows : \E y \in WithHash(id, hash) :
              /\ y.id = x.id /\ y.normalized_login = x.normalized_login
              /\ y.password_hash = IF x.id = id THEN hash ELSE x.password_hash
         /\ \A y \in WithHash(id, hash) : \E x \in rows :
              /\ y.id = x.id /\ y.normalized_login = x.normalized_login
              /\ y.password_hash = IF x.id = id THEN hash ELSE x.password_hash
<1> DEFINE New(x) == IF x.id = id THEN [x EXCEPT !.password_hash = hash] ELSE x
<1>1. ASSUME NEW x \in rows
      PROVE  /\ New(x) \in Row
             /\ New(x).id = x.id /\ New(x).normalized_login = x.normalized_login
             /\ New(x).password_hash = IF x.id = id THEN hash ELSE x.password_hash
  BY DEF Row
<1>2. WithHash(id, hash) = {New(x) : x \in rows} BY DEF WithHash
<1> HIDE DEF New
<1> QED BY <1>1, <1>2

LEMMA MigratedType == ASSUME TypeOK PROVE Migrated(schema) \in SUBSET SUBSET Revision
  BY DEF Migrated, Upgraded, TypeOK

LEMMA IssueType ==
  ASSUME TypeOK, NEW s \in SignIns, Issue(s), seen[s] \in Row
  PROVE  token' \in [SignIns -> Tokens \cup {NoToken}]
  BY BoundsAssumption DEF TypeOK, Issue, Row, Tokens

LEMMA InitType == Init => TypeOK
  BY LegacyType, BoundsAssumption DEF Init, TypeOK, Revision

LEMMA NextType == UsersInv /\ [Next]_vars => TypeOK'
<1> SUFFICES ASSUME UsersInv, [Next]_vars PROVE TypeOK' OBVIOUS
<1> USE Inputs DEF UsersInv, Working, Registering, SigningIn, Answers
<1>0. CASE UNCHANGED vars BY <1>0 DEF TypeOK, vars
<1>1. ASSUME NEW r \in Registrations, Receive(r) \/ Select(r) \/ Insert(r) PROVE TypeOK'
  BY <1>1 DEF TypeOK, Receive, Select, Insert, Inserted, Goto
<1>2. ASSUME NEW r \in Registrations, Commit(r) PROVE TypeOK'
  <2>1. HashOf("argon2", Password[r]) \in Hashes BY HashType
  <2>2. rows' \subseteq Row BY <1>2, <2>1 DEF TypeOK, Commit, Row
  <2> QED BY <1>2, <2>2 DEF TypeOK, Commit, SetPassword, Goto
<1>3. ASSUME NEW s \in SignIns, ReceiveSignIn(s) \/ Lookup(s) \/ Rehash(s) PROVE TypeOK'
  BY <1>3 DEF TypeOK, ReceiveSignIn, Expected, Lookup, OfLogin, Rehash, Goto
<1>4. ASSUME NEW s \in SignIns, Check(s) \/ CommitRehash(s) PROVE TypeOK'
  <2>1. seen[s] \in Row BY <1>4 DEF SignInInv, SeenInv, SameUser, Check, CommitRehash
  <2>2. token' \in [SignIns -> Tokens \cup {NoToken}]
    <3>1. CASE Issue(s) BY <2>1, <3>1, IssueType
    <3>2. CASE UNCHANGED token BY <3>2 DEF TypeOK
    <3> QED BY <1>4, <3>1, <3>2 DEF Check, CommitRehash
  <2>3. rows' \subseteq Row
    <3>1. HashOf("argon2", Password[s]) \in Hashes BY HashType
    <3> QED BY <1>4, <3>1, Updated DEF Check, CommitRehash, TypeOK
  <2>4. pc' \in [Requests -> Working \cup Answers \cup {"idle"}]
    BY <1>4 DEF Check, CommitRehash, Issue, Goto, TypeOK
  <2> QED BY <1>4, <2>2, <2>3, <2>4 DEF TypeOK, Check, CommitRehash
<1>5. ASSUME NEW v \in Verifications, Verify(v) PROVE TypeOK'
  BY <1>5 DEF TypeOK, Verify, Answer
<1>6. ASSUME NEW r \in Requests, DbError(r) PROVE TypeOK'
  BY <1>6 DEF TypeOK, DbError, Goto
<1>7. ASSUME NEW row \in rows, NEW p \in Passwords, ChangePassword(row, p) PROVE TypeOK'
  <2>1. HashOf("argon2", p) \in Hashes BY HashType
  <2>2. rows' \subseteq Row BY <1>7, <2>1, Updated DEF ChangePassword, TypeOK
  <2> QED BY <1>7, <2>2, BoundsAssumption DEF TypeOK, ChangePassword, SetPassword, Row
<1>8. CASE Crash \/ Start
  <2>1. schema' \subseteq Revision BY <1>8, MigratedType DEF Crash, Start, TypeOK
  <2> QED BY <1>8, <2>1 DEF TypeOK, Crash, Start
<1>9. CASE Tick BY <1>9, BoundsAssumption DEF TypeOK, Tick
<1> QED BY <1>0, <1>1, <1>2, <1>3, <1>4, <1>5, <1>6, <1>7, <1>8, <1>9
        DEF Next, Register, SignIn

-----------------------------------------------------------------------------
(* Which rows a login has after a step.                                     *)

LEMMA UpdatedLogin ==
  ASSUME rows \subseteq Row, NEW id, NEW hash \in Hashes, rows' = WithHash(id, hash), NEW l
  PROVE  /\ OfLogin(l)' = {} <=> OfLogin(l) = {}
         /\ \A y \in OfLogin(l)' : \E x \in OfLogin(l) :
              /\ y.id = x.id
              /\ y.password_hash = IF x.id = id THEN hash ELSE x.password_hash
  BY Updated DEF OfLogin

(* A step changes no row, adds the row of a registration, or changes the    *)
(* hash of one user, which no login is about to update.                     *)
NewRow(r) == [id |-> r, normalized_login |-> NormalizeLogin(r),
              password_hash |-> HashOf("argon2", Password[r])]

LEMMA NewRowType == \A r \in Registrations : NewRow(r) \in Row
  BY Inputs, HashType DEF NewRow, Row

RowStep ==
  \/ rows' = rows
  \/ \E r \in Registrations : Commit(r) /\ rows' = rows \cup {NewRow(r)}
  \/ \E id : \E p \in Passwords : rows' = WithHash(id, HashOf("argon2", p))

LEMMA NextRows == UsersInv /\ [Next]_vars => RowStep
<1> SUFFICES ASSUME UsersInv, [Next]_vars PROVE RowStep OBVIOUS
<1> USE Inputs DEF UsersInv
<1>1. ASSUME NEW r \in Registrations, Register(r) PROVE RowStep
  BY <1>1 DEF RowStep, Register, Select, Insert, Commit, NewRow
<1>2. ASSUME NEW s \in SignIns, SignIn(s) PROVE RowStep
  <2>1. CASE CommitRehash(s)
    <3>1. CASE s \in locking
      <4>1. rows' = WithHash(seen[s].id, HashOf("argon2", Password[s]))
        BY <2>1, <3>1 DEF CommitRehash
      <4>2. Password[s] \in Passwords OBVIOUS
      <4> QED BY <4>1, <4>2 DEF RowStep
    <3> QED BY <2>1, <3>1 DEF CommitRehash, RowStep
  <2> QED BY <1>2, <2>1 DEF RowStep, SignIn, Lookup, Check, Rehash
<1>3. ASSUME NEW row \in rows, NEW p \in Passwords, ChangePassword(row, p) PROVE RowStep
  <2>1. rows' = WithHash(row.id, HashOf("argon2", p)) BY <1>3 DEF ChangePassword
  <2> QED BY <2>1 DEF RowStep
<1> QED BY <1>1, <1>2, <1>3 DEF Next, RowStep, vars, Receive, ReceiveSignIn, Verify, DbError,
                                Crash, Start, Tick

LEMMA RowsStay ==
  ASSUME TypeOK, RowStep, NEW l
  PROVE  /\ OfLogin(l)' = {} => OfLogin(l) = {}
         /\ \A x \in rows : \E y \in rows' : y.id = x.id
<1>1. ASSUME NEW id, NEW p \in Passwords, rows' = WithHash(id, HashOf("argon2", p))
      PROVE  /\ OfLogin(l)' = {} => OfLogin(l) = {}
             /\ \A x \in rows : \E y \in rows' : y.id = x.id
  BY <1>1, Updated, HashType DEF OfLogin, TypeOK
<1> QED BY <1>1 DEF RowStep, OfLogin

(* How a registration moves.                                                *)
Moved(r) ==
  /\ pc'[r] \in Registering => pc[r] \in Registering \/ ValidRegistration(r)
  /\ pc'[r] = "insert" => pc[r] = "insert" \/ "table" \in schema
  /\ pc'[r] = "commit" =>
       \/ pc[r] = "commit" /\ ~Commit(r)
       \/ /\ pc[r] = "insert" /\ rows' = rows /\ \A o \in Registrations \ {r} : pc'[o] = pc[o]
          /\ "index" \notin schema \/ OfLogin(NormalizeLogin(r)) \cup Pending(r) = {}
  /\ pc'[r] = "created" => pc[r] = "created" \/ Commit(r)
  /\ pc'[r] = "conflict" => pc[r] = "conflict" \/ OfLogin(NormalizeLogin(r)) # {}

LEMMA RegistrationStep == UsersInv /\ [Next]_vars => \A r \in Registrations : Moved(r)
<1> SUFFICES ASSUME UsersInv, [Next]_vars, NEW r \in Registrations PROVE Moved(r) OBVIOUS
<1> USE Inputs DEF UsersInv, TypeOK, Moved, Registering, Goto
<1>1. ASSUME NEW o \in Registrations, Receive(o) \/ Select(o) PROVE Moved(r)
  BY <1>1 DEF Receive, Select, Commit
<1>2. ASSUME NEW o \in Registrations, Insert(o) PROVE Moved(r)
  BY <1>2 DEF Insert, Inserted, Commit
<1>3. ASSUME NEW o \in Registrations, Commit(o) PROVE Moved(r)
  BY <1>3 DEF Commit
<1>4. ASSUME NEW s \in SignIns, ReceiveSignIn(s) \/ SignIn(s) PROVE Moved(r)
  BY <1>4 DEF ReceiveSignIn, SignIn, Lookup, Check, Rehash, CommitRehash, Issue, Commit
<1>5. ASSUME NEW o \in Requests, DbError(o) PROVE Moved(r)
  BY <1>5 DEF DbError, Commit
<1>6. CASE Crash BY <1>6 DEF Crash, Commit, Working
<1>7. ASSUME pc' = pc PROVE Moved(r) BY <1>7 DEF Commit
<1> QED BY <1>1, <1>2, <1>3, <1>4, <1>5, <1>6, <1>7
        DEF Next, Register, vars, Verify, ChangePassword, Start, Tick

LEMMA TableStep == UsersInv /\ [Next]_vars => TableInv'
<1> SUFFICES ASSUME UsersInv, [Next]_vars PROVE TableInv' OBVIOUS
<1> USE Inputs DEF UsersInv
<1>1. TypeOK' /\ RowStep /\ \A r \in Registrations : Moved(r)
  BY NextType, NextRows, RegistrationStep
<1>2. schema' \in {{}, Revision} /\ (schema = Revision => schema' = Revision)
  <2>1. CASE Start BY <2>1 DEF TableInv, Start, Migrated, Upgraded, Revision
  <2> QED BY <2>1 DEF Next, TableInv, vars, Register, Select, Insert, Commit, SignIn, Lookup,
       Check, Rehash, CommitRehash, Receive, ReceiveSignIn, Verify, ChangePassword, DbError,
       Crash, Tick
<1>3. \A r \in Registrations : pc'[r] \in {"insert", "commit"} => schema' = Revision
  BY <1>1, <1>2 DEF Moved, TableInv, Revision
<1>4. rows' # {} => schema' = Revision
  <2>1. ASSUME NEW r \in Registrations, Commit(r) PROVE schema' = Revision
    BY <2>1, <1>2 DEF Commit, TableInv
  <2>2. ASSUME NEW id, NEW p \in Passwords, rows' = WithHash(id, HashOf("argon2", p)), rows' # {}
        PROVE  rows # {}
    BY <2>2 DEF WithHash
  <2> QED BY <1>1, <1>2, <2>1, <2>2 DEF RowStep, TableInv
<1>5. /\ \A x, y \in rows' : x.normalized_login = y.normalized_login => x = y
      /\ \A x \in rows' : x.normalized_login = IF x.id \in Registrations THEN NormalizeLogin(x.id)
                                                                        ELSE x.id
  <2>1. CASE rows' = rows BY <2>1 DEF TableInv
  <2>2. ASSUME NEW r \in Registrations, Commit(r), rows' = rows \cup {NewRow(r)} PROVE <1>5!1 /\ <1>5!2
    <3>1. \A x \in rows : x.normalized_login # NormalizeLogin(r)
      BY <2>2 DEF Commit, TableInv, OfLogin
    <3> QED BY <2>2, <3>1 DEF TableInv, NewRow
  <2>3. ASSUME NEW id, NEW p \in Passwords, rows' = WithHash(id, HashOf("argon2", p))
        PROVE  <1>5!1 /\ <1>5!2
    <3>1. \A y \in WithHash(id, HashOf("argon2", p)) : y \in Row BY Updated, HashType DEF TypeOK
    <3>2. \A y \in WithHash(id, HashOf("argon2", p)) : \E x \in rows :
              /\ y.id = x.id /\ y.normalized_login = x.normalized_login
              /\ y.password_hash = IF x.id = id THEN HashOf("argon2", p) ELSE x.password_hash
      BY Updated, HashType DEF TypeOK
    <3>3. ASSUME NEW y \in rows', NEW z \in rows', y.normalized_login = z.normalized_login
          PROVE  y = z
      BY <2>3, <3>1, <3>2, <3>3 DEF TableInv, Row
    <3> QED BY <2>3, <3>2, <3>3 DEF TableInv
  <2> QED BY <1>1, <2>1, <2>2, <2>3 DEF RowStep
<1>6. ASSUME NEW r \in Registrations, pc'[r] = "commit"
      PROVE  (OfLogin(NormalizeLogin(r)) \cup Pending(r))' = {}
  <2>1. CASE pc[r] = "insert"
    BY <1>1, <1>6, <2>1 DEF Moved, TableInv, Pending, OfLogin, Revision
  <2>2. CASE pc[r] = "commit" /\ ~Commit(r)
    <3>1. \A o \in Registrations \ {r} : NormalizeLogin(o) = NormalizeLogin(r) => pc[o] # "commit"
      BY <2>2 DEF TableInv, Pending
    <3>2. ASSUME NEW o \in Registrations \ {r}, NormalizeLogin(o) = NormalizeLogin(r), pc'[o] = "commit"
          PROVE  FALSE
      BY <1>1, <2>2, <3>1, <3>2 DEF Moved, TableInv, Pending, Revision
    <3>3. OfLogin(NormalizeLogin(r)) = {} BY <2>2 DEF TableInv
    <3>4. OfLogin(NormalizeLogin(r))' = {}
      <4>1. ASSUME NEW o \in Registrations, Commit(o), rows' = rows \cup {NewRow(o)}
            PROVE  OfLogin(NormalizeLogin(r))' = {}
        <5>1. NormalizeLogin(o) # NormalizeLogin(r) BY <2>2, <3>1, <4>1 DEF Commit
        <5> QED BY <3>3, <4>1, <5>1 DEF OfLogin, NewRow
      <4>2. ASSUME NEW id, NEW p \in Passwords, rows' = WithHash(id, HashOf("argon2", p))
            PROVE  OfLogin(NormalizeLogin(r))' = {}
        BY <3>3, <4>2, UpdatedLogin, HashType DEF TypeOK
      <4> QED BY <1>1, <3>3, <4>1, <4>2 DEF RowStep, OfLogin
    <3> QED BY <3>2, <3>4 DEF Pending
  <2> QED BY <1>1, <1>6, <2>1, <2>2 DEF Moved
<1>7. ASSUME NEW r \in Registrations, pc'[r] = "created" PROVE \E x \in rows' : x.id = r
  <2>1. CASE Commit(r)
    <3>1. rows' = rows \cup {NewRow(r)} BY <2>1 DEF Commit, NewRow
    <3>2. NewRow(r).id = r BY DEF NewRow
    <3> QED BY <3>1, <3>2
  <2> QED BY <1>1, <1>7, <2>1, RowsStay DEF Moved, TableInv
<1>8. ASSUME NEW r \in Registrations, pc'[r] = "conflict" PROVE OfLogin(NormalizeLogin(r))' # {}
  BY <1>1, <1>8, RowsStay DEF Moved, TableInv
<1> QED BY <1>2, <1>3, <1>4, <1>5, <1>6, <1>7, <1>8 DEF TableInv

-----------------------------------------------------------------------------
(* Passwords.                                                               *)

LEMMA OneUser ==
  ASSUME UsersInv
  PROVE  \A x, y \in rows : x.id = y.id <=> x.normalized_login = y.normalized_login
  BY DEF UsersInv, TableInv

LEMMA SeenRow ==
  ASSUME UsersInv, NEW s \in SignIns, SameUser(s)
  PROVE  \A x \in rows : x.id = seen[s].id <=> x \in OfLogin(NormalizeLogin(s))
  BY OneUser DEF SameUser, OfLogin

(* The hash a login writes is of the password the row has.                  *)
LEMMA RehashKeeps ==
  ASSUME UsersInv, NEW s \in SignIns, CommitRehash(s), s \in locking
  PROVE  /\ rows' = WithHash(seen[s].id, HashOf("argon2", Password[s]))
         /\ \A x \in OfLogin(NormalizeLogin(s)) : x.password_hash = HashOf("pbkdf2", Password[s])
  BY DEF UsersInv, SignInInv, SeenInv, CommitRehash

LEMMA KeptStep == UsersInv /\ [Next]_vars => PasswordKept'
<1> SUFFICES ASSUME UsersInv, [Next]_vars PROVE PasswordKept' OBVIOUS
<1> USE Inputs DEF UsersInv
<1>1. CASE UNCHANGED <<rows, current>> BY <1>1 DEF PasswordInv, PasswordKept
<1>2. ASSUME NEW r \in Registrations, Commit(r) PROVE PasswordKept'
  <2>1. rows' = rows \cup {NewRow(r)} BY <1>2 DEF Commit, NewRow
  <2>2. \A x \in rows : x.normalized_login # NormalizeLogin(r)
    BY <1>2 DEF Commit, TableInv, OfLogin
  <2>3. current' = [current EXCEPT ![NormalizeLogin(r)] = Password[r]]
    BY <1>2 DEF Commit, SetPassword
  <2>4. \A x \in rows : x.normalized_login \in Logins BY DEF TypeOK, Row
  <2> QED BY <2>1, <2>2, <2>3, <2>4 DEF PasswordInv, PasswordKept, NewRow, HashOf, TypeOK
<1>3. ASSUME NEW s \in SignIns, CommitRehash(s), s \in locking PROVE PasswordKept'
  <2>1. SameUser(s) BY <1>3 DEF SignInInv, SeenInv
  <2>2. ASSUME NEW y \in rows' PROVE y.password_hash.password = current'[y.normalized_login]
    <3>1. PICK x \in rows : /\ y.normalized_login = x.normalized_login
                           /\ y.password_hash = IF x.id = seen[s].id THEN HashOf("argon2", Password[s])
                                                                      ELSE x.password_hash
      BY <1>3, RehashKeeps, Updated, HashType DEF TypeOK
    <3>2. y.password_hash.password = x.password_hash.password
      <4>1. CASE x.id = seen[s].id
        <5>1. x \in OfLogin(NormalizeLogin(s)) BY <2>1, <4>1, SeenRow
        <5>2. x.password_hash = HashOf("pbkdf2", Password[s]) BY <1>3, <5>1, RehashKeeps
        <5> QED BY <3>1, <4>1, <5>2 DEF HashOf
      <4> QED BY <3>1, <4>1
    <3> QED BY <1>3, <3>1, <3>2 DEF CommitRehash, PasswordInv, PasswordKept
  <2> QED BY <2>2 DEF PasswordKept
<1>4. ASSUME NEW row \in rows, NEW p \in Passwords, ChangePassword(row, p) PROVE PasswordKept'
  <2>1. ASSUME NEW y \in rows' PROVE y.password_hash.password = current'[y.normalized_login]
    <3>1. PICK x \in rows : /\ y.normalized_login = x.normalized_login
                           /\ y.password_hash = IF x.id = row.id THEN HashOf("argon2", p)
                                                                 ELSE x.password_hash
      BY <1>4, Updated, HashType DEF TypeOK, ChangePassword
    <3>2. current' = [current EXCEPT ![row.normalized_login] = p]
      BY <1>4 DEF ChangePassword, SetPassword
    <3>3. x.normalized_login \in Logins BY DEF TypeOK, Row
    <3> QED BY <3>1, <3>2, <3>3, OneUser DEF PasswordInv, PasswordKept, HashOf, TypeOK
  <2> QED BY <2>1 DEF PasswordKept
<1>5. ASSUME NEW s \in SignIns, SignIn(s) PROVE PasswordKept'
  <2>1. CASE CommitRehash(s) /\ s \in locking BY <1>3, <2>1
  <2> QED BY <1>1, <1>5, <2>1 DEF SignIn, Lookup, Check, Rehash, CommitRehash
<1> QED BY <1>1, <1>2, <1>4, <1>5
        DEF Next, vars, Receive, ReceiveSignIn, Register, Select, Insert, Verify, DbError, Crash,
            Start, Tick

LEMMA PasswordStep == UsersInv /\ [Next]_vars => PasswordInv'
<1> SUFFICES ASSUME UsersInv, [Next]_vars PROVE PasswordInv' OBVIOUS
<1> USE Inputs DEF UsersInv
<1>1. TypeOK' /\ RowStep /\ PasswordKept' /\ \A r \in Registrations : Moved(r)
  BY NextType, NextRows, KeptStep, RegistrationStep
<1>2. \A r \in Registrations : pc'[r] \in Registering => ValidPassword(Password[r])
  BY <1>1 DEF Moved, PasswordInv, ValidRegistration
<1>3. \/ UNCHANGED current
      \/ \E r \in Registrations : Commit(r)
      \/ \E row \in rows, p \in Passwords : ChangePassword(row, p)
  BY DEF Next, vars, Receive, ReceiveSignIn, Register, Select, Insert, SignIn, Lookup, Check,
         Rehash, CommitRehash, Verify, DbError, Crash, Start, Tick
<1>4. ASSUME NEW l \in Logins
      PROVE  /\ OfLogin(l)' = {} => current'[l] = NoPassword
             /\ current'[l] # NoPassword => ValidPassword(current'[l])
  <2>1. CASE UNCHANGED current BY <1>1, <2>1, RowsStay DEF PasswordInv
  <2>2. ASSUME NEW r \in Registrations, Commit(r) PROVE <1>4!2
    <3>1. rows' = rows \cup {NewRow(r)} BY <2>2 DEF Commit, NewRow
    <3>2. OfLogin(NormalizeLogin(r))' # {}
      <4>1. NewRow(r) \in rows' /\ NewRow(r).normalized_login = NormalizeLogin(r)
        BY <3>1 DEF NewRow
      <4> QED BY <4>1 DEF OfLogin
    <3>3. current' = [current EXCEPT ![NormalizeLogin(r)] = Password[r]]
      BY <2>2 DEF Commit, SetPassword
    <3>4. ValidPassword(Password[r]) BY <2>2 DEF Commit, Registering, PasswordInv
    <3> QED BY <1>1, <3>2, <3>3, <3>4, RowsStay DEF PasswordInv, TypeOK
  <2>3. ASSUME NEW row \in rows, NEW p \in Passwords, ChangePassword(row, p) PROVE <1>4!2
    <3>1. current' = [current EXCEPT ![row.normalized_login] = p]
      BY <2>3 DEF ChangePassword, SetPassword
    <3>2. OfLogin(row.normalized_login)' # {} BY <1>1, RowsStay DEF OfLogin
    <3>3. ValidPassword(p) BY <2>3 DEF ChangePassword
    <3> QED BY <1>1, <3>1, <3>2, <3>3, RowsStay DEF PasswordInv, TypeOK
  <2> QED BY <1>3, <2>1, <2>2, <2>3
<1> QED BY <1>1, <1>2, <1>4 DEF PasswordInv

-----------------------------------------------------------------------------
(* Logins.                                                                  *)

(* A step that is not one of the login itself.                              *)
Rests(s) ==
  /\ pc'[s] = pc[s] /\ seen'[s] = seen[s] /\ token'[s] = token[s]
  /\ s \in locking' <=> s \in locking
  /\ ~CommitRehash(s)
Fails(s) == pc'[s] = "failed" /\ s \notin locking'
Moves(s) == ReceiveSignIn(s) \/ Lookup(s) \/ Check(s) \/ Rehash(s) \/ CommitRehash(s)

LEMMA SignInStep ==
  UsersInv /\ [Next]_vars => \A s \in SignIns : Rests(s) \/ Fails(s) \/ Moves(s)
<1> SUFFICES ASSUME UsersInv, [Next]_vars, NEW s \in SignIns, ~Moves(s)
             PROVE  Rests(s) \/ Fails(s)
  OBVIOUS
<1> USE Inputs DEF UsersInv, TypeOK, Rests, Fails, Goto
<1>1. ASSUME NEW r \in Registrations, Receive(r) \/ Register(r) PROVE Rests(s)
  BY <1>1 DEF Receive, Register, Select, Insert, Inserted, Commit, Moves
<1>2. ASSUME NEW t \in SignIns, t # s, ReceiveSignIn(t) \/ SignIn(t) PROVE Rests(s)
  BY <1>2 DEF ReceiveSignIn, SignIn, Lookup, Check, Rehash, CommitRehash, Issue, Moves
<1>3. ASSUME NEW r \in Requests, DbError(r) PROVE Rests(s) \/ Fails(s)
  BY <1>3 DEF DbError, Moves
<1>4. CASE Crash
  BY <1>4 DEF Crash, Working, SigningIn, Moves, SignInInv, SeenInv
<1>5. ASSUME UNCHANGED <<pc, seen, token, locking>> PROVE Rests(s)
  BY <1>5 DEF Moves
<1> QED BY <1>1, <1>2, <1>3, <1>4, <1>5
        DEF Next, vars, Moves, SignIn, Verify, ChangePassword, Start, Tick

(* The rows of a login that has one: as they were, or with a new hash.      *)
LEMMA LoginRows ==
  ASSUME UsersInv, [Next]_vars, NEW l, OfLogin(l) # {}
  PROVE  /\ OfLogin(l)' # {}
         /\ \A y \in OfLogin(l)' : \E x \in OfLogin(l) :
              /\ y.id = x.id
              /\ y.password_hash = x.password_hash \/ ~Deprecated(y.password_hash)
<1> USE Inputs DEF UsersInv
<1>1. TypeOK' /\ RowStep BY NextType, NextRows
<1>2. ASSUME NEW r \in Registrations, Commit(r), rows' = rows \cup {NewRow(r)}
      PROVE  OfLogin(l)' = OfLogin(l)
  <2>1. NormalizeLogin(r) # l BY <1>2 DEF Commit, TableInv
  <2> QED BY <1>2, <2>1 DEF OfLogin, NewRow
<1>3. ASSUME NEW id, NEW p \in Passwords, rows' = WithHash(id, HashOf("argon2", p)), NEW y \in OfLogin(l)'
      PROVE  \E x \in OfLogin(l) :
               /\ y.id = x.id
               /\ y.password_hash = x.password_hash \/ ~Deprecated(y.password_hash)
  <2>1. PICK x \in OfLogin(l) :
          /\ y.id = x.id
          /\ y.password_hash = IF x.id = id THEN HashOf("argon2", p) ELSE x.password_hash
    BY <1>3, UpdatedLogin, HashType DEF TypeOK
  <2> QED BY <2>1 DEF Deprecated, HashOf
<1>4. OfLogin(l)' # {} BY <1>1, RowsStay
<1> QED BY <1>1, <1>2, <1>3, <1>4 DEF RowStep, OfLogin

(* The row an UPDATE has stays as it is until the login commits.            *)
LEMMA LockedRows ==
  ASSUME UsersInv, [Next]_vars, NEW s \in SignIns, s \in locking, ~CommitRehash(s)
  PROVE  \A y \in OfLogin(NormalizeLogin(s))' : y.password_hash = seen[s].password_hash
<1> USE Inputs DEF UsersInv
<1>1. pc[s] = "commitRehash" /\ SameUser(s) BY DEF SignInInv, SeenInv
<1>2. \A x \in OfLogin(NormalizeLogin(s)) : x.password_hash = seen[s].password_hash /\ x.id = seen[s].id
  BY <1>1 DEF SignInInv, SeenInv, SameUser
<1>3. CASE rows' = rows BY <1>2, <1>3 DEF OfLogin
<1>4. ASSUME NEW r \in Registrations, Commit(r) PROVE OfLogin(NormalizeLogin(s))' = OfLogin(NormalizeLogin(s))
  <2>1. rows' = rows \cup {NewRow(r)} BY <1>4 DEF Commit, NewRow
  <2>2. NormalizeLogin(r) # NormalizeLogin(s) BY <1>1, <1>4 DEF Commit, TableInv, SameUser
  <2> QED BY <2>1, <2>2 DEF OfLogin, NewRow
<1>5. ASSUME NEW id, id # seen[s].id, NEW p \in Passwords, rows' = WithHash(id, HashOf("argon2", p)),
             NEW y \in OfLogin(NormalizeLogin(s))'
      PROVE  y.password_hash = seen[s].password_hash
  <2>1. PICK x \in OfLogin(NormalizeLogin(s)) :
          /\ y.id = x.id
          /\ y.password_hash = IF x.id = id THEN HashOf("argon2", p) ELSE x.password_hash
    BY <1>5, UpdatedLogin, HashType DEF TypeOK
  <2> QED BY <1>2, <1>5, <2>1
<1>6. ASSUME NEW t \in SignIns, CommitRehash(t), t \in locking
      PROVE  seen[t].id # seen[s].id /\ rows' = WithHash(seen[t].id, HashOf("argon2", Password[t]))
  BY <1>6 DEF CommitRehash, SignInInv, SeenInv
<1>7. ASSUME NEW row \in rows, NEW p \in Passwords, ChangePassword(row, p)
      PROVE  row.id # seen[s].id /\ rows' = WithHash(row.id, HashOf("argon2", p))
  BY <1>7 DEF ChangePassword, Locked
<1>8. CASE \E t \in SignIns : CommitRehash(t) /\ t \in locking BY <1>5, <1>6, <1>8
<1>9. CASE \E row \in rows, p \in Passwords : ChangePassword(row, p) BY <1>5, <1>7, <1>9
<1>10. CASE \E r \in Registrations : Commit(r) BY <1>2, <1>4, <1>10
<1> QED BY <1>3, <1>8, <1>9, <1>10
        DEF Next, vars, Receive, ReceiveSignIn, Register, Select, Insert, SignIn, Lookup, Check,
            Rehash, CommitRehash, Verify, DbError, Crash, Start, Tick

(* What is expected of a login changes only with its password.              *)
LEMMA ExpectMoves ==
  ASSUME UsersInv, [Next]_vars, NEW s \in SignIns
  PROVE  \/ expect'[s] = expect[s] /\ current'[NormalizeLogin(s)] = current[NormalizeLogin(s)]
         \/ expect'[s] = "any"
         \/ ReceiveSignIn(s)
<1> USE Inputs DEF UsersInv, TypeOK
<1>1. CASE UNCHANGED <<expect, current>> BY <1>1
<1>2. ASSUME NEW r \in Registrations, Commit(r) PROVE \/ expect'[s] = expect[s] /\ current'[NormalizeLogin(s)] = current[NormalizeLogin(s)]
                                                     \/ expect'[s] = "any"
  BY <1>2 DEF Commit, SetPassword
<1>3. ASSUME NEW row \in rows, NEW p \in Passwords, ChangePassword(row, p)
      PROVE  \/ expect'[s] = expect[s] /\ current'[NormalizeLogin(s)] = current[NormalizeLogin(s)]
             \/ expect'[s] = "any"
  BY <1>3 DEF ChangePassword, SetPassword
<1>4. ASSUME NEW t \in SignIns, t # s, ReceiveSignIn(t)
      PROVE  expect'[s] = expect[s] /\ current'[NormalizeLogin(s)] = current[NormalizeLogin(s)]
  BY <1>4 DEF ReceiveSignIn
<1> QED BY <1>1, <1>2, <1>3, <1>4
        DEF Next, vars, Receive, Register, Select, Insert, SignIn, Lookup, Check, Rehash,
            CommitRehash, Verify, DbError, Crash, Start, Tick

LEMMA ExpectStep ==
  ASSUME UsersInv, [Next]_vars, NEW s \in SignIns
  PROVE  ExpectInv(s)'
<1> USE Inputs DEF UsersInv, TypeOK
<1>1. CASE ReceiveSignIn(s) BY <1>1 DEF ReceiveSignIn, Expected, ExpectInv
<1>2. CASE ~ReceiveSignIn(s)
  <2>1. pc'[s] \in SigningIn => pc[s] \in SigningIn
    BY <1>2, SignInStep DEF Rests, Fails, Moves, Lookup, Check, Rehash, CommitRehash, Goto, SigningIn
  <2> QED BY <1>2, <2>1, ExpectMoves DEF SignInInv, ExpectInv
<1> QED BY <1>1, <1>2

LEMMA SameUserStep ==
  ASSUME UsersInv, [Next]_vars, NEW s \in SignIns, SameUser(s), seen'[s] = seen[s]
  PROVE  SameUser(s)'
  BY LoginRows DEF SameUser

(* One login, one row.                                                      *)
LEMMA OneRow ==
  ASSUME UsersInv, NEW l
  PROVE  \A x, y \in OfLogin(l) : x = y
  BY DEF UsersInv, TableInv, OfLogin

LEMMA LookupStep ==
  ASSUME UsersInv, [Next]_vars, NEW s \in SignIns, Lookup(s)
  PROVE  SeenInv(s)'
<1> USE Inputs DEF UsersInv, TypeOK
<1>1. s \notin locking' /\ pc'[s] \notin {"rehash", "commitRehash", "token"}
  BY DEF Lookup, Goto, SignInInv, SeenInv
<1>2. ASSUME NEW row \in OfLogin(NormalizeLogin(s)), seen' = [seen EXCEPT ![s] = row]
      PROVE  SameUser(s)' /\ seen'[s].password_hash.password = current'[NormalizeLogin(s)]
  <2>1. rows' = rows /\ current' = current /\ seen'[s] = row BY <1>2 DEF Lookup
  <2> QED BY <1>2, <2>1, OneRow DEF SameUser, OfLogin, PasswordInv, PasswordKept
<1>3. pc'[s] = "check" => \E row \in OfLogin(NormalizeLogin(s)) : seen' = [seen EXCEPT ![s] = row]
  BY DEF Lookup, Goto
<1> QED BY <1>1, <1>2, <1>3 DEF SeenInv

LEMMA CheckStep ==
  ASSUME UsersInv, [Next]_vars, NEW s \in SignIns, Check(s)
  PROVE  SeenInv(s)' /\ TokenInv(s)'
<1> USE Inputs DEF UsersInv, TypeOK
<1>1. SameUser(s) /\ SameUser(s)' /\ s \notin locking' /\ pc'[s] \notin {"check", "commitRehash"}
  BY SameUserStep DEF Check, Goto, Issue, SignInInv, SeenInv
<1>2. ASSUME pc'[s] = "rehash"
      PROVE  expect'[s] # "wrong" /\ seen'[s].password_hash = HashOf("pbkdf2", Password[s])
  <2>1. seen'[s] = seen[s] /\ expect' = expect /\ seen[s].password_hash.password = Password[s]
        /\ Deprecated(seen[s].password_hash)
    BY <1>2 DEF Check, Goto, Issue
  <2>2. seen[s].password_hash = HashOf("pbkdf2", Password[s])
    BY <1>1, <2>1 DEF SameUser, Row, Hashes, HashOf, Deprecated
  <2>3. expect[s] # "wrong"
    BY <2>1 DEF Check, SignInInv, SeenInv, ExpectInv, SigningIn
  <2> QED BY <2>1, <2>2, <2>3
<1>3. ASSUME pc'[s] = "token" PROVE TokenInv(s)'
  <2>1. Issue(s) /\ ~Deprecated(seen[s].password_hash) /\ seen' = seen /\ rows' = rows /\ clock' = clock
    BY <1>3 DEF Check, Goto, Issue
  <2>2. \A x \in OfLogin(NormalizeLogin(s)) : ~Deprecated(x.password_hash)
    BY <1>1, <2>1 DEF SameUser
  <2> QED BY <2>1, <2>2 DEF Issue, TokenInv, IssuedAt, OfLogin
<1> QED BY <1>1, <1>2, <1>3 DEF SeenInv, TokenInv

LEMMA RehashStep ==
  ASSUME UsersInv, [Next]_vars, NEW s \in SignIns, Rehash(s)
  PROVE  SeenInv(s)'
<1> USE Inputs DEF UsersInv, TypeOK
<1>1. /\ SameUser(s) /\ SameUser(s)' /\ pc'[s] = "commitRehash"
      /\ UNCHANGED <<rows, seen, expect>> /\ s \notin locking
  BY SameUserStep DEF Rehash, Goto, SignInInv, SeenInv
<1>2. expect'[s] # "wrong" /\ seen'[s].password_hash = HashOf("pbkdf2", Password[s])
  BY <1>1 DEF SignInInv, SeenInv, Rehash
<1>3. CASE Matched(s) # {}
  <2>1. locking' = locking \cup {s} BY <1>3 DEF Rehash
  <2>2. PICK row \in rows : row.id = seen[s].id /\ row.password_hash = seen[s].password_hash
    BY <1>3 DEF Matched
  <2>3. \A x \in OfLogin(NormalizeLogin(s)) : x.password_hash = seen[s].password_hash
    BY <1>1, <2>2, SeenRow, OneRow
  <2>4. \A t \in locking : seen[t].id # seen[s].id BY DEF Rehash, Locked
  <2> QED BY <1>1, <1>2, <2>1, <2>3, <2>4 DEF SeenInv, OfLogin
<1>4. CASE Matched(s) = {}
  <2>1. locking' = locking BY <1>4 DEF Rehash
  <2>2. \A x \in OfLogin(NormalizeLogin(s)) : ~Deprecated(x.password_hash)
    BY <1>1, <1>4 DEF Matched, SameUser, OfLogin
  <2> QED BY <1>1, <1>2, <2>1, <2>2 DEF SeenInv, OfLogin
<1> QED BY <1>3, <1>4

LEMMA CommitRehashStep ==
  ASSUME UsersInv, [Next]_vars, NEW s \in SignIns, CommitRehash(s)
  PROVE  SeenInv(s)' /\ TokenInv(s)'
<1> USE Inputs DEF UsersInv, TypeOK
<1>1. /\ SameUser(s) /\ SameUser(s)' /\ pc'[s] \in {"token", "failed"} /\ s \notin locking'
      /\ UNCHANGED <<seen, clock>>
  BY SameUserStep DEF CommitRehash, Goto, Issue, SignInInv, SeenInv
<1>2. \A y \in OfLogin(NormalizeLogin(s))' : ~Deprecated(y.password_hash)
  <2>1. CASE s \in locking
    <3>1. ASSUME NEW y \in OfLogin(NormalizeLogin(s))' PROVE ~Deprecated(y.password_hash)
      <4>1. PICK x \in OfLogin(NormalizeLogin(s)) :
              y.password_hash = IF x.id = seen[s].id THEN HashOf("argon2", Password[s])
                                                     ELSE x.password_hash
        BY <2>1, RehashKeeps, UpdatedLogin, HashType
      <4> QED BY <1>1, <4>1 DEF SameUser, Deprecated, HashOf
    <3> QED BY <3>1
  <2>2. CASE s \notin locking
    BY <2>2 DEF CommitRehash, SignInInv, SeenInv, OfLogin
  <2> QED BY <2>1, <2>2
<1>3. ASSUME pc'[s] = "token" PROVE TokenInv(s)'
  <2>1. Issue(s) BY <1>3 DEF CommitRehash, Goto
  <2> QED BY <1>1, <1>2, <2>1 DEF Issue, TokenInv, IssuedAt
<1> QED BY <1>1, <1>3 DEF SeenInv, TokenInv

LEMMA RestsStep ==
  ASSUME UsersInv, [Next]_vars, NEW s \in SignIns, Rests(s)
  PROVE  SeenInv(s)' /\ TokenInv(s)'
<1> USE Inputs DEF UsersInv, TypeOK
<1>1. SameUser(s) => SameUser(s)' BY SameUserStep DEF Rests
<1>2. pc'[s] \in {"check", "rehash", "commitRehash"} => ~ReceiveSignIn(s)
  BY DEF Rests, ReceiveSignIn, Goto
<1>3. pc'[s] = "check" /\ expect'[s] # "any" =>
        seen'[s].password_hash.password = current'[NormalizeLogin(s)]
  BY <1>2, ExpectMoves DEF Rests, SignInInv, SeenInv
<1>4. pc'[s] \in {"rehash", "commitRehash"} =>
        expect'[s] # "wrong" /\ seen'[s].password_hash = HashOf("pbkdf2", Password[s])
  BY <1>2, ExpectMoves DEF Rests, SignInInv, SeenInv
<1>5. ASSUME pc'[s] = "commitRehash", NEW y \in OfLogin(NormalizeLogin(s))'
      PROVE  IF s \in locking' THEN y.password_hash = seen'[s].password_hash
                               ELSE ~Deprecated(y.password_hash)
  <2>1. CASE s \in locking BY <1>5, <2>1, LockedRows DEF Rests
  <2>2. CASE s \notin locking
    <3>1. SameUser(s) /\ \A x \in OfLogin(NormalizeLogin(s)) : ~Deprecated(x.password_hash)
      BY <1>5, <2>2 DEF Rests, SignInInv, SeenInv
    <3>2. OfLogin(NormalizeLogin(s)) # {} BY <3>1 DEF SameUser
    <3>3. ~Deprecated(y.password_hash) BY <1>5, <3>1, <3>2, LoginRows
    <3> QED BY <2>2, <3>3 DEF Rests
  <2> QED BY <2>1, <2>2
<1>6. ASSUME s \in locking', NEW t \in locking', seen'[t].id = seen'[s].id PROVE t = s
  <2>1. s \in locking /\ seen'[s] = seen[s] BY <1>6 DEF Rests
  <2>2. CASE t \in locking
    <3>1. pc[t] = "commitRehash" BY <2>2 DEF SignInInv, SeenInv
    <3>2. seen'[t] = seen[t]
      BY <2>2, <3>1, SignInStep DEF Rests, Fails, Moves, ReceiveSignIn, Lookup, Check, Rehash,
                                    CommitRehash
    <3> QED BY <1>6, <2>1, <2>2, <3>2 DEF SignInInv, SeenInv
  <2>3. CASE t \notin locking
    <3>0. t \in SignIns BY <1>6, NextType
    <3>1. Rehash(t)
      BY <1>6, <2>3, <3>0, SignInStep
         DEF Rests, Fails, Moves, ReceiveSignIn, Lookup, Check, CommitRehash
    <3> QED BY <1>6, <2>1, <3>1 DEF Rehash, Locked
  <2> QED BY <2>2, <2>3
<1>7. SeenInv(s)' BY <1>1, <1>3, <1>4, <1>5, <1>6 DEF Rests, SignInInv, SeenInv
<1>8. clock' \in Nat /\ clock <= clock' BY BoundsAssumption DEF Next, vars, Register, Select, Insert, Commit,
        SignIn, Lookup, Check, Rehash, CommitRehash, Receive, ReceiveSignIn, Verify,
        ChangePassword, DbError, Crash, Start, Tick
<1>9. ASSUME pc'[s] = "token" PROVE \A y \in OfLogin(NormalizeLogin(s))' : ~Deprecated(y.password_hash)
  <2>1. SameUser(s) /\ \A x \in OfLogin(NormalizeLogin(s)) : ~Deprecated(x.password_hash)
    BY <1>9 DEF Rests, SignInInv, SeenInv, TokenInv
  <2>2. OfLogin(NormalizeLogin(s)) # {} BY <2>1 DEF SameUser
  <2> QED BY <2>1, <2>2, LoginRows
<1>10. ASSUME pc'[s] = "token" PROVE token'[s].at \in 0 .. clock' /\ token'[s] = IssuedAt(s, token[s].at)'
  <2>1. token[s].at \in 0 .. clock /\ token[s] = IssuedAt(s, token[s].at)
    BY <1>10 DEF Rests, SignInInv, TokenInv
  <2>2. IssuedAt(s, token[s].at)' = IssuedAt(s, token[s].at) BY DEF Rests, IssuedAt
  <2> QED BY <1>8, <2>1, <2>2 DEF Rests
<1>11. TokenInv(s)' BY <1>9, <1>10 DEF TokenInv
<1> QED BY <1>7, <1>11

LEMMA SignInInvStep == UsersInv /\ [Next]_vars => SignInInv'
<1> SUFFICES ASSUME UsersInv, [Next]_vars, NEW s \in SignIns
             PROVE  ExpectInv(s)' /\ SeenInv(s)' /\ TokenInv(s)'
  BY DEF SignInInv
<1>1. ExpectInv(s)' BY ExpectStep
<1>2. CASE Fails(s) BY <1>1, <1>2 DEF Fails, SeenInv, TokenInv
<1>3. CASE ReceiveSignIn(s)
  BY <1>1, <1>3, Inputs DEF ReceiveSignIn, Goto, UsersInv, TypeOK, SignInInv, SeenInv, TokenInv
<1>4. CASE Lookup(s)
  <2>1. TokenInv(s)' BY <1>4, Inputs DEF Lookup, Goto, UsersInv, TypeOK, TokenInv
  <2> QED BY <1>1, <1>4, <2>1, LookupStep
<1>5. CASE Rehash(s)
  <2>1. TokenInv(s)' BY <1>5, Inputs DEF Rehash, Goto, UsersInv, TypeOK, TokenInv
  <2> QED BY <1>1, <1>5, <2>1, RehashStep
<1> QED BY <1>1, <1>2, <1>3, <1>4, <1>5, RestsStep, CheckStep, CommitRehashStep, SignInStep DEF Moves

LEMMA VerifyStep == UsersInv /\ [Next]_vars => VerifyInv'
<1> SUFFICES ASSUME UsersInv, [Next]_vars, NEW v \in Verifications, vpc'[v] = "active"
             PROVE  shown'[v] \in SignIns /\ pc'[shown'[v]] = "token"
  BY DEF VerifyInv
<1> USE Inputs DEF UsersInv, TypeOK
<1>1. ASSUME NEW s \in SignIns, pc[s] = "token" PROVE pc'[s] = "token"
  BY <1>1, SignInStep DEF Next, vars, Rests, Moves, Receive, Register, Select, Insert, Commit,
       ReceiveSignIn, SignIn, Lookup, Check, Rehash, CommitRehash, Issue, Verify, ChangePassword,
       DbError, Crash, Start, Tick, Goto, Working, Registering, SigningIn, Inserted
<1>2. CASE UNCHANGED <<vpc, shown>> BY <1>1, <1>2 DEF VerifyInv
<1>3. ASSUME NEW w \in Verifications, Verify(w) PROVE shown'[v] \in SignIns /\ pc'[shown'[v]] = "token"
  BY <1>1, <1>3, RequestsAssumption DEF Verify, Answer, VerifyInv
<1> QED BY <1>2, <1>3
        DEF Next, vars, Register, Select, Insert, Commit, SignIn, Lookup, Check, Rehash, CommitRehash,
            Receive, ReceiveSignIn, ChangePassword, DbError, Crash, Start, Tick

LEMMA DecidedStep == UsersInv /\ [Next]_vars => LoginDecided'
<1> SUFFICES ASSUME UsersInv, [Next]_vars, NEW s \in SignIns
             PROVE  /\ expect'[s] = "right" => pc'[s] \notin {"refused", "invalid"}
                    /\ expect'[s] = "wrong" => pc'[s] # "token"
  BY DEF LoginDecided
<1> USE Inputs DEF UsersInv, TypeOK
<1>1. CASE ReceiveSignIn(s)
  BY <1>1, PasswordsAssumption
     DEF ReceiveSignIn, Goto, Expected, ValidSignIn, PasswordInv, ValidPassword
<1>2. CASE Lookup(s)
  <2>1. expect' = expect BY <1>2 DEF Lookup
  <2>2. OfLogin(NormalizeLogin(s)) = {} => current[NormalizeLogin(s)] = NoPassword
    BY DEF PasswordInv
  <2>3. expect[s] = "right" => current[NormalizeLogin(s)] = Password[s]
    BY <1>2 DEF Lookup, SignInInv, ExpectInv, SigningIn
  <2> QED BY <1>2, <2>1, <2>2, <2>3, PasswordsAssumption DEF Lookup, Goto
<1>3. CASE Check(s)
  <2>1. /\ expect' = expect
        /\ expect[s] = "right" => seen[s].password_hash.password = Password[s]
        /\ expect[s] = "wrong" => seen[s].password_hash.password # Password[s]
    BY <1>3 DEF Check, SignInInv, SeenInv, ExpectInv, SigningIn
  <2> QED BY <1>3, <2>1 DEF Check, Goto, Issue
<1>4. CASE Rehash(s) \/ CommitRehash(s)
  BY <1>4 DEF Rehash, CommitRehash, Goto, Issue, SignInInv, SeenInv
<1>5. CASE Rests(s)
  <2>1. ~ReceiveSignIn(s) \/ pc'[s] = "idle" BY <1>5 DEF Rests, ReceiveSignIn, Goto
  <2> QED BY <1>1, <1>5, <2>1, ExpectMoves DEF Rests, LoginDecided
<1>6. CASE Fails(s) BY <1>6 DEF Fails
<1> QED BY <1>1, <1>2, <1>3, <1>4, <1>5, <1>6, SignInStep DEF Moves

-----------------------------------------------------------------------------
(* The theorems.                                                            *)

LEMMA InitInv == Init => UsersInv
<1> SUFFICES ASSUME Init PROVE UsersInv OBVIOUS
<1> USE Inputs DEF Init
<1>1. TypeOK BY InitType
<1>2. /\ \A r \in Registrations : pc[r] = "idle"
      /\ \A s \in SignIns : pc[s] = "idle" /\ expect[s] = "any" /\ s \notin locking
      /\ \A v \in Verifications : vpc[v] = "idle"
  OBVIOUS
<1>3. SignInInv /\ VerifyInv /\ LoginDecided
  BY <1>2 DEF SignInInv, ExpectInv, SeenInv, TokenInv, SigningIn, VerifyInv, LoginDecided
<1>4. TableInv /\ PasswordInv
  <2>1. CASE rows = {} /\ schema = {} /\ current = [l \in Logins |-> NoPassword]
    BY <1>2, <2>1 DEF TableInv, PasswordInv, PasswordKept, OfLogin, Registering
  <2>2. CASE /\ rows = LegacyRows /\ schema = Revision
             /\ current = [l \in Logins |-> IF l \in DOMAIN LegacyPassword THEN LegacyPassword[l]
                                                                            ELSE NoPassword]
    <3>1. \A x \in rows : /\ x.id = x.normalized_login /\ x.normalized_login \in DOMAIN LegacyPassword
                         /\ x.password_hash.password = LegacyPassword[x.normalized_login]
                         /\ x = [id |-> x.normalized_login, normalized_login |-> x.normalized_login,
                                 password_hash |-> HashOf("pbkdf2", LegacyPassword[x.normalized_login])]
      BY <2>2 DEF LegacyRows, HashOf
    <3>2. ASSUME NEW l \in DOMAIN LegacyPassword PROVE OfLogin(l) # {}
      <4> DEFINE x == [id |-> l, normalized_login |-> l,
                       password_hash |-> HashOf("pbkdf2", LegacyPassword[l])]
      <4>1. x \in rows BY <2>2 DEF LegacyRows
      <4> QED BY <4>1 DEF OfLogin
    <3>3. TableInv BY <1>2, <2>2, <3>1, LegacyType DEF TableInv
    <3>4. PasswordKept BY <2>2, <3>1, LegacyType DEF PasswordKept
    <3> QED BY <1>2, <2>2, <3>2, <3>3, <3>4, LegacyIsValid DEF PasswordInv, Registering
  <2> QED BY <2>1, <2>2
<1> QED BY <1>1, <1>3, <1>4 DEF UsersInv

(* The inductive invariant.                                                 *)
THEOREM Invariance == Spec => []UsersInv
<1>1. UsersInv /\ [Next]_vars => UsersInv'
  BY NextType, TableStep, PasswordStep, SignInInvStep, VerifyStep, DecidedStep DEF UsersInv
<1> QED BY InitInv, <1>1, PTL DEF Spec

(* Every variable keeps its type.                                           *)
THEOREM TypeCorrect == Spec => []TypeOK
<1>1. UsersInv => TypeOK BY DEF UsersInv
<1> QED BY Invariance, <1>1, PTL

(* A login names one user, and an acknowledged registration is it, however  *)
(* registrations, failures, restarts and migrations interleave.             *)
THEOREM OneAccount == Spec => []UniqueAccount
<1>1. UsersInv => UniqueAccount
  BY DEF UsersInv, TableInv, UniqueAccount
<1> QED BY Invariance, <1>1, PTL

(* A registration is answered 409 only if somebody has the login.           *)
THEOREM ConflictsAreReal == Spec => []ConflictIsReal
<1>1. UsersInv => ConflictIsReal BY DEF UsersInv, TableInv, ConflictIsReal
<1> QED BY Invariance, <1>1, PTL

(* The rehash at login never brings back a password that was changed.       *)
THEOREM PasswordsAreKept == Spec => []PasswordKept
<1>1. UsersInv => PasswordKept BY DEF UsersInv, PasswordInv
<1> QED BY Invariance, <1>1, PTL

(* The password last set logs in and no other does.                         *)
THEOREM LoginsAreDecided == Spec => []LoginDecided
<1>1. UsersInv => LoginDecided BY DEF UsersInv
<1> QED BY Invariance, <1>1, PTL

(* A successful login leaves no deprecated hash, whoever wrote the new one. *)
THEOREM LoginRehashes == Spec => []RehashedOnLogin
<1>1. UsersInv => RehashedOnLogin BY DEF UsersInv, SignInInv, TokenInv, RehashedOnLogin
<1> QED BY Invariance, <1>1, PTL

(* An active token names the user that logged in.                           *)
THEOREM ActiveTokens == Spec => []ActiveMeansUser
<1>1. ASSUME UsersInv, NEW v \in Verifications, vpc[v] = "active"
      PROVE  /\ shown[v] \in SignIns
             /\ \E row \in OfLogin(NormalizeLogin(shown[v])) :
                  /\ token[shown[v]].sub = row.id
                  /\ token[shown[v]].normalized_login = row.normalized_login
  <2>1. shown[v] \in SignIns /\ pc[shown[v]] = "token" BY <1>1 DEF UsersInv, VerifyInv
  <2> DEFINE s == shown[v]
  <2>2. SameUser(s) /\ TokenInv(s) BY <1>1, <2>1 DEF UsersInv, SignInInv, SeenInv
  <2>3. PICK x \in OfLogin(NormalizeLogin(s)) : x.id = seen[s].id BY <2>2 DEF SameUser
  <2>4. token[s].sub = seen[s].id /\ token[s].normalized_login = seen[s].normalized_login
    BY <2>1, <2>2 DEF TokenInv, IssuedAt
  <2> QED BY <2>1, <2>2, <2>3, <2>4 DEF SameUser, OfLogin
<1>2. UsersInv => ActiveMeansUser BY <1>1 DEF ActiveMeansUser
<1> QED BY Invariance, <1>2, PTL

(* A token is active for its lifetime, to half a second.                    *)
THEOREM TokensExpire == Spec => TokenWindow
<1> DEFINE Window(v, s) ==
      vpc[v] = "idle" /\ vpc'[v] # "idle" /\ shown'[v] = s =>
        /\ vpc'[v] = "active"   => clock - token[s].at < 2 * Lifetime
        /\ vpc'[v] = "inactive" => clock - token[s].at >= 2 * Lifetime - 1
<1>1. ASSUME UsersInv, [Next]_vars, NEW v \in Verifications, NEW s \in SignIns
      PROVE  Window(v, s)
  <2>1. CASE UNCHANGED vpc BY <2>1
  <2>2. ASSUME NEW w \in Verifications, Verify(w), vpc[v] = "idle", vpc'[v] # "idle", shown'[v] = s
        PROVE  Window(v, s)
    <3>1. pc[s] = "token" /\ vpc'[v] = Answer(s)
      <4>1. w = v BY <2>2 DEF Verify
      <4>2. PICK x \in {t \in SignIns : pc[t] = "token"} \cup {"garbage"} :
              shown' = [shown EXCEPT ![v] = x] /\ vpc' = [vpc EXCEPT ![v] = Answer(x)]
        BY <2>2, <4>1 DEF Verify
      <4>3. x = s BY <1>1, <2>2, <4>2 DEF UsersInv, TypeOK
      <4> QED BY <1>1, <4>2, <4>3, RequestsAssumption DEF UsersInv, TypeOK
    <3>2. token[s].at \in Nat /\ clock \in Nat /\ token[s].at <= clock
          /\ token[s].iat = token[s].at \div 2 /\ token[s].exp = (token[s].at + 2 * Lifetime) \div 2
      BY <1>1, <3>1, BoundsAssumption DEF UsersInv, TypeOK, SignInInv, TokenInv, IssuedAt
    <3>3. Answer(s) = IF VerifyToken(token[s]) THEN "active" ELSE "inactive" BY DEF Answer
    <3> HIDE DEF Window
    <3>4. VerifyToken(token[s]) <=> clock < 2 * ((token[s].at + 2 * Lifetime) \div 2)
      BY <3>2, BoundsAssumption DEF VerifyToken
    <3>5. /\ VerifyToken(token[s]) => clock - token[s].at < 2 * Lifetime
          /\ ~VerifyToken(token[s]) => clock - token[s].at >= 2 * Lifetime - 1
      BY <3>2, <3>4, BoundsAssumption
    <3> QED BY <3>1, <3>3, <3>5 DEF Window
  <2> QED BY <1>1, <2>1, <2>2
          DEF Next, vars, Register, Select, Insert, Commit, SignIn, Lookup, Check, Rehash,
              CommitRehash, Receive, ReceiveSignIn, ChangePassword, DbError, Crash, Start, Tick
<1> HIDE DEF Window
<1>2. UsersInv /\ [Next]_vars => \A v \in Verifications, s \in SignIns : Window(v, s) BY <1>1
<1>3. UsersInv /\ [Next]_vars =>
        [\A v \in Verifications, s \in SignIns : Window(v, s)]_vars BY <1>2
<1>4. Spec => [][\A v \in Verifications, s \in SignIns : Window(v, s)]_vars
  BY Invariance, <1>3, PTL DEF Spec
<1> QED BY <1>4 DEF TokenWindow, Window

=============================================================================
