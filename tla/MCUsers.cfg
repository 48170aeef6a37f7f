CONSTANTS
  r1 = r1
  r2 = r2
  r3 = r3
  s1 = s1
  s2 = s2
  v1 = v1
  alice = alice
  wide = wide
  Logins = {alice, wide}
  Width <- MCWidth
  Passwords <- MCPasswords
  NoPassword = NoPassword
  NoRow = NoRow
  NoToken = NoToken
  Registrations = {r1, r2, r3}
  SignIns = {s1, s2}
  Verifications = {v1}
  Name <- MCName
  Password <- MCPassword
  LegacyPassword <- MCLegacy
  Lifetime = 1
  PoolSize = 2
  Faults = {"db", "lost", "crash", "migration"}
  MaxChanges = 1
  MaxTime = 2
SPECIFICATION Spec
CHECK_DEADLOCK FALSE
INVARIANTS
  TypeOK
  UniqueAccount
  ConflictIsReal
  PasswordKept
  LoginDecided
  RehashedOnLogin
  ActiveMeansUser
PROPERTIES
  TokenWindow
  AllAnswered
