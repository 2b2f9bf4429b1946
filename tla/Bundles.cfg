SPECIFICATION Spec
CONSTANTS
  RealmFiles = {"realm/a", "realm/b"}
  Versions = {"v1", "v2"}
  Longer = "longer"
  Identity = {"i1", "i2"}
  Passphrase = {"p1"}
  HeaderHolds = 2
  MaxRecipients = 3
  MaxCandidates = 2
  MaxHarm = 1
  MaxOpens = 1
  Client = {"app", "web", "spa"}
  Public = {"spa"}
  Bracketable = {"web", "k1"}
  MaxOdd = 2
  MaxReveals = 1
  UserId = {"u1", "u2"}
  Role = {"admin"}
  MaxUsers = 2
  MaxDetails = 1
  Snapshot = {"s1", "s2"}
  Storage = {"a", "b"}
  Span = 1
  Minute = 1
  MaxTime = 0
  MaxUpsets = 1
  MaxLists = 1
INVARIANTS CompleteIsWhole EveryoneIsThere DetailIsOfOneUser NothingIsMissed
PROPERTIES OkIsWhatWasSealed UndamagedOpens
CHECK_DEADLOCK FALSE
