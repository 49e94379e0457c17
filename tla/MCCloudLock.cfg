\* An object used again and again, and one whose commands may be applied after it
\* gave up on them; fairness: calls return and keys expire.
CONSTANTS
  c1 = c1
  c2 = c2
  Client = {c1, c2}
  Expiration = 2
  TryLockInterval = 1
  TryLockTimeout = 2
  MaxRetries = 1
  LateCommands = {c1}
  MayReuse = {c2}
SPECIFICATION FairSpec
INVARIANTS TypeOK HolderOwnsKey MutualExclusion
PROPERTIES OnlyOwnUnlock LeaseSpec KeyExpires LockReturns
