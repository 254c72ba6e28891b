\* Two accounts, one of them locked and unlocked; two actions in flight; the gateway remembers one answer.
SPECIFICATION Spec
CONSTANTS
  u1 = u1  u2 = u2  k1 = k1  k2 = k2  h1 = h1  h2 = h2
  t1 = t1  r1 = r1  r2 = r2
  Never = Never  NoHash = NoHash
  Users = {u1, u2}
  Lockable = {u1}
  KeyIds = {k1, k2}
  Hashes = {h1, h2}
  TokenHashes = {t1}
  Requests = {r1, r2}
  MAX_ACTIVE_KEYS_PER_USER = 1
  MAX_TOTAL_KEYS_PER_USER = 2
  MAX_PLAYGROUND_TOKENS_PER_KEY = 1
  TokenTTL = 1
  StatusTTL = 1
  MaxEntries = 1
  Lifetimes = {1}
  MaxReplies = 1
  MaxTime = 1
SYMMETRY Symmetry
INVARIANTS TypeOK Limits RememberedIsFinal
PROPERTIES RegistryKept
CHECK_DEADLOCK FALSE
