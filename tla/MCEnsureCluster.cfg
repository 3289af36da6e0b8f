\* Three goroutines; three client values, one more than two keys can use.
CONSTANTS
  Threads = {t1, t2, t3}
  NoThread = NoThread
  Clients = {c1, c2, c3}
  NoClient = NoClient
SPECIFICATION FairSpec
INVARIANTS
  CallInv
  SetUpOnce
  OneClientPerKey
  NoSetupUnderTest
PROPERTIES
  CallsEnd
  ImplementsRegistry
