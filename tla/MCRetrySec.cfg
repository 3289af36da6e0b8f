\* RetrySec(5), (20) and (120): latencies of 2, 5 and 15 seconds, the last one
\* cut off.  Horizon is past the longest timeout: in some behaviours the
\* condition comes too late.
CONSTANTS
  Secs = {5, 20, 120}
  CallMax = 3
  Horizon = 250
SPECIFICATION FairSpec
INVARIANTS
  RetryInv
  ReadyInTimeSucceeds
PROPERTIES
  RetryEnds
