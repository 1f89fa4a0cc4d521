SPECIFICATION Spec
CONSTANTS
  Pools = {p1}
  Queues = {q1}
  Attempts = {t1, t2}
  Configs = {"policy"}
  MaxAllocations = 2
  MaxGeneration = 2
  MaxPublished = 1
  MaxCrashes = 1
  MaxOpens = 2
  compact_journal_records = 2
  MaxFailures = 1
INVARIANT
  DamageIsCorruption
