SPECIFICATION Spec
CONSTANTS
  Pools = {p1}
  Queues = {q1}
  Attempts = {t1}
  Configs = {"policy"}
  MaxAllocations = 1
  MaxGeneration = 1
  MaxPublished = 1
  MaxCrashes = 2
  MaxOpens = 2
  compact_journal_records = 2
  MaxFailures = 2
PROPERTIES
  EpochNeverReused
CHECK_DEADLOCK FALSE
