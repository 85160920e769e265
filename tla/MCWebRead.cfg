\* Both live reads of the throne page and the indexer's settled figure.
CONSTANTS
  TruthHooks = {rawClockLimit, estimate}
  IndexerHooks = {stats}
  STALE_AFTER = 1
  REQUEST_TIMEOUT = 1
SPECIFICATION Spec
INVARIANTS
  ShownIsRecent
PROPERTIES
  OutageIsShown
  RecoveryIsShown
