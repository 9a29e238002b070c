SPECIFICATION Spec
CONSTANTS
  None = None
  Pipelines = {p1, p2}
  MaxSignals = 3
  Candidates <- MCCandidates
  Markets <- MCMarkets
  Configs <- MCConfigs
  Limit = 1
  Equities = {1000}
  Days <- MCDays
  Feeds <- MCFeeds
  Moments = {13, 14, 20, 26, 27, 40, 50}
  MaxRecords = 1
  MaxFaults = 1
SYMMETRY Symmetry
INVARIANTS TypeOK PositionLimit KillSwitchBound RiskPerTrade SoundReconciliation GateAgrees StatusReached NewsAgrees
PROPERTIES LedgerSpec
