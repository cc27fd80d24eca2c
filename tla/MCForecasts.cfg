SPECIFICATION Spec
CONSTANTS
  lyon = lyon
  nice = nice
  Sites = {lyon, nice}
  MaxHour = 4
  LookBack = 2
  MaxStaleness = 1
  Lag = 1
  Window = 1
  Grace = 1
  MinObservations = 1
  BiasThreshold = 0
  Values = {1}
  Retries = 1
  Mixes <- Combinations
  None = None
INVARIANTS TypeOK OnlyTrainingsMissign
PROPERTIES FreshReportsAreExact ForecastsCome
