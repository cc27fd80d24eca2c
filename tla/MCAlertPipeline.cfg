SPECIFICATION Spec
CONSTANTS
  Sites <- OneSite
  Capacity <- Capacities
  OutageAfter = 1
  Ceiling = 50
  LookBack = 1
  Retries = 1
  Forecasts <- Said
  MaxHour = 2
  Mixes <- Combinations
  None = None
INVARIANTS TypeOK AlertsAreEvidenced NeverWaitOnEachOther AdviceExact
PROPERTIES FreshRunsMissNothing SilenceIsAdvised
