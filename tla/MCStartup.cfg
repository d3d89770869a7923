SPECIFICATION StartupSpec
CONSTANTS
  Width = 3
  MaxTime = 3
  Inputs <- MCInputs
INVARIANTS
  OffersMatchConfiguration
  CheapestLinkFirst
  RefusesInconsistentOnly
  StatusFollowsEvents
CHECK_DEADLOCK FALSE
