SPECIFICATION FairSpec
CONSTANTS
  MaxPublishes = 2
  MaxFaults = 2
INVARIANTS TypeOK ConfirmedMeansRouted
PROPERTIES ConnectionSpared PublicationEnds
CHECK_DEADLOCK FALSE
