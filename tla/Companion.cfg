\* Restarts, a rival launch, and a tab that clicks through them.
SPECIFICATION Spec
CONSTANTS
  NLaunches = 2
  Rivals <- MCRivals
  MaxWrites = 2
  MaxClicks = 2
INVARIANTS TypeOK AddressKept ChoicesOnceInOrder
PROPERTIES ShowsNewest Recovers
CHECK_DEADLOCK FALSE
