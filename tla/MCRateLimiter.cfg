SPECIFICATION FairSpec
CONSTANTS
  Callers = {c1, c2}
  Endpoints <- MCEndpoints
  Weight <- MCWeight
  Extras <- MCExtras
  Budget = 4
  Window = 2
  Backoff = 1
INVARIANTS
  TypeOK
PROPERTIES
  AdmittedWithinBudget
  OneNapIsEnough
  CallersAreServed
