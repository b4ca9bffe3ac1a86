CONSTANT MaxStops <- MCMaxStops
SPECIFICATION Spec
INVARIANT ReportsIssuedPerturbations
CHECK_DEADLOCK FALSE
