CONSTANT MaxStops <- MCMaxStops
SPECIFICATION Spec
INVARIANT StoppedOnlyInPerturbation
PROPERTY Termination
CHECK_DEADLOCK FALSE
