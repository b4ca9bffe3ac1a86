SPECIFICATION Spec
INVARIANT VerifiedMeansProved
CHECK_DEADLOCK FALSE
