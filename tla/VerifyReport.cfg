SPECIFICATION Spec
INVARIANTS OutcomesAgree
CHECK_DEADLOCK FALSE
