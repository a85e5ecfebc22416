SPECIFICATION Spec
INVARIANTS
    QuoteWithinRule
CHECK_DEADLOCK FALSE
