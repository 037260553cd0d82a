CONSTANTS
    Records <- MCRecords
    transferLength = 3
SPECIFICATION Spec
INVARIANTS
    StreamReproduced
    EnvelopeOverrunAtMostOneRecord
CHECK_DEADLOCK FALSE
