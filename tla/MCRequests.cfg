\* Two uses of the store by each goroutine.  A request ends: the model may stop.
CONSTANTS
    MaxOps = 2
    Cap <- Doubling
CHECK_DEADLOCK FALSE
SPECIFICATION Spec
INVARIANTS TypeOK LinesAreWhole AnswersAreTrue
