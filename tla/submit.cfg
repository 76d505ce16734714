SPECIFICATION FairSpec
CONSTANT MaxRetries = 3
INVARIANTS TypeOK SignatureIsLanded OnlyUnansweredPayTwice RefusedMovesNothing
PROPERTIES NothingSentAfterTimeout ImplementsPlacement Returns
CHECK_DEADLOCK FALSE
