SPECIFICATION FairSpec
CONSTANTS
    Calls = {c1, c2, c3}
    MaxInstances = 2
INVARIANTS AnsweredOnce FreedWhenQuiet ImageAccounted
PROPERTIES PromiseKept TerminateReturns
