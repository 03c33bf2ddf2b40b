CONSTANTS
    r1 = r1
    r2 = r2
    r3 = r3
    Request = {r1, r2, r3}
    MaxTotal = 4
SPECIFICATION PoliciesSpec
INVARIANTS
    BudgetConserved
    TokensAreShared
    PreemptedComeFirst
    QueuesMatchStatus
    AccountKept
    PartialsWithinLimit
PROPERTIES
    EveryoneIsServed
\* Every request may be finished, and then the engine waits for the next one.
CHECK_DEADLOCK FALSE
