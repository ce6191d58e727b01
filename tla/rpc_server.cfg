CONSTANTS
    c1 = c1
    c2 = c2
    Clients = {c1, c2}
    Methods = {"vote", "append"}
    MaxCalls = 3
    Texts <- MCTexts
    ParamsOf <- MCParamsOf
SPECIFICATION FairSpec
INVARIANTS
    AnswersMatch
    FateFits
PROPERTY Settled
CHECK_DEADLOCK FALSE
