SPECIFICATION ProofSpec
CONSTANTS
    None = None
    s1 = s1
    s2 = s2
    foreign = foreign
    p1 = p1
    p2 = p2
    Launches <- MCLaunches
    Sources <- MCSources
    Foreign <- foreign
    Modes <- MCModes
    InputPrice = 1
    OutputPrice = 1
    InvestigatorClaims <- MCClaims
    SynthesisClaims <- MCClaims
INVARIANTS PromotionIsOneAttempt BudgetHolds ActionIsGrounded ScriptedRunAssesses
