CONSTANTS
    None = None
    Lots = {"A", "B"}
    Orders = {"O1", "O2"}
    Events = {"arriveA", "arriveB", "askB", "failA", "passA", "sampleA", "pickA", "pickup", "deliver"}
    Retries = {"r1"}
    MaxFaults = 1
    Planned <- MCPlanned
    Requested <- MCRequested
    Terms <- MCTerms
    Rank <- MCRank
    Tranches <- MCTranches
    Event <- MCEvent
    Offered <- MCOffered
    Drafted <- MCDrafted
    Policies <- MCPolicies
    Photos = {"p1", "p2", "p3"}
    Image <- MCImage
    Purposes = {"label"}
    Sightings <- MCSightings
    MaxReads <- MCMaxReads
SPECIFICATION PhotoSpec
CHECK_DEADLOCK FALSE
INVARIANTS BooksAgree DocumentsAreWarranted EvidenceChain
