SPECIFICATION Spec
CONSTANTS
    report = report
    movie = movie
    alice = alice
    bob = bob
    Files <- MCFiles
    Peers <- MCPeers
    Indices <- MCIndices
    Modulus = 8
    MaxChunks = 2
    IdBudget = 4
    InRange = TRUE
    NoAnswer = NoAnswer
INVARIANTS
    LevelsAreTrue
PROPERTIES
    ImplementsShare
