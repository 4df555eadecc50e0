SPECIFICATION FairSpec
CONSTANTS
    Client = {c1, c2, c3}
    NoClient = NoClient
    Me = Me
    Freq <- MCFreq
    MaxElapsed = 2
INVARIANTS
    ListedAreLive
    FreedOnce
    AbortsAreForTheDead
    RemotesHaveALink
    CountsMatch
PROPERTIES
    RegistrySpec
    DeadAreFreed
