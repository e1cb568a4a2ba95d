SPECIFICATION FairCommandSpec
CONSTANTS
    Bodies <- MCBodies
    Contexts <- MCContexts
    Roots <- MCRoots
    Null = Null
CHECK_DEADLOCK FALSE
INVARIANTS
    WholeMessage
    ValuesFit
    RespondsAsDocumented
PROPERTY Answered
