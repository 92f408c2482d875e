CONSTANTS
    Names <- MCNames
    Kind <- MCKind
    Objects <- MCObjects
    Text <- MCText
    Inside <- MCInside
    MayName <- MCMayName
    Trees <- MCTrees
    Roots <- MCRoots
    Requests <- MCAsked
    Top = "top"
    Absent = "absent"
    MaxHops = 2
    LibHops = 3
    MaxAttempts = 2
    Paths <- MCPaths
    Shapes <- MCShapes
    NoRow = NoRow
    NoCase <- MCNoCase
    Lower <- MCLower
    AllowedRoots = {"in"}
    Folded <- MCFolded
    PartOf = {}
    Cases <- MCCases
    Numeric = {"size"}
    Common = {"size"}
    LikeScore = 1
    MaxLimit = 3
    DefaultLimit = 3
    MaxWindow = 5
SPECIFICATION RequestsSpec
INVARIANT TypeOK
INVARIANT NeverEscapes
INVARIANT DescriptorsBalance
INVARIANT QuietWalkResolves
INVARIANT SearchTypeOK
INVARIANT HitsAreConfined
INVARIANT PagesAreExact
INVARIANT PagesAreAsGood
PROPERTY RequestEnds
