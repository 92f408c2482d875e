SPECIFICATION SearchSpec
CONSTANTS
    Paths <- MCPaths
    Shapes <- LikeShapes
    NoRow = NoRow
    NoCase <- MCNoCase
    Lower <- MCLower
    AllowedRoots = {"in"}
    Folded <- MCFolded
    PartOf = {}
    Cases <- LikeCases
    Numeric = {"size"}
    Common = {"size"}
    LikeScore = 1
    MaxLimit = 3
    DefaultLimit = 3
    MaxWindow = 5
INVARIANT NoFileTwice
