CONSTANTS
    Names <- MCNames
    Kind <- MCKind
    Objects <- MCObjects
    Text <- MCText
    Inside <- MCInside
    MayName <- MCMayName
    Trees <- MCTrees
    Roots <- MCRoots
    Requests <- MCAsked
    Top = "top"
    Absent = "absent"
    MaxHops = 2
    LibHops = 3
    MaxAttempts = 2
SPECIFICATION Spec
INVARIANT LinksBehaveAsBefore
