SPECIFICATION Spec
CONSTANTS
    KindOrder <- MCKindOrder
    Lenient <- MCLenient
    NoView = NoView
    MaxEdits = 2
    MaxRotations = 1
    MaxFlips = 3
PROPERTIES TablesNeverRegress TablesConverge FlagFollowsLease StatusConverges
