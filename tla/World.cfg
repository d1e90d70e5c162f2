SPECIFICATION Spec
CONSTANTS
    Rules <- MCRules
    Rifts <- MCRifts
    Terrain <- MCTerrain
    Founders <- MCFounders
    Wishes <- MCWishes
    MaxSelected = 1
    MaxEpoch = 3
    MaxBirth = 3
    Genes <- MCGenes
    Map <- MCMap
    Draws <- MCDraws
INVARIANTS
    CladesCount
    RoomForAll
    RiftsOnSchedule
    PricedIffOpen
    GenomesHold
    BreakingPlanHolds
PROPERTY HarmRests
