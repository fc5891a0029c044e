SPECIFICATION Spec
CONSTANTS
    Flows = {"boot", "held", "coin"}
    FirstLevel = 1
    LastLevel = 3
    Extra <- MCExtra
    Intro <- MCIntro
    Digits <- MCDigits
    Waits <- MCWaits
    Dwells <- MCDwells
    StepStage = 1
    Mode2Last = 2
    Demo <- MCDemo
    LongLast = 12
    DemoTime <- MCDemoTime
    Seeds <- MCSeeds
    MaxTime = 5
INVARIANTS
    OneOwner
    OwnerFitsWord
    ClockRuns
    NoStaleStart
PROPERTIES
    NextLevelKeepsTime
    ExpiryOnlyInPlay
    FlowGoesOn
