SPECIFICATION FairSpec
CONSTANTS
    Symbols <- MCSymbols
    Continuous <- MCContinuous
    Everything <- MCEverything
    Nothing <- MCNothing
    MaxQueue = 2
INVARIANTS
    TypeOK
    ScreenIsServed
    ShowsItsOwn
    NoStatusWaits
PROPERTIES
    QuitEnds
    ServerTimeComes
