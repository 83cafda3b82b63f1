SPECIFICATION Spec
CONSTANTS
    Symbols <- MCSymbols
    Continuous <- MCContinuous
    Everything <- MCEverything
    Nothing <- MCNothing
    MaxQueue = 2
PROPERTIES
    ConnectFailureSurfaces
