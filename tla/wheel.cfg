SPECIFICATION BuildSpec
CONSTANTS
    Inner <- Wheels
    Tag = "cp311-none-any"
    MaxEdits = 3
    MaxCrashes = 2
INVARIANT WheelsAreWhole
INVARIANT ReturnsTheWheel
INVARIANT NothingIsLost
PROPERTY BuiltInTheEnd
