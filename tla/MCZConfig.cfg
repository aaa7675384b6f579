CONSTANTS
    f1 = f1
    f2 = f2
    u1 = u1
    u2 = u2
    Sources <- MCSources
    Contents <- MCContents
    Users <- MCUsers
    Asks <- MCAsks
    MaxChanges = 2
SPECIFICATION Spec
INVARIANT FilesAreFollowed
INVARIANT CellsAreFresh
INVARIANT ObserversAreTold
PROPERTY ComesToRest
