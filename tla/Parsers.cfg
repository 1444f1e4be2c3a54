SPECIFICATION Parsers
CONSTANTS
    MaxDescriptors = 4
    MaxParts = 4
    Config <- Configs
    Class <- Data
    Maps <- UsualMaps
CHECK_DEADLOCK FALSE
INVARIANTS
    FindsFirst
    LayoutAgrees
    WheelIsRead
PROPERTIES
    WalkEnds
