SPECIFICATION BoundarySpec
CONSTANTS
    Length = {0, 1, 32, 33, 64, 65}
    Number = {0}
CHECK_DEADLOCK FALSE
INVARIANT AdmittedIsTaken
