SPECIFICATION AvSpec
CONSTANTS
    Chunk = 20
    Period = 40
    Target = 100
    DropMs = 80
    Lead = 0
    Slacks = {80}
    Depths = {"known"}
    AvModes = {"strict"}
    MaxPictures = 5
    Tails = {0}
    Reanchor = 100
CHECK_DEADLOCK FALSE
PROPERTY SessionFinishes
