CONSTANTS
    Width = 8
    CharBits = 4
    Leaves = {"int", "x < y", "d + e", "q[1]", "f"}
    Literals = {2}
    Ops = {"+", "*", "/", "<<", "<"}
    Contents <- TwoMemories
    MaxLeaves = 4
    MaxDepth = 4
    Increments <- Down
    MaxOpen = 1
    MaxSteps = 4
    W_TYPE_SIZE = 4
    FloatMantissa = 3
    DoubleMantissa = 6
    W = 16
    ImmBits = 4
    WordOffset = 63
    HalfOffset = 15
    FloatOffset = 60
    BOUND_T1_BITS = 3
    BOUND_T2_BITS = 1
    BOUND_T3_BITS = 2
    BOUND_E_BITS = 2
    HeapStart = 18
    HeapSize = 20
    Places = {9, 10, 12, 14, 17, 20, 21, 24, 28, 33}
    Sizes = {0, 1, 5, 10}
    MaxRegions = 3
    DeleteAcrossPages = FALSE
SPECIFICATION MachineSpec
INVARIANTS
    StateIsRight
    ControlFollowsSource
    RuntimeIsExact
    ArmRunsAsC
    TableTypeOK
    TableIsExact
    CheckersAgree
CHECK_DEADLOCK FALSE
