SPECIFICATION EditorSpec
CONSTANTS
    MaxId = 1
    Floors <- FirstIsFloor
    Types <- ThreeTypes
    MaxRequests = 1
    MaxForced = 2
INVARIANTS
    EditorInStep
PROPERTIES
    MovesOnlyMove
CONSTRAINT TwoAtATime
