SPECIFICATION Spec
CONSTANTS
    Replica <- ThreeReplicas
    BaseLen = 1
    InsertLens <- One
    MaxOps = 3
    BatchLen = 1
INVARIANTS CopiesSound Converged
PROPERTIES UndoRestores
CHECK_DEADLOCK FALSE
