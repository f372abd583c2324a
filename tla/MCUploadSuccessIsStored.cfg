CONSTANTS
    Size = 3
    ChunkSizes = {1, 2}
    MaxConns = 2
SPECIFICATION Spec
INVARIANT SuccessIsStored
