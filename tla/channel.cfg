SPECIFICATION Spec
CONSTANTS
    MaxConns = 2
    MaxSent = 3
    MaxSize = 2
    Capacity = 3
    Chunk = 2
INVARIANTS
    TypeOK
    NoGarble
PROPERTY ImplementsPipe
