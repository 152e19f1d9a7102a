SPECIFICATION Spec
CONSTANTS
    Start = 96
    End = 160
    AddressSpace = 256
    Sizes = {5, 24, 40}
    Alignments = {2, 32}
    MaxBlocks = 4
INVARIANTS WithinTheHeap
