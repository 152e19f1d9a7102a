SPECIFICATION Spec
CONSTANTS
    Size = 4
    PacketMax = 2
    Length = 2
    MaxSubmit = 4
INVARIANTS
    TypeOK
    NoOverrun
    PlaysInOrder
    SamplesAccountedFor
PROPERTIES
    CallsReturn
