CONSTANTS
    FieldWidth <- MCFieldWidth
    Values <- MCValues
    Masks <- MCMasks
    NoMask <- MCNoMask
    PacketFieldPool <- MCPacketFieldPool
    MaxEntries <- MCMaxEntries
SPECIFICATION Spec
INVARIANT LengthIsWireBytes
