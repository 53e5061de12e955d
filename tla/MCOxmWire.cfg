CONSTANTS
    FieldWidth <- MCFieldWidth
    Values <- MCValues
    Masks <- MCMasks
    NoMask <- MCNoMask
    PacketFieldPool <- MCPacketFieldPool
    MaxEntries <- MCMaxEntries
SPECIFICATION Spec
INVARIANT TypeOK
INVARIANT LengthIsWireBytes
INVARIANT BufferIsWhatHeaderDeclares
INVARIANT MatchHoldsWhatWasAsked
INVARIANT UnpackInvertsPack
INVARIANT DamagedWireIsRefused
