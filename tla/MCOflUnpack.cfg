CONSTANTS
    MaxLen <- MCMaxLen
    SizeWrap <- MCSizeWrap
SPECIFICATION Spec
INVARIANT TypeOK
INVARIANT CallsStayInside
INVARIANT UnpackInvertsPack
PROPERTY EveryUnpackEnds
