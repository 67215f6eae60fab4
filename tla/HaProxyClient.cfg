CONSTANTS
    Req <- MCReq
    Addr4 <- MCAddr4
    Addr6 <- MCAddr6
    NoAddr = NoAddr
    PayloadLens <- MCPayloadLens
    MaxAppWrites = 1

SPECIFICATION FairSpec

INVARIANT TypeOK
INVARIANT Announced
INVARIANT HeaderFaithful
INVARIANT LengthField

PROPERTY Completes

CHECK_DEADLOCK FALSE
