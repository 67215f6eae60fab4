CONSTANTS
    Req <- MCOneReq
    Conns <- MCConns
    ConnOf <- MCOneConnOf
    HdrVals = {"v1"}
    ExtVals = {"e1"}
    Rid = "rid"
    LeafKinds = {"ok", "panic", "slow", "stall"}
    ReqHdrs <- MCReqHdrs
    Bodies = {"small", "big"}
    Methods <- MCShortMethods
    MaxLayers = 3
SPECIFICATION FairSpec
PROPERTY Implements
PROPERTY Responds
CHECK_DEADLOCK FALSE
