CONSTANTS
    Req <- MCReq
    Conns <- MCConns
    ConnOf <- MCConnOf
    HdrVals = {"v1"}
    ExtVals = {"e1"}
    Rid = "rid"
    LeafKinds = {"ok"}
    ReqHdrs <- MCReqHdrs
    Bodies = {"small"}
    Methods <- MCOrderMethods
    MaxLayers = 3
SPECIFICATION FairSpec
PROPERTY Implements
CHECK_DEADLOCK FALSE
