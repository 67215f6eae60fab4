CONSTANTS
    UAs = {"u1", "u2"}
    HdrNames = {"x-proxy-ua", "x-other"}
    HttpAgents = {"safari"}
    TlsAgents = {"boringssl"}
    OuterUAs <- MCOuterUAs
    MaxServices = 2
SPECIFICATION Spec
INVARIANT DocHeaderOnly
