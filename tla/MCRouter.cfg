CONSTANTS
    Ctxs = {x1, x2}
    Methods = {"GET", "POST"}
    Paths = {"/a", "/b", "/c"}
    Routes <- MCRoutes
    Addrs = {"proxy", "c1"}
    TrustProxies = {"proxy"}
    MaxXff = 1
    MaxRequests = 3
    Fwds <- MCFwds
    Calls <- MCCalls
    None = None
SPECIFICATION Spec
INVARIANT TypeOK
SYMMETRY MCCtxSymmetry
