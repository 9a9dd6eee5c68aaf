CONSTANTS
    Workers = {w1, w2}
    Clients = {c1}
    DataObjs = {d1, d2}
    Keys <- MCKeys
    Payloads <- MCPayloads
    PutTypes <- MCPutTypes
    HandlerOps = {"Put", "Remove", "Clear", "Destroy", "RenewToken", "MergeSession", "Invalidate", "Regenerate"}
    MaxRequests = 3
    MaxOps = 1
    StoreFails = TRUE
    Corruption = TRUE
    Prefix = Prefix
    Junk = Junk
    Nil = Nil
    Corrupt = Corrupt
SPECIFICATION Spec
INVARIANT CsrfReady
