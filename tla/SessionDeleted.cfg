CONSTANTS
    Workers = {w1, w2}
    Clients = {c1}
    DataObjs = {d1, d2}
    Keys <- MCKeys
    Payloads <- MCPayloads
    PutTypes <- MCIntTypes
    HandlerOps = {"Put", "Destroy", "RenewToken"}
    MaxRequests = 2
    MaxOps = 2
    StoreFails = FALSE
    Corruption = TRUE
    Prefix = Prefix
    Junk = Junk
    Nil = Nil
    Corrupt = Corrupt
SPECIFICATION Spec
INVARIANT LaterRequestReadsBack
