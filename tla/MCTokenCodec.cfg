CONSTANTS
    RawLen = 6
    ByteVals = {0, 1, 200, 255}
    EditChars = {65, 95, 33}
    OtherRaws <- MCOtherRaws
SPECIFICATION Spec
INVARIANT TypeOK
INVARIANT IssuedTokenAccepted
