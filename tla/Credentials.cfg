CONSTANTS
    RawLen = 4
    ByteVals = {0, 1, 200, 255}
    EditChars = {65, 95, 33}
    OtherRaws <- MCOtherRaws
    CsrfTokenLen <- MCCsrfTokenLen
    CsrfRaws <- MCCsrfRaws
    Methods <- MCMethods
    MaxRequests = 2
SPECIFICATION Spec
INVARIANT CredentialsAreIssued
