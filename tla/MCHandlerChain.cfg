CONSTANTS
    MaxLen = 3
    Shapes = {"Pass", "Wrap", "WrapFail", "Fail", "FailHTTP", "Abort"}
SPECIFICATION Spec
INVARIANT TypeOK
PROPERTY ChainRefinesAbstract
