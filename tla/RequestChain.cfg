CONSTANTS
    MethodSet = {"GET", "OPTIONS"}
    Paths = {"/api/a", "/b/<id>"}
    Names = {"home"}
    ParamsOf <- MCParamsOf
    UseHs <- MCUseHs
    RouteHs <- MCRouteHs
    NotFoundHs <- MCNotFoundHs
    MaxCalls = 3
    MaxLen = 5
    Shapes = {"Pass", "Wrap", "WrapFail", "Fail", "FailHTTP", "Abort"}
    ShapesOf <- MCShapesOf
    CorsPath <- MCCorsPath
SPECIFICATION Spec
INVARIANT ChainAsDocumented
