CONSTANTS
    RawPaths <- MCRawPaths
    Values <- MCValues
    Nil = Nil
SPECIFICATION Spec
INVARIANT TypeOK
INVARIANT TemplateIsSegments
