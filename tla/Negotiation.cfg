CONSTANTS
    TypeRanges <- MCTypeRanges
    TypeOffers <- MCTypeOffers
    PlainRanges <- MCPlainRanges
    PlainOffers <- MCPlainOffers
    MaxRanges = 2
    ExtMime <- MCExtMime
SPECIFICATION Spec
INVARIANT NegotiatesAsDocumented
