------------------------ MODULE MCContentNegotiation ------------------------
(* Accept headers of up to two ranges from a set with parameters, a quoted *)
(* value holding a comma, a wildcard, a range of quality 0 and one of      *)
(* lower quality, one naming a parameter twice; offers with and without  *)
(* parameters and an extension.                                            *)
EXTENDS ContentNegotiation

MCTypeRanges == {"text/html", "text/html;a=1", "text/html;a=1;b=2",
                 "text/*;q=0.5", "*/*;q=0", "text/html;a=\"1,2\"",
                 "application/json;q=0.8", "text/html;a=1;a=2;b=3"}
MCTypeOffers == {"text/html", "text/html;a=1", "text/html;a=1;b=2",
                 "application/json", "html", "text/html;a=2;b=9"}
MCPlainRanges == {"en", "en-us;q=0.5", "*", "fr;q=0"}
MCPlainOffers == {"en", "fr", "de"}
MCExtMime == Str("html") :> Str("text/html")
=============================================================================
