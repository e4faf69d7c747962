------------------------- MODULE MCDelimiterDecoder -------------------------
(* A finite instance of DelimiterDecoder: two delimiters, of which one is  *)
(* the end of the other, as with the two line ends.                        *)
EXTENDS DelimiterDecoder

Overlapping == <<<<"a", "a", "n">>, <<"a", "n">>>>
=============================================================================
