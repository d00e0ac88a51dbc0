--------------------------- MODULE ConversionsMC ---------------------------
(* Conversions over a few bases of a path and a few addresses.             *)
EXTENDS Conversions

MCBases == {Empty, Root, <<"", "a", "..", "b">>, <<"b", "">>}

MCAddresses == {<<>>, <<"a">>, <<"ESC", "=">>}
=============================================================================
