--------------------------- MODULE MCStreamController ---------------------------
(***************************************************************************)
(* Three tokens: a letter, a space, and one that the normalizer has left   *)
(* with no characters at all.                                              *)
(***************************************************************************)
EXTENDS StreamController

MCTokens == {"letter", "space", "nothing"}
MCLength == [t \in MCTokens |-> IF t = "nothing" THEN 0 ELSE 1]
MCBreaks == {"space"}
================================================================================
