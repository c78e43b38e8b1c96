-------------------------------- MODULE MCLexer --------------------------------
(* All texts of a few pieces.                                                *)
EXTENDS Lexer, SequencesExt

CONSTANT MaxPieces \* bound on the pieces of a text

Pieces == {<<"a">>, <<"0">>, <<".">>, <<"e">>, <<"\"">>, <<"'">>, <<"\\">>, <<"\\", "x">>, <<"\\", "u", "{">>, <<"}">>,
           <<"\\", "z">>, <<"\n">>, <<"=">>, <<"]">>, <<"[", "[">>, <<"[", "=", "[">>, <<"]", "=">>,
           <<"-">>, <<"-", "-", "[">>, <<NonASCII>>}
MCTexts == {FlattenSeq(s) : s \in UNION {[1 .. n -> Pieces] : n \in 0 .. MaxPieces}}
===============================================================================
