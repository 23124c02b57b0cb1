-------------------------- MODULE MCMatrixCapture --------------------------
(* The capture with needles over three letters, of every shape: one letter, *)
(* simple ones, one whose prefix repeats, one longer than the window, none. *)
EXTENDS MatrixCapture

MCByte == {"a", "b", "c"}
MCNeedles == {<<>>, <<"a">>, <<"a", "b">>, <<"a", "b", "b">>,
              <<"a", "b", "c", "b", "c">>, <<"a", "b", "a", "c">>}
=============================================================================
