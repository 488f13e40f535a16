--------------------------- MODULE MCModelStream ---------------------------
(* An instance of Transcript for TLC: what the server and the user say.    *)
EXTENDS Transcript

\* A blank, two words, thoughts in the answer's way, whole or half, the
\* two parts of a JSON object.
SomeTexts == {<<"_">>, <<"b", "a">>, <<"O", "t", "C", "_", "b">>, <<"O", "t">>,
              <<"{", "1">>, <<"}">>}
\* A JSON array before a call, a literal in a fence, a call that does not decode
\* before one that does.
SomeThoughts == {<<"[", "[", "1", "]", "]", "V">>, <<"F", "L", "1", "F">>, <<"U", "T">>}
SomeArgs == {<<"x">>, <<"y">>}
\* Arguments in one piece or two that are a JSON object; the others are cut.
SomeObjects == {<<"x">>, <<"x", "y">>, <<"T">>}
SomeUserTexts == {<<>>, <<"a", "_">>}
=============================================================================
