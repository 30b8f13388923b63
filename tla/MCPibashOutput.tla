--------------------------- MODULE MCPibashOutput ---------------------------
(* An error in colour above equal lines, the first half of a wide character, *)
(* a long error line that cannot be decoded, and blank lines.                *)
EXTENDS PibashOutput
MixedWords == {<<"z", "e", "nl", "x", "nl", "x", "nl">>,
               <<"L">>, <<"C", "C", "C", "C", "C", "e">>, <<"nl", "nl", "nl">>}
WideWords == {<<"L">>, <<"C", "x", "L", "C">>}
=============================================================================
