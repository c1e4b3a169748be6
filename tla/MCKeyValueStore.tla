-------------------------- MODULE MCKeyValueStore --------------------------
(* Instances of KeyValueStore for TLC. *)
EXTENDS KeyValueStore, TLC

CONSTANT text

Nested == {<<"a">>, <<"a", "b">>, <<"", "a", "", "b", "c">>, <<"">>}
Flat == {<<"a">>, <<"a", "">>}
OneText == {text}
Symmetric == Permutations(Caller)
MinusOne == -1
=============================================================================
