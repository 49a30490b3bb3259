----------------------------- MODULE MCMetadata -----------------------------
(* An instance of Metadata for TLC. *)
EXTENDS Metadata

\* Two paths that differ in a space.
MCPaths == {<<"/", "b">>, <<"/", " ", "b">>}
\* Hashes of two bytes with every kind of digit.
MCHashes == {<<10, 192>>, <<255, 9>>}
MCKeyPairs == {<<17, 160>>, <<0, 254>>}
MCAccounts == {<<"c", "5">>}
=============================================================================
