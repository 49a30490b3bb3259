------------------------------ MODULE MCPersist ------------------------------
(* An instance of Persist for TLC. *)
EXTENDS Persist

\* With a threshold of 2: two small values, two of two pieces and one of three.
MCSize == [v \in {"a", "b", "c", "d", "e"} |->
              CASE v = "a" -> 1 [] v = "b" -> 2 [] v = "c" -> 3
                [] v = "d" -> 4 [] v = "e" -> 5]
=============================================================================
