------------------------------ MODULE MCStartup ------------------------------
(* An instance of Startup for TLC. *)
EXTENDS Startup

\* An account id, another one, a part of the first, and none.
MCAccounts == {<<1, 2>>, <<2, 2>>, <<1>>, <<>>}
=============================================================================
