------------------------------- MODULE MCGate -------------------------------
(* An instance of Gate for TLC. *)
EXTENDS Gate

MCChains == {<<>>, <<Proxy>>, <<"garbled">>} \cup {<<a>> : a \in Client}
GateSymmetry == Permutations(Client) \cup Permutations(Req)
=============================================================================
