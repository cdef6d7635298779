------------------------------ MODULE MCPubSub ------------------------------
(* PubSub for TLC: the clients are interchangeable.                        *)
EXTENDS PubSub, TLC

ClientSymmetry == Permutations(Client)
=============================================================================
