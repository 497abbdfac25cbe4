--------------------------- MODULE MCX402Payment ---------------------------
(* Model-checking instance of X402Payment: two request slots, two nonces, *)
(* one client key, two amounts a client may sign and three seconds.       *)
EXTENDS X402Payment, TLC

MCAmounts == {"0.001", "0"}
MCPrice == "0.001"

(* Request slots and nonces are interchangeable. *)
MCSymmetry == Permutations(Requests) \cup Permutations(Nonces)
=============================================================================
