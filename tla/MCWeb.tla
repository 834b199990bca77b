------------------------------- MODULE MCWeb -------------------------------
(* What visitors can use up, for TLC: the traffic and attempts of the gates    *)
(* before every handler, and the faucet's payouts.  The faucet keeps nothing   *)
(* of the gates' state nor they of its, so that a behaviour of one with the    *)
(* other at rest shows all there is to see; part says which one runs.          *)
EXTENDS Web, TLC

VARIABLE part

gateVars == <<config, now, traffic, budget, req, checks, counted>>

MCInit ==
    /\ part \in {"faucet", "gates"}
    /\ Init /\ Gates!Init
    /\ part = "faucet" => config = [shared |-> TRUE, token |-> TRUE, public |-> TRUE]

MCNext ==
    \/ part = "faucet" /\ Next /\ UNCHANGED <<gateVars, part>>
    \/ part = "gates" /\ Gates!Next /\ UNCHANGED <<vars, part>>

MCSpec == MCInit /\ [][MCNext]_<<vars, gateVars, part>>

Symmetry == Permutations(Claimants) \cup Permutations(Recipients)
=============================================================================
