------------------------------ MODULE MCChain ------------------------------
(* Four parts for TLC: the contracts with nested calls and gifts, on one       *)
(* branch; the escrow with reorganizations, between calls that are not nested  *)
(* (together they would be too large); the queries that claim finality; and    *)
(* the transport under them.  The contracts, the queries and the transport     *)
(* share no state, so that a behaviour of one with the others at rest shows    *)
(* all there is to see; part says which one runs.                              *)
EXTENDS Contracts, RpcClient

VARIABLE part

contractVars == vars
readVars == <<chain, final, minted, view, active, op>>
transportVars == <<right, activeIndex, healthy, failovers, networkVerified, verifiedFailovers, req,
                   rounds, checked, answeredAt>>

Forks == INSTANCE Contracts WITH Amounts <- {1, 2}, MaxDepth <- 1, MaxGifts <- 0

MCInit ==
    /\ part \in {"contracts", "forks", "reads", "transport"}
    /\ Init /\ Reads!Init /\ Transport!Init
    /\ part # "reads" => op.query = "order"
    /\ part # "transport" => right = {}

MCNext ==
    \/ part = "contracts" /\ OnBranch /\ UNCHANGED <<readVars, transportVars, part>>
    \/ /\ part = "forks" /\ Forks!Next /\ world'.vault = world.vault
       /\ UNCHANGED <<readVars, transportVars, part>>
    \/ part = "reads" /\ Reads!Next /\ UNCHANGED <<contractVars, transportVars, part>>
    \/ part = "transport" /\ Transport!Next /\ UNCHANGED <<contractVars, readVars, part>>

MCSpec == MCInit /\ [][MCNext]_<<contractVars, readVars, transportVars, part>>

MCOrderValues == {[seller |-> "s", amount |-> a, state |-> "funded"] : a \in {1, 2}}

Symmetry == Permutations(Parties) \cup Permutations(Nodes)
=============================================================================
