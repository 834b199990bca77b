--------------------------- MODULE ExpiringChain ---------------------------
(***************************************************************************)
(* A chain whose transactions expire, as the Solana and the TRON wallet    *)
(* use it (external; there is no code for it under src/).  Heights stand   *)
(* for Solana's block height and for TRON's block time: a transaction can  *)
(* be included on top of a block below its `lastValid`.  Blocks above the  *)
(* final one may be replaced by a fork that leaves transactions out or     *)
(* includes them again.                                                    *)
(***************************************************************************)
EXTENDS Naturals, Sequences, FiniteSets

CONSTANTS MaxHeight, MaxForks       \* bounds of the instance

ASSUME ChainBoundsAssumption == {MaxHeight, MaxForks} \subseteq Nat

VARIABLES
    signed,         \* every transaction ever signed: its quote and its last valid height
    wire,           \* transactions some node may have received
    blocks,         \* heights of the blocks of the chain
    tip,            \* height of the newest block
    final,          \* height of the newest final block
    landed,         \* transaction -> height of the block that includes it
    forks,          \* number of forks so far
    lagging         \* an RPC may be answered by a node that is behind; fixed for a behaviour

chainVars == <<signed, wire, blocks, tip, final, landed, forks, lagging>>

Txs == 1 .. Len(signed)

Final(t) == t \in DOMAIN landed /\ landed[t] <= final

\* What the next block may include.
Includable == {t \in wire \ DOMAIN landed : tip < signed[t].lastValid}

\* The transaction is on the chain or can still get there.
Live(t, firm) == ~Final(t) /\ (t \in DOMAIN landed \/ firm < signed[t].lastValid)

Produce(S, height) ==
    /\ height \in tip + 1 .. MaxHeight
    /\ tip' = height
    /\ blocks' = blocks \cup {height}
    /\ landed' = [t \in DOMAIN landed \cup S |-> IF t \in S THEN height ELSE landed[t]]
    /\ UNCHANGED <<signed, wire, final, forks, lagging>>

Finalize(height) ==
    /\ height \in blocks /\ final < height
    /\ final' = height
    /\ UNCHANGED <<signed, wire, blocks, tip, landed, forks, lagging>>

\* The blocks above `keep` are abandoned.
Fork(keep) ==
    /\ keep \in blocks /\ forks < MaxForks
    /\ forks' = forks + 1
    /\ tip' = keep
    /\ blocks' = {b \in blocks : b <= keep}
    /\ landed' = [t \in {u \in DOMAIN landed : landed[u] <= keep} |-> landed[t]]
    /\ UNCHANGED <<signed, wire, final, lagging>>

ChainInit ==
    /\ signed = <<>>
    /\ wire = {}
    /\ blocks = {0}
    /\ tip = 0
    /\ final = 0
    /\ landed = [t \in {} |-> 0]
    /\ forks = 0
    /\ lagging \in BOOLEAN

ChainTypeOK ==
    /\ signed \in Seq([quote : Nat, lastValid : Nat])
    /\ wire \subseteq Txs
    /\ blocks \subseteq Nat /\ tip \in blocks /\ final \in Nat /\ forks \in Nat
    /\ lagging \in BOOLEAN
    /\ DOMAIN landed \subseteq wire /\ landed \in [DOMAIN landed -> Nat]
=============================================================================
