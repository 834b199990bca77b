----------------------------- MODULE RpcClient -----------------------------
(***************************************************************************)
(* The EVM client below the wallet: what its queries may call final        *)
(* (ChainReads), and which endpoints its transport sends them to           *)
(* (FallbackTransport).                                                    *)
(***************************************************************************)
CONSTANTS
    Nodes, OrderValues, MaxBlock, MaxMinted,        \* ChainReads
    Requests, N, MaxRounds, MaxMisroutes                \* FallbackTransport

\* An order is a record of the fields that SameOrder compares.
ASSUME OrderValuesAssumption ==
    \A o \in OrderValues : o = [seller |-> o.seller, amount |-> o.amount, state |-> o.state]

VARIABLES
    chain, final, minted, view, active, op,
    right, activeIndex, healthy, failovers, networkVerified, verifiedFailovers, req, rounds,
    checked, answeredAt

Reads == INSTANCE ChainReads WITH Endpoints <- Nodes

Transport == INSTANCE FallbackTransport WITH active <- activeIndex

\* A transaction reported as final cannot be taken away by a reorganization
\* (Client.Transaction).
FinalLookupIsFinal == Reads!FinalLookupIsFinal

\* An order reported as final has that value at a finalized height
\* (Service.EscrowOrder).
FinalOrderIsFinal == Reads!FinalOrderIsFinal

\* Only endpoints that have shown the selected chain id receive requests, and the
\* cached check is not older than the failover it is recorded for
\* (fallbackTransport, checkNetwork).
EndpointsAreChecked == Transport!EndpointsAreChecked
=============================================================================
