----------------------------- MODULE ChainReads -----------------------------
(***************************************************************************)
(* The two queries that conclude from several RPCs that something is       *)
(* final, while the chain grows, forks and finalizes between the RPCs:     *)
(* Client.Transaction (receipt, canonical block, head, finalized head,     *)
(* canonical block again) and Service.EscrowOrder (head, order, canonical  *)
(* block, finalized head, order there).  Each RPC is answered by the       *)
(* active endpoint from its own view of the chain, which may lag; the      *)
(* fallback transport may change the endpoint between two RPCs.            *)
(***************************************************************************)
EXTENDS Naturals, Sequences

CONSTANTS
    Endpoints,
    OrderValues,            \* the funded orders that can appear on some branch
    MaxBlock, MaxMinted     \* bounds: height, and blocks on all branches

VARIABLES
    chain,      \* the canonical chain, as [hash, tx, order] per height
    final,      \* height of the finalized block
    minted,     \* blocks so far
    view,       \* endpoint -> what it serves: [chain, final]
    active,     \* the endpoint requests go to
    op          \* the query

chainVars == <<chain, final, minted>>
vars == <<chainVars, view, active, op>>

NoOrder == [seller |-> "zero", amount |-> 0, state |-> "none"]

\* Reads of an order rely on what PaymentEscrow promises.
Life == INSTANCE OrderLifeCycle WITH
    orders <- [h \in DOMAIN chain |-> chain[h].order],
    base <- [h \in 1 .. final |-> chain[h].order]

\* An order on the chain after o: o itself, funded, or settled.
Later(o) ==
    {n \in {NoOrder} \cup OrderValues
           \cup {[v EXCEPT !.state = s] : v \in OrderValues, s \in {"released", "refunded"}} :
        Life!MayBecome(o, n)}

Genesis == [hash |-> 0, tx |-> FALSE, order |-> NoOrder]

Idle == [pc |-> "idle"]

Init ==
    /\ chain = <<Genesis>> /\ final = 1 /\ minted = 0
    /\ view = [e \in Endpoints |-> [chain |-> chain, final |-> 1]]
    /\ active \in Endpoints
    /\ op \in {[pc |-> "idle", query |-> q] : q \in {"transaction", "order"}}

-----------------------------------------------------------------------------
(* The chain and its endpoints (external).  An instance follows one          *)
(* transaction or one order, whichever its query asks for.                   *)

Mint ==
    /\ Len(chain) < MaxBlock /\ minted < MaxMinted
    /\ \E tx \in BOOLEAN, order \in Later(chain[Len(chain)].order) :
          /\ tx => op.query = "transaction" /\ \A h \in DOMAIN chain : ~chain[h].tx
          /\ order # NoOrder => op.query = "order"
          /\ chain' = Append(chain, [hash |-> minted + 1, tx |-> tx, order |-> order])
    /\ minted' = minted + 1
    /\ UNCHANGED <<final, view, active, op>>

\* The blocks above height h lose to another branch.
Reorg(h) ==
    /\ h \in final .. Len(chain) - 1
    /\ chain' = SubSeq(chain, 1, h)
    /\ UNCHANGED <<final, minted, view, active, op>>

Finalize ==
    /\ final < Len(chain)
    /\ final' = final + 1
    /\ UNCHANGED <<chain, minted, view, active, op>>

\* An endpoint catches up.
Sync(e) ==
    /\ view' = [view EXCEPT ![e] = [chain |-> chain, final |-> final]]
    /\ op' = IF e = active /\ op.pc # "idle" THEN [op EXCEPT !.still = FALSE] ELSE op
    /\ UNCHANGED <<chainVars, active>>

\* fallbackTransport.RoundTrip moved to another endpoint (FallbackTransport).
Failover(e) ==
    /\ e # active
    /\ active' = e
    /\ op' = IF op.pc # "idle" THEN [op EXCEPT !.still = FALSE, !.same = FALSE] ELSE op
    /\ UNCHANGED <<chainVars, view>>

-----------------------------------------------------------------------------
(* RPCs *)

Served == view[active]
Height == Len(Served.chain)
HashAt(h) == IF h <= Height THEN Served.chain[h].hash ELSE 0

\* The next RPC of the query.  same: the endpoint has not changed since the previous
\* RPC; still: nor has its view, since the query began.
Begin(pc, h) ==
    op' = [pc |-> pc, query |-> op.query, still |-> TRUE, same |-> TRUE,
           block |-> h, hash |-> HashAt(h), order |-> NoOrder, at |-> 0]
Step(pc) == op' = [op EXCEPT !.pc = pc, !.same = TRUE]

Quiet == UNCHANGED <<chainVars, view, active>>

\* The query answers, and another one may follow.
Answer(result) == op' = [pc |-> "answered", query |-> op.query, still |-> TRUE, same |-> TRUE,
                         answer |-> result]

\* An RPC fails, or the answer contradicts an earlier one: nothing is claimed.
Fail ==
    /\ op.pc # "idle"
    /\ op' = [pc |-> "idle", query |-> op.query]
    /\ Quiet

-----------------------------------------------------------------------------
(* Client.Transaction *)

Included == {h \in DOMAIN Served.chain : Served.chain[h].tx}

ReadReceipt ==
    /\ op.pc = "idle" /\ op.query = "transaction"
    /\ \/ \E h \in Included : Begin("canonical", h)
       \/ /\ Included = {}       \* TransactionByHash: pending, or not found
          /\ Answer([final |-> FALSE])
    /\ Quiet

ReadCanonical ==
    /\ op.pc = "canonical" /\ op.query = "transaction"
    /\ IF HashAt(op.block) = op.hash
       THEN Step("head")
       ELSE Answer([final |-> FALSE])       \* reorg_detected
    /\ Quiet

ReadHead ==
    /\ op.pc = "head" /\ op.query = "transaction"
    /\ Height >= op.block
    /\ Step("finalized")
    /\ Quiet

\* The finalized tag may not be supported: the receipt is shown without finality.
ReadFinalized ==
    /\ op.pc = "finalized" /\ op.query = "transaction"
    /\ \/ Served.final >= op.block /\ Step("recheck")
       \/ Answer([final |-> FALSE])
    /\ Quiet

\* Seeded fault: the block is not read again.
RecheckNothing ==
    /\ op.pc = "recheck"
    /\ Answer([final |-> TRUE, hash |-> op.hash, sure |-> op.same])
    /\ Quiet

Recheck ==
    /\ op.pc = "recheck"
    /\ Answer([final |-> HashAt(op.block) = op.hash, hash |-> op.hash, sure |-> op.same])
    /\ Quiet

-----------------------------------------------------------------------------
(* Service.EscrowOrder *)

ReadLatest ==
    /\ op.pc = "idle" /\ op.query = "order"
    /\ Begin("order", Height)
    /\ Quiet

ReadOrder ==
    /\ op.pc = "order"
    /\ op.block <= Height
    /\ op' = [op EXCEPT !.pc = "canonical", !.same = TRUE,
                        !.order = Served.chain[op.block].order]
    /\ Quiet

ReadOrderBlock ==
    /\ op.pc = "canonical" /\ op.query = "order"
    /\ HashAt(op.block) = op.hash
    /\ Step("finalized")
    /\ Quiet

\* Finality trails the head, or has already passed it.
ReadOrderFinalized ==
    /\ op.pc = "finalized" /\ op.query = "order"
    /\ \/ Answer([final |-> FALSE])
       \/ Served.final >= op.block /\ Answer([final |-> TRUE, order |-> op.order, sure |-> op.still])
       \/ /\ Served.final < op.block
          /\ op' = [op EXCEPT !.pc = "settled", !.same = TRUE, !.at = Served.final]
    /\ Quiet

\* Seeded fault: only the states are compared.
SameStateOnly(a, b) == a.state = b.state

SameOrder(a, b) == a.state = b.state /\ a.seller = b.seller /\ a.amount = b.amount

ReadSettled ==
    /\ op.pc = "settled"
    /\ Answer([final |-> op.at <= Height /\ SameOrder(Served.chain[op.at].order, op.order),
               order |-> op.order, sure |-> op.same])
    /\ Quiet

-----------------------------------------------------------------------------
Query ==
    \/ ReadReceipt \/ ReadCanonical \/ ReadHead \/ ReadFinalized \/ Recheck
    \/ ReadLatest \/ ReadOrder \/ ReadOrderBlock \/ ReadOrderFinalized \/ ReadSettled
    \/ Fail

Next ==
    \/ Mint \/ Finalize \/ Query
    \/ \E h \in 1 .. MaxBlock : Reorg(h)
    \/ \E e \in Endpoints : Sync(e) \/ Failover(e)

Spec == Init /\ [][Next]_vars

-----------------------------------------------------------------------------
(* Properties. *)

Claims(query) == op.pc = "answered" /\ op.query = query /\ op.answer.final

\* "Finality is observed through the RPC finalized block tag and a canonical
\* receipt-block hash recheck": a transaction reported final is in a block that no
\* reorganization can take away, whatever the chain did between the RPCs.  This
\* needs the finalized head and the recheck from one endpoint: after a failover
\* between the two, a lagging endpoint can confirm an orphaned block.
FinalLookupIsFinal ==
    (Claims("transaction") /\ op.answer.sure)
        => \E h \in 1 .. final : chain[h].hash = op.answer.hash

\* "An order is only shown as final when state, recipient and amount in the finalized
\* block agree": the answer is the order's value at a finalized height.  When
\* the finalized head has passed the block of the query, nothing is compared, and
\* the claim holds if the endpoint's view stayed the same during the query.
FinalOrderIsFinal ==
    (Claims("order") /\ op.answer.sure)
        => \E h \in 1 .. final : chain[h].order = op.answer.order
=============================================================================
