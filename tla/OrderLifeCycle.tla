--------------------------- MODULE OrderLifeCycle ---------------------------
(***************************************************************************)
(* What PaymentEscrow promises about its orders, and what the readers of   *)
(* the contract rely on: an order goes from none to funded and from there  *)
(* to exactly one of released and refunded, and its seller and amount are  *)
(* fixed when it is funded.  One transaction may take several orders, and  *)
(* one order several steps, when its caller is a contract.  Only a         *)
(* reorganization takes an order back.                                     *)
(***************************************************************************)
CONSTANT NoOrder        \* the value of an order nobody has funded

VARIABLES
    orders,     \* order key -> [seller, amount, state], on the canonical chain
    base        \* the orders that the next reorganization goes back to

States == {"none", "funded", "released", "refunded"}

Init == orders = [k \in DOMAIN orders |-> NoOrder] /\ base = orders

\* o may become n in one transaction.
MayBecome(o, n) ==
    \/ n = o
    \/ o.state = "none" /\ n.state \in States \ {"none"}
    \/ o.state = "funded" /\ n \in {[o EXCEPT !.state = s] : s \in {"released", "refunded"}}

Transaction ==
    /\ DOMAIN orders' = DOMAIN orders
    /\ \A k \in DOMAIN orders : MayBecome(orders[k], orders'[k])
    /\ UNCHANGED base

\* Blocks are added that no reorganization takes away any more.
Anchor == base' = orders /\ UNCHANGED orders

Reorg == orders' = base /\ UNCHANGED base

Next == Transaction \/ Anchor \/ Reorg

Spec == Init /\ [][Next]_<<orders, base>>
=============================================================================
