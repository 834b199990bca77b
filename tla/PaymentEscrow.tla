--------------------------- MODULE PaymentEscrow ---------------------------
(***************************************************************************)
(* contracts/PaymentEscrow.sol: the checks of its three functions, their   *)
(* effects before the call of the token, and the checks after it; and the  *)
(* checks with which the wallet prepares such a call (prepareEscrow).  The *)
(* state of the chain is a record w with, for this contract, the fields    *)
(* orders, totalLocked, entered (OpenZeppelin's ReentrancyGuard) and       *)
(* token, the balances of the payment token.                               *)
(***************************************************************************)
EXTENDS Naturals

CONSTANTS
    Parties,        \* addresses of buyers and sellers
    Ids,            \* order references
    Escrow          \* address(this)

\* orders[buyer][orderId] of an order that was never funded; its seller is the
\* zero address.
Zero == "zero"
NoOrder == [seller |-> Zero, amount |-> 0, state |-> "none"]

Keys == Parties \X Ids

-----------------------------------------------------------------------------
(* fund, release and refund up to the call of the token *)

\* Seeded fault: the identifier of a settled order may be used again.
FundAllowedAgain(w, buyer, id, seller, amount) ==
    /\ ~w.entered
    /\ seller \notin {Zero, buyer, Escrow} /\ amount # 0
    /\ w.orders[<<buyer, id>>].state # "funded"

FundAllowed(w, buyer, id, seller, amount) ==
    /\ ~w.entered
    /\ seller \notin {Zero, buyer, Escrow} /\ amount # 0
    /\ w.orders[<<buyer, id>>].state = "none"

\* Seeded fault: no re-entrancy guard.
FundedUnguarded(w, buyer, id, seller, amount) ==
    [w EXCEPT !.orders[<<buyer, id>>] = [seller |-> seller, amount |-> amount, state |-> "funded"],
              !.totalLocked = @ + amount]

Funded(w, buyer, id, seller, amount) ==
    [w EXCEPT !.entered = TRUE,
              !.orders[<<buyer, id>>] = [seller |-> seller, amount |-> amount, state |-> "funded"],
              !.totalLocked = @ + amount]

ReleaseAllowed(w, caller, buyer, id) ==
    ~w.entered /\ caller = buyer /\ w.orders[<<buyer, id>>].state = "funded"

\* Seeded fault: the seller may refund an order that was released.
RefundAllowedLate(w, caller, buyer, id) ==
    ~w.entered /\ caller = w.orders[<<buyer, id>>].seller /\ w.orders[<<buyer, id>>].state # "none"

RefundAllowed(w, caller, buyer, id) ==
    ~w.entered /\ caller = w.orders[<<buyer, id>>].seller /\ w.orders[<<buyer, id>>].state = "funded"

Settled(w, buyer, id, outcome) ==
    [w EXCEPT !.entered = TRUE,
              !.orders[<<buyer, id>>].state = outcome,
              !.totalLocked = @ - w.orders[<<buyer, id>>].amount]

-----------------------------------------------------------------------------
(* After the call: the token must have moved exactly the amount. *)

\* fund compares the contract's balance, pay the recipient's and the contract's.
Exact(w, to, amount, before) ==
    /\ w.token[to] = before[to] + amount
    /\ to = Escrow \/ w.token[Escrow] + amount = before[Escrow]

\* The guard is released when the function returns.
Left(w) == [w EXCEPT !.entered = FALSE]

-----------------------------------------------------------------------------
(* prepareEscrow: what the wallet checks of the latest state before it shows *)
(* a preview.  The call is simulated as well, which repeats the contract's   *)
(* own checks; the allowance is part of whether the token moves.             *)

MayPrepare(w, action, from, buyer, id, seller, amount) ==
    LET order == w.orders[<<buyer, id>>] IN
    \/ /\ action = "fund" /\ buyer = from
       /\ order.state = "none"
       /\ seller \notin {from, Escrow, Zero} /\ amount > 0
       /\ FundAllowed(w, from, id, seller, amount)
    \/ /\ action = "release" /\ order.state = "funded" /\ from = buyer
       /\ ReleaseAllowed(w, from, buyer, id)
    \/ /\ action = "refund" /\ order.state = "funded" /\ from = order.seller
       /\ RefundAllowed(w, from, buyer, id)

\* The recipient and the amount the preview shows: those of the command for fund,
\* those of the order for release and refund.
Preview(w, action, buyer, id, seller, amount) ==
    LET order == w.orders[<<buyer, id>>] IN
    CASE action = "fund"    -> [to |-> seller, amount |-> amount]
      [] action = "release" -> [to |-> order.seller, amount |-> order.amount]
      [] action = "refund"  -> [to |-> buyer, amount |-> order.amount]
=============================================================================
