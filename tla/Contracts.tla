------------------------------ MODULE Contracts ------------------------------
(***************************************************************************)
(* PaymentEscrow and ETHVault on one EVM.  A transaction calls one of      *)
(* them; while it calls the token, or the receiver of ether, that code may *)
(* call either contract again, any number of times, before it returns.     *)
(* stack holds the calls under way; each remembers the state it started    *)
(* from, which a revert restores.  The token may move less than it was     *)
(* asked to, refuse, or call back (EscrowTestToken has these modes), and a *)
(* receiver may refuse its ether.  The token reports its balances          *)
(* truthfully: the wallet only accepts one configured token.               *)
(*                                                                         *)
(* Calls come from the wallet, which prepares them on the latest state and *)
(* has them included at any later time, and from anybody else.  The latest *)
(* state is not final: a reorganization takes the chain back to an earlier *)
(* block, and the wallet's call may be included again on the new branch.   *)
(***************************************************************************)
EXTENDS PaymentEscrow, ETHVault, Sequences, SequencesExt

CONSTANTS
    Amounts,        \* of orders, deposits and withdrawals
    Supply,         \* tokens of each party at the start
    Ether,          \* ether of each party at the start
    MaxDepth,       \* of nested calls
    MaxGifts        \* tokens sent to the escrow, or ether forced on the vault

ASSUME ContractsAssumption ==
    /\ Amounts \subseteq Nat
    /\ {Supply, Ether, MaxDepth, MaxGifts} \subseteq Nat
    /\ Escrow \notin Parties /\ Vault \notin Parties /\ Zero \notin Parties
    /\ IsFiniteSet(Parties) /\ IsFiniteSet(Ids)

VARIABLES
    world,      \* storage of both contracts, tokens and ether
    stack,      \* calls under way, the outermost first
    prepared,   \* a call the wallet has signed, until it is final or given up
    gifts,      \* party -> tokens and ether it gave away without an order or deposit,
                \* and whether it did so inside a transfer of the escrow
    base        \* world and gifts in the block the next reorganization goes back to

vars == <<world, stack, prepared, gifts, base>>

Nothing == [action |-> "nothing"]

Given(kind) == SumFunction([p \in Parties |-> gifts[p][kind]])

NoGifts == [p \in Parties |-> [token |-> 0, eth |-> 0, inside |-> FALSE]]

Init ==
    /\ world = [orders |-> [k \in Keys |-> NoOrder], totalLocked |-> 0, entered |-> FALSE,
                token |-> [p \in Parties \cup {Escrow} |-> IF p = Escrow THEN 0 ELSE Supply],
                vault |-> [p \in Parties |-> 0], vaultEntered |-> FALSE,
                eth |-> [p \in Parties \cup {Vault} |-> IF p = Vault THEN 0 ELSE Ether]]
    /\ stack = <<>>
    /\ prepared = Nothing
    /\ gifts = NoGifts
    /\ base = [world |-> world, gifts |-> gifts]

-----------------------------------------------------------------------------
(* Calls and reverts *)

Running == stack # <<>>
Top == stack[Len(stack)]
Return(w) == world' = w /\ stack' = Front(stack)

\* A call of `from`, which asks for `amount` to go to `to`; shown is the preview of
\* a call that the wallet prepared.
Enter(w, name, from, to, amount, shown) ==
    /\ Len(stack) < MaxDepth
    /\ world' = w
    /\ stack' = Append(stack, [name |-> name, from |-> from, to |-> to, amount |-> amount,
                               shown |-> shown, moved |-> FALSE, before |-> w.token,
                               saved |-> world, gifts |-> gifts])
    /\ UNCHANGED gifts

\* Everything the call did is undone, what it called included.
Revert ==
    /\ Running
    /\ Return(Top.saved)
    /\ gifts' = Top.gifts
    /\ UNCHANGED <<prepared, base>>

-----------------------------------------------------------------------------
(* PaymentEscrow *)

FundCall(buyer, id, seller, amount, shown) ==
    /\ FundAllowed(world, buyer, id, seller, amount)
    /\ Enter(Funded(world, buyer, id, seller, amount), "fund", buyer, Escrow, amount, shown)

ReleaseCall(caller, buyer, id, shown) ==
    LET order == world.orders[<<buyer, id>>] IN
    /\ ReleaseAllowed(world, caller, buyer, id)
    /\ Enter(Settled(world, buyer, id, "released"), "pay", Escrow, order.seller, order.amount, shown)

RefundCall(caller, buyer, id, shown) ==
    LET order == world.orders[<<buyer, id>>] IN
    /\ RefundAllowed(world, caller, buyer, id)
    /\ Enter(Settled(world, buyer, id, "refunded"), "pay", Escrow, buyer, order.amount, shown)

Fund(buyer, id, seller, amount) ==
    FundCall(buyer, id, seller, amount, Nothing) /\ UNCHANGED <<prepared, base>>

Release(caller, buyer, id) ==
    ReleaseCall(caller, buyer, id, Nothing) /\ UNCHANGED <<prepared, base>>

Refund(caller, buyer, id) ==
    RefundCall(caller, buyer, id, Nothing) /\ UNCHANGED <<prepared, base>>

\* The token moves the amount it was asked to move, or one unit less.
Transfer(moved) ==
    /\ Running /\ Top.name \in {"fund", "pay"} /\ ~Top.moved
    /\ moved \in {Top.amount, Top.amount - 1} /\ moved <= world.token[Top.from]
    /\ world' = [world EXCEPT !.token = [world.token EXCEPT ![Top.from] = @ - moved, ![Top.to] = @ + moved]]
    /\ stack' = [stack EXCEPT ![Len(stack)].moved = TRUE]
    /\ UNCHANGED <<prepared, gifts, base>>

\* The balances are compared, and the call returns; otherwise it reverts.
TransferReturns ==
    /\ Running /\ Top.moved
    /\ Exact(world, Top.to, Top.amount, Top.before)
    /\ Return(Left(world))
    /\ UNCHANGED <<prepared, gifts, base>>

\* Tokens sent to the escrow's address, also inside one of its transfers.
Give(p) ==
    /\ world.token[p] > 0
    /\ Given("token") + Given("eth") < MaxGifts
    /\ world' = [world EXCEPT !.token = [world.token EXCEPT ![p] = @ - 1, ![Escrow] = @ + 1]]
    /\ gifts' = [gifts EXCEPT ![p].token = @ + 1, ![p].inside = @ \/ world.entered]
    /\ UNCHANGED <<stack, prepared, base>>

-----------------------------------------------------------------------------
(* ETHVault *)

Deposit(account, amount) ==
    /\ DepositAllowed(world, account, amount)
    /\ world' = Deposited(world, account, amount)
    /\ UNCHANGED <<stack, prepared, gifts, base>>

Withdraw(account, amount) ==
    /\ WithdrawAllowed(world, account, amount)
    /\ Enter(Withdrawn(world, account, amount), "withdraw", Vault, account, amount, Nothing)
    /\ UNCHANGED <<prepared, base>>

\* The receiver's code ends normally.
ReceiverReturns ==
    /\ Running /\ Top.name = "withdraw"
    /\ Return(VaultLeft(world))
    /\ UNCHANGED <<prepared, gifts, base>>

\* The vault has no receive function, but ether can be forced on any address.
ForceEther(p) ==
    /\ world.eth[p] > 0
    /\ Given("token") + Given("eth") < MaxGifts
    /\ world' = [world EXCEPT !.eth = [world.eth EXCEPT ![p] = @ - 1, ![Vault] = @ + 1]]
    /\ gifts' = [gifts EXCEPT ![p].eth = @ + 1]
    /\ UNCHANGED <<stack, prepared, base>>

-----------------------------------------------------------------------------
(* The wallet *)

\* mined: the call is in a block above the fork point; orphaned: a reorganization has
\* taken the order back that the preview was read from.
Prepare(action, from, buyer, id, seller, amount) ==
    /\ ~Running /\ prepared = Nothing
    /\ MayPrepare(world, action, from, buyer, id, seller, amount)
    /\ prepared' = [action |-> action, from |-> from, buyer |-> buyer, id |-> id,
                    seller |-> seller, amount |-> amount,
                    shown |-> Preview(world, action, buyer, id, seller, amount),
                    mined |-> FALSE, orphaned |-> FALSE]
    /\ UNCHANGED <<world, stack, gifts, base>>

\* The chain includes the call.  When the contract refuses it by then, the
\* transaction reverts as a whole.
Include ==
    /\ ~Running /\ prepared # Nothing /\ ~prepared.mined
    /\ LET c == prepared IN
       \/ c.action = "fund" /\ FundCall(c.from, c.id, c.seller, c.amount, c.shown)
       \/ c.action = "release" /\ ReleaseCall(c.from, c.buyer, c.id, c.shown)
       \/ c.action = "refund" /\ RefundCall(c.from, c.buyer, c.id, c.shown)
    /\ prepared' = [prepared EXCEPT !.mined = TRUE]
    /\ UNCHANGED base

\* It was refused, replaced or never included.
Drop ==
    /\ ~Running /\ prepared # Nothing
    /\ prepared' = Nothing
    /\ UNCHANGED <<world, stack, gifts, base>>

-----------------------------------------------------------------------------
(* Reorganizations (external).  The fork point is any block after the last one. *)

Anchor ==
    /\ ~Running
    /\ base' = [world |-> world, gifts |-> gifts]
    /\ prepared' = IF prepared # Nothing /\ prepared.mined THEN Nothing ELSE prepared
    /\ UNCHANGED <<world, stack, gifts>>

\* Blocks above the fork point are taken back; the wallet's call is no longer mined.
Reorg ==
    /\ ~Running
    /\ world' = base.world /\ gifts' = base.gifts
    /\ prepared' = IF prepared = Nothing THEN Nothing
                   ELSE [prepared EXCEPT
                           !.mined = FALSE,
                           !.orphaned = \/ @
                                        \/ base.world.orders[<<prepared.buyer, prepared.id>>].state = "none"]
    /\ UNCHANGED <<stack, base>>

-----------------------------------------------------------------------------
\* What happens on one branch.
OnBranch ==
    \/ Revert \/ TransferReturns \/ ReceiverReturns \/ Include \/ Drop
    \/ Running /\ \E moved \in {Top.amount, Top.amount - 1} : Transfer(moved)
    \/ \E p \in Parties : Give(p) \/ ForceEther(p)
    \/ \E p \in Parties, a \in Amounts : Deposit(p, a) \/ Withdraw(p, a)
    \/ \E caller \in Parties, k \in Keys : Release(caller, k[1], k[2]) \/ Refund(caller, k[1], k[2])
    \/ \E k \in Keys, seller \in Parties \cup {Escrow}, a \in Amounts :
          \/ Fund(k[1], k[2], seller, a)
          \/ Prepare("fund", k[1], k[1], k[2], seller, a)
    \/ \E from \in Parties, k \in Keys, action \in {"release", "refund"} :
          Prepare(action, from, k[1], k[2], Zero, 0)

Next == OnBranch \/ Anchor \/ Reorg

Spec == Init /\ [][Next]_vars

-----------------------------------------------------------------------------
(* Properties. *)

Total(K) == SumFunctionOnSet([k \in Keys |-> world.orders[k].amount], K)

InState(states) == {k \in Keys : world.orders[k].state \in states}

\* What p has paid into orders, and what orders have paid out to p.
PaidIn(p) == Total({k \in InState({"funded", "released", "refunded"}) : k[1] = p})
PaidOut(p) == Total({k \in InState({"released"}) : world.orders[k].seller = p}
                    \cup {k \in InState({"refunded"}) : k[1] = p})

\* Between transactions the contract holds at least totalLocked, the sum of the
\* funded orders, and the token accounts agree with the orders to the unit: an order
\* took its amount from its buyer once and gave it to one party once, whatever the
\* token did and whoever was called back during the transfers.  (A gift inside a
\* transfer that moves too little can make up for it: then a third party has paid.)
EscrowIsExact ==
    ~Running =>
        /\ world.totalLocked = Total(InState({"funded"}))
        /\ world.token[Escrow] >= world.totalLocked
        /\ (\A p \in Parties : ~gifts[p].inside) =>
              \A p \in Parties :
                  world.token[p] + PaidIn(p) + gifts[p].token = Supply + PaidOut(p)

\* Between transactions no account has gained or lost ether through the vault, its
\* balances are isolated, and the vault can pay all of them, also when receivers
\* call back or refuse their ether.
VaultIsExact ==
    ~Running =>
        /\ \A p \in Parties : world.eth[p] + world.vault[p] + gifts[p].eth = Ether
        /\ world.eth[Vault] = SumFunction(world.vault) + Given("eth")

\* What a node answers about the orders: the state between transactions.
Committed == IF Running THEN stack[1].saved.orders ELSE world.orders

Orders == INSTANCE OrderLifeCycle WITH orders <- Committed, base <- base.world.orders

\* Every transaction, with all the calls nested in it, takes each order along its
\* life cycle: settled orders never change and their identifiers are not used again.
OrdersFollowLifeCycle == Orders!Spec

\* A release or refund prepared in the wallet pays the recipient and the amount that
\* its preview showed (or it reverts), however much later it is included, also after
\* a reorganization and whatever was done to the order in between, as long as no
\* reorganization takes back the order itself.  If one does, the reference can be funded
\* anew, and the call, which only names buyer and reference, settles the new order;
\* of the preview a refund then still has its recipient.
PreviewHolds ==
    \A i \in DOMAIN stack :
        (stack[i].name = "pay" /\ stack[i].shown # Nothing) =>
            /\ ~prepared.orphaned =>
                  stack[i].shown = [to |-> stack[i].to, amount |-> stack[i].amount]
            /\ prepared.action = "refund" => stack[i].shown.to = stack[i].to
=============================================================================
