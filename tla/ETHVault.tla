------------------------------ MODULE ETHVault ------------------------------
(***************************************************************************)
(* contracts/ETHVault.sol: the checks of deposit and withdraw and their    *)
(* effects before the call of the receiver.  Of the state w of the chain   *)
(* the contract has the fields vault, the balance of each account, and     *)
(* vaultEntered, its guard; eth is the ether of every address.             *)
(***************************************************************************)
EXTENDS Naturals

CONSTANT Vault          \* address(this)

DepositAllowed(w, account, amount) ==
    /\ ~w.vaultEntered
    /\ amount # 0 /\ amount <= w.eth[account]

\* The value arrives with the call; deposit calls nobody, so that its guard is off
\* again when it returns.
Deposited(w, account, amount) ==
    [w EXCEPT !.vault[account] = @ + amount,
              !.eth = [w.eth EXCEPT ![account] = @ - amount, ![Vault] = @ + amount]]

WithdrawAllowed(w, account, amount) ==
    /\ ~w.vaultEntered
    /\ amount # 0 /\ amount <= w.vault[account]

\* Seeded fault: the ether goes out before the balance is reduced, without a guard.
WithdrawnUnguarded(w, account, amount) ==
    [w EXCEPT !.eth = [w.eth EXCEPT ![account] = @ + amount, ![Vault] = @ - amount]]

\* The balance is reduced before the ether goes to the account with the call.
Withdrawn(w, account, amount) ==
    [w EXCEPT !.vaultEntered = TRUE,
              !.vault[account] = @ - amount,
              !.eth = [w.eth EXCEPT ![account] = @ + amount, ![Vault] = @ - amount]]

VaultLeft(w) == [w EXCEPT !.vaultEntered = FALSE]
=============================================================================
