------------------------------- MODULE Faucet -------------------------------
(***************************************************************************)
(* TestFaucet: payouts of a fixed amount from one dispenser account, at    *)
(* most one per address and hour (Claim for an EVM network and one asset,  *)
(* ClaimTRX for TRON; the two have the same steps).  The dispenser is an   *)
(* ordinary wallet service that its owner may use as well.  Here it is the *)
(* contract that EvmWallet and TronWallet establish: a transaction reaches *)
(* the network only after its record is durable, nothing is sent while an  *)
(* earlier record is unresolved, and a durable record may be broadcast,    *)
(* again and again, at any later time, whatever Send answered and however  *)
(* often the process was restarted in between.  Amounts, fees and checks   *)
(* of the recipient are the constant Recipients and a claim that may end   *)
(* without a record at any point.                                          *)
(***************************************************************************)
EXTENDS Naturals, Sequences, FiniteSets

CONSTANTS
    Recipients,     \* local accounts other than the dispenser
    Claimants,      \* requests that may run at the same time
    Hour,           \* length of the window
    Limit,          \* records per hour (20)
    MaxTx, MaxClock, MaxReorgs      \* bounds of the instance

ASSUME FaucetAssumption == Hour \in Nat /\ Limit \in Nat

VARIABLES
    records,    \* the dispenser's journal with its archives, oldest first
    claims,     \* claimant -> what it is doing
    clock,
    fate,       \* of each record on the canonical chain
    revoked,    \* records whose failure was recorded and then taken back by the chain
    reorgs      \* reorganizations so far

chainVars == <<fate, revoked, reorgs>>
vars == <<records, claims, clock, chainVars>>

\* The faucet writes its amount in one way.  Another text is another amount or the same
\* one as somebody typed it ("0.0010" for "0.001", which ParseUnits reads alike); the
\* dispenser's transactions of other assets and to other addresses, which the check
\* passes over like these, stand among them.
FaucetText == "0.001"
Texts == {FaucetText, "0.0010"}

\* `text` is the amount as the journal holds it.  "open" stands for every state that
\* is not an outcome (pending, submitted, broadcast_unknown, reorg_detected), and
\* "failed" for reverted, execution_failed and expired_unconfirmed.
Record == [to : Recipients, text : Texts, by : {"faucet", "owner"},
           state : {"open", "succeeded", "failed"}, archived : BOOLEAN, born : Nat,
           known : Nat]     \* records there were when the claim looked at them

Idle == [pc |-> "idle"]

Init ==
    /\ records = <<>> /\ fate = <<>>
    /\ claims = [c \in Claimants |-> Idle]
    /\ clock = 0
    /\ revoked = {}
    /\ reorgs = 0

Txs == DOMAIN records

-----------------------------------------------------------------------------
(* The chain (external). *)

Include(t, outcome) ==
    /\ fate[t] = "none"
    /\ fate' = [fate EXCEPT ![t] = outcome]
    /\ UNCHANGED <<records, claims, clock, revoked, reorgs>>

\* An archived record is final: Archive below stands for the last block that could
\* have taken it back.
Reorg(t) ==
    /\ ~records[t].archived /\ fate[t] # "none"
    /\ reorgs < MaxReorgs
    /\ fate' = [fate EXCEPT ![t] = "none"]
    /\ revoked' = IF records[t].state = "failed" THEN revoked \cup {t} ELSE revoked
    /\ reorgs' = reorgs + 1
    /\ UNCHANGED <<records, claims, clock>>

Tick ==
    /\ clock < MaxClock
    /\ clock' = clock + 1
    /\ UNCHANGED <<records, claims, chainVars>>

-----------------------------------------------------------------------------
(* The dispenser's wallet service. *)

InFlight == {t \in Txs : records[t].state = "open"}

\* Service.Send, TronService.Send: the record is durable.
SendFromSource(r) ==
    /\ InFlight = {} /\ Len(records) < MaxTx
    /\ records' = Append(records, r)
    /\ fate' = Append(fate, "none")
    /\ UNCHANGED <<clock, revoked, reorgs>>

\* A transaction of the dispenser's owner, made in the wallet's own pages: Quote keeps
\* the amount as it was typed, and Send records it.
OwnerSend(to, text) ==
    /\ SendFromSource([to |-> to, text |-> text, by |-> "owner", state |-> "open",
                       archived |-> FALSE, born |-> clock, known |-> Len(records)])
    /\ UNCHANGED claims

\* What the chain says of a record now.
Seen(t) == CASE fate[t] = "paid" -> "succeeded" [] fate[t] = "failed" -> "failed"
             [] OTHER -> "open"

\* History: records are refreshed one at a time, by the maintenance loop, by a page
\* or by the claim's own call between ClaimScan and ClaimSend.
Refresh(t) ==
    /\ records' = [records EXCEPT ![t].state = Seen(t)]
    /\ UNCHANGED <<claims, clock, chainVars>>

Archive(t) ==
    /\ ~records[t].archived /\ records[t].state # "open" /\ records[t].state = Seen(t)
    /\ records' = [records EXCEPT ![t].archived = TRUE]
    /\ UNCHANGED <<claims, clock, chainVars>>

-----------------------------------------------------------------------------
(* Claims. *)

\* Seeded fault: claims do not exclude each other.
LockFreeAlways == TRUE

\* f.mu.TryLock
LockFree == \A c \in Claimants : claims[c].pc = "idle"

\* Records younger than an hour that are not known to have failed.
Recent == {t \in Txs : clock - records[t].born < Hour /\ records[t].state # "failed"}

\* Seeded fault: one more than the limit.
AtLimitLate == Cardinality(Recent) > Limit

AtLimit == Cardinality(Recent) >= Limit

\* A matching transfer of the last hour is answered instead of a new one.  Amounts are
\* compared as text.
Previous(to) == {t \in Recent : records[t].to = to /\ records[t].text = FaucetText}

ClaimScan(c, to) ==
    /\ claims[c].pc = "idle" /\ LockFree
    /\ Previous(to) = {}
    /\ ~AtLimit
    /\ claims' = [claims EXCEPT ![c] = [pc |-> "send", to |-> to, known |-> Len(records)]]
    /\ UNCHANGED <<records, clock, chainVars>>

Payout(claim) ==
    [to |-> claim.to, text |-> FaucetText, by |-> "faucet", state |-> "open",
     archived |-> FALSE, born |-> clock, known |-> claim.known]

\* History, Quote, fee limit and Send; the claim is over whatever Send answers.
ClaimSend(c) ==
    /\ claims[c].pc = "send"
    /\ SendFromSource(Payout(claims[c]))
    /\ claims' = [claims EXCEPT ![c] = Idle]

\* An RPC error, too little stock, too high a fee, a failed write, a deadline.
ClaimAbort(c) ==
    /\ claims[c].pc # "idle"
    /\ claims' = [claims EXCEPT ![c] = Idle]
    /\ UNCHANGED <<records, clock, chainVars>>

\* A restart forgets the lock and whatever was under way.
Crash ==
    /\ claims' = [c \in Claimants |-> Idle]
    /\ UNCHANGED <<records, clock, chainVars>>

-----------------------------------------------------------------------------
Next ==
    \/ \E t \in Txs : Reorg(t) \/ Refresh(t) \/ Archive(t)
    \/ \E t \in Txs, outcome \in {"paid", "failed"} : Include(t, outcome)
    \/ \E c \in Claimants : ClaimSend(c) \/ ClaimAbort(c)
    \/ \E c \in Claimants, to \in Recipients : ClaimScan(c, to)
    \/ \E to \in Recipients, text \in Texts : OwnerSend(to, text)
    \/ Tick \/ Crash

Spec == Init /\ [][Next]_vars

-----------------------------------------------------------------------------
(* Properties. *)

Payouts == {t \in Txs : records[t].by = "faucet"}

SameHour(t, u) == records[u].born - records[t].born < Hour

\* "EVM/TRON reuse matching transfers from the last hour, including unknown
\* broadcasts, across restarts": the chain never holds a payout next to an earlier one
\* to the same address from the same hour, nor next to an earlier manual transfer of
\* the amount to that address, written as the faucet writes it, through concurrent
\* claims, lost answers, retries, archival and crashes.  Three things escape the check: a
\* manual transfer of the same amount in another spelling (the texts are compared, so
\* "0.0010" is not "0.001"), a manual transfer made while the claim is under way, and a
\* recorded failure that the chain takes back (with nodes that lag, a TRON record that
\* expired and landed is one).
PaidOncePerHour ==
    \A t \in Txs \ revoked, u \in Payouts :
        (/\ t < u /\ SameHour(t, u)
         /\ t \in Payouts \/ (t <= records[u].known /\ records[t].text = FaucetText)
         /\ records[t].to = records[u].to
         /\ fate[t] = "paid")
            => fate[u] # "paid"

\* The hourly limit counts whatever the dispenser has sent: a payout that is made
\* has fewer than Limit transactions of its last hour behind it, up to the last two of
\* these exceptions; how an amount is written does not matter here.
HourlyLimit ==
    \A u \in Payouts :
        Cardinality({t \in Txs \ revoked :
                         /\ t < u /\ SameHour(t, u)
                         /\ t \in Payouts \/ t <= records[u].known
                         /\ fate[t] = "paid"}) < Limit
=============================================================================
