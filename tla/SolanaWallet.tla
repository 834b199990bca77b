---------------------------- MODULE SolanaWallet ----------------------------
(***************************************************************************)
(* SolanaService (internal/wallet/solana.go): one account on Devnet.       *)
(*                                                                         *)
(* Every operation holds s.mu from its first to its last line, so at most  *)
(* one is under way; the chain moves on and the process may die between    *)
(* its RPCs and writes, and that is where the steps are cut.  A quote's    *)
(* amount, recipient, fee and simulation are left out; an operation that   *)
(* fails one of those checks changes nothing.                              *)
(***************************************************************************)
EXTENDS ExpiringChain

CONSTANTS
    Capacity,           \* records at which Send refuses (1000)
    QuoteCap,           \* quotes kept in memory (64)
    Batch,              \* signatures asked for in one refresh (256)
    Validity,           \* blocks a recent blockhash stays valid
    MaxTx, MaxQuotes, MaxCrashes, MaxWriteErrors        \* bounds of the instance

ASSUME SolanaAssumption ==
    /\ Capacity \in Nat \ {0} /\ Batch \in Nat \ {0}
    /\ {QuoteCap, Validity} \subseteq Nat
    /\ {MaxTx, MaxQuotes, MaxCrashes, MaxWriteErrors} \subseteq Nat

VARIABLES
    records,            \* s.records
    disk,               \* transactions.json
    quotes,             \* s.quotes: quote id -> last valid block height
    issued,             \* number of quote ids handed out
    fault,              \* s.fault
    historyOffset,      \* s.historyOffset
    op,                 \* the operation that holds s.mu
    confirmed,          \* height of the newest confirmed block
    spent               \* what is used up of the bounded events

serviceVars == <<records, disk, quotes, issued, fault, historyOffset, op>>
vars == <<chainVars, serviceVars, confirmed, spent>>

State == {"broadcast_unknown", "submitted", "processed", "confirmed", "finalized",
          "expired_unconfirmed"}

Record == [tx : Nat, state : State, finalized : BOOLEAN]

Idle == [pc |-> "idle", quote |-> 0, tx |-> 0, height |-> 0, known |-> FALSE]

EmptyStore == [q \in {} |-> 0]

Positions == 1 .. Len(records)

TxsOf(journal) == {journal[i].tx : i \in DOMAIN journal}

-----------------------------------------------------------------------------
(* The chain as the RPCs show it. *)

Firm == confirmed

ChainStep ==
    /\ \/ \E S \in SUBSET Includable : Produce(S, tip + 1)
       \/ final < Firm /\ Finalize(final + 1)
       \/ \E keep \in Firm .. tip - 1 : Fork(keep)
    /\ UNCHANGED <<serviceVars, confirmed, spent>>

Confirm ==
    /\ confirmed < tip
    /\ confirmed' = confirmed + 1
    /\ UNCHANGED <<chainVars, serviceVars, spent>>

\* Seeded fault: the height is asked for at commitment "processed".
ConfirmedHeightsProcessed == IF lagging THEN final .. tip ELSE {tip}

\* getBlockHeight at commitment "confirmed".
ConfirmedHeights == IF lagging THEN final .. confirmed ELSE {confirmed}

FinalizedHeights == IF lagging THEN 0 .. final ELSE {final}

\* getSignatureStatuses for one signature; "none" is a null entry.
Statuses(t) ==
    {s \in {"processed", "confirmed", "finalized"} :
        /\ t \in DOMAIN landed
        /\ s = "confirmed" => landed[t] <= confirmed
        /\ s = "finalized" => landed[t] <= final
        /\ lagging \/ s = CASE landed[t] <= final -> "finalized"
                                  [] landed[t] \in final + 1 .. confirmed -> "confirmed"
                                  [] OTHER -> "processed"}
    \cup {s \in {"none"} : t \notin DOMAIN landed \/ lagging}

-----------------------------------------------------------------------------
(* persist: s.records is already changed when the file is written. *)

WriteOutcome == {"ok", "failed", "published"}

WriteOutcomes == IF spent.writeErrors < MaxWriteErrors THEN WriteOutcome ELSE {"ok"}

CountWrite(w) == spent' = [spent EXCEPT !.writeErrors = IF w = "ok" THEN @ ELSE @ + 1]

persist(next, w) ==
    /\ records' = next
    /\ disk' = IF w = "failed" THEN disk ELSE next
    /\ fault' = (fault \/ w # "ok")
    /\ CountWrite(w)

\* Seeded fault: a broadcast without an answer does not count.
hasPendingSubmitted ==
    \E i \in Positions : records[i].state \in {"submitted", "processed", "confirmed"}

hasPending ==
    \E i \in Positions : ~records[i].finalized /\ records[i].state # "expired_unconfirmed"

-----------------------------------------------------------------------------
(* Quote and Send. *)

Quote(height) ==
    /\ op = Idle /\ ~fault /\ ~hasPending
    /\ Cardinality(DOMAIN quotes) < QuoteCap /\ issued < MaxQuotes
    /\ issued' = issued + 1
    /\ quotes' = [q \in DOMAIN quotes \cup {issued + 1} |->
                     IF q = issued + 1 THEN height + Validity ELSE quotes[q]]
    /\ UNCHANGED <<chainVars, records, disk, fault, historyOffset, op, confirmed, spent>>

\* Sixty seconds have passed; the next Quote drops it and Send refuses it.
ExpireQuote(q) ==
    /\ op = Idle
    /\ quotes' = [r \in DOMAIN quotes \ {q} |-> quotes[r]]
    /\ UNCHANGED <<chainVars, records, disk, issued, fault, historyOffset, op, confirmed, spent>>

\* A quote that has a record is answered with it; otherwise every check up to
\* the signature.  Quotes are not removed by a send.
SendCheck(q, height) ==
    /\ op = Idle /\ ~fault /\ ~hasPending
    /\ \A i \in Positions : signed[records[i].tx].quote # q
    /\ Len(records) < Capacity
    /\ height <= quotes[q]
    /\ op' = [Idle EXCEPT !.pc = "ready", !.quote = q]
    /\ UNCHANGED <<chainVars, records, disk, quotes, issued, fault, historyOffset, confirmed, spent>>

\* Balance, fee, password or RPC errors.
SendAbort ==
    /\ op.pc = "ready"
    /\ op' = Idle
    /\ UNCHANGED <<chainVars, records, disk, quotes, issued, fault, historyOffset, confirmed, spent>>

NewRecord(t) == [tx |-> t, state |-> "broadcast_unknown", finalized |-> FALSE]

\* Seeded fault: the result of the first write is ignored.
SendPrepareUnchecked(w) ==
    LET t == Len(signed) + 1
    IN  /\ op.pc = "ready"
        /\ Len(signed) < MaxTx
        /\ signed' = Append(signed, [quote |-> op.quote, lastValid |-> quotes[op.quote]])
        /\ persist(Append(records, NewRecord(t)), w)
        /\ op' = [op EXCEPT !.pc = "dispatch", !.tx = t]
        /\ UNCHANGED <<wire, blocks, tip, final, landed, forks, lagging, quotes, issued, historyOffset, confirmed>>

SendPrepare(w) ==
    LET t == Len(signed) + 1
    IN  /\ op.pc = "ready"
        /\ Len(signed) < MaxTx
        /\ signed' = Append(signed, [quote |-> op.quote, lastValid |-> quotes[op.quote]])
        /\ persist(Append(records, NewRecord(t)), w)
        /\ op' = IF w = "ok" THEN [op EXCEPT !.pc = "dispatch", !.tx = t] ELSE Idle
        /\ UNCHANGED <<wire, blocks, tip, final, landed, forks, lagging, quotes, issued, historyOffset, confirmed>>

\* The RPC of Send and of Retry: an error may hide a delivered transaction.
SendTransaction(delivered, ok) ==
    /\ op.pc = "dispatch"
    /\ ok => delivered
    /\ wire' = IF delivered THEN wire \cup {op.tx} ELSE wire
    /\ op' = IF ok THEN [op EXCEPT !.pc = "result"] ELSE Idle
    /\ UNCHANGED <<signed, blocks, tip, final, landed, forks, lagging, records, disk, quotes, issued, fault,
                   historyOffset, confirmed, spent>>

BroadcastResult(w) ==
    /\ op.pc = "result"
    /\ persist([i \in Positions |-> IF records[i].tx = op.tx
                                    THEN [records[i] EXCEPT !.state = "submitted"]
                                    ELSE records[i]], w)
    /\ op' = Idle
    /\ UNCHANGED <<chainVars, quotes, issued, historyOffset, confirmed>>

-----------------------------------------------------------------------------
(* Retry: the same bytes, while the blockhash is not finally too old. *)

Retry(i, height) ==
    /\ op = Idle /\ ~fault
    /\ ~records[i].finalized /\ records[i].state # "expired_unconfirmed"
    /\ height <= signed[records[i].tx].lastValid
    /\ op' = [Idle EXCEPT !.pc = "dispatch", !.tx = records[i].tx]
    /\ UNCHANGED <<chainVars, records, disk, quotes, issued, fault, historyOffset, confirmed, spent>>

-----------------------------------------------------------------------------
(* History. *)

\* The height is read before the statuses, or cannot be read.
HistoryHeight(height, known) ==
    /\ op = Idle
    /\ op' = [Idle EXCEPT !.pc = "statuses", !.height = height, !.known = known]
    /\ UNCHANGED <<chainVars, records, disk, quotes, issued, fault, historyOffset, confirmed, spent>>

\* The k-th position a refresh visits, counted from the newest record.
Visit(k) == Len(records) - ((historyOffset + k) % Len(records))

Unresolved == {i \in Positions : ~records[i].finalized}

\* Positions are visited until the batch is full or all were visited.
Visited ==
    CHOOSE v \in 0 .. Len(records) :
        LET asked(n) == Cardinality({Visit(k) : k \in 0 .. n - 1} \cap Unresolved)
        IN  /\ asked(v) = Batch \/ v = Len(records)
            /\ \A n \in 0 .. v - 1 : asked(n) < Batch

Asked == {Visit(k) : k \in 0 .. Visited - 1} \cap Unresolved

NextOffset == IF records = <<>> THEN historyOffset
              ELSE (historyOffset + Visited) % Len(records)

\* Seeded fault: a confirmed signature is taken for a final one.
IsFinalConfirmed(status) == status \in {"confirmed", "finalized"}

IsFinal(status) == status = "finalized"

\* What one entry of the answer makes of a record.  execution_failed is shown
\* instead of the commitment level; no branch tells it apart.
Refreshed(r, status) ==
    [r EXCEPT !.state = IF status # "none" THEN status
                        ELSE IF op.known /\ op.height > signed[r.tx].lastValid
                        THEN "expired_unconfirmed" ELSE @,
              !.finalized = IsFinal(status)]

HistoryStatuses(answer, w) ==
    LET next == [i \in Positions |-> IF i \in Asked THEN Refreshed(records[i], answer[i])
                                     ELSE records[i]]
    IN  /\ op.pc = "statuses"
        /\ historyOffset' = NextOffset
        /\ IF next # records THEN persist(next, w)
           ELSE w = "ok" /\ UNCHANGED <<records, disk, fault, spent>>
        /\ op' = Idle
        /\ UNCHANGED <<chainVars, quotes, issued, confirmed>>

\* The statuses cannot be read; the rotation goes on.
HistoryFails ==
    /\ op.pc = "statuses"
    /\ historyOffset' = NextOffset
    /\ op' = Idle
    /\ UNCHANGED <<chainVars, records, disk, quotes, issued, fault, confirmed, spent>>

-----------------------------------------------------------------------------
(* The process dies; NewSolanaService reads the file. *)

Crash ==
    /\ spent.crashes < MaxCrashes
    /\ Len(disk) <= Capacity
    /\ records' = disk
    /\ quotes' = EmptyStore
    /\ fault' = FALSE
    /\ historyOffset' = 0
    /\ op' = Idle
    /\ spent' = [spent EXCEPT !.crashes = @ + 1]
    /\ UNCHANGED <<chainVars, disk, issued, confirmed>>

-----------------------------------------------------------------------------

Init ==
    /\ ChainInit
    /\ records = <<>> /\ disk = <<>>
    /\ quotes = EmptyStore /\ issued = 0
    /\ fault = FALSE
    /\ historyOffset = 0
    /\ op = Idle
    /\ confirmed = 0
    /\ spent = [crashes |-> 0, writeErrors |-> 0]

Answers == [Asked -> {"none", "processed", "confirmed", "finalized"}]

ChainNext == ChainStep \/ Confirm

Request ==
    \/ \E h \in ConfirmedHeights : Quote(h)
    \/ \E q \in DOMAIN quotes : ExpireQuote(q)
    \/ \E q \in DOMAIN quotes, h \in ConfirmedHeights : SendCheck(q, h)
    \/ SendAbort
    \/ \E w \in WriteOutcomes : SendPrepare(w)
    \/ \E delivered, ok \in BOOLEAN : SendTransaction(delivered, ok)
    \/ \E w \in WriteOutcomes : BroadcastResult(w)
    \/ \E i \in Positions, h \in FinalizedHeights : Retry(i, h)

History ==
    \/ \E h \in ConfirmedHeights : HistoryHeight(h, TRUE)
    \/ HistoryHeight(0, FALSE)
    \/ \E answer \in Answers, w \in WriteOutcomes :
          /\ \A i \in Asked : answer[i] \in Statuses(records[i].tx)
          /\ HistoryStatuses(answer, w)
    \/ HistoryFails

Next == ChainNext \/ Request \/ History \/ Crash

Spec == Init /\ [][Next]_vars

-----------------------------------------------------------------------------
(* Properties. *)

\* Every variable holds a value of its type.
TypeOK ==
    /\ ChainTypeOK
    /\ records \in Seq(Record) /\ disk \in Seq(Record)
    /\ DOMAIN quotes \subseteq Nat /\ quotes \in [DOMAIN quotes -> Nat]
    /\ issued \in Nat /\ fault \in BOOLEAN /\ historyOffset \in Nat /\ confirmed \in Nat
    /\ op \in [pc : {"idle", "ready", "dispatch", "result", "statuses"},
               quote : Nat, tx : Nat, height : Nat, known : BOOLEAN]
    /\ spent \in [crashes : Nat, writeErrors : Nat]

\* "Signed bytes/signature are persisted before broadcast": the abstract
\* write-ahead promise, with transactions.json as the book, although the records
\* in memory are changed before the file.
WAB == INSTANCE WriteAheadBroadcast WITH book <- TxsOf(disk)

WriteAhead == WAB!WABSpec

\* Nodes that agree: a record History has marked expired_unconfirmed is not on
\* the chain and cannot get there, in spite of forks and of the blocks between
\* the reading of the height and the reading of the statuses.
ExpiredNeverLands ==
    \A i \in Positions :
        (~lagging /\ records[i].state = "expired_unconfirmed")
            => records[i].tx \notin DOMAIN landed

\* Nodes that agree: "only one transfer remains outstanding at a time", through
\* expiry, failed writes and crashes.
OneOutstanding == ~lagging => Cardinality({t \in wire : Live(t, confirmed)}) <= 1

\* A record marked final is final on the chain, whatever lagging nodes and forks
\* showed before and after a restart from an older file.
FinalVerdictsSound ==
    \A i \in DOMAIN records : records[i].finalized => Final(records[i].tx)
=============================================================================
