----------------------------- MODULE TronWallet -----------------------------
(***************************************************************************)
(* TronService (internal/wallet/tron.go): one account on Shasta.           *)
(*                                                                         *)
(* Every operation holds s.mu from its first to its last line.  Heights of *)
(* ExpiringChain are block times here; blocks may be missed, so the block  *)
(* that includes a transaction may be younger than its expiration.  The    *)
(* local clock runs on its own.  Amounts, fees, Energy, the token and the  *)
(* decoding of receipts are left out: failing one of those checks changes  *)
(* nothing.                                                                *)
(***************************************************************************)
EXTENDS ExpiringChain

CONSTANTS
    Capacity,           \* records at which Quote and Send refuse (1000)
    QuoteCap,           \* quotes kept in memory (256)
    QuoteLife,          \* lifetime of a quote and of its transaction (60 s)
    Stale, Ahead,       \* how old and how young a block may seem (120 s, 30 s)
    Budget,             \* records whose RPCs fit into the deadline of a refresh
    MaxTx, MaxQuotes, MaxCrashes, MaxWriteErrors, MaxClock      \* bounds of the instance

ASSUME TronAssumption ==
    /\ Capacity \in Nat \ {0} /\ Budget \in Nat \ {0}
    /\ {QuoteCap, QuoteLife, Stale, Ahead} \subseteq Nat
    /\ {MaxTx, MaxQuotes, MaxCrashes, MaxWriteErrors, MaxClock} \subseteq Nat

VARIABLES
    records,            \* s.records
    disk,               \* transactions.json
    quotes,             \* s.quotes: quote id -> Expires
    issued,             \* number of quote ids handed out
    fault,              \* s.fault
    historyNext,        \* s.historyNext
    op,                 \* the operation that holds s.mu
    clock,              \* time.Now()
    spent               \* what is used up of the bounded events

serviceVars == <<records, disk, quotes, issued, fault, historyNext, op>>
vars == <<chainVars, serviceVars, clock, spent>>

State == {"broadcast_unknown", "submitted", "expired_unconfirmed", "finalized"}

\* checkedAt is ExpiryCheckedAt, the solid time an expiry was concluded from.
Record == [tx : Nat, state : State, finalized : BOOLEAN, checkedAt : Nat]

Idle == [pc |-> "idle", quote |-> 0, tx |-> 0, ok |-> FALSE,
         next |-> <<>>, start |-> 0, offset |-> 0, visits |-> 0, solid |-> 0]

EmptyStore == [q \in {} |-> 0]

Positions == 1 .. Len(records)

TxsOf(journal) == {journal[i].tx : i \in DOMAIN journal}

Expires(t) == signed[t].lastValid

-----------------------------------------------------------------------------
(* The chain as the HTTP API shows it, and the local clock. *)

ChainStep ==
    /\ \/ \E S \in SUBSET Includable, time \in tip + 1 .. MaxHeight : Produce(S, time)
       \/ \E time \in final + 1 .. tip : Finalize(time)
       \/ \E keep \in final .. tip - 1 : Fork(keep)
    /\ UNCHANGED <<serviceVars, clock, spent>>

Tick ==
    /\ clock < MaxClock
    /\ clock' = clock + 1
    /\ UNCHANGED <<chainVars, serviceVars, spent>>

\* Time of /wallet/getnowblock.
NowBlocks == IF lagging THEN final .. tip ELSE {tip}

\* Time of /walletsolidity/getnowblock.
SolidBlocks == IF lagging THEN 0 .. final ELSE {final}

\* Seeded fault: the receipt is asked for at /wallet, which knows unsolid blocks.
ReceiptsUnsolid(t) ==
    {found \in BOOLEAN : (found => t \in DOMAIN landed)
                         /\ (~found => t \notin DOMAIN landed \/ lagging)}

\* /walletsolidity/gettransactioninfobyid: is there a receipt?
Receipts(t) ==
    {found \in BOOLEAN : (found => Final(t)) /\ (~found => ~Final(t) \/ lagging)}

-----------------------------------------------------------------------------
(* save: s.records changes only after the file is written. *)

WriteOutcome == {"ok", "failed", "published"}

WriteOutcomes == IF spent.writeErrors < MaxWriteErrors THEN WriteOutcome ELSE {"ok"}

CountWrite(w) == spent' = [spent EXCEPT !.writeErrors = IF w = "ok" THEN @ ELSE @ + 1]

save(next, w) ==
    /\ disk' = IF w = "failed" THEN disk ELSE next
    /\ records' = IF w = "ok" THEN next ELSE records
    /\ fault' = (fault \/ w # "ok")
    /\ CountWrite(w)

\* Seeded fault: a broadcast without an answer does not count.
pendingSubmitted == \E i \in Positions : records[i].state = "submitted"

pending ==
    \E i \in Positions : ~records[i].finalized /\ records[i].state # "expired_unconfirmed"

-----------------------------------------------------------------------------
(* Quote and Send. *)

Fresh(block) == block + Stale >= clock /\ block <= clock + Ahead

\* The quotes that are too old are dropped before the new one is counted.
Quote(block) ==
    LET kept == {q \in DOMAIN quotes : clock <= quotes[q]}
    IN  /\ op = Idle /\ ~fault /\ ~pending
        /\ Len(records) < Capacity
        /\ Fresh(block)
        /\ Cardinality(kept) < QuoteCap /\ issued < MaxQuotes
        /\ issued' = issued + 1
        /\ quotes' = [q \in kept \cup {issued + 1} |->
                         IF q = issued + 1 THEN clock + QuoteLife ELSE quotes[q]]
        /\ UNCHANGED <<chainVars, records, disk, fault, historyNext, op, clock, spent>>

\* A quote that has a record is answered with it.
SendCheck(q) ==
    /\ op = Idle /\ ~fault /\ ~pending
    /\ \A i \in Positions : signed[records[i].tx].quote # q
    /\ Len(records) < Capacity
    /\ clock <= quotes[q]
    /\ op' = [Idle EXCEPT !.pc = "ready", !.quote = q]
    /\ UNCHANGED <<chainVars, records, disk, quotes, issued, fault, historyNext, clock, spent>>

\* Balance, simulation, password or RPC errors, or a quote that has expired meanwhile.
SendAbort ==
    /\ op.pc = "ready"
    /\ op' = Idle
    /\ UNCHANGED <<chainVars, records, disk, quotes, issued, fault, historyNext, clock, spent>>

NewRecord(t) == [tx |-> t, state |-> "broadcast_unknown", finalized |-> FALSE, checkedAt |-> 0]

\* Seeded fault: the result of the first write is ignored.
SendPrepareUnchecked(w) ==
    LET t == Len(signed) + 1
    IN  /\ op.pc = "ready" /\ clock <= quotes[op.quote]
        /\ Len(signed) < MaxTx
        /\ signed' = Append(signed, [quote |-> op.quote, lastValid |-> quotes[op.quote]])
        /\ save(Append(records, NewRecord(t)), w)
        /\ quotes' = [q \in DOMAIN quotes \ {op.quote} |-> quotes[q]]
        /\ op' = [Idle EXCEPT !.pc = "dispatch", !.tx = t]
        /\ UNCHANGED <<wire, blocks, tip, final, landed, forks, lagging, issued, historyNext, clock>>

\* The second look at the clock, the signature, the write; only a record that
\* is written uses up the quote.
SendPrepare(w) ==
    LET t == Len(signed) + 1
    IN  /\ op.pc = "ready" /\ clock <= quotes[op.quote]
        /\ Len(signed) < MaxTx
        /\ signed' = Append(signed, [quote |-> op.quote, lastValid |-> quotes[op.quote]])
        /\ save(Append(records, NewRecord(t)), w)
        /\ IF w = "ok"
           THEN /\ quotes' = [q \in DOMAIN quotes \ {op.quote} |-> quotes[q]]
                /\ op' = [Idle EXCEPT !.pc = "dispatch", !.tx = t]
           ELSE op' = Idle /\ UNCHANGED quotes
        /\ UNCHANGED <<wire, blocks, tip, final, landed, forks, lagging, issued, historyNext, clock>>

-----------------------------------------------------------------------------
(* broadcast, for Send and for Retry. *)

\* The network check fails or the transaction has expired; the record stays.
BroadcastRefused ==
    /\ op.pc = "dispatch"
    /\ op' = Idle
    /\ UNCHANGED <<chainVars, records, disk, quotes, issued, fault, historyNext, clock, spent>>

\* /wallet/broadcasthex: an error may hide a delivered transaction.
BroadcastHex(delivered, ok) ==
    /\ op.pc = "dispatch" /\ clock <= Expires(op.tx)
    /\ ok => delivered
    /\ wire' = IF delivered THEN wire \cup {op.tx} ELSE wire
    /\ op' = [op EXCEPT !.pc = "result", !.ok = ok]
    /\ UNCHANGED <<signed, blocks, tip, final, landed, forks, lagging, records, disk, quotes, issued, fault,
                   historyNext, clock, spent>>

BroadcastResult(w) ==
    LET state == IF op.ok THEN "submitted" ELSE "broadcast_unknown"
    IN  /\ op.pc = "result"
        /\ save([i \in Positions |-> IF records[i].tx = op.tx
                                     THEN [records[i] EXCEPT !.state = state]
                                     ELSE records[i]], w)
        /\ op' = Idle
        /\ UNCHANGED <<chainVars, quotes, issued, historyNext, clock>>

Retry(i) ==
    /\ op = Idle /\ ~fault
    /\ ~records[i].finalized /\ records[i].state # "expired_unconfirmed"
    /\ op' = [Idle EXCEPT !.pc = "dispatch", !.tx = records[i].tx]
    /\ UNCHANGED <<chainVars, records, disk, quotes, issued, fault, historyNext, clock, spent>>

-----------------------------------------------------------------------------
(* History: a copy is refreshed record by record and written once. *)

HistoryStart ==
    /\ op = Idle
    /\ op' = [Idle EXCEPT !.pc = "visit", !.next = records, !.start = historyNext]
    /\ UNCHANGED <<chainVars, records, disk, quotes, issued, fault, historyNext, clock, spent>>

Position(offset) == ((op.start + offset) % Len(op.next)) + 1

\* The offsets of the loop that are still to come and not final.
Left == {o \in op.offset .. Len(op.next) - 1 : ~op.next[Position(o)].finalized}

Current == CHOOSE o \in Left : \A p \in Left : o <= p

\* Seeded fault: every refresh starts at the oldest record.
NextStartFixed == 0

\* s.historyNext, counted from 0, while the current record is visited.
NextStart == Position(Current) % Len(op.next)

\* refreshRecord, first RPC: the solid head, for a record whose time is over.
RefreshSolid(solid) ==
    LET r == op.next[Position(Current)]
    IN  /\ op.pc = "visit" /\ Left # {} /\ op.visits < Budget
        /\ IF clock > Expires(r.tx) THEN solid \in SolidBlocks /\ solid \in 1 .. clock + Ahead
           ELSE solid = 0
        /\ historyNext' = NextStart
        /\ op' = [op EXCEPT !.pc = "receipt", !.solid = solid]
        /\ UNCHANGED <<chainVars, records, disk, quotes, issued, fault, clock, spent>>

Advance(next) ==
    [op EXCEPT !.pc = "visit", !.next = next, !.offset = Current + 1, !.visits = @ + 1, !.solid = 0]

\* Seeded fault: "expired" is concluded from the local clock.
RefreshedLocally(r, found) ==
    IF found THEN [r EXCEPT !.finalized = TRUE, !.state = "finalized"]
    ELSE IF clock > Expires(r.tx) THEN [r EXCEPT !.state = "expired_unconfirmed"] ELSE r

\* What the receipt or its absence makes of a record; execution_failed is not
\* told apart from finalized.
Refreshed(r, found) ==
    IF found THEN [r EXCEPT !.finalized = TRUE, !.state = "finalized"]
    ELSE IF op.solid > Expires(r.tx)
    THEN [r EXCEPT !.state = "expired_unconfirmed", !.checkedAt = op.solid]
    ELSE r

\* refreshRecord, second RPC: the receipt.
RefreshReceipt(found) ==
    LET p == Position(Current)
    IN  /\ op.pc = "receipt"
        /\ found \in Receipts(op.next[p].tx)
        /\ op' = Advance([op.next EXCEPT ![p] = Refreshed(@, found)])
        /\ UNCHANGED <<chainVars, records, disk, quotes, issued, fault, historyNext, clock, spent>>

\* An RPC of the record fails; the loop goes on with the next one.
RefreshFails ==
    /\ op.pc \in {"visit", "receipt"} /\ Left # {} /\ op.visits < Budget
    /\ historyNext' = NextStart
    /\ op' = Advance(op.next)
    /\ UNCHANGED <<chainVars, records, disk, quotes, issued, fault, clock, spent>>

\* The loop is over or the deadline has passed.
HistoryEnd(w) ==
    /\ op.pc = "visit"
    /\ IF op.next # records THEN save(op.next, w)
       ELSE w = "ok" /\ UNCHANGED <<records, disk, fault, spent>>
    /\ op' = Idle
    /\ UNCHANGED <<chainVars, quotes, issued, historyNext, clock>>

-----------------------------------------------------------------------------
(* The process dies; NewTronService reads the file. *)

Crash ==
    /\ spent.crashes < MaxCrashes
    /\ Len(disk) <= Capacity
    /\ records' = disk
    /\ quotes' = EmptyStore
    /\ fault' = FALSE
    /\ historyNext' = 0
    /\ op' = Idle
    /\ spent' = [spent EXCEPT !.crashes = @ + 1]
    /\ UNCHANGED <<chainVars, disk, issued, clock>>

-----------------------------------------------------------------------------

Init ==
    /\ ChainInit
    /\ records = <<>> /\ disk = <<>>
    /\ quotes = EmptyStore /\ issued = 0
    /\ fault = FALSE
    /\ historyNext = 0
    /\ op = Idle
    /\ clock = 0
    /\ spent = [crashes |-> 0, writeErrors |-> 0]

ChainNext == ChainStep \/ Tick

Request ==
    \/ \E block \in NowBlocks : Quote(block)
    \/ \E q \in DOMAIN quotes : SendCheck(q)
    \/ SendAbort
    \/ \E w \in WriteOutcomes : SendPrepare(w)
    \/ BroadcastRefused
    \/ \E delivered, ok \in BOOLEAN : BroadcastHex(delivered, ok)
    \/ \E w \in WriteOutcomes : BroadcastResult(w)
    \/ \E i \in Positions : Retry(i)

History ==
    \/ HistoryStart
    \/ \E solid \in 0 .. final : RefreshSolid(solid)
    \/ \E found \in BOOLEAN : RefreshReceipt(found)
    \/ RefreshFails
    \/ \E w \in WriteOutcomes : HistoryEnd(w)

Next == ChainNext \/ Request \/ History \/ Crash

Spec == Init /\ [][Next]_vars

-----------------------------------------------------------------------------
(* Properties. *)

\* Every variable holds a value of its type.
TypeOK ==
    /\ ChainTypeOK
    /\ {records, disk, op.next} \subseteq Seq(Record)
    /\ DOMAIN quotes \subseteq Nat /\ quotes \in [DOMAIN quotes -> Nat]
    /\ issued \in Nat /\ fault \in BOOLEAN /\ historyNext \in Nat /\ clock \in Nat
    /\ op.pc \in {"idle", "ready", "dispatch", "result", "visit", "receipt"}
    /\ {op.quote, op.tx, op.start, op.offset, op.visits, op.solid} \subseteq Nat
    /\ spent \in [crashes : Nat, writeErrors : Nat]

\* "Recheck network immediately before transmitting identical, already durable
\* signed bytes": the abstract write-ahead promise, with transactions.json as the
\* book.
WAB == INSTANCE WriteAheadBroadcast WITH book <- TxsOf(disk)

WriteAhead == WAB!WABSpec

\* Nodes that agree: "expiration is enforced against chain time, not the local
\* clock".  A record marked expired_unconfirmed is not on the chain and cannot get
\* there, although the block that includes a transaction may be younger than its
\* expiration, blocks are orphaned, and solid head and receipt are two RPCs.
ExpiredNeverLands ==
    \A i \in Positions :
        (~lagging /\ records[i].state = "expired_unconfirmed")
            => records[i].tx \notin DOMAIN landed

\* Nodes that agree: a second transfer is not signed and sent while an earlier
\* one can still be included, through expiry, failed writes and crashes.
OneOutstanding == ~lagging => Cardinality({t \in wire : Live(t, final)}) <= 1

\* A record marked final is in a solid block, whatever lagging nodes and forks
\* showed before and after a restart from an older file.
FinalVerdictsSound ==
    \A i \in DOMAIN records : records[i].finalized => Final(records[i].tx)

-----------------------------------------------------------------------------
(* Liveness.  tron.js asks for the history every 15 seconds while the page is *)
(* open, and sync.Mutex does not starve a waiter; every RPC has a deadline.   *)
(* The deadline of a refresh leaves time for one record, and a record whose   *)
(* turn comes again and again eventually gets its answer.                     *)

About(t) == Left # {} /\ op.next[Position(Current)].tx = t

Fairness ==
    /\ SF_vars(HistoryStart)
    /\ WF_vars(SendAbort \/ BroadcastRefused)
    /\ WF_vars(\E w \in WriteOutcomes : BroadcastResult(w) \/ HistoryEnd(w))
    /\ WF_vars(op.pc = "receipt" /\ RefreshFails)
    /\ \A t \in 1 .. MaxTx :
          /\ SF_vars(About(t) /\ \E solid \in 0 .. final : RefreshSolid(solid))
          /\ SF_vars(About(t) /\ RefreshReceipt(TRUE))

FairSpec == Spec /\ Fairness

\* A transaction in a solid block ends up recorded as final, also when lagging
\* nodes made it look expired and every refresh is cut short after one record: "a
\* slow record must not consume the first turn again after a deadline".
FinalIsRecorded ==
    \A t \in 1 .. MaxTx :
        (t \in TxsOf(records) /\ Final(t))
            ~> (t \notin TxsOf(records) \/ \E i \in Positions : records[i].tx = t /\ records[i].finalized)
=============================================================================
