----------------------------- MODULE EvmWallet -----------------------------
(***************************************************************************)
(* Service (internal/wallet/service.go, nonce.go, replacement.go,          *)
(* quote.go): one EVM account on one network, with the journal of module   *)
(* Journal, the process that holds sendMu (quotes, sends, retries), the    *)
(* process that holds historyMu (the refresh), crashes with restart, and   *)
(* the chain as the RPC client shows it.                                   *)
(*                                                                         *)
(* A step is what happens between two points at which the other process or *)
(* the chain can interfere: one critical section of jm.mu or one RPC.      *)
(***************************************************************************)
EXTENDS Journal, Sequences

CONSTANTS
    QuoteCap,           \* quotes kept in memory (256)
    ExternalWallets,    \* the key is also used by another wallet
    LaggingNodes,       \* an RPC may be answered by a node that is behind
    MaxTx, MaxQuotes, MaxNonce, MaxVersion,             \* bounds of the instance
    MaxReorgs, MaxCrashes, MaxWriteErrors

ASSUME QuoteCapAssumption == QuoteCap \in Nat
ASSUME EnvironmentAssumption == ExternalWallets \in BOOLEAN /\ LaggingNodes \in BOOLEAN
ASSUME BoundsAssumption ==
    /\ {MaxTx, MaxQuotes, MaxNonce, MaxVersion} \subseteq Nat
    /\ {MaxReorgs, MaxCrashes, MaxWriteErrors} \subseteq Nat

VARIABLES
    quotes,             \* s.quotes: quote id -> nonce, replaced transaction, count
    issued,             \* number of quote ids handed out
    storageFault,       \* s.storageFault
    op,                 \* the request that holds sendMu
    hist,               \* the refresh that holds historyMu
    signed,             \* every transaction ever signed, in order
    wire,               \* transactions some node may have received
    canon,              \* canonical chain: canon[n+1] used nonce n; 0 is foreign
    finalNonce,         \* nonces below this one are finalized
    spent               \* what is used up of the bounded events

serviceVars == <<quotes, issued, storageFault, op, hist>>
chainVars == <<signed, wire, canon, finalNonce>>
vars == <<journalVars, serviceVars, chainVars, spent>>

-----------------------------------------------------------------------------
(* State of the two processes. *)

Idle == [pc |-> "idle", quote |-> 0, tx |-> 0, version |-> 0, evidence |-> 0,
         state |-> "pending"]

Resting == [pc |-> "idle", items |-> EmptyJournal, tx |-> 0, version |-> 0,
            seen |-> [state |-> "pending", finalized |-> FALSE]]

Quote == [nonce : Nat, of : Nat, count : Nat, root : Nat]

Txs == 1 .. Len(signed)

Without(f, x) == [y \in DOMAIN f \ {x} |-> f[y]]

\* A file write may fail while the budget of write errors lasts.
WriteOutcomes == IF spent.writeErrors < MaxWriteErrors THEN WriteOutcome ELSE {"ok"}

CountWrite(w) == spent' = [spent EXCEPT !.writeErrors = IF w = "ok" THEN @ ELSE @ + 1]

-----------------------------------------------------------------------------
(* The chain, as seen through internal/chain. *)

Latest == Len(canon)

Canonical(t) == signed[t].nonce < Latest /\ canon[signed[t].nonce + 1] = t

\* eth_getTransactionCount at "latest".
NonceAt == IF LaggingNodes THEN finalNonce .. Latest ELSE {Latest}

\* At "pending": every nonce up to it is used by something in a mempool.
PendingNonceAt ==
    {n \in 0 .. MaxNonce :
        \E low \in NonceAt :
            /\ low <= n
            /\ \A m \in low .. n - 1 :
                  ExternalWallets \/ m < Latest \/ \E t \in wire : signed[t].nonce = m}

\* At "finalized", or 0 when the query fails.
FinalizedNonceAt == 0 .. finalNonce

\* Client.Transaction(t) when it answers without error ("not_found" is
\* ErrNotFound).  The finalized flag is only set after the receipt's block was
\* found on the canonical chain at or below the finalized head.  A transaction
\* that is mined between the lookups for its receipt and for itself reads as
\* receipt_unavailable; the step stands at the first lookup.
Observations(t) ==
    {o \in [state : {"mined"}, finalized : BOOLEAN] :
        Canonical(t) /\ (o.finalized => signed[t].nonce < finalNonce)}
    \cup
    {o \in [state : {"pending", "receipt_unavailable", "reorg_detected", "not_found"},
            finalized : {FALSE}] :
        /\ ~Canonical(t) \/ LaggingNodes
        /\ o.state = "pending" => t \in wire
        /\ o.state = "receipt_unavailable" => t \in wire
        /\ o.state = "reorg_detected" => t \in wire /\ (spent.reorgs > 0 \/ LaggingNodes)}

Mine(t) ==
    /\ signed[t].nonce = Latest
    /\ canon' = Append(canon, t)
    /\ UNCHANGED <<journalVars, serviceVars, signed, wire, finalNonce, spent>>

MineForeign ==
    /\ ExternalWallets /\ Latest < MaxNonce
    /\ canon' = Append(canon, 0)
    /\ UNCHANGED <<journalVars, serviceVars, signed, wire, finalNonce, spent>>

Finalize ==
    /\ finalNonce < Latest
    /\ finalNonce' = finalNonce + 1
    /\ UNCHANGED <<journalVars, serviceVars, signed, wire, canon, spent>>

Reorg(keep) ==
    /\ spent.reorgs < MaxReorgs
    /\ finalNonce <= keep
    /\ canon' = SubSeq(canon, 1, keep)
    /\ spent' = [spent EXCEPT !.reorgs = @ + 1]
    /\ UNCHANGED <<journalVars, serviceVars, signed, wire, finalNonce>>

-----------------------------------------------------------------------------
(* QuoteCommand. *)

\* Seeded fault: the latest nonce is taken as evidence.
CheckInFlightLatest(evidence) == ~HasInFlightTx(Latest)

\* checkInFlight: evidence is only asked for when something is in flight.
CheckInFlight(evidence) ==
    /\ ~HasInFlightTx(evidence)
    /\ evidence > 0 => HasInFlightTx(0)

AddQuote(q) ==
    /\ Cardinality(DOMAIN quotes) < QuoteCap
    /\ issued < MaxQuotes
    /\ issued' = issued + 1
    /\ quotes' = With(quotes, issued + 1, q)

QuoteGuard(evidence) ==
    /\ op = Idle /\ ~storageFault
    /\ CheckInFlight(evidence)
    /\ op' = [Idle EXCEPT !.pc = "quoting", !.evidence = evidence]
    /\ UNCHANGED <<journalVars, quotes, issued, storageFault, hist, chainVars, spent>>

QuoteCreate(nonce) ==
    /\ op.pc = "quoting"
    /\ nonce >= op.evidence /\ nonce < MaxNonce
    /\ AddQuote([nonce |-> nonce, of |-> 0, count |-> 0, root |-> issued + 1])
    /\ op' = Idle
    /\ UNCHANGED <<journalVars, storageFault, hist, chainVars, spent>>

\* Any other error of CreateQuote, rollupFee or Add.
QuoteAbort ==
    /\ op.pc = "quoting"
    /\ op' = Idle
    /\ UNCHANGED <<journalVars, quotes, issued, storageFault, hist, chainVars, spent>>

\* Seeded fault: the replacement is quoted at the next free nonce.
replacementQuoteNextNonce(t) ==
    /\ op = Idle /\ ~storageFault
    /\ ~NonceMined(Rec(t).nonce)
    /\ \E n \in PendingNonceAt :
          AddQuote([nonce |-> n, of |-> t, count |-> Cardinality(NonceRecords(n)),
                    root |-> signed[t].root])
    /\ UNCHANGED <<journalVars, storageFault, op, hist, chainVars, spent>>

\* Speed-up or cancel of t: the same nonce, bound to the records seen now.
replacementQuote(t) ==
    LET nonce == Rec(t).nonce
    IN  /\ op = Idle /\ ~storageFault
        /\ ~NonceMined(nonce)
        /\ \E n \in NonceAt : n <= nonce
        /\ AddQuote([nonce |-> nonce, of |-> t, count |-> Cardinality(NonceRecords(nonce)),
                     root |-> signed[t].root])
        /\ UNCHANGED <<journalVars, storageFault, op, hist, chainVars, spent>>

\* Time runs out for q.  The store drops it in its next Add or Get, both of
\* which run under sendMu.
ExpireQuote(q) ==
    /\ op = Idle
    /\ quotes' = Without(quotes, q)
    /\ UNCHANGED <<journalVars, issued, storageFault, op, hist, chainVars, spent>>

-----------------------------------------------------------------------------
(* Send. *)

\* A repeated quote id is answered from the journal.
SendExisting(q) ==
    /\ op = Idle /\ ~storageFault
    /\ FindByQuoteID(q) # {}
    /\ op' = [Idle EXCEPT !.pc = "replied", !.quote = q]
    /\ UNCHANGED <<journalVars, quotes, issued, storageFault, hist, chainVars, spent>>

\* SendRejectedError before anything was prepared.
SendRefused(q) ==
    /\ op = Idle /\ ~storageFault
    /\ FindByQuoteID(q) = {}
    /\ \/ q \notin DOMAIN quotes
       \/ q \in DOMAIN quotes /\ quotes[q].of = 0 /\ HasInFlightTx(0)
    /\ op' = [Idle EXCEPT !.pc = "rejected", !.quote = q]
    /\ UNCHANGED <<journalVars, quotes, issued, storageFault, hist, chainVars, spent>>

SendCheck(q, evidence) ==
    /\ op = Idle /\ ~storageFault
    /\ FindByQuoteID(q) = {}
    /\ \/ quotes[q].of # 0 /\ evidence = 0
       \/ quotes[q].of = 0 /\ CheckInFlight(evidence) /\ quotes[q].nonce >= evidence
    /\ op' = [Idle EXCEPT !.pc = "checked", !.quote = q]
    /\ UNCHANGED <<journalVars, quotes, issued, storageFault, hist, chainVars, spent>>

\* The nonce is still the one that was quoted.
NonceStillQuoted(q) ==
    \/ q.of = 0 /\ q.nonce \in PendingNonceAt
    \/ /\ q.of # 0
       /\ Cardinality(NonceRecords(q.nonce)) = q.count
       /\ ~NonceMined(q.nonce)
       /\ \E n \in NonceAt : n <= q.nonce

SendVerify ==
    /\ op.pc = "checked"
    /\ NonceStillQuoted(quotes[op.quote])
    /\ op' = [op EXCEPT !.pc = "ready"]
    /\ UNCHANGED <<journalVars, quotes, issued, storageFault, hist, chainVars, spent>>

\* Password, expiry, network, nonce, balance, simulation: every failed check.
SendAbort ==
    /\ op.pc \in {"checked", "ready"}
    /\ op' = [op EXCEPT !.pc = "rejected"]
    /\ UNCHANGED <<journalVars, quotes, issued, storageFault, hist, chainVars, spent>>

\* Sign and persist.  Nothing is broadcast when the write reports an error,
\* even though the record may have reached the disk.
SendPrepare(w) ==
    LET q == quotes[op.quote]
        t == Len(signed) + 1
    IN  /\ op.pc = "ready"
        /\ Len(signed) < MaxTx
        /\ signed' = Append(signed, [nonce |-> q.nonce, quote |-> op.quote, root |-> q.root])
        /\ AppendAtomic(t, NewRecord(q.nonce, op.quote), w)
        /\ IF w = "ok"
           THEN /\ op' = [op EXCEPT !.pc = "dispatch", !.tx = t, !.version = 1]
                /\ UNCHANGED storageFault
           ELSE op' = Idle /\ storageFault' = TRUE
        /\ CountWrite(w)
        /\ UNCHANGED <<quotes, issued, hist, wire, canon, finalNonce>>

\* ErrJournalFull is not a storage fault and not a SendRejectedError.
SendFull ==
    /\ op.pc = "ready" /\ JournalFull
    /\ op' = Idle
    /\ UNCHANGED <<journalVars, quotes, issued, storageFault, hist, chainVars, spent>>

\* The bytes may reach a node whether or not the call reports success.
SendTransaction(delivered, ok) ==
    /\ op.pc = "dispatch"
    /\ ok => delivered
    /\ wire' = IF delivered THEN wire \cup {op.tx} ELSE wire
    /\ op' = [op EXCEPT !.pc = "result",
                        !.state = IF ok THEN "submitted" ELSE "broadcast_unknown"]
    /\ UNCHANGED <<journalVars, quotes, issued, storageFault, hist, signed, canon,
                   finalNonce, spent>>

\* The result of the broadcast, unless the record changed meanwhile.
BroadcastResult(fresh, w) ==
    /\ op.pc = "result"
    /\ fresh => op.state = "broadcast_unknown"
    /\ UpdateStateAtomicIfVersion(op.tx, op.version, op.state, FALSE, fresh, w)
    /\ IF UpdateFails(op.tx, w)
       THEN storageFault' = TRUE /\ UNCHANGED quotes
       ELSE quotes' = Without(quotes, op.quote) /\ UNCHANGED storageFault
    /\ op' = Idle
    /\ CountWrite(w)
    /\ UNCHANGED <<issued, hist, chainVars>>

\* The caller has its answer and sendMu is released.
Return ==
    /\ op.pc \in {"rejected", "replied"}
    /\ op' = Idle
    /\ UNCHANGED <<journalVars, quotes, issued, storageFault, hist, chainVars, spent>>

-----------------------------------------------------------------------------
(* Retry. *)

\* FindByHash: a copy of the record, taken before NonceMined is asked.
RetryFind(t) ==
    /\ op = Idle /\ ~storageFault
    /\ Rec(t).version < MaxVersion
    /\ op' = [Idle EXCEPT !.pc = "retry", !.tx = t, !.version = Rec(t).version,
                          !.state = Rec(t).state]
    /\ UNCHANGED <<journalVars, quotes, issued, storageFault, hist, chainVars, spent>>

RetryDecide ==
    /\ op.pc = "retry"
    /\ op' = IF NonceMined(signed[op.tx].nonce)
             THEN [op EXCEPT !.pc = "replied",
                             !.state = IF @ = "mined" THEN @ ELSE "replaced"]
             ELSE [op EXCEPT !.pc = "dispatch"]
    /\ UNCHANGED <<journalVars, quotes, issued, storageFault, hist, chainVars, spent>>

-----------------------------------------------------------------------------
(* History. *)

HistoryStart ==
    /\ hist = Resting
    /\ hist' = [Resting EXCEPT !.pc = "refresh", !.items = RefreshItems]
    /\ UNCHANGED <<journalVars, quotes, issued, storageFault, op, chainVars, spent>>

\* Client.Transaction answers.  A record at the version bound of the instance
\* is only updated by its finality.
HistoryObserve(t, seen) ==
    /\ hist.pc = "refresh"
    /\ hist.items[t] < MaxVersion \/ seen.finalized
    /\ hist' = [hist EXCEPT !.pc = "observed", !.items = Without(@, t),
                            !.tx = t, !.version = hist.items[t], !.seen = seen]
    /\ UNCHANGED <<journalVars, quotes, issued, storageFault, op, chainVars, spent>>

\* Any other RPC error: this record keeps its state until the next refresh.
HistorySkip(t) ==
    /\ hist.pc = "refresh"
    /\ hist' = [hist EXCEPT !.items = Without(@, t)]
    /\ UNCHANGED <<journalVars, quotes, issued, storageFault, op, chainVars, spent>>

\* An unknown hash only takes back a record that is shown as mined.
HistoryApply(fresh, w) ==
    /\ hist.pc = "observed"
    /\ fresh => hist.seen.state = "mined"
    /\ IF hist.seen.state # "not_found"
       THEN UpdateStateAtomicIfVersion(hist.tx, hist.version, hist.seen.state,
                                       hist.seen.finalized, fresh, w)
       ELSE IF IsMined(Rec(hist.tx))
       THEN UpdateStateAtomicIfVersion(hist.tx, hist.version, "broadcast_unknown", FALSE, fresh, w)
       ELSE w = "ok" /\ UNCHANGED journalVars
    /\ IF UpdateFails(hist.tx, w)
       THEN storageFault' = TRUE /\ hist' = Resting
       ELSE UNCHANGED storageFault
            /\ hist' = [Resting EXCEPT !.pc = "refresh", !.items = hist.items]
    /\ CountWrite(w)
    /\ UNCHANGED <<quotes, issued, op, chainVars>>

\* The end of the loop, or of the request's time.
HistoryArchive(archiveWrite, activeWrite) ==
    /\ hist.pc = "refresh"
    /\ ArchiveFinalized(archiveWrite, activeWrite)
    /\ storageFault' = (storageFault \/ archiveWrite # "ok" \/ activeWrite # "ok")
    /\ hist' = Resting
    /\ CountWrite(IF archiveWrite = "ok" THEN activeWrite ELSE archiveWrite)
    /\ UNCHANGED <<quotes, issued, op, chainVars>>

-----------------------------------------------------------------------------
(* The process dies and is started again: NewService with an empty quote store. *)

Crash ==
    /\ spent.crashes < MaxCrashes
    /\ Load
    /\ quotes' = EmptyJournal
    /\ storageFault' = FALSE
    /\ op' = Idle
    /\ hist' = Resting
    /\ spent' = [spent EXCEPT !.crashes = @ + 1]
    /\ UNCHANGED <<issued, chainVars>>

-----------------------------------------------------------------------------

Init ==
    /\ JournalInit
    /\ quotes = EmptyJournal
    /\ issued = 0
    /\ storageFault = FALSE
    /\ op = Idle
    /\ hist = Resting
    /\ signed = <<>>
    /\ wire = {}
    /\ canon = <<>>
    /\ finalNonce = 0
    /\ spent = [reorgs |-> 0, crashes |-> 0, writeErrors |-> 0]

Chain ==
    \/ \E t \in wire : Mine(t)
    \/ MineForeign
    \/ Finalize
    \/ \E keep \in 0 .. Latest - 1 : Reorg(keep)

QuoteRequest ==
    \/ \E e \in FinalizedNonceAt : QuoteGuard(e)
    \/ \E n \in PendingNonceAt : QuoteCreate(n)
    \/ QuoteAbort
    \/ \E t \in Known : replacementQuote(t)
    \/ \E q \in DOMAIN quotes : ExpireQuote(q)

Send ==
    \/ \E q \in 1 .. issued : SendExisting(q)
    \/ \E q \in 1 .. issued : SendRefused(q)
    \/ \E q \in DOMAIN quotes, e \in FinalizedNonceAt : SendCheck(q, e)
    \/ SendVerify
    \/ SendAbort
    \/ \E w \in WriteOutcomes : SendPrepare(w)
    \/ SendFull

Retry ==
    \/ \E t \in Known : RetryFind(t)
    \/ RetryDecide

Deliver ==
    \/ \E delivered, ok \in BOOLEAN : SendTransaction(delivered, ok)
    \/ \E fresh \in BOOLEAN, w \in WriteOutcomes : BroadcastResult(fresh, w)
    \/ Return

History ==
    \/ HistoryStart
    \/ \E t \in DOMAIN hist.items : \E seen \in Observations(t) : HistoryObserve(t, seen)
    \/ \E t \in DOMAIN hist.items : HistorySkip(t)
    \/ \E fresh \in BOOLEAN, w \in WriteOutcomes : HistoryApply(fresh, w)
    \/ \E w1, w2 \in WriteOutcomes : HistoryArchive(w1, w2)

Next == Chain \/ QuoteRequest \/ Send \/ Retry \/ Deliver \/ History \/ Crash

Spec == Init /\ [][Next]_vars

-----------------------------------------------------------------------------
(* Properties. *)

OpPC == {"idle", "quoting", "checked", "ready", "dispatch", "result", "retry",
         "rejected", "replied"}

\* Every variable holds a value of its type.
TypeOK ==
    /\ JournalTypeOK
    /\ DOMAIN quotes \subseteq Nat /\ quotes \in [DOMAIN quotes -> Quote]
    /\ issued \in Nat
    /\ storageFault \in BOOLEAN
    /\ op \in [pc : OpPC, quote : Nat, tx : Nat, version : Nat, evidence : Nat,
               state : JournalState]
    /\ DOMAIN hist = {"pc", "items", "tx", "version", "seen"}
    /\ hist.pc \in {"idle", "refresh", "observed"}
    /\ DOMAIN hist.items \subseteq Nat /\ hist.items \in [DOMAIN hist.items -> Nat]
    /\ hist.tx \in Nat /\ hist.version \in Nat
    /\ hist.seen \in [state : JournalState \cup {"not_found"}, finalized : BOOLEAN]
    /\ signed \in Seq([nonce : Nat, quote : Nat, root : Nat])
    /\ wire \subseteq Txs
    /\ canon \in Seq(Nat)
    /\ finalNonce \in Nat
    /\ spent \in [reorgs : Nat, crashes : Nat, writeErrors : Nat]

OnDisk == DOMAIN diskRecords \cup DOMAIN diskArchive

\* Service.Send: "Must persist atomically before any RPC broadcast".  Whatever
\* a node may have received is in the files a restart reads, through failed
\* writes, refreshes that go on after a storage fault, archival and crashes.
DurableBeforeBroadcast == wire \subseteq OnDisk

\* SendRejectedError: the quote has no durable transaction and was not
\* broadcast, so a caller may abandon it.
RejectedIsAbandonable ==
    op.pc = "rejected" =>
        \A t \in Txs : signed[t].quote = op.quote => t \notin wire \cup OnDisk

\* The wallet implements the abstract write-ahead promise: the book is what the
\* files hold, and each write, failed write, archival and crash is one of its
\* steps or changes nothing it can see.
WAB == INSTANCE WriteAheadBroadcast WITH book <- OnDisk

WriteAhead == WAB!WABSpec

\* Without reorganizations and lagging nodes, at most one nonce at a time is
\* unresolved: no mined record in the journal and not below the finalized nonce
\* (checkInFlight on quote and on send, through crashes and failed writes).
SingleOutstandingNonce == Cardinality(InFlightNonces(finalNonce)) <= 1

\* A payment and all its speed-ups and cancellations (replacementQuote) use one
\* nonce, so the canonical chain never holds two of them.
PaidOnce ==
    \A i, j \in DOMAIN canon :
        (canon[i] # 0 /\ canon[j] # 0 /\ signed[canon[i]].root = signed[canon[j]].root)
            => i = j

\* A record the wallet calls final is right about the chain: its nonce is
\* finalized, by this transaction if it is shown as mined and by another one
\* if archival marked it replaced.  An archived record's nonce keeps its finalized
\* winner, so Retry answers from the journal and never broadcasts an archived
\* transaction again.
FinalVerdictsSound ==
    /\ \A t \in Known :
          Rec(t).finalized =>
              /\ signed[t].nonce < finalNonce
              /\ IsMined(Rec(t)) <=> canon[signed[t].nonce + 1] = t
    /\ \A t \in DOMAIN archived : NonceFinalized(archived[t].nonce)

\* A final verdict is never taken back: not by a late broadcast result, not by
\* an observation made before it, not by archival, not by a crash.
FinalityIsStable ==
    [][\A t \in Known : Rec(t).finalized =>
           /\ t \in Known'
           /\ Rec(t)'.finalized
           /\ Rec(t)'.state = Rec(t).state]_vars

-----------------------------------------------------------------------------
(* Liveness.  RunMaintenance calls History again and again, jm.mu and sendMu  *)
(* are held for bounded requests, and an RPC that keeps being asked about a   *)
(* finalized transaction eventually answers so; rotation by historyOffset     *)
(* brings every record to the front.                                          *)

FinalAnswer(t) == [state |-> "mined", finalized |-> TRUE]

Fairness ==
    /\ WF_vars(HistoryStart)
    /\ WF_vars(\E fresh \in BOOLEAN, w \in WriteOutcomes : HistoryApply(fresh, w))
    /\ WF_vars(\E w1, w2 \in WriteOutcomes : HistoryArchive(w1, w2))
    /\ \A t \in 1 .. MaxTx :
          SF_vars(/\ t \in DOMAIN hist.items
                  /\ FinalAnswer(t) \in Observations(t)
                  /\ HistoryObserve(t, FinalAnswer(t)))

FairSpec == Spec /\ Fairness

Settled(t) == t \in Txs /\ t \in Known /\ Canonical(t) /\ signed[t].nonce < finalNonce

\* A transaction whose block is finalized ends up recorded as final, in spite of
\* concurrent retries, stale versions, a failed write and a crash.
FinalizedIsRecorded ==
    \A t \in 1 .. MaxTx : Settled(t) ~> (t \in Known /\ Rec(t).finalized)

\* listHistory: a record the journal holds as mined and final is eventually
\* shown as such, not as replaced ("another transaction with this nonce was
\* included").
FinalIsShown ==
    \A t \in 1 .. MaxTx :
        (t \in Known /\ Rec(t).finalized /\ IsMined(Rec(t)))
            ~> (t \in Known /\ ListedState(t) = "mined")
=============================================================================
