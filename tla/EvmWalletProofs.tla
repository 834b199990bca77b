-------------------------- MODULE EvmWalletProofs --------------------------
(***************************************************************************)
(* Theorems about EvmWallet, for every value of its constants.             *)
(***************************************************************************)
EXTENDS EvmWallet, FiniteSetTheorems, TLAPS

-----------------------------------------------------------------------------
(* Journals. *)

\* A journal with a record added or replaced (With) is a journal.
LEMMA WithIsJournal ==
    ASSUME NEW f, IsJournal(f), NEW t \in Nat, NEW r \in JournalRecord
    PROVE  IsJournal(With(f, t, r)) /\ DOMAIN With(f, t, r) = DOMAIN f \cup {t}
BY FS_AddElement DEF IsJournal, With

\* Archive files merged into one (Merge) are a journal.
LEMMA MergeIsJournal ==
    ASSUME NEW f, NEW g, IsJournal(f), IsJournal(g)
    PROVE  IsJournal(Merge(f, g)) /\ DOMAIN Merge(f, g) = DOMAIN f \cup DOMAIN g
BY FS_Union DEF IsJournal, Merge

\* The empty journal (a wallet directory without files) is a journal.
LEMMA EmptyIsJournal == IsJournal(EmptyJournal) /\ DOMAIN EmptyJournal = {}
BY FS_EmptySet DEF IsJournal, EmptyJournal

\* A transaction the journal knows has a well-formed record (FindByHash).
LEMMA KnownRecord ==
    ASSUME JournalTypeOK, NEW t \in Known
    PROVE  Rec(t) \in JournalRecord /\ t \in Nat
BY DEF JournalTypeOK, IsJournal, Known, Rec

\* Saving a journal keeps the journal files and the memory well-formed.
LEMMA SaveType ==
    ASSUME JournalTypeOK, NEW next, IsJournal(next), NEW w, Save(next, w),
           archived' = archived, diskArchive' = diskArchive
    PROVE  JournalTypeOK'
BY DEF JournalTypeOK, Save, IsJournal

\* AppendAtomic keeps the journal well-formed.
LEMMA AppendType ==
    ASSUME JournalTypeOK, NEW t \in Nat, NEW r \in JournalRecord, NEW w,
           AppendAtomic(t, r, w)
    PROVE  JournalTypeOK'
<1>1. IsJournal(With(records, t, r))
  BY WithIsJournal DEF JournalTypeOK
<1> QED
  BY <1>1, SaveType DEF AppendAtomic

\* An updated record is a record.
LEMMA UpdatedRecord ==
    ASSUME NEW r \in JournalRecord, NEW s \in JournalState, NEW f \in BOOLEAN
    PROVE  [r EXCEPT !.state = s, !.finalized = f, !.version = @ + 1] \in JournalRecord
<1> DEFINE v == r.version + 1
<1>1. v \in Nat
  BY DEF JournalRecord
<1> HIDE DEF v
<1>2. [r EXCEPT !.state = s, !.finalized = f, !.version = v] \in JournalRecord
  BY <1>1, Zenon DEF JournalRecord
<1> QED
  BY <1>2 DEF v

\* UpdateStateAtomicIfVersion keeps the journal well-formed.
LEMMA UpdateType ==
    ASSUME JournalTypeOK, NEW t, NEW v, NEW s \in JournalState, NEW f \in BOOLEAN, NEW fresh,
           NEW w, UpdateStateAtomicIfVersion(t, v, s, f, fresh, w)
    PROVE  JournalTypeOK'
<1> DEFINE r == [records[t] EXCEPT !.state = s, !.finalized = f, !.version = @ + 1]
<1>1. CASE Applies(t, v, s, f, fresh)
  <2>1. t \in Nat /\ records[t] \in JournalRecord
    BY <1>1 DEF Applies, JournalTypeOK, IsJournal
  <2>2. r \in JournalRecord
    BY <2>1, UpdatedRecord
  <2>3. IsJournal(With(records, t, r))
    BY <2>1, <2>2, WithIsJournal DEF JournalTypeOK
  <2> QED
    BY <1>1, <2>3, SaveType DEF UpdateStateAtomicIfVersion
<1>2. CASE ~Applies(t, v, s, f, fresh)
  BY <1>2 DEF UpdateStateAtomicIfVersion, JournalTypeOK
<1> QED
  BY <1>1, <1>2

\* ArchiveFinalized keeps the journal well-formed.
LEMMA ArchiveType ==
    ASSUME JournalTypeOK, NEW w1, NEW w2, ArchiveFinalized(w1, w2)
    PROVE  JournalTypeOK'
<1> DEFINE batch == [t \in Archivable |-> ArchiveCopy(records[t])]
           keep  == [t \in DOMAIN records \ Archivable |-> records[t]]
<1>1. IsJournal(batch) /\ IsJournal(keep)
  <2>1. \A r \in JournalRecord : ArchiveCopy(r) \in JournalRecord
    BY DEF ArchiveCopy, JournalRecord, JournalState
  <2>2. Archivable \subseteq DOMAIN records
    BY DEF Archivable
  <2>3. IsFiniteSet(Archivable) /\ IsFiniteSet(DOMAIN records \ Archivable)
    BY <2>2, FS_Subset DEF JournalTypeOK, IsJournal
  <2> QED
    BY <2>1, <2>2, <2>3 DEF JournalTypeOK, IsJournal
<1>2. IsJournal(Merge(diskArchive, batch)) /\ IsJournal(Merge(archived, batch))
  BY <1>1, MergeIsJournal DEF JournalTypeOK
<1> HIDE DEF batch, keep
<1>3. \/ UNCHANGED journalVars
      \/ /\ diskArchive' = diskArchive \/ diskArchive' = Merge(diskArchive, batch)
         /\ archived' = archived \/ archived' = Merge(archived, batch)
         /\ records' = records \/ records' = keep
         /\ diskRecords' = diskRecords \/ diskRecords' = keep
  BY DEF ArchiveFinalized, Save, batch, keep
<1> QED
  BY <1>1, <1>2, <1>3 DEF JournalTypeOK, journalVars

\* A restart reads well-formed journals from well-formed files.
LEMMA LoadType ==
    ASSUME JournalTypeOK, Load
    PROVE  JournalTypeOK'
<1>1. IsJournal([t \in DOMAIN diskArchive \ DOMAIN diskRecords |-> diskArchive[t]])
  BY FS_Subset DEF JournalTypeOK, IsJournal
<1> QED
  BY <1>1 DEF JournalTypeOK, Load

-----------------------------------------------------------------------------
(* The inductive invariant: types, and what ties memory, files and network    *)
(* together.  Memory never knows more than the files (a write reaches the     *)
(* file before jm.records), nothing is archived in memory only, files hold    *)
(* signed transactions, memory knows everything that was broadcast, the       *)
(* transaction that is about to be broadcast is in memory, and the quote of a *)
(* running Send is in the store.                                              *)

FilesCoverMemory == Known \subseteq OnDisk /\ DOMAIN archived \subseteq DOMAIN diskArchive

DurableInv ==
    /\ FilesCoverMemory
    /\ OnDisk \subseteq Txs
    /\ wire \subseteq Known
    /\ op.pc \in {"dispatch", "result", "retry"} => op.tx \in Known
    /\ op.pc \in {"checked", "ready"} => op.quote \in DOMAIN quotes

WalletInv == TypeOK /\ DurableInv

-----------------------------------------------------------------------------
(* Type correctness. *)

OpType == [pc : OpPC, quote : Nat, tx : Nat, version : Nat, evidence : Nat,
           state : JournalState]

\* The idle process states are well-formed, and so is an empty quote store.
LEMMA IdleType ==
    /\ Idle \in OpType
    /\ DOMAIN Resting = {"pc", "items", "tx", "version", "seen"}
    /\ Resting.pc = "idle" /\ Resting.tx \in Nat /\ Resting.version \in Nat
    /\ DOMAIN Resting.items \subseteq Nat /\ Resting.items \in [DOMAIN Resting.items -> Nat]
    /\ Resting.seen \in [state : JournalState \cup {"not_found"}, finalized : BOOLEAN]
BY DEF Idle, Resting, OpType, OpPC, JournalState, EmptyJournal

\* The initial state of the wallet is well-formed.
LEMMA InitType == Init => TypeOK
<1> SUFFICES ASSUME Init PROVE TypeOK
  OBVIOUS
<1>1. JournalTypeOK
  BY EmptyIsJournal DEF Init, JournalInit, JournalTypeOK
<1>2. DOMAIN quotes \subseteq Nat /\ quotes \in [DOMAIN quotes -> Quote]
  BY DEF Init, EmptyJournal
<1>3. op \in OpType
  BY IdleType DEF Init
<1>4. signed \in Seq([nonce : Nat, quote : Nat, root : Nat]) /\ canon \in Seq(Nat)
  BY DEF Init
<1>5. wire \subseteq Txs
  BY DEF Init
<1> QED
  BY <1>1, <1>2, <1>3, <1>4, <1>5, IdleType DEF Init, TypeOK, OpType

\* The parts of TypeOK that steps change together.
QuotesType == DOMAIN quotes \subseteq Nat /\ quotes \in [DOMAIN quotes -> Quote]

HistType ==
    /\ DOMAIN hist = {"pc", "items", "tx", "version", "seen"}
    /\ hist.pc \in {"idle", "refresh", "observed"}
    /\ DOMAIN hist.items \subseteq Nat /\ hist.items \in [DOMAIN hist.items -> Nat]
    /\ hist.tx \in Nat /\ hist.version \in Nat
    /\ hist.seen \in [state : JournalState \cup {"not_found"}, finalized : BOOLEAN]

ChainType ==
    /\ signed \in Seq([nonce : Nat, quote : Nat, root : Nat])
    /\ wire \subseteq Txs
    /\ canon \in Seq(Nat)
    /\ finalNonce \in Nat

SpentType == spent \in [reorgs : Nat, crashes : Nat, writeErrors : Nat]

\* TypeOK is the conjunction of these parts.
LEMMA TypeParts ==
    TypeOK <=> /\ JournalTypeOK /\ QuotesType /\ issued \in Nat /\ storageFault \in BOOLEAN
               /\ op \in OpType /\ HistType /\ ChainType /\ SpentType
BY DEF TypeOK, QuotesType, OpType, HistType, ChainType, SpentType

\* The same in the next state.
LEMMA TypePartsNext ==
    TypeOK' <=> /\ JournalTypeOK' /\ QuotesType' /\ issued' \in Nat /\ storageFault' \in BOOLEAN
                /\ op' \in OpType /\ HistType' /\ ChainType' /\ SpentType'
BY DEF TypeOK, QuotesType, OpType, HistType, ChainType, SpentType, JournalTypeOK, IsJournal, Txs

\* Parts whose variables do not change stay well-formed.
LEMMA TypeUnchanged ==
    /\ UNCHANGED journalVars => (JournalTypeOK <=> JournalTypeOK')
    /\ UNCHANGED quotes => (QuotesType <=> QuotesType')
    /\ UNCHANGED hist => (HistType <=> HistType')
    /\ UNCHANGED chainVars => (ChainType <=> ChainType')
    /\ UNCHANGED spent => (SpentType <=> SpentType')
BY DEF journalVars, chainVars, JournalTypeOK, IsJournal, QuotesType, HistType, ChainType,
       SpentType, Txs

\* An element of a sequence over S is in S.
LEMMA ElementInRange ==
    ASSUME NEW S, NEW seq \in Seq(S), NEW i \in 1 .. Len(seq)
    PROVE  seq[i] \in S
OBVIOUS

\* A signed transaction has a nonce, a quote and a root quote.
LEMMA SignedRecord ==
    ASSUME ChainType, NEW t \in Txs
    PROVE  signed[t] \in [nonce : Nat, quote : Nat, root : Nat]
BY ElementInRange, Zenon DEF ChainType, Txs

\* A write error is counted in a natural number.
LEMMA CountWriteType ==
    ASSUME SpentType, NEW w, CountWrite(w)
    PROVE  SpentType'
BY DEF SpentType, CountWrite

\* Removing a quote keeps the store well-formed (QuoteStore.Remove).
LEMMA RemoveQuoteType ==
    ASSUME QuotesType, NEW q, quotes' = Without(quotes, q)
    PROVE  QuotesType'
BY DEF QuotesType, Without

\* Adding a quote keeps the store well-formed (QuoteStore.Add).
LEMMA AddQuoteType ==
    ASSUME QuotesType, issued \in Nat, NEW q \in Quote, AddQuote(q)
    PROVE  QuotesType' /\ issued' \in Nat
BY DEF QuotesType, AddQuote, With

\* A refresh that ends, or goes on with the records it has left, keeps its type.
LEMMA RestingHistType ==
    ASSUME HistType,
           hist' = Resting \/ hist' = [Resting EXCEPT !.pc = "refresh", !.items = hist.items]
    PROVE  HistType'
<1>1. CASE hist' = Resting
  BY <1>1, IdleType DEF HistType
<1>2. CASE hist' = [Resting EXCEPT !.pc = "refresh", !.items = hist.items]
  <2>1. DOMAIN hist' = DOMAIN Resting /\ hist'.pc = "refresh" /\ hist'.items = hist.items
    BY <1>2, IdleType
  <2>2. hist'.tx = Resting.tx /\ hist'.version = Resting.version /\ hist'.seen = Resting.seen
    BY <1>2, IdleType
  <2> QED
    BY <2>1, <2>2, IdleType DEF HistType
<1> QED
  BY <1>1, <1>2

\* A step of the process that holds sendMu which changes nothing but its own
\* state keeps the types.
LEMMA OnlyOpType ==
    ASSUME TypeOK, op' \in OpType,
           UNCHANGED <<journalVars, quotes, issued, storageFault, hist, chainVars, spent>>
    PROVE  TypeOK'
BY TypeParts, TypePartsNext, TypeUnchanged

\* Every step of the chain keeps the types.
LEMMA ChainStepType == TypeOK /\ Chain => TypeOK'
<1> SUFFICES ASSUME TypeOK, Chain PROVE TypeOK'
  OBVIOUS
<1>1. UNCHANGED <<journalVars, serviceVars>>
  BY DEF Chain, Mine, MineForeign, Finalize, Reorg
<1>2. ChainType /\ SpentType /\ Latest \in Nat
  BY TypeParts DEF ChainType, Latest
<1>3. ChainType' /\ SpentType'
  <2>1. CASE \E t \in wire : Mine(t)
    <3>1. PICK t \in wire : Mine(t)
      BY <2>1
    <3>2. t \in Nat
      BY <1>2 DEF ChainType, Txs
    <3>3. Append(canon, t) \in Seq(Nat)
      BY <1>2, <3>2 DEF ChainType
    <3> QED
      BY <1>2, <3>1, <3>3 DEF Mine, ChainType, SpentType, Txs
  <2>2. CASE MineForeign
    BY <2>2, <1>2 DEF MineForeign, ChainType, SpentType, Txs
  <2>3. CASE Finalize
    BY <2>3, <1>2 DEF Finalize, ChainType, SpentType, Txs
  <2>4. CASE \E keep \in 0 .. Latest - 1 : Reorg(keep)
    <3>1. PICK keep \in 0 .. Latest - 1 : Reorg(keep)
      BY <2>4
    <3>2. SubSeq(canon, 1, keep) \in Seq(Nat)
      BY <1>2, <3>1 DEF ChainType, Latest
    <3>3. ChainType'
      BY <1>2, <3>1, <3>2 DEF Reorg, ChainType, Txs
    <3> QED
      BY <1>2, <3>1, <3>3 DEF Reorg, SpentType
  <2> QED
    BY <2>1, <2>2, <2>3, <2>4 DEF Chain
<1> QED
  BY <1>1, <1>3, TypeParts, TypePartsNext, TypeUnchanged DEF serviceVars

\* Every step of a quote request keeps the types.
LEMMA QuoteStepType == WalletInv /\ QuoteRequest => TypeOK'
<1> SUFFICES ASSUME TypeOK, DurableInv, QuoteRequest PROVE TypeOK'
  BY DEF WalletInv
<1> USE TypeParts, TypePartsNext, TypeUnchanged
<1>1. CASE \E e \in FinalizedNonceAt : QuoteGuard(e)
  <2>1. PICK e \in FinalizedNonceAt : QuoteGuard(e)
    BY <1>1
  <2>2. e \in Nat
    BY DEF FinalizedNonceAt, ChainType
  <2>3. [Idle EXCEPT !.pc = "quoting", !.evidence = e] \in OpType
    BY <2>2 DEF Idle, OpType, OpPC, JournalState
  <2> QED
    BY <2>1, <2>3, OnlyOpType DEF QuoteGuard
<1>2. CASE \E n \in PendingNonceAt : QuoteCreate(n)
  <2>1. PICK n \in PendingNonceAt : QuoteCreate(n)
    BY <1>2
  <2>2. [nonce |-> n, of |-> 0, count |-> 0, root |-> issued + 1] \in Quote
    BY DEF PendingNonceAt, Quote
  <2>3. QuotesType' /\ issued' \in Nat
    BY <2>1, <2>2, AddQuoteType DEF QuoteCreate
  <2> QED
    BY <2>1, <2>3, IdleType DEF QuoteCreate
<1>3. CASE QuoteAbort
  BY <1>3, IdleType, OnlyOpType DEF QuoteAbort
<1>4. CASE \E t \in Known : replacementQuote(t)
  <2>1. PICK t \in Known : replacementQuote(t)
    BY <1>4
  <2> DEFINE count == Cardinality(NonceRecords(Rec(t).nonce))
             q == [nonce |-> Rec(t).nonce, of |-> t, count |-> count, root |-> signed[t].root]
  <2>2. q \in Quote
    <3>1. t \in Txs /\ t \in Nat /\ Rec(t).nonce \in Nat
      BY KnownRecord DEF DurableInv, FilesCoverMemory, JournalRecord, ChainType, Txs
    <3>2. count \in Nat
      <4>1. IsFiniteSet(Known)
        BY FS_Union DEF JournalTypeOK, IsJournal, Known
      <4>2. IsFiniteSet(NonceRecords(Rec(t).nonce))
        BY <4>1, FS_Subset DEF NonceRecords
      <4> QED
        BY <4>2, FS_CardinalityType
    <3>3. signed[t].root \in Nat
      BY <3>1, SignedRecord
    <3> QED
      BY <3>1, <3>2, <3>3 DEF Quote
  <2>3. QuotesType' /\ issued' \in Nat
    BY <2>1, <2>2, AddQuoteType DEF replacementQuote
  <2> QED
    BY <2>1, <2>3 DEF replacementQuote
<1>5. CASE \E q \in DOMAIN quotes : ExpireQuote(q)
  BY <1>5, RemoveQuoteType DEF ExpireQuote
<1> QED
  BY <1>1, <1>2, <1>3, <1>4, <1>5 DEF QuoteRequest

\* Every step of Send keeps the types.
LEMMA SendStepType == WalletInv /\ Send => TypeOK'
<1> SUFFICES ASSUME TypeOK, DurableInv, Send PROVE TypeOK'
  BY DEF WalletInv
<1> USE TypeParts
<1>1. CASE \E q \in 1 .. issued : SendExisting(q) \/ SendRefused(q)
  <2>1. PICK q \in 1 .. issued : SendExisting(q) \/ SendRefused(q)
    BY <1>1
  <2>2. q \in Nat
    OBVIOUS
  <2>3. /\ [Idle EXCEPT !.pc = "replied", !.quote = q] \in OpType
        /\ [Idle EXCEPT !.pc = "rejected", !.quote = q] \in OpType
    BY <2>2 DEF Idle, OpType, OpPC, JournalState
  <2> QED
    <3>1. op' \in OpType
      BY <2>1, <2>3 DEF SendExisting, SendRefused
    <3> QED
      BY <2>1, <3>1, OnlyOpType DEF SendExisting, SendRefused
<1>2. CASE \E q \in DOMAIN quotes, e \in FinalizedNonceAt : SendCheck(q, e)
  <2>1. PICK q \in DOMAIN quotes, e \in FinalizedNonceAt : SendCheck(q, e)
    BY <1>2
  <2>2. [Idle EXCEPT !.pc = "checked", !.quote = q] \in OpType
    BY DEF Idle, OpType, OpPC, JournalState, QuotesType
  <2> QED
    BY <2>1, <2>2, OnlyOpType DEF SendCheck
<1>3. CASE SendVerify \/ SendAbort
  <2>1. \A pc \in OpPC : [op EXCEPT !.pc = pc] \in OpType
    BY DEF OpType
  <2> QED
    BY <1>3, <2>1, OnlyOpType DEF SendVerify, SendAbort, OpPC
<1>4. CASE \E w \in WriteOutcomes : SendPrepare(w)
  <2>1. PICK w \in WriteOutcomes : SendPrepare(w)
    BY <1>4
  <2> DEFINE t == Len(signed) + 1
             q == quotes[op.quote]
  <2>2. q \in Quote /\ op.quote \in Nat /\ t \in Nat
    BY <2>1 DEF SendPrepare, DurableInv, QuotesType, OpType, ChainType
  <2>3. JournalTypeOK'
    <3>1. NewRecord(q.nonce, op.quote) \in JournalRecord
      BY <2>2 DEF NewRecord, JournalRecord, JournalState, Quote
    <3> QED
      BY <2>1, <2>2, <3>1, AppendType DEF SendPrepare
  <2>4. ChainType'
    <3>1. [nonce |-> q.nonce, quote |-> op.quote, root |-> q.root]
              \in [nonce : Nat, quote : Nat, root : Nat]
      BY <2>2 DEF Quote
    <3> QED
      BY <2>1, <3>1 DEF SendPrepare, ChainType, Txs
  <2>5. op' \in OpType /\ storageFault' \in BOOLEAN
    <3>1. [op EXCEPT !.pc = "dispatch", !.tx = t, !.version = 1] \in OpType
      BY <2>2 DEF OpType, OpPC
    <3> QED
      BY <2>1, <3>1, IdleType DEF SendPrepare
  <2>6. SpentType'
    BY <2>1, CountWriteType DEF SendPrepare
  <2> QED
    BY <2>1, <2>3, <2>4, <2>5, <2>6, TypePartsNext, TypeUnchanged DEF SendPrepare
<1>5. CASE SendFull
  BY <1>5, IdleType, OnlyOpType DEF SendFull
<1> QED
  BY <1>1, <1>2, <1>3, <1>4, <1>5 DEF Send

\* Every step of Retry keeps the types.
LEMMA RetryStepType == TypeOK /\ Retry => TypeOK'
<1> SUFFICES ASSUME TypeOK, Retry PROVE TypeOK'
  OBVIOUS
<1> USE TypeParts
<1>1. CASE \E t \in Known : RetryFind(t)
  <2>1. PICK t \in Known : RetryFind(t)
    BY <1>1
  <2>2. t \in Nat /\ Rec(t).version \in Nat /\ Rec(t).state \in JournalState
    BY KnownRecord DEF JournalRecord
  <2>3. [Idle EXCEPT !.pc = "retry", !.tx = t, !.version = Rec(t).version,
                     !.state = Rec(t).state] \in OpType
    BY <2>2 DEF Idle, OpType, OpPC
  <2> QED
    BY <2>1, <2>3, OnlyOpType DEF RetryFind
<1>2. CASE RetryDecide
  <2>1. op' \in OpType
    BY <1>2 DEF RetryDecide, OpType, OpPC, JournalState
  <2> QED
    BY <1>2, <2>1, OnlyOpType DEF RetryDecide
<1> QED
  BY <1>1, <1>2 DEF Retry

\* Every step of a broadcast keeps the types.
LEMMA DeliverStepType == WalletInv /\ Deliver => TypeOK'
<1> SUFFICES ASSUME TypeOK, DurableInv, Deliver PROVE TypeOK'
  BY DEF WalletInv
<1> USE TypeParts
<1>1. CASE \E delivered, ok \in BOOLEAN : SendTransaction(delivered, ok)
  <2>1. PICK delivered \in BOOLEAN, ok \in BOOLEAN : SendTransaction(delivered, ok)
    BY <1>1
  <2>2. op' \in OpType
    BY <2>1 DEF SendTransaction, OpType, OpPC, JournalState
  <2>3. ChainType'
    <3>1. op.tx \in Txs
      BY <2>1 DEF SendTransaction, DurableInv, FilesCoverMemory
    <3> QED
      BY <2>1, <3>1 DEF SendTransaction, ChainType, Txs
  <2> QED
    BY <2>1, <2>2, <2>3, TypePartsNext, TypeUnchanged DEF SendTransaction
<1>2. CASE \E fresh \in BOOLEAN, w \in WriteOutcomes : BroadcastResult(fresh, w)
  <2>1. PICK fresh \in BOOLEAN, w \in WriteOutcomes : BroadcastResult(fresh, w)
    BY <1>2
  <2>2. JournalTypeOK'
    BY <2>1, UpdateType DEF BroadcastResult, OpType
  <2>3. QuotesType' /\ storageFault' \in BOOLEAN
    BY <2>1, RemoveQuoteType, TypeUnchanged DEF BroadcastResult
  <2>4. SpentType'
    BY <2>1, CountWriteType DEF BroadcastResult
  <2> QED
    BY <2>1, <2>2, <2>3, <2>4, IdleType, TypePartsNext, TypeUnchanged DEF BroadcastResult
<1>3. CASE Return
  BY <1>3, IdleType, OnlyOpType DEF Return
<1> QED
  BY <1>1, <1>2, <1>3 DEF Deliver

\* Every step of History keeps the types.
LEMMA HistoryStepType == TypeOK /\ History => TypeOK'
<1> SUFFICES ASSUME TypeOK, History PROVE TypeOK'
  OBVIOUS
<1> USE TypeParts
<1>1. CASE HistoryStart
  <2>1. DOMAIN RefreshItems \subseteq Nat /\ RefreshItems \in [DOMAIN RefreshItems -> Nat]
    BY DEF RefreshItems, JournalTypeOK, IsJournal, JournalRecord
  <2>2. HistType'
    BY <1>1, <2>1, IdleType DEF HistoryStart, HistType, Resting
  <2> QED
    BY <1>1, <2>2, TypePartsNext, TypeUnchanged DEF HistoryStart
<1>2. CASE \E t \in DOMAIN hist.items : \E seen \in Observations(t) : HistoryObserve(t, seen)
  <2>0. PICK t \in DOMAIN hist.items : \E seen \in Observations(t) : HistoryObserve(t, seen)
    BY <1>2
  <2>1. PICK seen \in Observations(t) : HistoryObserve(t, seen)
    BY <2>0
  <2>2. seen \in [state : JournalState \cup {"not_found"}, finalized : BOOLEAN]
    BY DEF Observations, JournalState
  <2>3. HistType'
    BY <2>1, <2>2 DEF HistoryObserve, HistType, Without
  <2> QED
    BY <2>1, <2>3, TypePartsNext, TypeUnchanged DEF HistoryObserve
<1>3. CASE \E t \in DOMAIN hist.items : HistorySkip(t)
  <2>1. HistType'
    BY <1>3 DEF HistorySkip, HistType, Without
  <2> QED
    BY <1>3, <2>1, TypePartsNext, TypeUnchanged DEF HistorySkip
<1>4. CASE \E fresh \in BOOLEAN, w \in WriteOutcomes : HistoryApply(fresh, w)
  <2>1. PICK fresh \in BOOLEAN, w \in WriteOutcomes : HistoryApply(fresh, w)
    BY <1>4
  <2>2. JournalTypeOK'
    <3>1. CASE hist.seen.state # "not_found"
      <4>1. hist.seen.state \in JournalState /\ hist.seen.finalized \in BOOLEAN
        BY <3>1 DEF HistType
      <4> QED
        BY <2>1, <3>1, <4>1, UpdateType DEF HistoryApply
    <3>2. CASE hist.seen.state = "not_found"
      <4>1. "broadcast_unknown" \in JournalState /\ FALSE \in BOOLEAN
        BY DEF JournalState
      <4> QED
        BY <2>1, <3>2, <4>1, UpdateType, TypeUnchanged DEF HistoryApply
    <3> QED
      BY <3>1, <3>2
  <2>3. HistType' /\ storageFault' \in BOOLEAN
    <3>1. hist' = Resting \/ hist' = [Resting EXCEPT !.pc = "refresh", !.items = hist.items]
      BY <2>1 DEF HistoryApply
    <3>2. storageFault' \in BOOLEAN
      BY <2>1 DEF HistoryApply
    <3> QED
      BY <3>1, <3>2, RestingHistType
  <2>4. SpentType'
    BY <2>1, CountWriteType DEF HistoryApply
  <2> QED
    BY <2>1, <2>2, <2>3, <2>4, TypePartsNext, TypeUnchanged DEF HistoryApply
<1>5. CASE \E w1, w2 \in WriteOutcomes : HistoryArchive(w1, w2)
  <2>1. PICK w1 \in WriteOutcomes, w2 \in WriteOutcomes : HistoryArchive(w1, w2)
    BY <1>5
  <2>2. JournalTypeOK'
    BY <2>1, ArchiveType DEF HistoryArchive
  <2>3. HistType' /\ storageFault' \in BOOLEAN
    BY <2>1, IdleType DEF HistoryArchive, HistType
  <2>4. SpentType'
    BY <2>1, CountWriteType DEF HistoryArchive
  <2> QED
    BY <2>1, <2>2, <2>3, <2>4, TypePartsNext, TypeUnchanged DEF HistoryArchive
<1> QED
  BY <1>1, <1>2, <1>3, <1>4, <1>5 DEF History

\* A crash with restart keeps the types.
LEMMA CrashStepType == TypeOK /\ Crash => TypeOK'
<1> SUFFICES ASSUME TypeOK, Crash PROVE TypeOK'
  OBVIOUS
<1> USE TypeParts
<1>1. JournalTypeOK'
  BY LoadType DEF Crash
<1>2. QuotesType' /\ HistType' /\ SpentType'
  BY IdleType DEF Crash, QuotesType, EmptyJournal, HistType, SpentType
<1> QED
  BY <1>1, <1>2, IdleType, TypePartsNext, TypeUnchanged DEF Crash

-----------------------------------------------------------------------------
(* Durability. *)

\* AppendAtomic forgets nothing, whatever becomes of its write, and puts only
\* the new transaction into the files.
LEMMA AppendDurable ==
    ASSUME JournalTypeOK, FilesCoverMemory, NEW t \in Nat, NEW r \in JournalRecord, NEW w,
           AppendAtomic(t, r, w)
    PROVE  /\ FilesCoverMemory'
           /\ Known' = IF w = "ok" THEN Known \cup {t} ELSE Known
           /\ OnDisk' \subseteq OnDisk \cup {t}
           /\ w # "failed" => t \in OnDisk'
           /\ w = "failed" => OnDisk' = OnDisk
<1>1. DOMAIN With(records, t, r) = DOMAIN records \cup {t}
  BY WithIsJournal DEF JournalTypeOK
<1> QED
  BY <1>1 DEF FilesCoverMemory, AppendAtomic, Save, Known, OnDisk

\* UpdateStateAtomicIfVersion keeps what memory knows and adds nothing to the files.
LEMMA UpdateDurable ==
    ASSUME JournalTypeOK, FilesCoverMemory, NEW t, NEW v, NEW s, NEW f, NEW fresh, NEW w,
           UpdateStateAtomicIfVersion(t, v, s, f, fresh, w)
    PROVE  FilesCoverMemory' /\ Known' = Known /\ OnDisk' \subseteq OnDisk
<1> DEFINE r == [records[t] EXCEPT !.state = s, !.finalized = f, !.version = @ + 1]
<1>1. CASE Applies(t, v, s, f, fresh)
  <2>1. DOMAIN With(records, t, r) = DOMAIN records
    BY <1>1 DEF Applies, With
  <2>2. Save(With(records, t, r), w) /\ UNCHANGED <<archived, diskArchive>>
    BY <1>1 DEF UpdateStateAtomicIfVersion
  <2> QED
    BY <2>1, <2>2 DEF FilesCoverMemory, Save, Known, OnDisk
<1>2. CASE ~Applies(t, v, s, f, fresh)
  BY <1>2 DEF UpdateStateAtomicIfVersion, FilesCoverMemory, Known, OnDisk
<1> QED
  BY <1>1, <1>2

\* ArchiveFinalized leaves duplicates at worst, never a gap.
LEMMA ArchiveDurable ==
    ASSUME JournalTypeOK, FilesCoverMemory, NEW w1, NEW w2, ArchiveFinalized(w1, w2)
    PROVE  FilesCoverMemory' /\ Known' = Known /\ OnDisk' \subseteq OnDisk
<1> DEFINE batch == [t \in Archivable |-> ArchiveCopy(records[t])]
           keep  == [t \in DOMAIN records \ Archivable |-> records[t]]
<1>1. DOMAIN batch = Archivable /\ Archivable \subseteq DOMAIN records
  BY DEF Archivable
<1>2. DOMAIN keep = DOMAIN records \ Archivable
  OBVIOUS
<1>3. /\ DOMAIN Merge(diskArchive, batch) = DOMAIN diskArchive \cup Archivable
      /\ DOMAIN Merge(archived, batch) = DOMAIN archived \cup Archivable
  BY <1>1 DEF Merge
<1>4. \/ UNCHANGED journalVars
      \/ /\ diskArchive' = diskArchive \/ diskArchive' = Merge(diskArchive, batch)
         /\ UNCHANGED <<records, archived, diskRecords>>
      \/ /\ diskArchive' = Merge(diskArchive, batch)
         /\ \/ records' = keep /\ diskRecords' = keep /\ archived' = Merge(archived, batch)
            \/ records' = records /\ archived' = archived
               /\ diskRecords' \in {keep, diskRecords}
  BY DEF ArchiveFinalized, Save
<1> HIDE DEF batch, keep
<1> QED
  BY <1>1, <1>2, <1>3, <1>4 DEF FilesCoverMemory, Known, OnDisk, journalVars

\* After a restart memory knows exactly what the files hold.
LEMMA LoadDurable ==
    ASSUME JournalTypeOK, Load
    PROVE  FilesCoverMemory' /\ Known' = OnDisk /\ OnDisk' = OnDisk
BY DEF Load, FilesCoverMemory, Known, OnDisk

\* Nothing known changes when the journal does not change.
LEMMA JournalUnchanged ==
    UNCHANGED journalVars => /\ FilesCoverMemory <=> FilesCoverMemory'
                             /\ Known' = Known /\ OnDisk' = OnDisk
BY DEF journalVars, FilesCoverMemory, Known, OnDisk

\* What SendPrepare does to memory and files, for the transaction it signs.
PrepareFacts(t, w) ==
    /\ t \notin OnDisk
    /\ FilesCoverMemory'
    /\ Known' = IF w = "ok" THEN Known \cup {t} ELSE Known
    /\ OnDisk' \subseteq OnDisk \cup {t}
    /\ w # "failed" => t \in OnDisk'
    /\ w = "failed" => OnDisk' = OnDisk

\* SendPrepare adds a transaction that no file holds yet.
LEMMA PrepareDurable ==
    ASSUME WalletInv, NEW w, SendPrepare(w)
    PROVE  PrepareFacts(Len(signed) + 1, w)
<1> DEFINE t == Len(signed) + 1
           q == quotes[op.quote]
<1>1. QuotesType /\ ChainType /\ JournalTypeOK /\ op \in OpType
  BY TypeParts DEF WalletInv
<1>2. q \in Quote /\ op.quote \in Nat /\ t \in Nat
  BY <1>1 DEF SendPrepare, WalletInv, DurableInv, QuotesType, OpType, ChainType
<1>3. NewRecord(q.nonce, op.quote) \in JournalRecord
  BY <1>2 DEF NewRecord, JournalRecord, JournalState, Quote
<1>4. t \notin OnDisk
  BY <1>1 DEF WalletInv, DurableInv, Txs, ChainType
<1>5. AppendAtomic(t, NewRecord(q.nonce, op.quote), w)
  BY DEF SendPrepare
<1> QED
  BY <1>1, <1>2, <1>3, <1>4, <1>5, AppendDurable DEF PrepareFacts, WalletInv, DurableInv

\* A step of History keeps what memory knows and adds nothing to the files.
LEMMA HistoryDurable ==
    ASSUME JournalTypeOK, FilesCoverMemory, History
    PROVE  FilesCoverMemory' /\ Known' = Known /\ OnDisk' \subseteq OnDisk
<1>1. CASE UNCHANGED journalVars
  BY <1>1, JournalUnchanged
<1>2. CASE \E fresh \in BOOLEAN, w \in WriteOutcomes : HistoryApply(fresh, w)
  BY <1>2, UpdateDurable, JournalUnchanged DEF HistoryApply
<1>3. CASE \E w1, w2 \in WriteOutcomes : HistoryArchive(w1, w2)
  BY <1>3, ArchiveDurable DEF HistoryArchive
<1> QED
  BY <1>1, <1>2, <1>3 DEF History, HistoryStart, HistoryObserve, HistorySkip

\* The initial state satisfies the invariant.
LEMMA InitDurable == Init => DurableInv
BY EmptyIsJournal DEF Init, JournalInit, DurableInv, FilesCoverMemory, Known, OnDisk, Idle

\* Every step preserves the durability part of the invariant.
LEMMA NextDurable == WalletInv /\ [Next]_vars => DurableInv'
<1> SUFFICES ASSUME TypeOK, DurableInv, [Next]_vars PROVE DurableInv'
  BY DEF WalletInv
<1> USE TypeParts
<1>1. FilesCoverMemory /\ JournalTypeOK
  BY DEF DurableInv
<1>2. CASE UNCHANGED vars
  BY <1>2, JournalUnchanged DEF vars, serviceVars, chainVars, DurableInv, Txs
<1>3. CASE Chain
  <2>1. UNCHANGED <<journalVars, serviceVars, signed, wire>>
    BY <1>3 DEF Chain, Mine, MineForeign, Finalize, Reorg
  <2> QED
    BY <2>1, JournalUnchanged DEF serviceVars, DurableInv, Txs
<1>4. CASE QuoteRequest
  <2>1. UNCHANGED <<journalVars, chainVars>>
    BY <1>4 DEF QuoteRequest, QuoteGuard, QuoteCreate, QuoteAbort, replacementQuote, ExpireQuote
  <2>2. op'.pc \in {"idle", "quoting"}
    <3>1. Idle.pc = "idle" /\ \A e : [Idle EXCEPT !.pc = "quoting", !.evidence = e].pc = "quoting"
      BY DEF Idle
    <3> QED
      BY <1>4, <3>1 DEF QuoteRequest, QuoteGuard, QuoteCreate, QuoteAbort, replacementQuote,
                        ExpireQuote
  <2> QED
    BY <2>1, <2>2, JournalUnchanged DEF chainVars, DurableInv, Txs
<1>5. CASE Send
  <2>1. CASE \E w \in WriteOutcomes : SendPrepare(w)
    <3>1. PICK w \in WriteOutcomes : SendPrepare(w)
      BY <2>1
    <3> DEFINE t == Len(signed) + 1
    <3>2. PrepareFacts(t, w)
      BY <3>1, PrepareDurable DEF WalletInv
    <3>3. Txs \cup {t} \subseteq Txs'
      BY <3>1 DEF SendPrepare, Txs, ChainType
    <3>4. /\ op'.pc \in {"idle", "dispatch"}
          /\ op'.pc = "dispatch" => op'.tx = t /\ w = "ok"
      <4>1. \/ w = "ok" /\ op' = [op EXCEPT !.pc = "dispatch", !.tx = t, !.version = 1]
            \/ w # "ok" /\ op' = Idle
        BY <3>1 DEF SendPrepare
      <4>2. \A u : /\ [op EXCEPT !.pc = "dispatch", !.tx = u, !.version = 1].pc = "dispatch"
                   /\ [op EXCEPT !.pc = "dispatch", !.tx = u, !.version = 1].tx = u
        BY DEF OpType
      <4>3. Idle.pc = "idle"
        BY DEF Idle
      <4> QED
        BY <4>1, <4>2, <4>3
    <3>5. wire' = wire /\ quotes' = quotes
      BY <3>1 DEF SendPrepare
    <3> HIDE DEF t
    <3> QED
      BY <3>2, <3>3, <3>4, <3>5 DEF PrepareFacts, DurableInv
  <2>2. CASE ~\E w \in WriteOutcomes : SendPrepare(w)
    <3>1. UNCHANGED <<journalVars, quotes, chainVars>>
      BY <1>5, <2>2 DEF Send, SendExisting, SendRefused, SendCheck, SendVerify, SendAbort, SendFull
    <3>2. /\ op'.pc \in {"idle", "replied", "rejected", "checked", "ready"}
          /\ op'.pc \in {"checked", "ready"} => op'.quote \in DOMAIN quotes
      <4>1. CASE \E q \in 1 .. issued : SendExisting(q) \/ SendRefused(q)
        BY <4>1 DEF SendExisting, SendRefused, Idle
      <4>2. CASE \E q \in DOMAIN quotes, e \in FinalizedNonceAt : SendCheck(q, e)
        BY <4>2 DEF SendCheck, Idle
      <4>3. CASE SendVerify \/ SendAbort
        BY <4>3 DEF SendVerify, SendAbort, OpType, DurableInv
      <4>4. CASE SendFull
        BY <4>4 DEF SendFull, Idle
      <4> QED
        BY <1>5, <2>2, <4>1, <4>2, <4>3, <4>4 DEF Send
    <3> QED
      BY <3>1, <3>2, JournalUnchanged DEF chainVars, DurableInv, Txs
  <2> QED
    BY <2>1, <2>2
<1>6. CASE Retry
  <2>1. UNCHANGED <<journalVars, quotes, chainVars>>
    BY <1>6 DEF Retry, RetryFind, RetryDecide
  <2>2. op'.pc \in {"retry", "dispatch", "replied"} /\ (op'.pc # "replied" => op'.tx \in Known)
    BY <1>6 DEF Retry, RetryFind, RetryDecide, Idle, DurableInv, OpType
  <2> QED
    BY <2>1, <2>2, JournalUnchanged DEF chainVars, DurableInv, Txs
<1>7. CASE Deliver
  <2>1. CASE \E delivered, ok \in BOOLEAN : SendTransaction(delivered, ok)
    <3>1. PICK delivered \in BOOLEAN, ok \in BOOLEAN : SendTransaction(delivered, ok)
      BY <2>1
    <3> QED
      BY <3>1, JournalUnchanged DEF SendTransaction, DurableInv, OpType, Txs
  <2>2. CASE \E fresh \in BOOLEAN, w \in WriteOutcomes : BroadcastResult(fresh, w)
    <3>1. PICK fresh \in BOOLEAN, w \in WriteOutcomes : BroadcastResult(fresh, w)
      BY <2>2
    <3>2. FilesCoverMemory' /\ Known' = Known /\ OnDisk' \subseteq OnDisk
      BY <1>1, <3>1, UpdateDurable DEF BroadcastResult
    <3> QED
      BY <3>1, <3>2 DEF BroadcastResult, DurableInv, Idle, chainVars, Txs
  <2>3. CASE Return
    BY <2>3, JournalUnchanged DEF Return, DurableInv, Idle, chainVars, Txs
  <2> QED
    BY <1>7, <2>1, <2>2, <2>3 DEF Deliver
<1>8. CASE History
  <2>1. UNCHANGED <<quotes, op, chainVars>>
    BY <1>8 DEF History, HistoryStart, HistoryObserve, HistorySkip, HistoryApply, HistoryArchive
  <2>2. FilesCoverMemory' /\ Known' = Known /\ OnDisk' \subseteq OnDisk
    BY <1>1, <1>8, HistoryDurable
  <2> QED
    BY <2>1, <2>2 DEF DurableInv, chainVars, Txs
<1>9. CASE Crash
  <2>1. FilesCoverMemory' /\ Known' = OnDisk /\ OnDisk' = OnDisk
    BY <1>1, <1>9, LoadDurable DEF Crash
  <2> QED
    BY <1>9, <2>1 DEF Crash, Idle, chainVars, DurableInv, FilesCoverMemory, Txs
<1> QED
  BY <1>2, <1>3, <1>4, <1>5, <1>6, <1>7, <1>8, <1>9 DEF Next

\* Every step preserves the types.
LEMMA NextType == WalletInv /\ [Next]_vars => TypeOK'
<1> SUFFICES ASSUME WalletInv, [Next]_vars PROVE TypeOK'
  OBVIOUS
<1>1. TypeOK
  BY DEF WalletInv
<1>2. CASE UNCHANGED vars
  BY <1>1, <1>2, TypeParts, TypePartsNext, TypeUnchanged DEF vars, serviceVars
<1> QED
  BY <1>1, <1>2, ChainStepType, QuoteStepType, SendStepType, RetryStepType, DeliverStepType,
     HistoryStepType, CrashStepType DEF Next

\* The inductive invariant holds in every state the wallet can reach.
THEOREM WalletInvariant == Spec => []WalletInv
<1>1. Init => WalletInv
  BY InitType, InitDurable DEF WalletInv
<1>2. WalletInv /\ [Next]_vars => WalletInv'
  BY NextType, NextDurable DEF WalletInv
<1> QED
  BY <1>1, <1>2, PTL DEF Spec

\* Every variable of the wallet keeps its type.
THEOREM TypeCorrect == Spec => []TypeOK
<1>1. WalletInv => TypeOK
  BY DEF WalletInv
<1> QED
  BY <1>1, WalletInvariant, PTL

\* Service.Send persists before it broadcasts, and nothing that was broadcast
\* ever leaves the files: for any number of transactions, quotes, crashes,
\* failed writes and reorganizations, and any archive thresholds.
THEOREM Durability == Spec => []DurableBeforeBroadcast
<1>1. WalletInv => DurableBeforeBroadcast
  BY DEF WalletInv, DurableInv, FilesCoverMemory, DurableBeforeBroadcast
<1> QED
  BY <1>1, WalletInvariant, PTL

-----------------------------------------------------------------------------
(* Refinement of WriteAheadBroadcast.  The files can hold a transaction that  *)
(* memory does not know (a write that failed after its rename), but then the  *)
(* storage fault is latched and no Send is past its first check, so the next  *)
(* append cannot drop one entry and add another in one write.                 *)

SyncInv == OnDisk \subseteq Known \/ (storageFault /\ op.pc \notin {"checked", "ready"})

\* Every step preserves it.
LEMMA NextSync == WalletInv /\ SyncInv /\ [Next]_vars => SyncInv'
<1> SUFFICES ASSUME WalletInv, SyncInv, [Next]_vars PROVE SyncInv'
  OBVIOUS
<1>1. JournalTypeOK /\ FilesCoverMemory /\ op \in OpType
  BY TypeParts DEF WalletInv, DurableInv
<1>2. Idle.pc = "idle"
  BY DEF Idle
<1>3. CASE UNCHANGED vars \/ Chain
  <2>1. UNCHANGED <<journalVars, serviceVars>>
    BY <1>3 DEF vars, Chain, Mine, MineForeign, Finalize, Reorg
  <2> QED
    BY <2>1, JournalUnchanged DEF SyncInv, serviceVars
<1>4. CASE QuoteRequest
  <2>1. UNCHANGED <<journalVars, storageFault>>
    BY <1>4 DEF QuoteRequest, QuoteGuard, QuoteCreate, QuoteAbort, replacementQuote, ExpireQuote
  <2>2. \A e : [Idle EXCEPT !.pc = "quoting", !.evidence = e].pc = "quoting"
    BY DEF Idle
  <2>3. op'.pc \in {"idle", "quoting"}
    BY <1>2, <1>4, <2>2 DEF QuoteRequest, QuoteGuard, QuoteCreate, QuoteAbort, replacementQuote,
                            ExpireQuote
  <2> QED
    BY <2>1, <2>3, JournalUnchanged DEF SyncInv
<1>5. CASE \E w \in WriteOutcomes : SendPrepare(w)
  <2>1. PICK w \in WriteOutcomes : SendPrepare(w)
    BY <1>5
  <2>2. PrepareFacts(Len(signed) + 1, w)
    BY <2>1, PrepareDurable
  <2>3. OnDisk \subseteq Known
    BY <2>1 DEF SendPrepare, SyncInv
  <2>4. CASE w = "ok"
    BY <2>2, <2>3, <2>4 DEF PrepareFacts, SyncInv
  <2>5. CASE w # "ok"
    BY <1>2, <2>1, <2>5 DEF SendPrepare, SyncInv
  <2> QED
    BY <2>4, <2>5
<1>6. CASE Send /\ ~\E w \in WriteOutcomes : SendPrepare(w)
  <2>1. UNCHANGED <<journalVars, storageFault>>
    BY <1>6 DEF Send, SendExisting, SendRefused, SendCheck, SendVerify, SendAbort, SendFull
  <2>2. op'.pc \notin {"checked", "ready"} \/ ~storageFault \/ op.pc \in {"checked", "ready"}
    BY <1>1, <1>2, <1>6 DEF Send, SendExisting, SendRefused, SendCheck, SendVerify, SendAbort,
                            SendFull, OpType, Idle
  <2> QED
    BY <2>1, <2>2, JournalUnchanged DEF SyncInv
<1>7. CASE Retry
  <2>1. UNCHANGED <<journalVars, storageFault>>
    BY <1>7 DEF Retry, RetryFind, RetryDecide
  <2>2. op'.pc \notin {"checked", "ready"}
    BY <1>1, <1>7 DEF Retry, RetryFind, RetryDecide, OpType, Idle
  <2> QED
    BY <2>1, <2>2, JournalUnchanged DEF SyncInv
<1>8. CASE Deliver
  <2>1. op'.pc \in {"idle", "result"}
    BY <1>1, <1>2, <1>8 DEF Deliver, SendTransaction, BroadcastResult, Return, OpType
  <2>2. storageFault => storageFault'
    BY <1>8 DEF Deliver, SendTransaction, BroadcastResult, Return
  <2>3. Known' = Known /\ OnDisk' \subseteq OnDisk
    BY <1>1, <1>8, UpdateDurable, JournalUnchanged
       DEF Deliver, SendTransaction, BroadcastResult, Return
  <2> QED
    BY <2>1, <2>2, <2>3 DEF SyncInv
<1>9. CASE History
  <2>1. Known' = Known /\ OnDisk' \subseteq OnDisk
    BY <1>1, <1>9, HistoryDurable
  <2>2. op' = op /\ (storageFault => storageFault')
    BY <1>9 DEF History, HistoryStart, HistoryObserve, HistorySkip, HistoryApply, HistoryArchive
  <2> QED
    BY <2>1, <2>2 DEF SyncInv
<1>10. CASE Crash
  BY <1>1, <1>10, LoadDurable DEF Crash, SyncInv
<1> QED
  BY <1>3, <1>4, <1>5, <1>6, <1>7, <1>8, <1>9, <1>10 DEF Next

\* Memory knows what the files hold, or the wallet refuses to send.
THEOREM SyncInvariant == Spec => []SyncInv
<1>1. Init => SyncInv
  BY EmptyIsJournal DEF Init, JournalInit, SyncInv, OnDisk
<1> QED
  BY <1>1, NextSync, WalletInvariant, PTL DEF Spec

\* Every step of the wallet is a step of the abstract promise, or changes
\* neither the book nor the wire.
LEMMA NextWriteAhead ==
    WalletInv /\ WalletInv' /\ SyncInv /\ [Next]_vars => [WAB!WABNext]_<<OnDisk, wire>>
<1> SUFFICES ASSUME WalletInv, WalletInv', SyncInv, [Next]_vars
             PROVE  [WAB!WABNext]_<<OnDisk, wire>>
  OBVIOUS
<1>1. JournalTypeOK /\ FilesCoverMemory /\ wire \subseteq Known
  BY TypeParts DEF WalletInv, DurableInv
<1>2. wire' \subseteq OnDisk'
  BY DEF WalletInv, DurableInv, FilesCoverMemory
<1>3. ASSUME OnDisk' \subseteq OnDisk, wire' = wire
      PROVE  WAB!WABNext
  <2>1. WAB!Discard(OnDisk \ OnDisk')
    BY <1>2, <1>3 DEF WAB!Discard
  <2> QED
    BY <2>1 DEF WAB!WABNext
<1>4. CASE UNCHANGED vars \/ Chain \/ QuoteRequest \/ Retry
  <2>1. UNCHANGED <<journalVars, wire>>
    BY <1>4 DEF vars, chainVars, Chain, Mine, MineForeign, Finalize, Reorg, QuoteRequest,
                QuoteGuard, QuoteCreate, QuoteAbort, replacementQuote, ExpireQuote,
                Retry, RetryFind, RetryDecide
  <2> QED
    BY <2>1, JournalUnchanged
<1>5. CASE \E w \in WriteOutcomes : SendPrepare(w)
  <2>1. PICK w \in WriteOutcomes : SendPrepare(w)
    BY <1>5
  <2> DEFINE t == Len(signed) + 1
  <2>2. PrepareFacts(t, w) /\ wire' = wire
    BY <2>1, PrepareDurable DEF SendPrepare
  <2>3. OnDisk \subseteq Known
    BY <2>1 DEF SendPrepare, SyncInv
  <2> HIDE DEF t
  <2>4. CASE w = "failed"
    BY <2>2, <2>4 DEF PrepareFacts
  <2>5. CASE w # "failed"
    <3>1. OnDisk' = OnDisk \cup {t}
      BY <2>1, <2>2, <2>3, <2>5 DEF PrepareFacts, FilesCoverMemory
    <3>2. WAB!Prepare(t)
      BY <2>2, <3>1 DEF PrepareFacts, WAB!Prepare
    <3> QED
      BY <3>1, <3>2 DEF WAB!WABNext
  <2> QED
    BY <2>4, <2>5
<1>6. CASE Send /\ ~\E w \in WriteOutcomes : SendPrepare(w)
  <2>1. UNCHANGED <<journalVars, wire>>
    BY <1>6 DEF Send, SendExisting, SendRefused, SendCheck, SendVerify, SendAbort, SendFull,
                chainVars
  <2> QED
    BY <2>1, JournalUnchanged
<1>7. CASE \E delivered, ok \in BOOLEAN : SendTransaction(delivered, ok)
  <2>1. UNCHANGED journalVars /\ (wire' = wire \/ wire' = wire \cup {op.tx})
    BY <1>7 DEF SendTransaction
  <2>2. op.tx \in OnDisk
    BY <1>1, <1>7 DEF SendTransaction, WalletInv, DurableInv, FilesCoverMemory
  <2>3. CASE wire' = wire
    BY <2>1, <2>3, JournalUnchanged
  <2>4. CASE wire' = wire \cup {op.tx}
    <3>1. WAB!Broadcast(op.tx)
      BY <2>1, <2>2, <2>4, JournalUnchanged DEF WAB!Broadcast
    <3> QED
      BY <2>2, <3>1 DEF WAB!WABNext
  <2> QED
    BY <2>1, <2>3, <2>4
<1>8. CASE Return \/ \E fresh \in BOOLEAN, w \in WriteOutcomes : BroadcastResult(fresh, w)
  <2>1. OnDisk' \subseteq OnDisk /\ wire' = wire
    BY <1>1, <1>8, UpdateDurable, JournalUnchanged DEF Return, BroadcastResult, chainVars
  <2> QED
    BY <1>3, <2>1
<1>9. CASE History
  <2>1. OnDisk' \subseteq OnDisk
    BY <1>1, <1>9, HistoryDurable
  <2>2. wire' = wire
    BY <1>9 DEF History, HistoryStart, HistoryObserve, HistorySkip, HistoryApply,
                HistoryArchive, chainVars
  <2> QED
    BY <1>3, <2>1, <2>2
<1>10. CASE Crash
  <2>1. OnDisk' = OnDisk /\ wire' = wire
    BY <1>1, <1>10, LoadDurable DEF Crash, chainVars
  <2> QED
    BY <2>1
<1> QED
  BY <1>4, <1>5, <1>6, <1>7, <1>8, <1>9, <1>10 DEF Next, Deliver

\* The wallet implements the write-ahead promise: a transaction enters the
\* files before the network sees it, files never lose a broadcast transaction,
\* and no write both adds a transaction and drops another.
THEOREM WriteAheadRefinement == Spec => WriteAhead
<1>1. Init => WAB!WABInit
  BY EmptyIsJournal DEF Init, JournalInit, WAB!WABInit, OnDisk
<1> QED
  BY <1>1, NextWriteAhead, SyncInvariant, WalletInvariant, PTL DEF Spec, WriteAhead, WAB!WABSpec

-----------------------------------------------------------------------------
(* What was signed.  The journal repeats what was signed, a payment and its   *)
(* replacements have one nonce, and the chain uses a nonce once.              *)

\* The records of a journal carry the nonce and the quote that were signed.
Matches(f) ==
    \A t \in DOMAIN f : f[t].nonce = signed[t].nonce /\ f[t].quote = signed[t].quote

MatchInv == Matches(records) /\ Matches(archived) /\ Matches(diskRecords) /\ Matches(diskArchive)

\* Quotes and signed transactions of one payment have one nonce.
RootsInv ==
    /\ \A q \in DOMAIN quotes : quotes[q].root <= issued
    /\ \A t \in Txs : signed[t].root <= issued
    /\ \A t, u \in Txs : signed[t].root = signed[u].root => signed[t].nonce = signed[u].nonce
    /\ \A q \in DOMAIN quotes, t \in Txs :
          quotes[q].root = signed[t].root => quotes[q].nonce = signed[t].nonce
    /\ \A q, p \in DOMAIN quotes :
          quotes[q].root = quotes[p].root => quotes[q].nonce = quotes[p].nonce

\* A block's transaction uses the nonce of its place.
CanonInv ==
    /\ finalNonce <= Len(canon)
    /\ \A i \in 1 .. Len(canon) :
          canon[i] # 0 => canon[i] \in Txs /\ signed[canon[i]].nonce + 1 = i

SignedInv == MatchInv /\ RootsInv /\ CanonInv

\* The steps that write journal files or load them.
JournalStep ==
    \/ \E w \in WriteOutcomes : SendPrepare(w)
    \/ \E fresh \in BOOLEAN, w \in WriteOutcomes : BroadcastResult(fresh, w)
    \/ \E fresh \in BOOLEAN, w \in WriteOutcomes : HistoryApply(fresh, w)
    \/ \E w1, w2 \in WriteOutcomes : HistoryArchive(w1, w2)
    \/ Crash

\* Every other step leaves the journal as it is.
LEMMA OtherSteps == [Next]_vars => JournalStep \/ UNCHANGED journalVars
BY DEF Next, vars, Chain, Mine, MineForeign, Finalize, Reorg, QuoteRequest, QuoteGuard, QuoteCreate,
       QuoteAbort, replacementQuote, ExpireQuote, Send, SendExisting, SendRefused, SendCheck,
       SendVerify, SendAbort, SendFull, Retry, RetryFind, RetryDecide, Deliver, SendTransaction,
       Return, History, HistoryStart, HistoryObserve, HistorySkip, JournalStep

\* Only SendPrepare signs.
LEMMA SignedSteps ==
    [Next]_vars => signed' = signed \/ \E w \in WriteOutcomes : SendPrepare(w)
BY DEF Next, vars, chainVars, Chain, Mine, MineForeign, Finalize, Reorg, QuoteRequest, QuoteGuard,
       QuoteCreate, QuoteAbort, replacementQuote, ExpireQuote, Send, SendExisting, SendRefused,
       SendCheck, SendVerify, SendAbort, SendFull, Retry, RetryFind, RetryDecide, Deliver,
       SendTransaction, BroadcastResult, Return, History, HistoryStart, HistoryObserve,
       HistorySkip, HistoryApply, HistoryArchive, Crash

\* Signing appends: what was signed before stays.
SignedGrows ==
    /\ Txs \subseteq Txs'
    /\ \A t \in Txs : signed'[t] = signed[t]

\* What SendPrepare adds to the signed transactions.
LEMMA PrepareSigned ==
    ASSUME WalletInv, NEW w, SendPrepare(w)
    PROVE  /\ SignedGrows
           /\ Txs' = Txs \cup {Len(signed) + 1}
           /\ signed'[Len(signed) + 1] = [nonce |-> quotes[op.quote].nonce, quote |-> op.quote,
                                          root |-> quotes[op.quote].root]
<1>1. signed \in Seq([nonce : Nat, quote : Nat, root : Nat])
  BY DEF WalletInv, TypeOK
<1> DEFINE e == [nonce |-> quotes[op.quote].nonce, quote |-> op.quote,
                 root |-> quotes[op.quote].root]
<1>2. signed' = Append(signed, e)
  BY DEF SendPrepare
<1> HIDE DEF e
<1>3. Len(signed') = Len(signed) + 1 /\ Len(signed) \in Nat
  BY <1>1, <1>2
<1>4. \A t \in 1 .. Len(signed) : signed'[t] = signed[t]
  BY <1>1, <1>2
<1>5. signed'[Len(signed) + 1] = e
  BY <1>1, <1>2
<1> QED
  BY <1>3, <1>4, <1>5 DEF SignedGrows, Txs, e

\* What was signed stays, in every step.
LEMMA NextSigned == WalletInv /\ [Next]_vars => SignedGrows
BY SignedSteps, PrepareSigned DEF SignedGrows, Txs

\* A record after an update: what it keeps and what it gets.
Updated(new, old, s, f) ==
    /\ new.nonce = old.nonce /\ new.quote = old.quote
    /\ new.state = s /\ new.finalized = f
    /\ new.version = old.version + 1

\* The fields of an updated record.
LEMMA UpdatedFields ==
    ASSUME NEW r \in JournalRecord, NEW s, NEW f
    PROVE  Updated([r EXCEPT !.state = s, !.finalized = f, !.version = @ + 1], r, s, f)
<1> DEFINE v == r.version + 1
           new == [r EXCEPT !.state = s, !.finalized = f, !.version = v]
<1> HIDE DEF v
<1>1. new.nonce = r.nonce /\ new.quote = r.quote /\ new.state = s /\ new.finalized = f
      /\ new.version = v
  BY Zenon DEF JournalRecord
<1> QED
  BY <1>1 DEF Updated, v

\* The journal `next` is `records` with one record updated.
UpdateOf(next, t, s, f) ==
    /\ DOMAIN next = DOMAIN records /\ t \in DOMAIN records
    /\ Updated(next[t], records[t], s, f)
    /\ \A u \in DOMAIN records : u # t => next[u] = records[u]

\* UpdateStateAtomicIfVersion saves such a journal, or changes nothing.
LEMMA UpdateShape ==
    ASSUME JournalTypeOK, NEW t, NEW v, NEW s, NEW f, NEW fresh, NEW w,
           UpdateStateAtomicIfVersion(t, v, s, f, fresh, w)
    PROVE  \/ UNCHANGED journalVars
           \/ \E next : /\ UpdateOf(next, t, s, f) /\ records[t].version = v
                        /\ Save(next, w) /\ UNCHANGED <<archived, diskArchive>>
<1>1. CASE Applies(t, v, s, f, fresh)
  <2> DEFINE r == [records[t] EXCEPT !.state = s, !.finalized = f, !.version = @ + 1]
             next == With(records, t, r)
  <2>1. t \in DOMAIN records /\ records[t] \in JournalRecord /\ records[t].version = v
    BY <1>1 DEF Applies, JournalTypeOK, IsJournal
  <2>2. Updated(r, records[t], s, f)
    BY <2>1, UpdatedFields
  <2>3. Save(next, w) /\ UNCHANGED <<archived, diskArchive>>
    BY <1>1 DEF UpdateStateAtomicIfVersion
  <2> HIDE DEF r
  <2>4. UpdateOf(next, t, s, f)
    BY <2>1, <2>2 DEF UpdateOf, With
  <2> QED
    BY <2>1, <2>3, <2>4
<1>2. CASE ~Applies(t, v, s, f, fresh)
  BY <1>2 DEF UpdateStateAtomicIfVersion, journalVars
<1> QED
  BY <1>1, <1>2

\* What the copies of an archived batch are, compared with the records.
CopyOf(new, old) ==
    /\ new.nonce = old.nonce /\ new.quote = old.quote /\ new.finalized
    /\ old.finalized => new = old
    /\ ~old.finalized => new.state = "replaced"

\* ArchiveCopy makes such a copy.
LEMMA ArchiveCopyFields ==
    ASSUME NEW r \in JournalRecord
    PROVE  CopyOf(ArchiveCopy(r), r)
BY DEF ArchiveCopy, CopyOf, JournalRecord

\* The journals an archival reads and writes.
ArchiveOf(batch, keep) ==
    /\ DOMAIN batch = Archivable /\ DOMAIN keep = DOMAIN records \ Archivable
    /\ \A t \in Archivable : CopyOf(batch[t], records[t])
    /\ \A t \in DOMAIN keep : keep[t] = records[t]

\* The four outcomes of ArchiveFinalized.
ArchiveOutcome(batch, keep) ==
    \/ UNCHANGED journalVars
    \/ diskArchive' = Merge(diskArchive, batch) /\ UNCHANGED <<records, archived, diskRecords>>
    \/ /\ diskArchive' = Merge(diskArchive, batch) /\ archived' = Merge(archived, batch)
       /\ records' = keep /\ diskRecords' = keep
    \/ /\ diskArchive' = Merge(diskArchive, batch)
       /\ diskRecords' = keep /\ UNCHANGED <<records, archived>>

\* ArchiveFinalized has one of them.
LEMMA ArchiveShape ==
    ASSUME JournalTypeOK, NEW w1, NEW w2, ArchiveFinalized(w1, w2)
    PROVE  \E batch, keep : ArchiveOf(batch, keep) /\ ArchiveOutcome(batch, keep)
<1> DEFINE batch == [t \in Archivable |-> ArchiveCopy(records[t])]
           keep  == [t \in DOMAIN records \ Archivable |-> records[t]]
<1>1. \A t \in Archivable : t \in DOMAIN records /\ records[t] \in JournalRecord
  BY DEF Archivable, JournalTypeOK, IsJournal
<1>2. ArchiveOf(batch, keep)
  BY <1>1, ArchiveCopyFields DEF ArchiveOf
<1>3. ArchiveOutcome(batch, keep)
  BY DEF ArchiveFinalized, Save, ArchiveOutcome, journalVars
<1> QED
  BY <1>2, <1>3

\* SendPrepare saves the journal with one new record.
AppendOf(next, t) ==
    /\ DOMAIN next = DOMAIN records \cup {t}
    /\ next[t] = NewRecord(quotes[op.quote].nonce, op.quote)
    /\ \A u \in DOMAIN records : u # t => next[u] = records[u]

\* The journal SendPrepare saves.
LEMMA PrepareShape ==
    ASSUME NEW w, SendPrepare(w)
    PROVE  \E next : /\ AppendOf(next, Len(signed) + 1)
                     /\ Save(next, w) /\ UNCHANGED <<archived, diskArchive>>
<1> DEFINE next == With(records, Len(signed) + 1, NewRecord(quotes[op.quote].nonce, op.quote))
<1>1. Save(next, w) /\ UNCHANGED <<archived, diskArchive>>
  BY DEF SendPrepare, AppendAtomic
<1>2. AppendOf(next, Len(signed) + 1)
  BY DEF AppendOf, With
<1> QED
  BY <1>1, <1>2

\* Every journal operation keeps the nonce and the quote of a record.
LEMMA NextMatch == WalletInv /\ MatchInv /\ [Next]_vars => MatchInv'
<1> SUFFICES ASSUME WalletInv, MatchInv, [Next]_vars PROVE MatchInv'
  OBVIOUS
<1>1. JournalTypeOK /\ SignedGrows
  BY NextSigned, TypeParts DEF WalletInv
<1>2. /\ DOMAIN records \subseteq Txs /\ DOMAIN archived \subseteq Txs
      /\ DOMAIN diskRecords \subseteq Txs /\ DOMAIN diskArchive \subseteq Txs
  BY DEF WalletInv, DurableInv, FilesCoverMemory, Known, OnDisk
<1>3. /\ Matches(records) /\ Matches(archived) /\ Matches(diskRecords) /\ Matches(diskArchive)
  BY DEF MatchInv
<1> USE <1>1, <1>2, <1>3 DEF Matches, MatchInv, SignedGrows
<1>4. CASE UNCHANGED journalVars
  BY <1>4 DEF journalVars
<1>5. ASSUME NEW t, NEW v, NEW s, NEW f, NEW fresh, NEW w,
             UpdateStateAtomicIfVersion(t, v, s, f, fresh, w)
      PROVE  MatchInv'
  <2>1. CASE UNCHANGED journalVars
    BY <1>4, <2>1
  <2>2. CASE ~UNCHANGED journalVars
    <3>1. PICK next : /\ UpdateOf(next, t, s, f)
                      /\ Save(next, w) /\ UNCHANGED <<archived, diskArchive>>
      BY <1>5, <2>2, UpdateShape
    <3>2. \A u \in DOMAIN next : /\ u \in Txs
                                 /\ next[u].nonce = signed[u].nonce
                                 /\ next[u].quote = signed[u].quote
      BY <3>1 DEF UpdateOf, Updated
    <3> QED
      BY <3>1, <3>2 DEF Save
  <2> QED
    BY <2>1, <2>2
<1>6. CASE \E w \in WriteOutcomes : SendPrepare(w)
  <2>1. PICK w \in WriteOutcomes : SendPrepare(w)
    BY <1>6
  <2>2. PICK next : /\ AppendOf(next, Len(signed) + 1)
                    /\ Save(next, w) /\ UNCHANGED <<archived, diskArchive>>
    BY <2>1, PrepareShape
  <2>3. \A u \in DOMAIN next : /\ next[u].nonce = signed'[u].nonce
                               /\ next[u].quote = signed'[u].quote
    BY <2>1, <2>2, PrepareSigned DEF AppendOf, NewRecord
  <2> QED
    BY <2>2, <2>3 DEF Save
<1>7. CASE \E fresh \in BOOLEAN, w \in WriteOutcomes : BroadcastResult(fresh, w)
  BY <1>5, <1>7 DEF BroadcastResult
<1>8. CASE \E fresh \in BOOLEAN, w \in WriteOutcomes : HistoryApply(fresh, w)
  BY <1>4, <1>5, <1>8 DEF HistoryApply
<1>9. CASE \E w1, w2 \in WriteOutcomes : HistoryArchive(w1, w2)
  <2>1. PICK batch, keep : ArchiveOf(batch, keep) /\ ArchiveOutcome(batch, keep)
    BY <1>9, ArchiveShape DEF HistoryArchive
  <2>2. /\ \A u \in DOMAIN keep : u \in Txs /\ keep[u].nonce = signed[u].nonce
                                  /\ keep[u].quote = signed[u].quote
        /\ \A u \in DOMAIN batch : u \in Txs /\ batch[u].nonce = signed[u].nonce
                                   /\ batch[u].quote = signed[u].quote
    BY ZenonT(60), <2>1 DEF ArchiveOf, CopyOf, Archivable
  <2>3. /\ \A u \in DOMAIN Merge(archived, batch) :
              Merge(archived, batch)[u].nonce = signed'[u].nonce
              /\ Merge(archived, batch)[u].quote = signed'[u].quote
        /\ \A u \in DOMAIN Merge(diskArchive, batch) :
              Merge(diskArchive, batch)[u].nonce = signed'[u].nonce
              /\ Merge(diskArchive, batch)[u].quote = signed'[u].quote
    BY <2>2 DEF Merge
  <2>4. /\ Matches(records)' /\ Matches(diskRecords)'
    BY <2>1, <2>2 DEF ArchiveOutcome, journalVars
  <2>5. Matches(archived)' /\ Matches(diskArchive)'
    BY <2>1, <2>3 DEF ArchiveOutcome, journalVars
  <2> QED
    BY <2>4, <2>5
<1>10. CASE Crash
  BY <1>10 DEF Crash, Load
<1> QED
  BY <1>4, <1>6, <1>7, <1>8, <1>9, <1>10, OtherSteps DEF JournalStep

\* Only the chain's own steps change the chain.
LEMMA ChainSteps == [Next]_vars => Chain \/ UNCHANGED <<canon, finalNonce>>
BY DEF Next, vars, chainVars, QuoteRequest, QuoteGuard, QuoteCreate, QuoteAbort,
       replacementQuote, ExpireQuote, Send, SendExisting, SendRefused, SendCheck, SendVerify,
       SendAbort, SendPrepare, SendFull, Retry, RetryFind, RetryDecide, Deliver, SendTransaction,
       BroadcastResult, Return, History, HistoryStart, HistoryObserve, HistorySkip,
       HistoryApply, HistoryArchive, Crash

\* Every step of the chain and of the wallet keeps the order of the chain.
LEMMA NextCanon == WalletInv /\ CanonInv /\ [Next]_vars => CanonInv'
<1> SUFFICES ASSUME WalletInv, CanonInv, [Next]_vars PROVE CanonInv'
  OBVIOUS
<1>1. ChainType /\ SignedGrows
  BY NextSigned, TypeParts DEF WalletInv
<1>2. canon \in Seq(Nat) /\ finalNonce \in Nat /\ Len(canon) \in Nat
  BY <1>1 DEF ChainType
<1> USE <1>1, <1>2
<1>3. CASE UNCHANGED <<canon, finalNonce>>
  BY <1>3 DEF CanonInv, SignedGrows
<1>4. CASE \E t \in wire : Mine(t)
  <2>1. PICK t \in wire : Mine(t)
    BY <1>4
  <2>2. t \in Txs /\ t \in Nat /\ signed'[t] = signed[t]
    BY DEF ChainType, SignedGrows, Txs
  <2>3. canon' = Append(canon, t) /\ finalNonce' = finalNonce /\ signed[t].nonce = Len(canon)
    BY <2>1 DEF Mine, Latest
  <2>4. /\ Len(canon') = Len(canon) + 1 /\ canon'[Len(canon) + 1] = t
        /\ \A i \in 1 .. Len(canon) : canon'[i] = canon[i]
    BY <2>2, <2>3
  <2> QED
    BY SMTT(30), <2>2, <2>3, <2>4 DEF CanonInv, SignedGrows
<1>5. CASE MineForeign
  <2>1. /\ Len(canon') = Len(canon) + 1 /\ canon'[Len(canon) + 1] = 0 /\ finalNonce' = finalNonce
        /\ \A i \in 1 .. Len(canon) : canon'[i] = canon[i]
    BY <1>5 DEF MineForeign
  <2> QED
    BY <2>1 DEF CanonInv, SignedGrows
<1>6. CASE Finalize
  BY <1>6 DEF Finalize, CanonInv, SignedGrows, Latest
<1>7. CASE \E keep \in 0 .. Latest - 1 : Reorg(keep)
  <2>1. PICK keep \in 0 .. Latest - 1 : Reorg(keep)
    BY <1>7
  <2>2. /\ Len(canon') = keep /\ finalNonce' = finalNonce /\ finalNonce <= keep /\ keep < Len(canon)
        /\ \A i \in 1 .. keep : canon'[i] = canon[i]
    BY <2>1 DEF Reorg, Latest
  <2> QED
    BY <2>2 DEF CanonInv, SignedGrows
<1>8. Chain \/ UNCHANGED <<canon, finalNonce>>
  BY ChainSteps
<1> QED
  BY <1>3, <1>4, <1>5, <1>6, <1>7, <1>8 DEF Chain

\* Every step keeps one nonce per payment.
LEMMA NextRoots == WalletInv /\ MatchInv /\ RootsInv /\ [Next]_vars => RootsInv'
<1> SUFFICES ASSUME WalletInv, MatchInv, RootsInv, [Next]_vars PROVE RootsInv'
  OBVIOUS
<1>1. ChainType /\ QuotesType /\ issued \in Nat /\ JournalTypeOK
  BY TypeParts DEF WalletInv
<1>2. \A t \in Txs : signed[t].root \in Nat /\ signed[t].nonce \in Nat
  BY <1>1, SignedRecord
<1>3. \A q \in DOMAIN quotes : quotes[q].root \in Nat /\ quotes[q].nonce \in Nat
  BY <1>1 DEF QuotesType, Quote
<1> USE <1>1, <1>2, <1>3
<1>4. CASE /\ signed' = signed /\ issued' = issued
           /\ DOMAIN quotes' \subseteq DOMAIN quotes
           /\ \A q \in DOMAIN quotes' : quotes'[q] = quotes[q]
  BY <1>4 DEF RootsInv, Txs
<1>5. ASSUME NEW r, AddQuote(r), signed' = signed, r.root \in Nat, r.root <= issued + 1,
             \A t \in Txs : r.root = signed[t].root => r.nonce = signed[t].nonce,
             \A q \in DOMAIN quotes : r.root = quotes[q].root => r.nonce = quotes[q].nonce
      PROVE  RootsInv'
  <2>1. /\ DOMAIN quotes' = DOMAIN quotes \cup {issued + 1} /\ quotes'[issued + 1] = r
        /\ \A q \in DOMAIN quotes : q # issued + 1 => quotes'[q] = quotes[q]
        /\ issued' = issued + 1
    BY <1>5 DEF AddQuote, With
  <2> QED
    BY <1>5, <2>1 DEF RootsInv, Txs
<1>6. CASE \E n \in PendingNonceAt : QuoteCreate(n)
  <2>1. PICK n \in PendingNonceAt : QuoteCreate(n)
    BY <1>6
  <2> DEFINE r == [nonce |-> n, of |-> 0, count |-> 0, root |-> issued + 1]
  <2>2. AddQuote(r) /\ signed' = signed /\ r.root = issued + 1
    BY <2>1 DEF QuoteCreate, chainVars
  <2> HIDE DEF r
  <2> QED
    BY <1>5, <2>2 DEF RootsInv
<1>7. CASE \E t \in Known : replacementQuote(t)
  <2>1. PICK t \in Known : replacementQuote(t)
    BY <1>7
  <2> DEFINE r == [nonce |-> Rec(t).nonce, of |-> t,
                   count |-> Cardinality(NonceRecords(Rec(t).nonce)), root |-> signed[t].root]
  <2>2. AddQuote(r) /\ signed' = signed /\ r.root = signed[t].root /\ r.nonce = Rec(t).nonce
    BY <2>1 DEF replacementQuote, chainVars
  <2> HIDE DEF r
  <2>3. t \in Txs /\ Rec(t).nonce = signed[t].nonce
    BY DEF Known, Rec, MatchInv, Matches, WalletInv, DurableInv, FilesCoverMemory
  <2> QED
    BY <1>5, <2>2, <2>3 DEF RootsInv
<1>8. CASE \E w \in WriteOutcomes : SendPrepare(w)
  <2>1. PICK w \in WriteOutcomes : SendPrepare(w)
    BY <1>8
  <2>2. quotes' = quotes /\ issued' = issued /\ op.quote \in DOMAIN quotes
    BY <2>1 DEF SendPrepare, WalletInv, DurableInv
  <2> DEFINE new == Len(signed) + 1
  <2>3. /\ Txs' = Txs \cup {new} /\ \A t \in Txs : signed'[t] = signed[t]
        /\ signed'[new].root = quotes[op.quote].root
        /\ signed'[new].nonce = quotes[op.quote].nonce
    BY <2>1, PrepareSigned DEF SignedGrows
  <2> HIDE DEF new
  <2> QED
    BY <2>2, <2>3 DEF RootsInv
<1>9. CASE ~ \/ \E n \in PendingNonceAt : QuoteCreate(n)
             \/ \E t \in Known : replacementQuote(t)
             \/ \E w \in WriteOutcomes : SendPrepare(w)
  <2>1. /\ signed' = signed /\ issued' = issued
        /\ quotes' = quotes \/ quotes' = EmptyJournal \/ \E q : quotes' = Without(quotes, q)
    BY <1>9 DEF Next, vars, serviceVars, chainVars, Chain, Mine, MineForeign, Finalize, Reorg,
       QuoteRequest, QuoteGuard, QuoteAbort, ExpireQuote, Send, SendExisting, SendRefused,
       SendCheck, SendVerify, SendAbort, SendFull, Retry, RetryFind, RetryDecide, Deliver,
       SendTransaction, BroadcastResult, Return, History, HistoryStart, HistoryObserve,
       HistorySkip, HistoryApply, HistoryArchive, Crash
  <2> QED
    BY <1>4, <2>1 DEF Without, EmptyJournal
<1> QED
  BY <1>6, <1>7, <1>8, <1>9

\* The initial state: nothing is signed, quoted or mined.
LEMMA InitSigned == Init => SignedInv
BY EmptyIsJournal DEF Init, JournalInit, SignedInv, MatchInv, Matches, RootsInv, CanonInv, Txs

\* The journal, the quotes and the chain agree about what was signed.
THEOREM SignedInvariant == Spec => []SignedInv
<1>1. WalletInv /\ SignedInv /\ [Next]_vars => SignedInv'
  BY NextMatch, NextCanon, NextRoots DEF SignedInv
<1> QED
  BY <1>1, InitSigned, WalletInvariant, PTL DEF Spec

\* A payment and all its speed-ups and cancellations (replacementQuote) have one
\* nonce, so the canonical chain never holds two of them: for any number of
\* replacements, crashes, reorganizations and foreign transactions.
THEOREM PaidOnceAlways == Spec => []PaidOnce
<1>1. WalletInv /\ SignedInv => PaidOnce
  <2> SUFFICES ASSUME WalletInv, SignedInv,
                      NEW i \in DOMAIN canon, NEW j \in DOMAIN canon,
                      canon[i] # 0, canon[j] # 0, signed[canon[i]].root = signed[canon[j]].root
               PROVE  i = j
    BY DEF PaidOnce
  <2>1. ChainType /\ DOMAIN canon = 1 .. Len(canon)
    BY TypeParts DEF WalletInv, ChainType
  <2>2. /\ canon[i] \in Txs /\ signed[canon[i]].nonce + 1 = i
        /\ canon[j] \in Txs /\ signed[canon[j]].nonce + 1 = j
    BY <2>1 DEF SignedInv, CanonInv
  <2>3. signed[canon[i]].nonce = signed[canon[j]].nonce
    BY <2>2 DEF SignedInv, RootsInv
  <2> QED
    BY <2>2, <2>3
<1> QED
  BY <1>1, SignedInvariant, WalletInvariant, PTL

-----------------------------------------------------------------------------
(* Rejected sends.  A Send past its first check has found no record of its    *)
(* quote; without a storage fault memory knows what the files hold (SyncInv), *)
(* and nobody else signs for that quote while sendMu is held.                 *)

QuoteInv ==
    op.pc \in {"checked", "ready", "rejected"} =>
        \A t \in OnDisk : signed[t].quote # op.quote

\* Every step preserves it.
LEMMA NextQuote ==
    WalletInv /\ SignedInv /\ SyncInv /\ QuoteInv /\ [Next]_vars => QuoteInv'
<1> SUFFICES ASSUME WalletInv, SignedInv, SyncInv, QuoteInv, [Next]_vars PROVE QuoteInv'
  OBVIOUS
<1>1. JournalTypeOK /\ FilesCoverMemory /\ op \in OpType /\ SignedGrows /\ OnDisk \subseteq Txs
  BY TypeParts, NextSigned DEF WalletInv, DurableInv
<1>2. Idle.pc = "idle"
  BY DEF Idle
<1>3. ASSUME OnDisk' \subseteq OnDisk,
             \/ op'.pc \notin {"checked", "ready", "rejected"}
             \/ op.pc \in {"checked", "ready", "rejected"} /\ op'.quote = op.quote
      PROVE  QuoteInv'
  BY <1>1, <1>3 DEF QuoteInv, SignedGrows
<1>4. CASE UNCHANGED vars \/ Chain
  <2>1. UNCHANGED <<journalVars, serviceVars>>
    BY <1>4 DEF vars, Chain, Mine, MineForeign, Finalize, Reorg
  <2> QED
    BY <1>3, <2>1, JournalUnchanged DEF serviceVars
<1>5. CASE QuoteRequest
  <2>1. UNCHANGED journalVars
    BY <1>5 DEF QuoteRequest, QuoteGuard, QuoteCreate, QuoteAbort, replacementQuote, ExpireQuote
  <2>2. \A e : [Idle EXCEPT !.pc = "quoting", !.evidence = e].pc = "quoting"
    BY DEF Idle
  <2>3. op'.pc \in {"idle", "quoting"}
    BY <1>2, <1>5, <2>2 DEF QuoteRequest, QuoteGuard, QuoteCreate, QuoteAbort, replacementQuote,
                            ExpireQuote
  <2> QED
    BY <1>3, <2>1, <2>3, JournalUnchanged
<1>6. CASE \E q \in 1 .. issued : SendRefused(q)
  <2>1. PICK q \in 1 .. issued : SendRefused(q)
    BY <1>6
  <2>2. UNCHANGED journalVars /\ signed' = signed /\ FindByQuoteID(q) = {} /\ OnDisk \subseteq Known
    BY <2>1 DEF SendRefused, SyncInv, chainVars
  <2>3. op'.quote = q
    BY <2>1 DEF SendRefused, Idle
  <2>4. \A t \in OnDisk : signed[t].quote # q
    BY <2>2 DEF FindByQuoteID, Rec, Known, SignedInv, MatchInv, Matches
  <2> QED
    BY <2>2, <2>3, <2>4, JournalUnchanged DEF QuoteInv
<1>7. CASE \E q \in DOMAIN quotes, e \in FinalizedNonceAt : SendCheck(q, e)
  <2>1. PICK q \in DOMAIN quotes, e \in FinalizedNonceAt : SendCheck(q, e)
    BY <1>7
  <2>2. UNCHANGED journalVars /\ signed' = signed /\ FindByQuoteID(q) = {} /\ OnDisk \subseteq Known
    BY <2>1 DEF SendCheck, SyncInv, chainVars
  <2>3. op'.quote = q
    BY <2>1 DEF SendCheck, Idle
  <2>4. \A t \in OnDisk : signed[t].quote # q
    BY <2>2 DEF FindByQuoteID, Rec, Known, SignedInv, MatchInv, Matches
  <2> QED
    BY <2>2, <2>3, <2>4, JournalUnchanged DEF QuoteInv
<1>8. CASE \E w \in WriteOutcomes : SendPrepare(w)
  <2>1. PICK w \in WriteOutcomes : SendPrepare(w)
    BY <1>8
  <2>2. op'.pc \in {"idle", "dispatch"}
    BY <1>1, <1>2, <2>1 DEF SendPrepare, OpType
  <2> QED
    BY <2>2 DEF QuoteInv
<1>9. CASE SendVerify \/ SendAbort \/ SendFull \/ \E q \in 1 .. issued : SendExisting(q)
  <2>1. UNCHANGED journalVars
    BY <1>9 DEF SendExisting, SendVerify, SendAbort, SendFull
  <2>2. \/ op'.pc \notin {"checked", "ready", "rejected"}
        \/ op.pc \in {"checked", "ready", "rejected"} /\ op'.quote = op.quote
    BY <1>1, <1>2, <1>9 DEF SendExisting, SendVerify, SendAbort, SendFull, OpType, Idle
  <2> QED
    BY <1>3, <2>1, <2>2, JournalUnchanged
<1>10. CASE Retry
  <2>1. UNCHANGED journalVars
    BY <1>10 DEF Retry, RetryFind, RetryDecide
  <2>2. op'.pc \notin {"checked", "ready", "rejected"}
    BY <1>1, <1>10 DEF Retry, RetryFind, RetryDecide, OpType, Idle
  <2> QED
    BY <1>3, <2>1, <2>2, JournalUnchanged
<1>11. CASE Deliver
  <2>1. op'.pc \in {"idle", "result"}
    BY <1>1, <1>2, <1>11 DEF Deliver, SendTransaction, BroadcastResult, Return, OpType
  <2> QED
    BY <2>1 DEF QuoteInv
<1>12. CASE History
  <2>1. OnDisk' \subseteq OnDisk
    BY <1>1, <1>12, HistoryDurable
  <2>2. op' = op
    BY <1>12 DEF History, HistoryStart, HistoryObserve, HistorySkip, HistoryApply, HistoryArchive
  <2> QED
    BY <1>3, <2>1, <2>2
<1>13. CASE Crash
  BY <1>2, <1>13 DEF Crash, QuoteInv
<1> QED
  BY <1>4, <1>5, <1>6, <1>7, <1>8, <1>9, <1>10, <1>11, <1>12, <1>13 DEF Next, Send

\* After SendRejectedError the quote has no durable transaction and was never
\* broadcast, so a caller may abandon it: also when an earlier Send of the same
\* quote failed half-way, and after crashes.
THEOREM RejectionIsSafe == Spec => []RejectedIsAbandonable
<1>1. Init => QuoteInv
  BY DEF Init, Idle, QuoteInv
<1>2. Spec => []QuoteInv
  BY <1>1, NextQuote, WalletInvariant, SignedInvariant, SyncInvariant, PTL DEF Spec
<1>3. WalletInv /\ QuoteInv => RejectedIsAbandonable
  BY DEF WalletInv, DurableInv, FilesCoverMemory, QuoteInv, RejectedIsAbandonable
<1> QED
  BY <1>2, <1>3, WalletInvariant, PTL

-----------------------------------------------------------------------------
(* Final verdicts.  A final verdict, in memory or in the files, is what the   *)
(* finalized part of the chain says, and whoever holds a version of a record  *)
(* (a send, a retry, the refresh) holds one from before its verdict, so that  *)
(* UpdateStateAtomicIfVersion refuses what would take the verdict back.       *)

\* What is archived in memory is neither active nor in the active file.
SplitInv == \A t \in DOMAIN archived : t \notin DOMAIN records /\ t \notin DOMAIN diskRecords

\* r is a record of t whose verdict, if final, is the one of the finalized chain.
Verdict(t, r) ==
    r.finalized => /\ signed[t].nonce < finalNonce
                   /\ r.state \in {"mined", "replaced"}
                   /\ r.state = "mined" <=> canon[signed[t].nonce + 1] = t

Verdicts(f) == \A t \in DOMAIN f : Verdict(t, f[t])

\* An active record becomes final as the winner of its nonce only.
Active(f) == \A t \in DOMAIN f : f[t].finalized => f[t].state = "mined"

\* Everything in an archive is final.
Archive(f) == \A t \in DOMAIN f : f[t].finalized

VerdictInv ==
    /\ Verdicts(records) /\ Verdicts(archived) /\ Verdicts(diskRecords) /\ Verdicts(diskArchive)
    /\ Active(records) /\ Active(diskRecords)
    /\ Archive(archived) /\ Archive(diskArchive)

\* A final verdict in memory is in the files.
KeptInv ==
    \A t \in DOMAIN records : t \in DOMAIN diskRecords /\ records[t].finalized
                                  => diskRecords[t].finalized

\* The journal in memory shows u as the final winner.
Won(u) == u \in Known /\ Rec(u).finalized /\ IsMined(Rec(u))

\* The nonce of every archived record has its winner in memory.
WinnerInv ==
    \A t \in DOMAIN diskArchive : \E u \in Txs : Won(u) /\ signed[u].nonce = signed[t].nonce

JournalInv == SplitInv /\ VerdictInv /\ KeptInv /\ WinnerInv

\* The version of the record of t is from before its verdict.
Before(t, version) ==
    t \in DOMAIN records => /\ version <= records[t].version
                            /\ version = records[t].version => ~records[t].finalized

OpVersionInv ==
    /\ (op.pc = "retry" /\ op.tx \in DOMAIN records) => op.version <= records[op.tx].version
    /\ op.pc \in {"dispatch", "result"} => Before(op.tx, op.version)

HistVersionInv ==
    /\ \A t \in DOMAIN hist.items : t \in Known /\ Before(t, hist.items[t])
    /\ hist.pc = "observed" => hist.tx \in Known /\ Before(hist.tx, hist.version)

\* A final answer stays true while it waits to be applied.
SeenInv ==
    (hist.pc = "observed" /\ hist.seen.finalized) =>
        /\ hist.seen.state = "mined"
        /\ signed[hist.tx].nonce < finalNonce
        /\ canon[signed[hist.tx].nonce + 1] = hist.tx

VerdictsInv == JournalInv /\ OpVersionInv /\ HistVersionInv /\ SeenInv

\* What a step does to final verdicts: it keeps them.
StableStep ==
    \A t \in Known : Rec(t).finalized => /\ t \in Known'
                                         /\ Rec(t)'.finalized
                                         /\ Rec(t)'.state = Rec(t).state

\* What a step, other than a restart, does to the active records it knows.
VersionStep ==
    \A t \in Known : t \in DOMAIN records' =>
        /\ t \in DOMAIN records
        /\ records'[t] = records[t] \/ records'[t].version = records[t].version + 1

\* The finalized part of the chain does not change.
FinalChain ==
    /\ finalNonce' \in Nat /\ finalNonce <= finalNonce'
    /\ \A n \in Nat : n < finalNonce => canon'[n + 1] = canon[n + 1]

\* No step changes the finalized part of the chain.
LEMMA NextFinalChain == WalletInv /\ CanonInv /\ [Next]_vars => FinalChain
<1> SUFFICES ASSUME WalletInv, CanonInv, [Next]_vars PROVE FinalChain
  OBVIOUS
<1>1. canon \in Seq(Nat) /\ finalNonce \in Nat /\ Len(canon) \in Nat /\ wire \subseteq Nat
      /\ finalNonce <= Len(canon)
  BY TypeParts DEF WalletInv, ChainType, Txs, CanonInv
<1>2. CASE UNCHANGED <<canon, finalNonce>>
  BY <1>1, <1>2 DEF FinalChain
<1>3. CASE Chain
  <2>1. ASSUME NEW t \in Nat, canon' = Append(canon, t), finalNonce' = finalNonce
        PROVE  FinalChain
    <3>1. \A i \in 1 .. Len(canon) : canon'[i] = canon[i]
      BY <1>1, <2>1
    <3> QED
      BY <1>1, <2>1, <3>1 DEF FinalChain
  <2>2. ASSUME NEW keep \in 0 .. Latest - 1, Reorg(keep)
        PROVE  FinalChain
    <3>1. \A i \in 1 .. keep : canon'[i] = canon[i]
      BY <1>1, <2>2 DEF Reorg, Latest
    <3> QED
      BY <1>1, <2>2, <3>1 DEF FinalChain, Reorg
  <2> QED
    BY SMTT(30), <1>1, <1>3, <2>1, <2>2 DEF Chain, Mine, MineForeign, Finalize, FinalChain
<1>4. Chain \/ UNCHANGED <<canon, finalNonce>>
  BY ChainSteps
<1> QED
  BY <1>2, <1>3, <1>4

\* A right verdict stays right.
LEMMA VerdictStays ==
    ASSUME WalletInv, SignedGrows, FinalChain, NEW t \in Txs, NEW r, Verdict(t, r)
    PROVE  r.finalized => /\ signed'[t].nonce < finalNonce'
                          /\ r.state \in {"mined", "replaced"}
                          /\ r.state = "mined" <=> canon'[signed'[t].nonce + 1] = t
<1>1. signed'[t] = signed[t] /\ signed[t].nonce \in Nat
  BY TypeParts, SignedRecord DEF WalletInv, SignedGrows
<1>2. finalNonce \in Nat /\ finalNonce' \in Nat /\ finalNonce <= finalNonce'
      /\ \A n \in Nat : n < finalNonce => canon'[n + 1] = canon[n + 1]
  BY TypeParts DEF WalletInv, ChainType, FinalChain
<1>3. ASSUME r.finalized
      PROVE  canon'[signed[t].nonce + 1] = canon[signed[t].nonce + 1]
  BY <1>1, <1>2, <1>3 DEF Verdict
<1> QED
  BY <1>1, <1>2, <1>3 DEF Verdict

\* What a journal operation needs, and what it gives.
JournalFacts ==
    /\ JournalTypeOK /\ FilesCoverMemory /\ FilesCoverMemory' /\ SignedGrows /\ FinalChain
    /\ OnDisk \subseteq Txs

JournalResult == JournalInv' /\ StableStep

\* The winners of archived nonces stay winners.
LEMMA WinnersStay ==
    ASSUME JournalFacts, WinnerInv, StableStep, NEW t \in DOMAIN diskArchive
    PROVE  \E u \in Txs' : Won(u)' /\ signed'[u].nonce = signed'[t].nonce
<1>1. PICK u \in Txs : Won(u) /\ signed[u].nonce = signed[t].nonce
  BY DEF WinnerInv
<1>2. Won(u)'
  BY <1>1 DEF Won, StableStep, IsMined
<1>3. t \in Txs
  BY DEF JournalFacts, OnDisk
<1> QED
  BY <1>1, <1>2, <1>3 DEF JournalFacts, SignedGrows

\* Journals the chain was right about stay right (VerdictStays, for every record).
VerdictsStay ==
    \A t \in Txs : \A r : Verdict(t, r) =>
        (r.finalized => /\ signed'[t].nonce < finalNonce'
                        /\ r.state \in {"mined", "replaced"}
                        /\ r.state = "mined" <=> canon'[signed'[t].nonce + 1] = t)

\* The journal `next` only changes records that are not final.
KeepsFinal(next) ==
    /\ DOMAIN records \subseteq DOMAIN next
    /\ \A t \in DOMAIN next : t \notin DOMAIN archived
    /\ \A t \in DOMAIN records : records[t].finalized => next[t] = records[t]
    /\ \A t \in DOMAIN next : t \in DOMAIN records \/ ~next[t].finalized

\* Saving such a journal keeps the verdicts, whatever becomes of the write.
LEMMA SaveVerdicts ==
    ASSUME JournalFacts, JournalInv, VerdictsStay, NEW next, KeepsFinal(next),
           \A t \in DOMAIN next : t \in DOMAIN records => Verdict(t, next[t]),
           \A t \in DOMAIN next : next[t].finalized => next[t].state = "mined",
           NEW w, Save(next, w), UNCHANGED <<archived, diskArchive>>
    PROVE  JournalResult
<1>1. /\ DOMAIN records \subseteq Txs /\ DOMAIN archived \subseteq Txs
      /\ DOMAIN diskRecords \subseteq Txs /\ DOMAIN diskArchive \subseteq Txs
  BY DEF JournalFacts, FilesCoverMemory, Known, OnDisk
<1>2. /\ records' = records \/ (records' = next /\ diskRecords' = next)
      /\ diskRecords' = diskRecords \/ diskRecords' = next
      /\ archived' = archived /\ diskArchive' = diskArchive
  BY DEF Save
<1>3. SplitInv'
  BY <1>2 DEF JournalInv, SplitInv, KeepsFinal
<1>4. \A t \in DOMAIN next :
          next[t].finalized => /\ signed'[t].nonce < finalNonce'
                               /\ next[t].state \in {"mined", "replaced"}
                               /\ next[t].state = "mined" <=> canon'[signed'[t].nonce + 1] = t
  BY <1>1 DEF KeepsFinal, VerdictsStay
<1>5. VerdictInv'
  <2>1. Verdicts(records)' /\ Verdicts(diskRecords)'
    BY <1>1, <1>2, <1>4 DEF JournalInv, VerdictInv, Verdicts, VerdictsStay, Verdict
  <2>2. Verdicts(archived)' /\ Verdicts(diskArchive)'
    BY <1>1, <1>2 DEF JournalInv, VerdictInv, Verdicts, VerdictsStay, Verdict
  <2>3. Active(records)' /\ Active(diskRecords)' /\ Archive(archived)' /\ Archive(diskArchive)'
    BY <1>2 DEF JournalInv, VerdictInv, Active, Archive
  <2> QED
    BY <2>1, <2>2, <2>3 DEF VerdictInv
<1>6. KeptInv'
  BY <1>2 DEF JournalInv, KeptInv, KeepsFinal
<1>7. StableStep
  <2> SUFFICES ASSUME NEW t \in Known, Rec(t).finalized
               PROVE  t \in Known' /\ Rec(t)'.finalized /\ Rec(t)'.state = Rec(t).state
    BY DEF StableStep
  <2> QED
    BY <1>2 DEF Known, Rec, KeepsFinal, JournalInv, SplitInv
<1>8. WinnerInv'
  BY <1>2, <1>7, WinnersStay DEF JournalInv, WinnerInv
<1> QED
  BY <1>3, <1>5, <1>6, <1>7, <1>8 DEF JournalResult, JournalInv

\* A journal that is not written keeps its verdicts.
LEMMA UnchangedVerdicts ==
    ASSUME JournalFacts, JournalInv, VerdictsStay, UNCHANGED journalVars
    PROVE  JournalResult /\ VersionStep
<1>1. /\ DOMAIN records \subseteq Txs /\ DOMAIN archived \subseteq Txs
      /\ DOMAIN diskRecords \subseteq Txs /\ DOMAIN diskArchive \subseteq Txs
  BY DEF JournalFacts, FilesCoverMemory, Known, OnDisk
<1>2. StableStep /\ VersionStep
  BY DEF StableStep, VersionStep, Known, Rec, journalVars
<1>3. SplitInv' /\ KeptInv'
  BY DEF JournalInv, SplitInv, KeptInv, journalVars
<1>4. VerdictInv'
  BY <1>1 DEF JournalInv, VerdictInv, Verdicts, VerdictsStay, Verdict, Active, Archive, journalVars
<1>5. WinnerInv'
  BY <1>2, WinnersStay DEF JournalInv, WinnerInv, journalVars
<1> QED
  BY <1>2, <1>3, <1>4, <1>5 DEF JournalResult, JournalInv

\* UpdateStateAtomicIfVersion keeps the verdicts when its version is from before
\* the verdict and a final result is true.
LEMMA UpdateVerdicts ==
    ASSUME JournalFacts, JournalInv, VerdictsStay, NEW t, NEW v, NEW s, NEW f, NEW fresh, NEW w,
           UpdateStateAtomicIfVersion(t, v, s, f, fresh, w), Before(t, v),
           f => /\ s = "mined" /\ signed[t].nonce < finalNonce
                /\ canon[signed[t].nonce + 1] = t
    PROVE  JournalResult /\ VersionStep
<1>1. CASE UNCHANGED journalVars
  BY <1>1, UnchangedVerdicts
<1>2. CASE ~UNCHANGED journalVars
  <2>0. JournalTypeOK
    BY DEF JournalFacts
  <2>1. PICK next : /\ UpdateOf(next, t, s, f) /\ records[t].version = v
                    /\ Save(next, w) /\ UNCHANGED <<archived, diskArchive>>
    BY <1>2, <2>0, UpdateShape
  <2>2. ~records[t].finalized
    BY <2>1 DEF UpdateOf, Before
  <2>3. KeepsFinal(next)
    BY <2>1, <2>2 DEF UpdateOf, KeepsFinal, JournalInv, SplitInv
  <2>4. \A u \in DOMAIN next : u \in DOMAIN records => Verdict(u, next[u])
    <3> SUFFICES ASSUME NEW u \in DOMAIN records PROVE Verdict(u, next[u])
      OBVIOUS
    <3>1. CASE u = t
      BY <2>1, <3>1 DEF UpdateOf, Updated, Verdict
    <3>2. CASE u # t
      BY <2>1, <3>2 DEF UpdateOf, JournalInv, VerdictInv, Verdicts
    <3> QED
      BY <3>1, <3>2
  <2>5. \A u \in DOMAIN next : next[u].finalized => next[u].state = "mined"
    BY <2>1 DEF UpdateOf, Updated, JournalInv, VerdictInv, Active
  <2>6. VersionStep
    BY <2>1 DEF UpdateOf, Updated, VersionStep, Save, Known
  <2> QED
    BY <2>1, <2>3, <2>4, <2>5, <2>6, SaveVerdicts
<1> QED
  BY <1>1, <1>2

\* SendPrepare keeps the verdicts.
LEMMA PrepareVerdicts ==
    ASSUME WalletInv, JournalFacts, JournalInv, VerdictsStay, NEW w, SendPrepare(w)
    PROVE  JournalResult /\ VersionStep
<1> DEFINE t == Len(signed) + 1
<1>1. PICK next : AppendOf(next, t) /\ Save(next, w) /\ UNCHANGED <<archived, diskArchive>>
  BY PrepareShape
<1>2. t \notin OnDisk
  BY PrepareDurable DEF PrepareFacts
<1> HIDE DEF t
<1>3. t \notin DOMAIN records /\ t \notin DOMAIN archived /\ t \notin Known
  BY <1>2 DEF JournalFacts, FilesCoverMemory, Known
<1>4. ~next[t].finalized
  BY <1>1 DEF AppendOf, NewRecord
<1>5. KeepsFinal(next)
  BY <1>1, <1>3, <1>4 DEF AppendOf, KeepsFinal, JournalInv, SplitInv
<1>6. \A u \in DOMAIN next : u \in DOMAIN records => Verdict(u, next[u])
  BY <1>1, <1>3 DEF AppendOf, JournalInv, VerdictInv, Verdicts
<1>7. \A u \in DOMAIN next : next[u].finalized => next[u].state = "mined"
  BY <1>1, <1>4 DEF AppendOf, JournalInv, VerdictInv, Active
<1>8. VersionStep
  BY <1>1, <1>3 DEF AppendOf, VersionStep, Save, Known
<1> QED
  BY <1>1, <1>5, <1>6, <1>7, <1>8, SaveVerdicts

\* ArchiveFinalized keeps the verdicts: a copy repeats a final record, or says
\* "replaced" of a transaction whose nonce another one has won.
LEMMA ArchiveVerdicts ==
    ASSUME JournalFacts, MatchInv, JournalInv, VerdictsStay,
           NEW w1, NEW w2, ArchiveFinalized(w1, w2)
    PROVE  JournalResult /\ VersionStep
<1>1. /\ DOMAIN records \subseteq Txs /\ DOMAIN archived \subseteq Txs
      /\ DOMAIN diskRecords \subseteq Txs /\ DOMAIN diskArchive \subseteq Txs
      /\ JournalTypeOK
  BY DEF JournalFacts, FilesCoverMemory, Known, OnDisk
<1>2. PICK batch, keep : ArchiveOf(batch, keep) /\ ArchiveOutcome(batch, keep)
  BY <1>1, ArchiveShape
<1>3. CASE UNCHANGED journalVars
  BY <1>3, UnchangedVerdicts
<1>4. CASE ~UNCHANGED journalVars
  <2>1. /\ DOMAIN batch = Archivable /\ Archivable \subseteq DOMAIN records
        /\ DOMAIN keep = DOMAIN records \ Archivable
        /\ \A t \in Archivable : CopyOf(batch[t], records[t])
        /\ \A t \in DOMAIN keep : keep[t] = records[t]
    BY <1>2 DEF ArchiveOf, Archivable
  <2>2. \A t \in Archivable : \E u \in Txs : Won(u) /\ signed[u].nonce = signed[t].nonce
    <3> SUFFICES ASSUME NEW t \in Archivable
                 PROVE  \E u \in Txs : Won(u) /\ signed[u].nonce = signed[t].nonce
      OBVIOUS
    <3>1. t \in Txs /\ t \in Known /\ Rec(t) = records[t] /\ records[t].nonce = signed[t].nonce
      BY <1>1, <2>1 DEF Known, Rec, JournalInv, SplitInv, MatchInv, Matches
    <3>2. CASE records[t].finalized
      BY <2>1, <3>1, <3>2 DEF Won, IsMined, JournalInv, VerdictInv, Active
    <3>3. CASE ~records[t].finalized
      <4>1. PICK u \in Known : /\ Rec(u).nonce = records[t].nonce
                               /\ Rec(u).finalized /\ IsMined(Rec(u))
        BY <3>3 DEF Archivable, NonceFinalized, NonceRecords
      <4>2. u \in Txs /\ Rec(u).nonce = signed[u].nonce
        BY <1>1 DEF Known, Rec, MatchInv, Matches
      <4> QED
        BY <3>1, <4>1, <4>2 DEF Won
    <3> QED
      BY <3>2, <3>3
  <2>3. \A t \in Archivable : Verdict(t, batch[t])
    <3> SUFFICES ASSUME NEW t \in Archivable PROVE Verdict(t, batch[t])
      OBVIOUS
    <3>1. CopyOf(batch[t], records[t]) /\ Verdict(t, records[t]) /\ t \in DOMAIN records
      BY <2>1 DEF JournalInv, VerdictInv, Verdicts
    <3>2. CASE records[t].finalized
      BY <3>1, <3>2 DEF CopyOf
    <3>3. CASE ~records[t].finalized
      <4>1. PICK u \in Txs : Won(u) /\ signed[u].nonce = signed[t].nonce
        BY <2>2
      <4>2. Verdict(u, Rec(u)) /\ Rec(u).finalized /\ Rec(u).state = "mined"
        BY <4>1 DEF Won, Known, Rec, IsMined, JournalInv, VerdictInv, Verdicts
      <4>3. u # t
        BY <3>1, <3>3, <4>2 DEF Rec, JournalInv, SplitInv
      <4> QED
        BY <3>1, <3>3, <4>1, <4>2, <4>3 DEF CopyOf, Verdict
    <3> QED
      BY <3>2, <3>3
  <2>4. /\ diskArchive' = Merge(diskArchive, batch)
        /\ \/ UNCHANGED <<records, archived, diskRecords>>
           \/ records' = keep /\ diskRecords' = keep /\ archived' = Merge(archived, batch)
           \/ diskRecords' = keep /\ UNCHANGED <<records, archived>>
    BY <1>2, <1>4 DEF ArchiveOutcome
  <2>5. /\ DOMAIN Merge(archived, batch) = DOMAIN archived \cup Archivable
        /\ \A t \in Archivable : Merge(archived, batch)[t] = batch[t]
        /\ \A t \in DOMAIN archived : t \notin Archivable => Merge(archived, batch)[t] = archived[t]
        /\ DOMAIN Merge(diskArchive, batch) = DOMAIN diskArchive \cup Archivable
        /\ \A t \in Archivable : Merge(diskArchive, batch)[t] = batch[t]
        /\ \A t \in DOMAIN diskArchive :
              t \notin Archivable => Merge(diskArchive, batch)[t] = diskArchive[t]
    BY <2>1 DEF Merge
  <2>6. SplitInv' /\ KeptInv'
    BY <2>1, <2>4, <2>5 DEF JournalInv, SplitInv, KeptInv
  <2>7. VerdictInv'
    <3>1. Verdicts(records)' /\ Verdicts(diskRecords)'
      BY <1>1, <2>1, <2>4 DEF JournalInv, VerdictInv, Verdicts, VerdictsStay, Verdict
    <3>2. \A t \in DOMAIN archived' : t \in Txs /\ Verdict(t, archived'[t]) /\ archived'[t].finalized
      BY <1>1, <2>1, <2>3, <2>4, <2>5
         DEF JournalInv, VerdictInv, Verdicts, Archive, CopyOf
    <3>3. \A t \in DOMAIN diskArchive' :
              t \in Txs /\ Verdict(t, diskArchive'[t]) /\ diskArchive'[t].finalized
      BY <1>1, <2>1, <2>3, <2>4, <2>5
         DEF JournalInv, VerdictInv, Verdicts, Archive, CopyOf
    <3>4. Verdicts(archived)' /\ Verdicts(diskArchive)'
      BY <3>2, <3>3 DEF Verdicts, VerdictsStay, Verdict
    <3>5. Active(records)' /\ Active(diskRecords)' /\ Archive(archived)' /\ Archive(diskArchive)'
      BY <2>1, <2>4, <3>2, <3>3 DEF JournalInv, VerdictInv, Active, Archive
    <3> QED
      BY <3>1, <3>4, <3>5 DEF VerdictInv
  <2>8. StableStep /\ VersionStep
    <3>1. ASSUME NEW t \in Known, Rec(t).finalized
          PROVE  t \in Known' /\ Rec(t)'.finalized /\ Rec(t)'.state = Rec(t).state
      <4>1. CASE UNCHANGED <<records, archived>>
        BY <3>1, <4>1 DEF Known, Rec
      <4>2. CASE records' = keep /\ archived' = Merge(archived, batch)
        BY <2>1, <2>5, <3>1, <4>2 DEF Known, Rec, CopyOf, JournalInv, SplitInv
      <4> QED
        BY <2>4, <4>1, <4>2
    <3>2. VersionStep
      BY <2>1, <2>4 DEF VersionStep
    <3> QED
      BY <3>1, <3>2 DEF StableStep
  <2>9. WinnerInv'
    <3> SUFFICES ASSUME NEW t \in DOMAIN diskArchive'
                 PROVE  \E u \in Txs' : Won(u)' /\ signed'[u].nonce = signed'[t].nonce
      BY DEF WinnerInv
    <3>1. CASE t \in DOMAIN diskArchive
      BY <2>8, <3>1, WinnersStay DEF JournalInv
    <3>2. CASE t \in Archivable
      <4>1. PICK u \in Txs : Won(u) /\ signed[u].nonce = signed[t].nonce
        BY <2>2, <3>2
      <4>2. Won(u)'
        BY <2>8, <4>1 DEF Won, StableStep, IsMined
      <4> QED
        BY <1>1, <2>1, <3>2, <4>1, <4>2 DEF JournalFacts, SignedGrows
    <3> QED
      BY <2>4, <2>5, <3>1, <3>2
  <2> QED
    BY <2>6, <2>7, <2>8, <2>9 DEF JournalResult, JournalInv
<1> QED
  BY <1>3, <1>4

\* A restart finds the final verdicts in the files.
LEMMA LoadVerdicts ==
    ASSUME JournalFacts, JournalInv, VerdictsStay, Load
    PROVE  JournalResult
<1>1. /\ DOMAIN records \subseteq Txs /\ DOMAIN archived \subseteq Txs
      /\ DOMAIN diskRecords \subseteq Txs /\ DOMAIN diskArchive \subseteq Txs
  BY DEF JournalFacts, FilesCoverMemory, Known, OnDisk
<1>2. /\ records' = diskRecords /\ diskRecords' = diskRecords /\ diskArchive' = diskArchive
      /\ DOMAIN archived' = DOMAIN diskArchive \ DOMAIN diskRecords
      /\ \A t \in DOMAIN archived' : archived'[t] = diskArchive[t]
  BY DEF Load
<1>3. SplitInv' /\ KeptInv'
  BY <1>2 DEF SplitInv, KeptInv
<1>4. VerdictInv'
  <2>1. Verdicts(records)' /\ Verdicts(diskRecords)'
    BY <1>1, <1>2 DEF JournalInv, VerdictInv, Verdicts, VerdictsStay, Verdict
  <2>2. Verdicts(archived)' /\ Verdicts(diskArchive)'
    BY <1>1, <1>2 DEF JournalInv, VerdictInv, Verdicts, VerdictsStay, Verdict
  <2>3. Active(records)' /\ Active(diskRecords)' /\ Archive(archived)' /\ Archive(diskArchive)'
    BY <1>2 DEF JournalInv, VerdictInv, Active, Archive
  <2> QED
    BY <2>1, <2>2, <2>3 DEF VerdictInv
<1>5. StableStep
  <2> SUFFICES ASSUME NEW t \in Known, Rec(t).finalized
               PROVE  t \in Known' /\ Rec(t)'.finalized /\ Rec(t)'.state = Rec(t).state
    BY DEF StableStep
  <2>1. Verdict(t, Rec(t))
    BY DEF Known, Rec, JournalInv, VerdictInv, Verdicts
  <2>2. t \in DOMAIN diskRecords \/ t \in DOMAIN diskArchive
    BY DEF JournalFacts, FilesCoverMemory, OnDisk
  <2>3. CASE t \in DOMAIN diskRecords
    <3>1. t \in DOMAIN records /\ t \notin DOMAIN archived /\ Rec(t) = records[t]
      BY <2>3 DEF Known, Rec, JournalInv, SplitInv
    <3>2. diskRecords[t].finalized /\ Verdict(t, diskRecords[t])
      BY <2>3, <3>1 DEF JournalInv, KeptInv, VerdictInv, Verdicts
    <3>3. t \in Known' /\ Rec(t)' = diskRecords[t]
      BY <1>2, <2>3 DEF Known, Rec
    <3> QED
      BY <2>1, <3>2, <3>3 DEF Verdict
  <2>4. CASE t \notin DOMAIN diskRecords
    <3>1. diskArchive[t].finalized /\ Verdict(t, diskArchive[t])
      BY <2>2, <2>4 DEF JournalInv, VerdictInv, Verdicts, Archive
    <3>2. t \in Known' /\ Rec(t)' = diskArchive[t]
      BY <1>2, <2>2, <2>4 DEF Known, Rec
    <3> QED
      BY <2>1, <3>1, <3>2 DEF Verdict
  <2> QED
    BY <2>3, <2>4
<1>6. WinnerInv'
  BY <1>2, <1>5, WinnersStay DEF JournalInv, WinnerInv
<1> QED
  BY <1>3, <1>4, <1>5, <1>6 DEF JournalResult, JournalInv

\* Every step keeps the journal's verdicts, and every step but a restart
\* counts a change of an active record in its version.
LEMMA NextJournal ==
    WalletInv /\ WalletInv' /\ SignedInv /\ VerdictsInv /\ [Next]_vars
        => JournalResult /\ (VersionStep \/ Crash)
<1> SUFFICES ASSUME WalletInv, WalletInv', SignedInv, VerdictsInv, [Next]_vars
             PROVE  JournalResult /\ (VersionStep \/ Crash)
  OBVIOUS
<1>1. JournalFacts
  BY TypeParts, NextSigned, NextFinalChain
     DEF JournalFacts, WalletInv, DurableInv, SignedInv
<1>2. VerdictsStay
  BY <1>1, VerdictStays DEF VerdictsStay, JournalFacts
<1>3. JournalInv /\ MatchInv /\ OpVersionInv /\ HistVersionInv /\ SeenInv
  BY DEF VerdictsInv, SignedInv
<1>4. CASE UNCHANGED journalVars
  BY <1>1, <1>2, <1>3, <1>4, UnchangedVerdicts
<1>5. CASE \E w \in WriteOutcomes : SendPrepare(w)
  BY <1>1, <1>2, <1>3, <1>5, PrepareVerdicts
<1>6. CASE \E fresh \in BOOLEAN, w \in WriteOutcomes : BroadcastResult(fresh, w)
  <2>1. PICK fresh \in BOOLEAN, w \in WriteOutcomes : BroadcastResult(fresh, w)
    BY <1>6
  <2>2. UpdateStateAtomicIfVersion(op.tx, op.version, op.state, FALSE, fresh, w)
    BY <2>1 DEF BroadcastResult
  <2>3. Before(op.tx, op.version)
    BY <1>3, <2>1 DEF BroadcastResult, OpVersionInv
  <2> QED
    BY <1>1, <1>2, <1>3, <2>2, <2>3, UpdateVerdicts
<1>7. CASE \E fresh \in BOOLEAN, w \in WriteOutcomes : HistoryApply(fresh, w)
  <2>1. PICK fresh \in BOOLEAN, w \in WriteOutcomes : HistoryApply(fresh, w)
    BY <1>7
  <2>2. \/ UNCHANGED journalVars
        \/ UpdateStateAtomicIfVersion(hist.tx, hist.version, "broadcast_unknown", FALSE, fresh, w)
        \/ UpdateStateAtomicIfVersion(hist.tx, hist.version, hist.seen.state,
                                      hist.seen.finalized, fresh, w)
    BY <2>1 DEF HistoryApply
  <2>3. Before(hist.tx, hist.version)
    BY <1>3, <2>1 DEF HistoryApply, HistVersionInv
  <2>4. hist.seen.finalized => /\ hist.seen.state = "mined" /\ signed[hist.tx].nonce < finalNonce
                               /\ canon[signed[hist.tx].nonce + 1] = hist.tx
    BY <1>3, <2>1 DEF HistoryApply, SeenInv
  <2>5. CASE UpdateStateAtomicIfVersion(hist.tx, hist.version, "broadcast_unknown", FALSE, fresh, w)
    BY <1>1, <1>2, <1>3, <2>3, <2>5, UpdateVerdicts
  <2>6. CASE UpdateStateAtomicIfVersion(hist.tx, hist.version, hist.seen.state,
                                        hist.seen.finalized, fresh, w)
    BY <1>1, <1>2, <1>3, <2>3, <2>4, <2>6, UpdateVerdicts
  <2> QED
    BY <1>4, <2>2, <2>5, <2>6
<1>8. CASE \E w1, w2 \in WriteOutcomes : HistoryArchive(w1, w2)
  BY <1>1, <1>2, <1>3, <1>8, ArchiveVerdicts DEF HistoryArchive
<1>9. CASE Crash
  BY <1>1, <1>2, <1>3, <1>9, LoadVerdicts DEF Crash
<1> QED
  BY <1>4, <1>5, <1>6, <1>7, <1>8, <1>9, OtherSteps DEF JournalStep

\* A version from before the verdict stays one.
LEMMA BeforeStays ==
    ASSUME JournalTypeOK, VersionStep, NEW t \in Known, NEW v \in Nat, Before(t, v)
    PROVE  t \in DOMAIN records' => /\ v <= records'[t].version
                                    /\ v = records'[t].version => ~records'[t].finalized
<1> SUFFICES ASSUME t \in DOMAIN records'
             PROVE  /\ v <= records'[t].version
                    /\ v = records'[t].version => ~records'[t].finalized
  OBVIOUS
<1>1. t \in DOMAIN records /\ records[t].version \in Nat
      /\ (records'[t] = records[t] \/ records'[t].version = records[t].version + 1)
  BY DEF VersionStep, JournalTypeOK, IsJournal, JournalRecord
<1>2. v <= records[t].version /\ (v = records[t].version => ~records[t].finalized)
  BY <1>1 DEF Before
<1> QED
  BY <1>1, <1>2

\* Every step keeps the versions held by the process that holds sendMu.
LEMMA NextOpVersion ==
    WalletInv /\ WalletInv' /\ SignedInv /\ VerdictsInv /\ [Next]_vars => OpVersionInv'
<1> SUFFICES ASSUME WalletInv, WalletInv', SignedInv, VerdictsInv, [Next]_vars PROVE OpVersionInv'
  OBVIOUS
<1>1. JournalTypeOK /\ op \in OpType /\ DurableInv /\ OpVersionInv /\ JournalInv /\ MatchInv
  BY TypeParts DEF WalletInv, VerdictsInv, SignedInv
<1>2. Idle.pc = "idle"
  BY DEF Idle
<1>3. CASE Crash \/ op'.pc \notin {"retry", "dispatch", "result"}
  <2>1. op'.pc \notin {"retry", "dispatch", "result"}
    BY <1>2, <1>3 DEF Crash
  <2> QED
    BY <2>1 DEF OpVersionInv
<1>4. CASE VersionStep /\ \/ op' = op
                          \/ /\ op.pc = "dispatch" /\ op'.pc = "result"
                             /\ op'.tx = op.tx /\ op'.version = op.version
  <2>1. CASE op.pc \in {"dispatch", "result"}
    <3>1. op.tx \in Known /\ op.version \in Nat /\ Before(op.tx, op.version)
      BY <1>1, <2>1 DEF DurableInv, OpVersionInv, OpType
    <3>2. op.tx \in DOMAIN records' =>
              /\ op.version <= records'[op.tx].version
              /\ op.version = records'[op.tx].version => ~records'[op.tx].finalized
      BY <1>1, <1>4, <3>1, BeforeStays
    <3> QED
      BY <1>4, <2>1, <3>2 DEF OpVersionInv, Before
  <2>2. CASE op.pc = "retry"
    <3>1. op.tx \in Known /\ op.version \in Nat
          /\ (op.tx \in DOMAIN records => op.version <= records[op.tx].version)
      BY <1>1, <2>2 DEF DurableInv, OpVersionInv, OpType
    <3>2. op.tx \in DOMAIN records' =>
             /\ op.tx \in DOMAIN records /\ records[op.tx].version \in Nat
             /\ records'[op.tx] = records[op.tx]
                \/ records'[op.tx].version = records[op.tx].version + 1
      BY <1>1, <1>4, <3>1 DEF VersionStep, JournalTypeOK, IsJournal, JournalRecord
    <3>3. op.tx \in DOMAIN records' => op.version <= records'[op.tx].version
      BY <3>1, <3>2
    <3> QED
      BY <1>4, <2>2, <3>3 DEF OpVersionInv
  <2>3. CASE op.pc \notin {"dispatch", "result", "retry"}
    BY <1>4, <2>3 DEF OpVersionInv
  <2> QED
    BY <2>1, <2>2, <2>3
<1>5. CASE UNCHANGED vars \/ Chain \/ History
  <2>1. op' = op
    BY <1>5 DEF vars, serviceVars, Chain, Mine, MineForeign, Finalize, Reorg, History, HistoryStart,
                HistoryObserve, HistorySkip, HistoryApply, HistoryArchive
  <2> QED
    BY <1>3, <1>4, <2>1, NextJournal
<1>6. CASE QuoteRequest
  <2>1. \A e : [Idle EXCEPT !.pc = "quoting", !.evidence = e].pc = "quoting"
    BY DEF Idle
  <2>2. op'.pc \in {"idle", "quoting"}
    BY <1>2, <1>6, <2>1 DEF QuoteRequest, QuoteGuard, QuoteCreate, QuoteAbort, replacementQuote,
                            ExpireQuote
  <2> QED
    BY <1>3, <2>2
<1>7. CASE \E w \in WriteOutcomes : SendPrepare(w)
  <2>1. PICK w \in WriteOutcomes : SendPrepare(w)
    BY <1>7
  <2>2. CASE w # "ok"
    BY <1>2, <1>3, <2>1, <2>2 DEF SendPrepare
  <2>3. CASE w = "ok"
    <3> DEFINE t == Len(signed) + 1
    <3>1. op' = [op EXCEPT !.pc = "dispatch", !.tx = t, !.version = 1]
      BY <2>1, <2>3 DEF SendPrepare
    <3>2. PICK next : AppendOf(next, t) /\ Save(next, w)
      BY <2>1, PrepareShape
    <3> HIDE DEF t
    <3>3. op'.pc = "dispatch" /\ op'.tx = t /\ op'.version = 1
      BY <1>1, <3>1 DEF OpType
    <3>4. records'[t].version = 1 /\ ~records'[t].finalized
      BY <2>3, <3>2 DEF AppendOf, Save, NewRecord
    <3> QED
      BY <3>3, <3>4 DEF OpVersionInv, Before
  <2> QED
    BY <2>2, <2>3
<1>8. CASE Send /\ ~\E w \in WriteOutcomes : SendPrepare(w)
  <2>1. op'.pc \notin {"retry", "dispatch", "result"}
    BY <1>1, <1>2, <1>8 DEF Send, SendExisting, SendRefused, SendCheck, SendVerify, SendAbort,
                            SendFull, OpType, Idle
  <2> QED
    BY <1>3, <2>1
<1>9. CASE \E t \in Known : RetryFind(t)
  <2>1. PICK t \in Known : RetryFind(t)
    BY <1>9
  <2>2. op'.pc = "retry" /\ op'.tx = t /\ op'.version = Rec(t).version /\ records' = records
    BY <2>1 DEF RetryFind, Idle, journalVars
  <2>3. t \in DOMAIN records => Rec(t) = records[t] /\ records[t].version \in Nat
    BY <1>1 DEF Rec, JournalInv, SplitInv, JournalTypeOK, IsJournal, JournalRecord
  <2> QED
    BY <2>2, <2>3 DEF OpVersionInv
<1>10. CASE RetryDecide
  <2>1. CASE NonceMined(signed[op.tx].nonce)
    <3>1. op'.pc = "replied"
      BY <1>1, <1>10, <2>1 DEF RetryDecide, OpType
    <3> QED
      BY <1>3, <3>1
  <2>2. CASE ~NonceMined(signed[op.tx].nonce)
    <3>1. op'.pc = "dispatch" /\ op'.tx = op.tx /\ op'.version = op.version /\ records' = records
      BY <1>1, <1>10, <2>2 DEF RetryDecide, OpType, journalVars
    <3>2. op.tx \in DOMAIN records => op.version <= records[op.tx].version
      BY <1>1, <1>10 DEF RetryDecide, OpVersionInv
    <3>3. ASSUME op.tx \in DOMAIN records PROVE ~records[op.tx].finalized
      <4>1. Rec(op.tx) = records[op.tx] /\ records[op.tx].nonce = signed[op.tx].nonce
        BY <1>1, <3>3 DEF Rec, JournalInv, SplitInv, MatchInv, Matches
      <4>2. records[op.tx].finalized => records[op.tx].state = "mined"
        BY <1>1, <3>3 DEF JournalInv, VerdictInv, Active
      <4> QED
        BY <2>2, <3>3, <4>1, <4>2 DEF NonceMined, NonceRecords, Known, IsMined
    <3> QED
      BY <3>1, <3>2, <3>3 DEF OpVersionInv, Before
  <2> QED
    BY <2>1, <2>2
<1>11. CASE \E delivered, ok \in BOOLEAN : SendTransaction(delivered, ok)
  <2>1. /\ op.pc = "dispatch" /\ op'.pc = "result" /\ op'.tx = op.tx /\ op'.version = op.version
    BY <1>1, <1>11 DEF SendTransaction, OpType
  <2> QED
    BY <1>3, <1>4, <2>1, NextJournal
<1>12. CASE Return \/ \E fresh \in BOOLEAN, w \in WriteOutcomes : BroadcastResult(fresh, w)
  BY <1>2, <1>3, <1>12 DEF Return, BroadcastResult
<1> QED
  BY <1>3, <1>5, <1>6, <1>7, <1>8, <1>9, <1>10, <1>11, <1>12 DEF Next, Retry, Deliver

\* Only a refresh and a restart change the refresh.
LEMMA HistSteps == [Next]_vars => History \/ Crash \/ hist' = hist
BY DEF Next, vars, serviceVars, Chain, Mine, MineForeign, Finalize, Reorg, QuoteRequest, QuoteGuard,
       QuoteCreate, QuoteAbort, replacementQuote, ExpireQuote, Send, SendExisting, SendRefused,
       SendCheck, SendVerify, SendAbort, SendPrepare, SendFull, Retry, RetryFind, RetryDecide,
       Deliver, SendTransaction, BroadcastResult, Return

\* Nothing the journal knows is forgotten, and only SendPrepare adds to the files.
LEMMA NextKnown ==
    WalletInv /\ [Next]_vars
        => Known \subseteq Known' /\ (OnDisk' \subseteq OnDisk \/ \E w \in WriteOutcomes : SendPrepare(w))
<1> SUFFICES ASSUME WalletInv, [Next]_vars
             PROVE  /\ Known \subseteq Known'
                    /\ OnDisk' \subseteq OnDisk \/ \E w \in WriteOutcomes : SendPrepare(w)
  OBVIOUS
<1>1. JournalTypeOK /\ FilesCoverMemory
  BY TypeParts DEF WalletInv, DurableInv
<1>2. CASE History
  BY <1>1, <1>2, HistoryDurable
<1>3. CASE \E w \in WriteOutcomes : SendPrepare(w)
  BY <1>3, PrepareDurable DEF PrepareFacts
<1>4. CASE \E fresh \in BOOLEAN, w \in WriteOutcomes : BroadcastResult(fresh, w)
  BY <1>1, <1>4, UpdateDurable DEF BroadcastResult
<1>5. CASE UNCHANGED journalVars
  BY <1>5, JournalUnchanged
<1>6. CASE Crash
  BY <1>1, <1>6, LoadDurable DEF Crash, FilesCoverMemory
<1> QED
  BY <1>2, <1>3, <1>4, <1>5, <1>6, OtherSteps DEF JournalStep, History

\* Every step keeps what the refresh holds: versions, and a final answer.
LEMMA NextHistVersion ==
    WalletInv /\ WalletInv' /\ SignedInv /\ VerdictsInv /\ [Next]_vars => HistVersionInv' /\ SeenInv'
<1> SUFFICES ASSUME WalletInv, WalletInv', SignedInv, VerdictsInv, [Next]_vars
             PROVE  HistVersionInv' /\ SeenInv'
  OBVIOUS
<1>1. /\ JournalTypeOK /\ HistType /\ DurableInv /\ HistVersionInv /\ SeenInv /\ JournalInv
      /\ SignedGrows /\ FinalChain /\ ChainType
  BY TypeParts, NextSigned, NextFinalChain DEF WalletInv, VerdictsInv, SignedInv
<1>2. Resting.pc = "idle" /\ DOMAIN Resting.items = {}
  BY DEF Resting, EmptyJournal
<1>3. CASE hist' = Resting
  BY <1>2, <1>3 DEF HistVersionInv, SeenInv
<1>4. VersionStep \/ hist' = Resting
  BY NextJournal DEF Crash
<1>5. Known \subseteq Known'
  BY NextKnown
<1>6. ASSUME hist' # Resting, NEW t \in Known, NEW v \in Nat, Before(t, v)
      PROVE  t \in Known' /\ Before(t, v)'
  <2>1. t \in DOMAIN records' => /\ v <= records'[t].version
                                 /\ v = records'[t].version => ~records'[t].finalized
    BY <1>1, <1>4, <1>6, BeforeStays
  <2> QED
    BY <1>5, <1>6, <2>1 DEF Before
<1>7. \A t \in DOMAIN hist.items : t \in Known /\ hist.items[t] \in Nat /\ Before(t, hist.items[t])
  BY <1>1 DEF HistVersionInv, HistType
<1>8. CASE hist' = hist
  <2>1. CASE hist' = Resting
    BY <1>3, <2>1
  <2>2. CASE hist' # Resting
    <3>1. \A t \in DOMAIN hist.items : t \in Known' /\ Before(t, hist.items[t])'
      BY <1>6, <1>7, <1>8, <2>2
    <3>2. hist.pc = "observed" => hist.tx \in Known' /\ Before(hist.tx, hist.version)'
      BY <1>1, <1>6, <1>8, <2>2 DEF HistVersionInv, HistType
    <3>3. HistVersionInv'
      BY <1>8, <3>1, <3>2 DEF HistVersionInv
    <3>4. SeenInv'
      <4> SUFFICES ASSUME hist.pc = "observed", hist.seen.finalized
                   PROVE  /\ hist.seen.state = "mined"
                          /\ signed'[hist.tx].nonce < finalNonce'
                          /\ canon'[signed'[hist.tx].nonce + 1] = hist.tx
        BY <1>8 DEF SeenInv
      <4>1. hist.tx \in Txs
        BY <1>1 DEF HistVersionInv, DurableInv, FilesCoverMemory
      <4>2. signed'[hist.tx] = signed[hist.tx] /\ signed[hist.tx].nonce \in Nat
        BY <1>1, <4>1, SignedRecord DEF SignedGrows
      <4>3. /\ hist.seen.state = "mined" /\ signed[hist.tx].nonce < finalNonce
            /\ canon[signed[hist.tx].nonce + 1] = hist.tx
        BY <1>1 DEF SeenInv
      <4>4. finalNonce \in Nat /\ finalNonce' \in Nat
        BY <1>1 DEF ChainType, FinalChain
      <4> QED
        BY <1>1, <4>2, <4>3, <4>4 DEF FinalChain
    <3> QED
      BY <3>3, <3>4
  <2> QED
    BY <2>1, <2>2
<1>9. CASE HistoryStart
  <2>1. /\ hist'.pc = "refresh" /\ hist'.items = RefreshItems /\ UNCHANGED journalVars
    BY <1>9 DEF HistoryStart, Resting
  <2>2. \A t \in DOMAIN RefreshItems :
            /\ t \in DOMAIN records /\ RefreshItems[t] = records[t].version
            /\ ~records[t].finalized /\ records[t].version \in Nat
    BY <1>1 DEF RefreshItems, JournalTypeOK, IsJournal, JournalRecord
  <2> QED
    BY <2>1, <2>2 DEF HistVersionInv, SeenInv, Before, Known, journalVars
<1>10. CASE \E t \in DOMAIN hist.items : \E seen \in Observations(t) : HistoryObserve(t, seen)
  <2>0. PICK t \in DOMAIN hist.items : \E seen \in Observations(t) : HistoryObserve(t, seen)
    BY <1>10
  <2>1. PICK seen \in Observations(t) : HistoryObserve(t, seen)
    BY <2>0
  <2>2. /\ hist'.pc = "observed" /\ hist'.tx = t /\ hist'.version = hist.items[t]
        /\ hist'.seen = seen /\ hist'.items = Without(hist.items, t)
    BY <1>1, <2>1 DEF HistoryObserve, HistType
  <2>3. UNCHANGED <<journalVars, chainVars>>
    BY <2>1 DEF HistoryObserve
  <2>4. DOMAIN hist'.items \subseteq DOMAIN hist.items
        /\ \A u \in DOMAIN hist'.items : hist'.items[u] = hist.items[u]
    BY <2>2 DEF Without
  <2>5. HistVersionInv'
    BY <1>7, <2>2, <2>3, <2>4 DEF HistVersionInv, Before, Known, journalVars
  <2>6. seen.finalized => /\ seen.state = "mined" /\ signed[t].nonce < finalNonce
                          /\ canon[signed[t].nonce + 1] = t
    BY DEF Observations, Canonical
  <2>7. SeenInv'
    BY <2>2, <2>3, <2>6 DEF SeenInv, chainVars
  <2> QED
    BY <2>5, <2>7
<1>11. CASE \E t \in DOMAIN hist.items : HistorySkip(t)
  <2>1. PICK t \in DOMAIN hist.items : HistorySkip(t)
    BY <1>11
  <2>2. hist'.pc = "refresh" /\ hist'.items = Without(hist.items, t) /\ UNCHANGED journalVars
    BY <1>1, <2>1 DEF HistorySkip, HistType
  <2>3. DOMAIN hist'.items \subseteq DOMAIN hist.items
        /\ \A u \in DOMAIN hist'.items : hist'.items[u] = hist.items[u]
    BY <2>2 DEF Without
  <2> QED
    BY <1>7, <2>2, <2>3 DEF HistVersionInv, SeenInv, Before, Known, journalVars
<1>12. CASE \E fresh \in BOOLEAN, w \in WriteOutcomes : HistoryApply(fresh, w)
  <2>1. CASE hist' = Resting
    BY <1>3, <2>1
  <2>2. CASE hist' # Resting
    <3>1. hist' = [Resting EXCEPT !.pc = "refresh", !.items = hist.items]
      BY <1>12, <2>2 DEF HistoryApply
    <3>2. hist'.pc = "refresh" /\ hist'.items = hist.items
      BY <3>1 DEF Resting
    <3>3. \A t \in DOMAIN hist.items : t \in Known' /\ Before(t, hist.items[t])'
      <4> SUFFICES ASSUME NEW t \in DOMAIN hist.items
                   PROVE  t \in Known' /\ Before(t, hist.items[t])'
        OBVIOUS
      <4>1. t \in DOMAIN records' =>
                /\ hist.items[t] <= records'[t].version
                /\ hist.items[t] = records'[t].version => ~records'[t].finalized
        BY <1>1, <1>4, <1>7, <2>2, BeforeStays
      <4> QED
        BY <1>5, <1>7, <2>2, <3>2, <4>1 DEF Before
    <3> QED
      BY <3>2, <3>3 DEF HistVersionInv, SeenInv
  <2> QED
    BY <2>1, <2>2
<1>13. CASE (\E w1, w2 \in WriteOutcomes : HistoryArchive(w1, w2)) \/ Crash
  BY <1>3, <1>13 DEF HistoryArchive, Crash
<1>14. History \/ Crash \/ hist' = hist
  BY HistSteps
<1> QED
  BY <1>8, <1>9, <1>10, <1>11, <1>12, <1>13, <1>14 DEF History

\* The initial state has no records and no verdicts.
LEMMA InitVerdicts == Init => VerdictsInv
BY EmptyIsJournal DEF Init, JournalInit, VerdictsInv, JournalInv, SplitInv, VerdictInv, Verdicts,
   Active, Archive, KeptInv, WinnerInv, OpVersionInv, HistVersionInv, SeenInv, Idle, Resting

\* The invariant behind final verdicts holds in every state.
THEOREM VerdictsInvariant == Spec => []VerdictsInv
<1>1. WalletInv /\ WalletInv' /\ SignedInv /\ VerdictsInv /\ [Next]_vars => VerdictsInv'
  BY NextJournal, NextOpVersion, NextHistVersion DEF VerdictsInv, JournalResult
<1> QED
  BY <1>1, InitVerdicts, WalletInvariant, SignedInvariant, PTL DEF Spec

\* What the wallet calls final is what the finalized chain says, and an archived
\* nonce keeps its winner: whatever the order of broadcast results, refreshes,
\* archival, failed writes, reorganizations and crashes.
THEOREM FinalVerdicts == Spec => []FinalVerdictsSound
<1>1. WalletInv /\ SignedInv /\ VerdictsInv => FinalVerdictsSound
  <2> SUFFICES ASSUME WalletInv, SignedInv, VerdictsInv PROVE FinalVerdictsSound
    OBVIOUS
  <2>1. \A t \in Known : Verdict(t, Rec(t))
    BY DEF VerdictsInv, JournalInv, VerdictInv, Verdicts, Known, Rec
  <2>2. ASSUME NEW t \in DOMAIN archived PROVE NonceFinalized(archived[t].nonce)
    <3>1. t \in DOMAIN diskArchive /\ archived[t].nonce = signed[t].nonce
      BY DEF WalletInv, DurableInv, FilesCoverMemory, SignedInv, MatchInv, Matches
    <3>2. PICK u \in Txs : Won(u) /\ signed[u].nonce = signed[t].nonce
      BY <3>1 DEF VerdictsInv, JournalInv, WinnerInv
    <3>3. Rec(u).nonce = signed[u].nonce
      BY <3>2 DEF Won, Known, Rec, SignedInv, MatchInv, Matches
    <3> QED
      BY <3>1, <3>2, <3>3 DEF Won, NonceFinalized, NonceRecords
  <2> QED
    BY <2>1, <2>2 DEF FinalVerdictsSound, Verdict, IsMined
<1> QED
  BY <1>1, WalletInvariant, SignedInvariant, VerdictsInvariant, PTL

\* No step takes a final verdict back.
THEOREM FinalityNeverRevoked == Spec => FinalityIsStable
<1>1. WalletInv /\ WalletInv' /\ SignedInv /\ VerdictsInv /\ [Next]_vars => StableStep
  BY NextJournal DEF JournalResult
<1>2. StableStep => (\A t \in Known : Rec(t).finalized => /\ t \in Known'
                                                          /\ Rec(t)'.finalized
                                                          /\ Rec(t)'.state = Rec(t).state)
  BY DEF StableStep
<1> QED
  BY <1>1, <1>2, WalletInvariant, SignedInvariant, VerdictsInvariant, PTL DEF Spec, FinalityIsStable

-----------------------------------------------------------------------------
(* One outstanding nonce, on a chain without reorganizations and with nodes   *)
(* that are not behind.  A record shown as mined is then on the canonical     *)
(* chain and stays shown as mined, so a nonce that is resolved stays resolved *)
(* from the check of a Send to its append.  The files can know of transactions *)
(* that memory does not, and of mined ones before memory does, so the         *)
(* invariant speaks of the transactions in the files and of what memory shows *)
(* as mined.                                                                  *)

Steady == MaxReorgs = 0 /\ ~LaggingNodes

\* What a journal shows as mined is on the canonical chain.
OnChain(f) == \A t \in DOMAIN f : IsMined(f[t]) => Canonical(t)

MinedInv ==
    /\ OnChain(records) /\ OnChain(archived) /\ OnChain(diskRecords) /\ OnChain(diskArchive)
    /\ \A t \in DOMAIN records : t \in DOMAIN diskRecords /\ IsMined(records[t])
                                     => IsMined(diskRecords[t])

\* A result that waits to be applied to a mined record says that it is mined.
MinedHeldInv ==
    /\ (op.pc \in {"dispatch", "result"} /\ op.tx \in DOMAIN records
           /\ op.version = records[op.tx].version) => ~IsMined(records[op.tx])
    /\ op.pc = "result" => op.state # "mined"
    /\ hist.pc = "observed" =>
          /\ hist.seen.state = "mined" => Canonical(hist.tx)
          /\ (hist.tx \in DOMAIN records /\ hist.version = records[hist.tx].version
                 /\ IsMined(records[hist.tx])) => hist.seen.state = "mined"

\* t is unresolved: nothing with its nonce is shown as mined or finalized.
Open(t) == ~NonceMined(signed[t].nonce) /\ signed[t].nonce >= finalNonce

FlightInv ==
    /\ \A t, u \in OnDisk : Open(t) /\ Open(u) => signed[t].nonce = signed[u].nonce
    /\ (op.pc \in {"checked", "ready"} /\ quotes[op.quote].of = 0) => \A t \in OnDisk : ~Open(t)
    /\ \A q \in DOMAIN quotes : quotes[q].of # 0 =>
          quotes[q].of \in Known /\ quotes[q].nonce = signed[quotes[q].of].nonce

OutstandingInv == MinedInv /\ MinedHeldInv /\ FlightInv

CanonStays == \A t \in Txs : Canonical(t) => Canonical(t)'

\* Without reorganizations a transaction on the chain stays there.
LEMMA NextCanonStays == Steady /\ WalletInv /\ [Next]_vars => CanonStays
<1> SUFFICES ASSUME Steady, WalletInv, [Next]_vars, NEW t \in Txs, Canonical(t)
             PROVE  Canonical(t)'
  BY DEF CanonStays
<1>1. signed'[t] = signed[t] /\ signed[t].nonce \in Nat
  BY TypeParts, SignedRecord, NextSigned DEF WalletInv, SignedGrows
<1>2. canon \in Seq(Nat) /\ Len(canon) \in Nat /\ wire \subseteq Nat /\ spent.reorgs \in Nat
  BY SMTT(30), TypeParts DEF WalletInv, ChainType, Txs, SpentType
<1>3. canon' = canon \/ \E u \in Nat : canon' = Append(canon, u)
  <2>1. CASE \E u \in wire : Mine(u)
    BY <1>2, <2>1 DEF Mine
  <2>2. CASE MineForeign \/ Finalize
    BY <2>2 DEF MineForeign, Finalize
  <2>3. ~\E keep \in 0 .. Latest - 1 : Reorg(keep)
    BY <1>2 DEF Reorg, Steady
  <2> QED
    BY <2>1, <2>2, <2>3, ChainSteps DEF Chain
<1>4. Len(canon') \in Nat /\ Len(canon) <= Len(canon')
      /\ \A i \in 1 .. Len(canon) : canon'[i] = canon[i]
  BY <1>2, <1>3
<1>5. signed[t].nonce + 1 \in 1 .. Len(canon) /\ canon[signed[t].nonce + 1] = t
  BY <1>1, <1>2 DEF Canonical, Latest
<1>6. signed[t].nonce < Len(canon') /\ canon'[signed[t].nonce + 1] = t
  BY <1>1, <1>2, <1>4, <1>5
<1> QED
  BY <1>1, <1>6 DEF Canonical, Latest

\* A nonce that is shown as mined stays so.
MinedStep == \A n : NonceMined(n) => NonceMined(n)'

\* What the steps of this section start from.
MinedFacts == JournalFacts /\ MatchInv /\ JournalInv /\ MinedInv /\ CanonStays

MinedResult == MinedInv' /\ MinedStep

\* Records keep their nonces and stay mined in `next`.
KeepsMined(next) ==
    /\ DOMAIN records \subseteq DOMAIN next
    /\ \A t \in DOMAIN records : /\ next[t].nonce = records[t].nonce
                                 /\ IsMined(records[t]) => IsMined(next[t])
    /\ \A t \in DOMAIN next : IsMined(next[t]) => t \in Txs /\ Canonical(t)

\* Saving such a journal keeps mined records mined.
LEMMA SaveMined ==
    ASSUME MinedFacts, NEW next, KeepsMined(next), NEW w, Save(next, w),
           UNCHANGED <<archived, diskArchive>>
    PROVE  MinedResult
<1>1. /\ DOMAIN records \subseteq Txs /\ DOMAIN archived \subseteq Txs
      /\ DOMAIN diskRecords \subseteq Txs /\ DOMAIN diskArchive \subseteq Txs
  BY DEF MinedFacts, JournalFacts, FilesCoverMemory, Known, OnDisk
<1>2. /\ records' = records \/ (records' = next /\ diskRecords' = next)
      /\ diskRecords' = diskRecords \/ diskRecords' = next
      /\ archived' = archived /\ diskArchive' = diskArchive
  BY DEF Save
<1>3. /\ \A t \in DOMAIN records' : IsMined(records'[t]) => t \in Txs /\ Canonical(t)
      /\ \A t \in DOMAIN diskRecords' : IsMined(diskRecords'[t]) => t \in Txs /\ Canonical(t)
      /\ \A t \in DOMAIN archived' : IsMined(archived'[t]) => t \in Txs /\ Canonical(t)
      /\ \A t \in DOMAIN diskArchive' : IsMined(diskArchive'[t]) => t \in Txs /\ Canonical(t)
  BY <1>1, <1>2 DEF KeepsMined, MinedFacts, MinedInv, OnChain
<1>4. OnChain(records)' /\ OnChain(archived)' /\ OnChain(diskRecords)' /\ OnChain(diskArchive)'
  BY <1>3 DEF OnChain, MinedFacts, CanonStays, IsMined
<1>5. \A t \in DOMAIN records' : t \in DOMAIN diskRecords' /\ IsMined(records'[t])
                                     => IsMined(diskRecords'[t])
  BY <1>2 DEF KeepsMined, MinedFacts, MinedInv
<1>6. MinedStep
  <2> SUFFICES ASSUME NEW n, NonceMined(n) PROVE NonceMined(n)'
    BY DEF MinedStep
  <2>1. PICK t \in Known : Rec(t).nonce = n /\ IsMined(Rec(t))
    BY DEF NonceMined, NonceRecords
  <2>2. t \in Known' /\ Rec(t)'.nonce = n /\ IsMined(Rec(t))'
    BY <1>2, <2>1 DEF Known, Rec, KeepsMined, IsMined, MinedFacts, JournalInv, SplitInv
  <2> QED
    BY <2>2 DEF NonceMined, NonceRecords
<1> QED
  BY <1>4, <1>5, <1>6 DEF MinedResult, MinedInv, IsMined

\* A journal that is not written keeps mined records mined.
LEMMA UnchangedMined ==
    ASSUME MinedFacts, UNCHANGED journalVars
    PROVE  MinedResult
<1>1. Save(records, "failed") /\ UNCHANGED <<archived, diskArchive>>
  BY DEF Save, journalVars
<1>2. KeepsMined(records)
  BY DEF KeepsMined, MinedFacts, MinedInv, OnChain, JournalFacts, FilesCoverMemory, Known, OnDisk
<1> QED
  BY <1>1, <1>2, SaveMined

\* UpdateStateAtomicIfVersion keeps mined records mined when a result for the
\* version of a mined record says that it is mined, and "mined" is true.
LEMMA UpdateMined ==
    ASSUME MinedFacts, NEW t, NEW v, NEW s, NEW f, NEW fresh, NEW w,
           UpdateStateAtomicIfVersion(t, v, s, f, fresh, w),
           t \in DOMAIN records /\ v = records[t].version /\ IsMined(records[t]) => s = "mined",
           s = "mined" => Canonical(t)
    PROVE  MinedResult
<1>1. CASE UNCHANGED journalVars
  BY <1>1, UnchangedMined
<1>2. CASE ~UNCHANGED journalVars
  <2>0. JournalTypeOK
    BY DEF MinedFacts, JournalFacts
  <2>1. PICK next : /\ UpdateOf(next, t, s, f) /\ records[t].version = v
                    /\ Save(next, w) /\ UNCHANGED <<archived, diskArchive>>
    BY <1>2, <2>0, UpdateShape
  <2>2. DOMAIN records \subseteq Txs
    BY DEF MinedFacts, JournalFacts, FilesCoverMemory, Known
  <2>3. KeepsMined(next)
    BY <2>1, <2>2 DEF UpdateOf, Updated, KeepsMined, MinedFacts, MinedInv, OnChain, IsMined
  <2> QED
    BY <2>1, <2>3, SaveMined
<1> QED
  BY <1>1, <1>2

\* SendPrepare keeps mined records mined.
LEMMA PrepareMined ==
    ASSUME WalletInv, MinedFacts, NEW w, SendPrepare(w)
    PROVE  MinedResult
<1> DEFINE t == Len(signed) + 1
<1>1. PICK next : AppendOf(next, t) /\ Save(next, w) /\ UNCHANGED <<archived, diskArchive>>
  BY PrepareShape
<1>2. t \notin OnDisk
  BY PrepareDurable DEF PrepareFacts
<1> HIDE DEF t
<1>3. t \notin DOMAIN records /\ DOMAIN records \subseteq Txs
  BY <1>2 DEF MinedFacts, JournalFacts, FilesCoverMemory, Known
<1>4. KeepsMined(next)
  BY <1>1, <1>3 DEF AppendOf, NewRecord, KeepsMined, MinedFacts, MinedInv, OnChain, IsMined
<1> QED
  BY <1>1, <1>4, SaveMined

\* ArchiveFinalized keeps the nonces shown as mined: a mined record that is not
\* final could only be archived as the loser of its nonce to a winner that stays.
LEMMA ArchiveMined ==
    ASSUME MinedFacts, StableStep, NEW w1, NEW w2, ArchiveFinalized(w1, w2)
    PROVE  MinedResult
<1>1. /\ DOMAIN records \subseteq Txs /\ DOMAIN archived \subseteq Txs
      /\ DOMAIN diskRecords \subseteq Txs /\ DOMAIN diskArchive \subseteq Txs
      /\ JournalTypeOK
  BY DEF MinedFacts, JournalFacts, FilesCoverMemory, Known, OnDisk
<1>2. PICK batch, keep : ArchiveOf(batch, keep) /\ ArchiveOutcome(batch, keep)
  BY <1>1, ArchiveShape
<1>3. CASE UNCHANGED journalVars
  BY <1>3, UnchangedMined
<1>4. CASE ~UNCHANGED journalVars
  <2>1. /\ DOMAIN batch = Archivable /\ Archivable \subseteq DOMAIN records
        /\ DOMAIN keep = DOMAIN records \ Archivable
        /\ \A t \in Archivable : CopyOf(batch[t], records[t])
        /\ \A t \in DOMAIN keep : keep[t] = records[t]
    BY <1>2 DEF ArchiveOf, Archivable
  <2>2. /\ diskArchive' = Merge(diskArchive, batch)
        /\ \/ UNCHANGED <<records, archived, diskRecords>>
           \/ records' = keep /\ diskRecords' = keep /\ archived' = Merge(archived, batch)
           \/ diskRecords' = keep /\ UNCHANGED <<records, archived>>
    BY <1>2, <1>4 DEF ArchiveOutcome
  <2>3. /\ DOMAIN Merge(archived, batch) = DOMAIN archived \cup Archivable
        /\ \A t \in Archivable : Merge(archived, batch)[t] = batch[t]
        /\ \A t \in DOMAIN archived : t \notin Archivable => Merge(archived, batch)[t] = archived[t]
        /\ DOMAIN Merge(diskArchive, batch) = DOMAIN diskArchive \cup Archivable
        /\ \A t \in Archivable : Merge(diskArchive, batch)[t] = batch[t]
        /\ \A t \in DOMAIN diskArchive :
              t \notin Archivable => Merge(diskArchive, batch)[t] = diskArchive[t]
    BY <2>1 DEF Merge
  <2>4. \A t \in Archivable : IsMined(batch[t]) => t \in Txs /\ Canonical(t)
    BY <1>1, <2>1 DEF CopyOf, IsMined, MinedFacts, MinedInv, OnChain
  <2>5. /\ \A t \in DOMAIN records' : IsMined(records'[t]) => t \in Txs /\ Canonical(t)
        /\ \A t \in DOMAIN diskRecords' : IsMined(diskRecords'[t]) => t \in Txs /\ Canonical(t)
    BY <1>1, <2>1, <2>2 DEF MinedFacts, MinedInv, OnChain
  <2>6. /\ \A t \in DOMAIN archived' : IsMined(archived'[t]) => t \in Txs /\ Canonical(t)
        /\ \A t \in DOMAIN diskArchive' : IsMined(diskArchive'[t]) => t \in Txs /\ Canonical(t)
    BY <1>1, <2>2, <2>3, <2>4 DEF MinedFacts, MinedInv, OnChain
  <2>7. OnChain(records)' /\ OnChain(archived)' /\ OnChain(diskRecords)' /\ OnChain(diskArchive)'
    BY <2>5, <2>6 DEF OnChain, MinedFacts, CanonStays, IsMined
  <2>8. \A t \in DOMAIN records' : t \in DOMAIN diskRecords' /\ IsMined(records'[t])
                                       => IsMined(diskRecords'[t])
    BY <2>1, <2>2 DEF MinedFacts, MinedInv
  <2>9. MinedStep
    <3> SUFFICES ASSUME NEW n, NonceMined(n) PROVE NonceMined(n)'
      BY DEF MinedStep
    <3>1. PICK t \in Known : Rec(t).nonce = n /\ IsMined(Rec(t))
      BY DEF NonceMined, NonceRecords
    <3>2. CASE UNCHANGED <<records, archived>>
      BY <3>1, <3>2 DEF NonceMined, NonceRecords, Known, Rec, IsMined
    <3>3. CASE records' = keep /\ archived' = Merge(archived, batch)
      <4>1. \A u \in Known : u \in Known' /\ Rec(u)'.nonce = Rec(u).nonce
        BY <2>1, <2>3, <3>3 DEF Known, Rec, CopyOf, MinedFacts, JournalInv, SplitInv
      <4>2. CASE t \in Archivable /\ ~records[t].finalized
        <5>1. Rec(t) = records[t]
          BY <2>1, <4>2 DEF Rec, MinedFacts, JournalInv, SplitInv
        <5>2. PICK u \in Known : /\ Rec(u).nonce = records[t].nonce
                                 /\ Rec(u).finalized /\ IsMined(Rec(u))
          BY <4>2 DEF Archivable, NonceFinalized, NonceRecords
        <5>3. Rec(u)'.state = "mined"
          BY <5>2 DEF StableStep, IsMined
        <5> QED
          BY <3>1, <4>1, <5>1, <5>2, <5>3 DEF NonceMined, NonceRecords, IsMined
      <4>3. CASE ~(t \in Archivable /\ ~records[t].finalized)
        <5>1. Rec(t)' = Rec(t)
          BY <2>1, <2>3, <3>3, <4>3 DEF Known, Rec, CopyOf, MinedFacts, JournalInv, SplitInv
        <5> QED
          BY <3>1, <4>1, <5>1 DEF NonceMined, NonceRecords, IsMined
      <4> QED
        BY <4>2, <4>3
    <3> QED
      BY <2>2, <3>2, <3>3
  <2> QED
    BY <2>7, <2>8, <2>9 DEF MinedResult, MinedInv, IsMined
<1> QED
  BY <1>3, <1>4

\* A restart shows as mined what memory showed as mined.
LEMMA LoadMined ==
    ASSUME MinedFacts, Load
    PROVE  MinedResult
<1>1. /\ DOMAIN records \subseteq Txs /\ DOMAIN archived \subseteq Txs
      /\ DOMAIN diskRecords \subseteq Txs /\ DOMAIN diskArchive \subseteq Txs
  BY DEF MinedFacts, JournalFacts, FilesCoverMemory, Known, OnDisk
<1>2. /\ records' = diskRecords /\ diskRecords' = diskRecords /\ diskArchive' = diskArchive
      /\ DOMAIN archived' = DOMAIN diskArchive \ DOMAIN diskRecords
      /\ \A t \in DOMAIN archived' : archived'[t] = diskArchive[t]
  BY DEF Load
<1>3. OnChain(records)' /\ OnChain(archived)' /\ OnChain(diskRecords)' /\ OnChain(diskArchive)'
  BY <1>1, <1>2 DEF OnChain, MinedFacts, MinedInv, CanonStays, IsMined
<1>4. MinedStep
  <2> SUFFICES ASSUME NEW n, NonceMined(n) PROVE NonceMined(n)'
    BY DEF MinedStep
  <2>1. PICK t \in Known : Rec(t).nonce = n /\ IsMined(Rec(t))
    BY DEF NonceMined, NonceRecords
  <2>2. n = signed[t].nonce /\ Canonical(t)
    BY <2>1 DEF Known, Rec, MinedFacts, MatchInv, Matches, MinedInv, OnChain
  <2>3. t \in DOMAIN diskRecords \/ t \in DOMAIN diskArchive
    BY DEF MinedFacts, JournalFacts, FilesCoverMemory, OnDisk
  <2>4. CASE t \in DOMAIN diskRecords
    <3>1. t \in DOMAIN records /\ Rec(t) = records[t]
      BY <2>4 DEF Known, Rec, MinedFacts, JournalInv, SplitInv
    <3>2. IsMined(diskRecords[t]) /\ diskRecords[t].nonce = n
      BY <2>1, <2>2, <2>4, <3>1 DEF MinedFacts, MinedInv, MatchInv, Matches
    <3> QED
      BY <1>2, <2>4, <3>2 DEF NonceMined, NonceRecords, Known, Rec, IsMined
  <2>5. CASE t \notin DOMAIN diskRecords
    <3>1. diskArchive[t].finalized /\ Verdict(t, diskArchive[t]) /\ diskArchive[t].nonce = n
      BY <2>2, <2>3, <2>5
         DEF MinedFacts, JournalInv, VerdictInv, Verdicts, Archive, MatchInv, Matches
    <3>2. diskArchive[t].state = "mined"
      BY <2>2, <3>1 DEF Verdict, Canonical
    <3> QED
      BY <1>2, <2>3, <2>5, <3>1, <3>2 DEF NonceMined, NonceRecords, Known, Rec, IsMined
  <2> QED
    BY <2>4, <2>5
<1> QED
  BY <1>2, <1>3, <1>4 DEF MinedResult, MinedInv, IsMined

\* Every step keeps mined records mined.
LEMMA NextMined ==
    Steady /\ WalletInv /\ WalletInv' /\ SignedInv /\ VerdictsInv /\ MinedInv /\ MinedHeldInv
        /\ [Next]_vars => MinedResult
<1> SUFFICES ASSUME Steady, WalletInv, WalletInv', SignedInv, VerdictsInv,
                    MinedInv, MinedHeldInv, [Next]_vars
             PROVE  MinedResult
  OBVIOUS
<1>1. MinedFacts
  BY TypeParts, NextSigned, NextFinalChain, NextCanonStays
     DEF MinedFacts, JournalFacts, WalletInv, DurableInv, SignedInv, VerdictsInv
<1>2. StableStep
  BY NextJournal DEF JournalResult
<1>3. CASE UNCHANGED journalVars
  BY <1>1, <1>3, UnchangedMined
<1>4. CASE \E w \in WriteOutcomes : SendPrepare(w)
  BY <1>1, <1>4, PrepareMined
<1>5. CASE \E fresh \in BOOLEAN, w \in WriteOutcomes : BroadcastResult(fresh, w)
  <2>1. PICK fresh \in BOOLEAN, w \in WriteOutcomes : BroadcastResult(fresh, w)
    BY <1>5
  <2>2. UpdateStateAtomicIfVersion(op.tx, op.version, op.state, FALSE, fresh, w)
    BY <2>1 DEF BroadcastResult
  <2>3. op.tx \in DOMAIN records /\ op.version = records[op.tx].version /\ IsMined(records[op.tx])
            => op.state = "mined"
    BY <2>1 DEF BroadcastResult, MinedHeldInv
  <2>4. op.state = "mined" => Canonical(op.tx)
    BY <2>1 DEF BroadcastResult, MinedHeldInv
  <2> QED
    BY <1>1, <2>2, <2>3, <2>4, UpdateMined
<1>6. CASE \E fresh \in BOOLEAN, w \in WriteOutcomes : HistoryApply(fresh, w)
  <2>1. PICK fresh \in BOOLEAN, w \in WriteOutcomes : HistoryApply(fresh, w)
    BY <1>6
  <2>2. \/ UNCHANGED journalVars
        \/ /\ hist.seen.state = "not_found"
           /\ UpdateStateAtomicIfVersion(hist.tx, hist.version, "broadcast_unknown", FALSE, fresh, w)
        \/ UpdateStateAtomicIfVersion(hist.tx, hist.version, hist.seen.state,
                                      hist.seen.finalized, fresh, w)
    BY <2>1 DEF HistoryApply
  <2>3. /\ hist.seen.state = "mined" => Canonical(hist.tx)
        /\ (hist.tx \in DOMAIN records /\ hist.version = records[hist.tx].version
               /\ IsMined(records[hist.tx])) => hist.seen.state = "mined"
    BY <2>1 DEF HistoryApply, MinedHeldInv
  <2>4. CASE /\ hist.seen.state = "not_found"
             /\ UpdateStateAtomicIfVersion(hist.tx, hist.version, "broadcast_unknown", FALSE, fresh, w)
    BY <1>1, <2>3, <2>4, UpdateMined
  <2>5. CASE UpdateStateAtomicIfVersion(hist.tx, hist.version, hist.seen.state,
                                        hist.seen.finalized, fresh, w)
    BY <1>1, <2>3, <2>5, UpdateMined
  <2> QED
    BY <1>3, <2>2, <2>4, <2>5
<1>7. CASE \E w1, w2 \in WriteOutcomes : HistoryArchive(w1, w2)
  BY <1>1, <1>2, <1>7, ArchiveMined DEF HistoryArchive
<1>8. CASE Crash
  BY <1>1, <1>8, LoadMined DEF Crash
<1> QED
  BY <1>3, <1>4, <1>5, <1>6, <1>7, <1>8, OtherSteps DEF JournalStep

\* A record whose version is the one read before has not changed.
LEMMA SameVersion ==
    ASSUME JournalTypeOK, VersionStep, NEW t \in Known, NEW v \in Nat, Before(t, v),
           t \in DOMAIN records', v = records'[t].version
    PROVE  t \in DOMAIN records /\ records'[t] = records[t]
<1>1. t \in DOMAIN records /\ records[t].version \in Nat
      /\ (records'[t] = records[t] \/ records'[t].version = records[t].version + 1)
  BY DEF VersionStep, JournalTypeOK, IsJournal, JournalRecord
<1>2. v <= records[t].version
  BY <1>1 DEF Before
<1> QED
  BY <1>1, <1>2

\* Every step keeps the results that are held right about mined records.
LEMMA NextMinedHeld ==
    Steady /\ WalletInv /\ WalletInv' /\ SignedInv /\ VerdictsInv /\ MinedInv /\ MinedHeldInv
        /\ [Next]_vars => MinedHeldInv'
<1> SUFFICES ASSUME Steady, WalletInv, WalletInv', SignedInv, VerdictsInv,
                    MinedInv, MinedHeldInv, [Next]_vars
             PROVE  MinedHeldInv'
  OBVIOUS
<1>1. /\ JournalTypeOK /\ op \in OpType /\ HistType /\ DurableInv /\ OpVersionInv /\ HistVersionInv
      /\ JournalInv /\ MatchInv /\ CanonStays
  BY TypeParts, NextCanonStays DEF WalletInv, VerdictsInv, SignedInv
<1>2. Idle.pc = "idle" /\ Resting.pc = "idle"
  BY DEF Idle, Resting
<1> DEFINE OpHeld == /\ (op.pc \in {"dispatch", "result"} /\ op.tx \in DOMAIN records
                            /\ op.version = records[op.tx].version) => ~IsMined(records[op.tx])
                     /\ op.pc = "result" => op.state # "mined"
           HistHeld == hist.pc = "observed" =>
                           /\ hist.seen.state = "mined" => Canonical(hist.tx)
                           /\ (hist.tx \in DOMAIN records
                                  /\ hist.version = records[hist.tx].version
                                  /\ IsMined(records[hist.tx])) => hist.seen.state = "mined"
<1>3. OpHeld'
  <2>1. CASE op'.pc \notin {"dispatch", "result"}
    BY <2>1
  <2>2. CASE /\ op.pc \in {"dispatch", "result"} /\ op'.tx = op.tx /\ op'.version = op.version
             /\ op'.pc = "result" => op'.state # "mined"
    <3>1. op.tx \in Known /\ op.version \in Nat /\ Before(op.tx, op.version)
      BY <1>1, <2>2 DEF DurableInv, OpType, OpVersionInv
    <3>2. CASE Crash
      BY <1>2, <3>2 DEF Crash
    <3>3. CASE VersionStep
      <4>1. op.tx \in DOMAIN records' /\ op.version = records'[op.tx].version
               => op.tx \in DOMAIN records /\ records'[op.tx] = records[op.tx]
        BY <1>1, <3>1, <3>3, SameVersion
      <4> QED
        BY <2>2, <4>1 DEF MinedHeldInv, IsMined
    <3> QED
      BY <3>2, <3>3, NextJournal
  <2>3. CASE \E w \in WriteOutcomes : SendPrepare(w)
    <3>1. PICK w \in WriteOutcomes : SendPrepare(w)
      BY <2>3
    <3>2. CASE w # "ok"
      BY <1>2, <2>1, <3>1, <3>2 DEF SendPrepare
    <3>3. CASE w = "ok"
      <4> DEFINE t == Len(signed) + 1
      <4>1. op' = [op EXCEPT !.pc = "dispatch", !.tx = t, !.version = 1]
        BY <3>1, <3>3 DEF SendPrepare
      <4>2. PICK next : AppendOf(next, t) /\ Save(next, w)
        BY <3>1, PrepareShape
      <4> HIDE DEF t
      <4>3. op'.pc = "dispatch" /\ op'.tx = t
        BY <1>1, <4>1 DEF OpType
      <4>4. ~IsMined(records'[t])
        BY <3>3, <4>2 DEF AppendOf, Save, NewRecord, IsMined
      <4> QED
        BY <4>3, <4>4 DEF IsMined
    <3> QED
      BY <3>2, <3>3
  <2>4. CASE RetryDecide
    <3>1. CASE NonceMined(signed[op.tx].nonce)
      <4>1. op'.pc = "replied"
        BY <1>1, <2>4, <3>1 DEF RetryDecide, OpType
      <4> QED
        BY <2>1, <4>1
    <3>2. CASE ~NonceMined(signed[op.tx].nonce)
      <4>1. op'.pc = "dispatch" /\ op'.tx = op.tx /\ records' = records
        BY <1>1, <2>4, <3>2 DEF RetryDecide, OpType, journalVars
      <4>2. ASSUME op.tx \in DOMAIN records PROVE ~IsMined(records[op.tx])
        <5>1. Rec(op.tx) = records[op.tx] /\ records[op.tx].nonce = signed[op.tx].nonce
          BY <1>1, <4>2 DEF Rec, JournalInv, SplitInv, MatchInv, Matches
        <5> QED
          BY <3>2, <4>2, <5>1 DEF NonceMined, NonceRecords, Known
      <4> QED
        BY <4>1, <4>2 DEF IsMined
    <3> QED
      BY <3>1, <3>2
  <2>5. CASE \E delivered, ok \in BOOLEAN : SendTransaction(delivered, ok)
    <3>1. /\ op.pc = "dispatch" /\ op'.tx = op.tx /\ op'.version = op.version
          /\ op'.state # "mined"
      BY <1>1, <2>5 DEF SendTransaction, OpType
    <3> QED
      BY <2>2, <3>1
  <2>6. CASE UNCHANGED vars \/ Chain \/ History
    <3>1. op' = op
      BY <2>6 DEF vars, serviceVars, Chain, Mine, MineForeign, Finalize, Reorg, History, HistoryStart,
                  HistoryObserve, HistorySkip, HistoryApply, HistoryArchive
    <3> QED
      BY <2>1, <2>2, <3>1 DEF MinedHeldInv
  <2>7. CASE QuoteRequest \/ Crash
    <3>1. \A e : [Idle EXCEPT !.pc = "quoting", !.evidence = e].pc = "quoting"
      BY DEF Idle
    <3>2. op'.pc \in {"idle", "quoting"}
      BY <1>2, <2>7, <3>1 DEF QuoteRequest, QuoteGuard, QuoteCreate, QuoteAbort, replacementQuote,
                              ExpireQuote, Crash
    <3> QED
      BY <2>1, <3>2
  <2>8. CASE Send /\ ~\E w \in WriteOutcomes : SendPrepare(w)
    <3>1. op'.pc \notin {"dispatch", "result"}
      BY <1>1, <1>2, <2>8 DEF Send, SendExisting, SendRefused, SendCheck, SendVerify, SendAbort,
                              SendFull, OpType, Idle
    <3> QED
      BY <2>1, <3>1
  <2>9. CASE \/ Return \/ \E t \in Known : RetryFind(t)
             \/ \E fresh \in BOOLEAN, w \in WriteOutcomes : BroadcastResult(fresh, w)
    <3>1. op'.pc \in {"idle", "retry"}
      BY <1>2, <2>9 DEF Return, BroadcastResult, RetryFind, Idle
    <3> QED
      BY <2>1, <3>1
  <2> HIDE DEF OpHeld
  <2> QED
    BY <2>3, <2>4, <2>5, <2>6, <2>7, <2>8, <2>9 DEF Next, Retry, Deliver
<1>4. HistHeld'
  <2>1. CASE hist'.pc # "observed"
    BY <2>1
  <2>2. CASE hist' = hist
    <3>1. CASE hist.pc = "observed"
      <4>1. hist.tx \in Known /\ hist.version \in Nat /\ Before(hist.tx, hist.version)
        BY <1>1, <3>1 DEF HistVersionInv, HistType
      <4>2. VersionStep
        BY <1>2, <2>2, <3>1, NextJournal DEF Crash
      <4>3. hist.tx \in DOMAIN records' /\ hist.version = records'[hist.tx].version
               => hist.tx \in DOMAIN records /\ records'[hist.tx] = records[hist.tx]
        BY <1>1, <4>1, <4>2, SameVersion
      <4>4. hist.tx \in Txs
        BY <1>1, <4>1 DEF DurableInv, FilesCoverMemory
      <4>5. hist.seen.state = "mined" => Canonical(hist.tx)'
        BY <1>1, <2>2, <3>1, <4>4 DEF MinedHeldInv, CanonStays, Canonical, Latest
      <4> QED
        BY <2>2, <3>1, <4>3, <4>5 DEF MinedHeldInv, IsMined
    <3>2. CASE hist.pc # "observed"
      BY <2>2, <3>2
    <3> QED
      BY <3>1, <3>2
  <2>3. CASE \E t \in DOMAIN hist.items : \E seen \in Observations(t) : HistoryObserve(t, seen)
    <3>0. PICK t \in DOMAIN hist.items : \E seen \in Observations(t) : HistoryObserve(t, seen)
      BY <2>3
    <3>1. PICK seen \in Observations(t) : HistoryObserve(t, seen)
      BY <3>0
    <3>2. hist'.tx = t /\ hist'.seen = seen
      BY <1>1, <3>1 DEF HistoryObserve, HistType
    <3>3. UNCHANGED <<records, signed, canon>>
      BY <3>1 DEF HistoryObserve, journalVars, chainVars
    <3>4. seen.state = "mined" <=> Canonical(t)
      BY DEF Observations, Steady
    <3>5. t \in DOMAIN records /\ IsMined(records[t]) => Canonical(t)
      BY DEF MinedInv, OnChain
    <3>6. Canonical(t) <=> Canonical(t)'
      BY <3>3 DEF Canonical, Latest
    <3> QED
      BY <3>2, <3>3, <3>4, <3>5, <3>6 DEF IsMined, Canonical, Latest
  <2>4. CASE HistoryStart \/ \E t \in DOMAIN hist.items : HistorySkip(t)
    <3>1. hist'.pc = "refresh"
      BY <1>1, <2>4 DEF HistoryStart, HistorySkip, HistType, Resting
    <3> QED
      BY <2>1, <3>1
  <2>5. CASE \/ \E fresh \in BOOLEAN, w \in WriteOutcomes : HistoryApply(fresh, w)
             \/ (\E w1, w2 \in WriteOutcomes : HistoryArchive(w1, w2)) \/ Crash
    <3>1. hist' = Resting \/ hist' = [Resting EXCEPT !.pc = "refresh", !.items = hist.items]
      BY <2>5 DEF HistoryApply, HistoryArchive, Crash
    <3>2. /\ Resting.pc = "idle"
          /\ [Resting EXCEPT !.pc = "refresh", !.items = hist.items].pc = "refresh"
      BY DEF Resting
    <3>3. hist'.pc \in {"idle", "refresh"}
      BY <3>1, <3>2
    <3> QED
      BY <2>1, <3>3
  <2>6. History \/ Crash \/ hist' = hist
    BY HistSteps
  <2> HIDE DEF HistHeld
  <2> QED
    BY <2>2, <2>3, <2>4, <2>5, <2>6 DEF History
<1> QED
  BY <1>3, <1>4 DEF MinedHeldInv

\* A step never reopens a nonce.
LEMMA NextOpen ==
    ASSUME WalletInv, SignedInv, MinedStep, [Next]_vars, NEW t \in Txs, Open(t)'
    PROVE  Open(t)
<1>1. signed'[t] = signed[t] /\ signed[t].nonce \in Nat
  BY TypeParts, SignedRecord, NextSigned DEF WalletInv, SignedGrows
<1>2. finalNonce \in Nat /\ finalNonce' \in Nat /\ finalNonce <= finalNonce'
  BY TypeParts, NextFinalChain DEF WalletInv, SignedInv, ChainType, FinalChain
<1>3. ~NonceMined(signed[t].nonce)' /\ signed[t].nonce >= finalNonce'
  BY <1>1 DEF Open, NonceMined, NonceRecords
<1>4. ~NonceMined(signed[t].nonce)
  BY <1>1, <1>3 DEF MinedStep, NonceMined, NonceRecords
<1> QED
  BY <1>1, <1>2, <1>3, <1>4 DEF Open

\* A Send of a new payment is only checked when nothing is unresolved.
LEMMA CheckFindsNothing ==
    ASSUME WalletInv, SignedInv, SyncInv, ~storageFault, NEW e \in FinalizedNonceAt, CheckInFlight(e)
    PROVE  \A t \in OnDisk : ~Open(t)
<1> SUFFICES ASSUME NEW t \in OnDisk, Open(t) PROVE FALSE
  OBVIOUS
<1>1. t \in Known /\ t \in Txs
  BY DEF SyncInv, WalletInv, DurableInv
<1>2. Rec(t).nonce = signed[t].nonce
  BY <1>1 DEF Known, Rec, SignedInv, MatchInv, Matches
<1>3. e \in Nat /\ finalNonce \in Nat /\ signed[t].nonce \in Nat /\ e <= finalNonce
  BY <1>1, TypeParts, SignedRecord DEF WalletInv, ChainType, FinalizedNonceAt
<1>4. signed[t].nonce \in InFlightNonces(e)
  BY <1>1, <1>2, <1>3 DEF Open, InFlightNonces
<1> QED
  BY <1>4 DEF CheckInFlight, HasInFlightTx

\* Every step keeps what is known about unresolved nonces.
LEMMA NextFlight ==
    WalletInv /\ WalletInv' /\ SignedInv /\ SyncInv /\ FlightInv /\ MinedStep /\ [Next]_vars
        => FlightInv'
<1> SUFFICES ASSUME WalletInv, WalletInv', SignedInv, SyncInv, FlightInv, MinedStep, [Next]_vars
             PROVE  FlightInv'
  OBVIOUS
<1>1. /\ JournalTypeOK /\ op \in OpType /\ QuotesType /\ SignedGrows /\ Known \subseteq Known'
      /\ OnDisk \subseteq Txs /\ Known \subseteq OnDisk /\ ChainType /\ issued \in Nat
  BY TypeParts, NextSigned, NextKnown DEF WalletInv, DurableInv, FilesCoverMemory
<1>2. Idle.pc = "idle"
  BY DEF Idle
<1>3. \A t \in Txs : Open(t)' => Open(t)
  BY NextOpen
<1> DEFINE OneOpen == \A t, u \in OnDisk : Open(t) /\ Open(u) => signed[t].nonce = signed[u].nonce
           NoneOpen == (op.pc \in {"checked", "ready"} /\ quotes[op.quote].of = 0)
                           => \A t \in OnDisk : ~Open(t)
           Replacing == \A q \in DOMAIN quotes : quotes[q].of # 0 =>
                            quotes[q].of \in Known /\ quotes[q].nonce = signed[quotes[q].of].nonce
<1>4. OneOpen /\ NoneOpen /\ Replacing
  BY DEF FlightInv
<1>5. CASE \E w \in WriteOutcomes : SendPrepare(w)
  <2>1. PICK w \in WriteOutcomes : SendPrepare(w)
    BY <1>5
  <2>0. PICK new, q : new = Len(signed) + 1 /\ q = quotes[op.quote]
    OBVIOUS
  <2>2. OnDisk' \subseteq OnDisk \cup {new} /\ signed'[new].nonce = q.nonce
    BY <2>0, <2>1, PrepareDurable, PrepareSigned DEF PrepareFacts
  <2>3. op.pc = "ready" /\ op.quote \in DOMAIN quotes /\ quotes' = quotes /\ finalNonce' = finalNonce
    BY <2>1 DEF SendPrepare, WalletInv, DurableInv
  <2>4. ASSUME NEW t \in OnDisk, Open(t)', Open(new)'
        PROVE  signed[t].nonce = q.nonce
    <3>1. CASE q.of = 0
      BY <1>1, <1>3, <1>4, <2>0, <2>3, <2>4, <3>1
    <3>2. CASE q.of # 0
      <4>1. q.of \in Known /\ q.nonce = signed[q.of].nonce
        BY <1>4, <2>0, <2>3, <3>2
      <4>2. q.of \in Txs /\ q.of \in OnDisk /\ signed'[q.of] = signed[q.of]
        BY <1>1, <4>1 DEF SignedGrows
      <4>3. ~NonceMined(q.nonce)' /\ q.nonce >= finalNonce
        BY <2>2, <2>3, <2>4 DEF Open, NonceMined, NonceRecords
      <4>4. Open(q.of)
        BY <2>3, <4>1, <4>3 DEF Open, MinedStep, NonceMined, NonceRecords
      <4> QED
        BY <1>1, <1>3, <1>4, <2>4, <4>1, <4>2, <4>4
    <3> QED
      BY <3>1, <3>2
  <2>5. OneOpen'
    <3> SUFFICES ASSUME NEW t \in OnDisk', NEW u \in OnDisk', Open(t)', Open(u)'
                 PROVE  signed'[t].nonce = signed'[u].nonce
      OBVIOUS
    <3>1. \A v \in OnDisk : signed'[v] = signed[v]
      BY <1>1 DEF SignedGrows
    <3>2. CASE t \in OnDisk /\ u \in OnDisk
      BY <1>1, <1>3, <1>4, <3>1, <3>2
    <3>3. CASE t = new /\ u \in OnDisk
      BY <2>2, <2>4, <3>1, <3>3
    <3>4. CASE u = new /\ t \in OnDisk
      BY <2>2, <2>4, <3>1, <3>4
    <3> QED
      BY <2>2, <3>2, <3>3, <3>4
  <2>6. op'.pc \in {"idle", "dispatch"}
    BY <1>1, <1>2, <2>1 DEF SendPrepare, OpType
  <2>7. Replacing'
    BY <1>1, <1>4, <2>3 DEF SignedGrows
  <2> HIDE DEF OneOpen, Replacing
  <2>8. OneOpen' /\ NoneOpen' /\ Replacing'
    BY <2>5, <2>6, <2>7
  <2> QED
    BY <2>8 DEF FlightInv, OneOpen, Replacing
<1>6. CASE ~\E w \in WriteOutcomes : SendPrepare(w)
  <2>1. OnDisk' \subseteq OnDisk /\ signed' = signed
    BY <1>6, NextKnown, SignedSteps
  <2>2. OneOpen'
    BY <1>1, <1>3, <1>4, <2>1
  <2>3. \A t \in OnDisk' : Open(t)' => t \in OnDisk /\ Open(t)
    BY <1>1, <1>3, <2>1
  <2>4. NoneOpen'
    <3>1. CASE op'.pc \notin {"checked", "ready"}
      BY <3>1
    <3>2. CASE op.pc \in {"checked", "ready"} /\ op'.quote = op.quote /\ quotes' = quotes
      BY <1>4, <2>3, <3>2
    <3>3. CASE \E q \in DOMAIN quotes, e \in FinalizedNonceAt : SendCheck(q, e)
      <4>1. PICK q \in DOMAIN quotes, e \in FinalizedNonceAt : SendCheck(q, e)
        BY <3>3
      <4>2. op'.quote = q /\ quotes' = quotes /\ ~storageFault
        BY <4>1 DEF SendCheck, Idle
      <4>3. CASE quotes[q].of # 0
        BY <4>2, <4>3
      <4>4. CASE quotes[q].of = 0
        <5>1. CheckInFlight(e)
          BY <4>1, <4>4 DEF SendCheck
        <5>2. \A t \in OnDisk : ~Open(t)
          BY <4>2, <5>1, CheckFindsNothing
        <5> QED
          BY <2>3, <5>2
      <4> QED
        BY <4>3, <4>4
    <3>4. CASE SendVerify \/ SendAbort
      BY <1>1, <3>2, <3>4 DEF SendVerify, SendAbort, OpType
    <3>5. CASE UNCHANGED vars \/ Chain \/ History
      <4>1. op' = op /\ quotes' = quotes
        BY <3>5 DEF vars, serviceVars, Chain, Mine, MineForeign, Finalize, Reorg, History,
                    HistoryStart, HistoryObserve, HistorySkip, HistoryApply, HistoryArchive
      <4> QED
        BY <3>1, <3>2, <4>1
    <3>6. CASE QuoteRequest \/ Crash \/ Deliver \/ Retry
      <4>1. \A e : [Idle EXCEPT !.pc = "quoting", !.evidence = e].pc = "quoting"
        BY DEF Idle
      <4>2. QuoteRequest \/ Crash => op'.pc \in {"idle", "quoting"}
        BY <1>2, <4>1 DEF QuoteRequest, QuoteGuard, QuoteCreate, QuoteAbort,
                          replacementQuote, ExpireQuote, Crash
      <4>3. Deliver => op'.pc \in {"idle", "result"}
        BY <1>1, <1>2 DEF Deliver, SendTransaction, BroadcastResult, Return, OpType
      <4>4. Retry => op'.pc \in {"retry", "replied", "dispatch"}
        BY <1>1 DEF Retry, RetryFind, RetryDecide, OpType, Idle
      <4> QED
        BY <3>1, <3>6, <4>2, <4>3, <4>4
    <3>7. CASE SendFull \/ \E q \in 1 .. issued : SendExisting(q) \/ SendRefused(q)
      <4>1. op'.pc \in {"idle", "replied", "rejected"}
        BY <1>2, <3>7 DEF SendFull, SendExisting, SendRefused, Idle
      <4> QED
        BY <3>1, <4>1
    <3> HIDE DEF NoneOpen
    <3> QED
      BY <1>6, <3>3, <3>4, <3>5, <3>6, <3>7 DEF Next, Send
  <2>5. Replacing'
    <3>1. CASE /\ DOMAIN quotes' \subseteq DOMAIN quotes
               /\ \A q \in DOMAIN quotes' : quotes'[q] = quotes[q]
      BY <1>1, <1>4, <2>1, <3>1
    <3>2. ASSUME NEW r, AddQuote(r), r.of = 0 \/ (r.of \in Known /\ r.nonce = signed[r.of].nonce)
          PROVE  Replacing'
      <4>1. /\ DOMAIN quotes' = DOMAIN quotes \cup {issued + 1} /\ quotes'[issued + 1] = r
            /\ \A q \in DOMAIN quotes : q # issued + 1 => quotes'[q] = quotes[q]
        BY <3>2 DEF AddQuote, With
      <4> QED
        BY <1>1, <1>4, <2>1, <3>2, <4>1
    <3>3. CASE \E n \in PendingNonceAt : QuoteCreate(n)
      <4>1. PICK n \in PendingNonceAt : QuoteCreate(n)
        BY <3>3
      <4> DEFINE r == [nonce |-> n, of |-> 0, count |-> 0, root |-> issued + 1]
      <4>2. AddQuote(r) /\ r.of = 0
        BY <4>1 DEF QuoteCreate
      <4> HIDE DEF r
      <4> QED
        BY <3>2, <4>2
    <3>4. CASE \E t \in Known : replacementQuote(t)
      <4>1. PICK t \in Known : replacementQuote(t)
        BY <3>4
      <4> DEFINE r == [nonce |-> Rec(t).nonce, of |-> t,
                       count |-> Cardinality(NonceRecords(Rec(t).nonce)), root |-> signed[t].root]
      <4>2. AddQuote(r) /\ r.of = t /\ r.nonce = Rec(t).nonce
        BY <4>1 DEF replacementQuote
      <4> HIDE DEF r
      <4>3. Rec(t).nonce = signed[t].nonce
        BY DEF Known, Rec, SignedInv, MatchInv, Matches
      <4> QED
        BY <3>2, <4>2, <4>3
    <3>5. CASE ~ \/ \E n \in PendingNonceAt : QuoteCreate(n)
                 \/ \E t \in Known : replacementQuote(t)
      <4>1. quotes' = quotes \/ quotes' = EmptyJournal \/ \E q : quotes' = Without(quotes, q)
        BY <1>6, <3>5 DEF Next, vars, serviceVars, Chain, Mine, MineForeign, Finalize, Reorg,
           QuoteRequest, QuoteGuard, QuoteAbort, ExpireQuote, Send, SendExisting, SendRefused,
           SendCheck, SendVerify, SendAbort, SendFull, Retry, RetryFind, RetryDecide, Deliver,
           SendTransaction, BroadcastResult, Return, History, HistoryStart, HistoryObserve,
           HistorySkip, HistoryApply, HistoryArchive, Crash
      <4>2. /\ DOMAIN quotes' \subseteq DOMAIN quotes
            /\ \A q \in DOMAIN quotes' : quotes'[q] = quotes[q]
        BY <4>1 DEF Without, EmptyJournal
      <4> QED
        BY <3>1, <4>2
    <3> QED
      BY <3>3, <3>4, <3>5
  <2> HIDE DEF OneOpen, NoneOpen, Replacing
  <2>6. OneOpen' /\ NoneOpen' /\ Replacing'
    BY <2>2, <2>4, <2>5
  <2> QED
    BY <2>6 DEF FlightInv, OneOpen, NoneOpen, Replacing
<1> QED
  BY <1>5, <1>6

\* A set whose elements are all equal has at most one.
LEMMA AtMostOne ==
    ASSUME NEW S, \A x, y \in S : x = y
    PROVE  Cardinality(S) <= 1
<1>1. CASE S = {}
  BY <1>1, FS_EmptySet
<1>2. CASE S # {}
  <2>1. PICK x \in S : TRUE
    BY <1>2
  <2>2. S = {x}
    BY <2>1
  <2> QED
    BY <2>2, FS_Singleton
<1> QED
  BY <1>1, <1>2

\* On a chain without reorganizations, asked through nodes that are not behind,
\* at most one nonce is unresolved at a time (checkInFlight on quote and on send):
\* through crashes, failed writes, speed-ups, archival and foreign transactions.
THEOREM OneNonceAtATime == ASSUME Steady PROVE Spec => []SingleOutstandingNonce
<1>1. Init => OutstandingInv
  BY EmptyIsJournal DEF Init, JournalInit, OutstandingInv, MinedInv, OnChain, MinedHeldInv,
     FlightInv, OnDisk, Idle, Resting
<1>2. /\ WalletInv /\ WalletInv' /\ SignedInv /\ VerdictsInv /\ SyncInv /\ OutstandingInv
      /\ [Next]_vars
      => OutstandingInv'
  BY NextMined, NextMinedHeld, NextFlight DEF OutstandingInv, MinedResult
<1>3. Spec => []OutstandingInv
  BY <1>1, <1>2, WalletInvariant, SignedInvariant, VerdictsInvariant, SyncInvariant, PTL DEF Spec
<1>4. WalletInv /\ SignedInv /\ OutstandingInv => SingleOutstandingNonce
  <2> SUFFICES ASSUME WalletInv, SignedInv, OutstandingInv,
                      NEW n \in InFlightNonces(finalNonce), NEW m \in InFlightNonces(finalNonce)
               PROVE  n = m
    BY AtMostOne DEF SingleOutstandingNonce
  <2>1. PICK t \in Known : Rec(t).nonce = n /\ ~NonceMined(n) /\ n >= finalNonce
    BY DEF InFlightNonces
  <2>2. PICK u \in Known : Rec(u).nonce = m /\ ~NonceMined(m) /\ m >= finalNonce
    BY DEF InFlightNonces
  <2>3. Rec(t).nonce = signed[t].nonce /\ Rec(u).nonce = signed[u].nonce
    BY DEF Known, Rec, SignedInv, MatchInv, Matches
  <2>4. t \in OnDisk /\ u \in OnDisk
    BY DEF WalletInv, DurableInv, FilesCoverMemory
  <2> QED
    BY <2>1, <2>2, <2>3, <2>4 DEF OutstandingInv, FlightInv, Open
<1> QED
  BY <1>3, <1>4, WalletInvariant, SignedInvariant, PTL
=============================================================================
