------------------------- MODULE SolanaWalletProofs -------------------------
(***************************************************************************)
(* Theorems about SolanaWallet, for every value of its constants.          *)
(***************************************************************************)
EXTENDS SolanaWallet, FiniteSetTheorems, SequenceTheorems, WellFoundedInduction, TLAPS

-----------------------------------------------------------------------------
(* The inductive invariant. *)

\* The transaction cannot get onto the chain any more.
Gone(t) == t \notin DOMAIN landed /\ signed[t].lastValid <= confirmed

Dead(t) == Final(t) \/ Gone(t)

HeightsInv == final <= confirmed /\ confirmed <= tip

\* What a journal, in memory or on disk, says of its transactions is true, and only
\* its last transaction can still be outstanding.
Sound(journal) ==
    \A i \in 1..Len(journal) :
        /\ journal[i].tx \in Txs
        /\ journal[i].finalized => Final(journal[i].tx)
        /\ (~lagging /\ journal[i].state = "expired_unconfirmed") => Gone(journal[i].tx)
        /\ (~lagging /\ i < Len(journal)) => Dead(journal[i].tx)

\* The file is behind the memory by at most the newest record, and only after a
\* failed write.
FileInv ==
    /\ Len(disk) <= Len(records) /\ Len(records) <= Len(disk) + 1
    /\ \A i \in 1..Len(disk) : disk[i].tx = records[i].tx
    /\ ~fault => disk = records
    /\ wire \subseteq TxsOf(disk)

\* What the operation under way has made sure of.
OpInv ==
    /\ op.pc = "ready" => ~fault /\ ~hasPending /\ op.quote \in DOMAIN quotes
    /\ op.pc \in {"dispatch", "result"} => ~fault /\ op.tx \in TxsOf(disk)
    /\ (op.pc = "statuses" /\ op.known /\ ~lagging) => op.height <= confirmed

SolanaInv == TypeOK /\ HeightsInv /\ Sound(records) /\ Sound(disk) /\ FileInv /\ OpInv

-----------------------------------------------------------------------------
(* Journals. *)

\* A journal in which records were replaced in place (BroadcastResult and
\* HistoryStatuses build one) is a sequence of the same length.
LEMMA MapSeq ==
    ASSUME NEW T, NEW n \in Nat, NEW f \in [1..n -> T]
    PROVE  f \in Seq(T) /\ Len(f) = n /\ DOMAIN f = 1..n
<1>1. f \in Seq(T)
  BY SeqDef, Zenon
<1>2. DOMAIN f = 1..Len(f) /\ Len(f) \in Nat /\ DOMAIN f = 1..n
  BY <1>1, LenProperties
<1>3. Len(f) = n
  <2>1. \A j \in Nat : j \in 1..Len(f) <=> j \in 1..n
    BY <1>2
  <2>2. n <= Len(f)
    BY <2>1, <1>2
  <2>3. Len(f) <= n
    BY <2>1, <1>2
  <2> QED
    BY <2>2, <2>3, <1>2
<1> QED
  BY <1>1, <1>2, <1>3

\* The journal with the record Send adds.
LEMMA AppendSeq ==
    ASSUME NEW T, NEW s \in Seq(T), NEW r \in T
    PROVE  /\ Append(s, r) \in Seq(T) /\ Len(Append(s, r)) = Len(s) + 1
           /\ \A i \in 1..Len(s) : Append(s, r)[i] = s[i]
           /\ Append(s, r)[Len(s) + 1] = r
           /\ Len(s) \in Nat
OBVIOUS

\* TxsOf in terms of positions.
LEMMA TxsOfSeq ==
    ASSUME NEW s \in Seq(Record)
    PROVE  TxsOf(s) = {s[i].tx : i \in 1..Len(s)} /\ Len(s) \in Nat
BY LenProperties DEF TxsOf

\* The names of the parts of the type invariant.
LEMMA TypeParts ==
    ASSUME TypeOK
    PROVE  /\ ChainTypeOK
           /\ records \in Seq(Record) /\ disk \in Seq(Record)
           /\ Len(records) \in Nat /\ Len(disk) \in Nat /\ Len(signed) \in Nat
           /\ final \in Nat /\ tip \in Nat /\ confirmed \in Nat
           /\ \A t \in Txs : signed[t] \in [quote : Nat, lastValid : Nat]
           /\ \A t \in Txs : signed[t].lastValid \in Nat
           /\ \A t \in DOMAIN landed : t \in Txs /\ landed[t] \in Nat
<1>1. /\ ChainTypeOK
      /\ records \in Seq(Record) /\ disk \in Seq(Record) /\ confirmed \in Nat
  BY DEF TypeOK
<1>2. /\ signed \in Seq([quote : Nat, lastValid : Nat])
      /\ final \in Nat /\ tip \in Nat /\ wire \subseteq Txs
      /\ DOMAIN landed \subseteq wire /\ landed \in [DOMAIN landed -> Nat]
  BY <1>1 DEF ChainTypeOK
<1>3. Len(records) \in Nat /\ Len(disk) \in Nat /\ Len(signed) \in Nat
  BY <1>1, <1>2, LenProperties
<1>4. \A t \in Txs : signed[t] \in [quote : Nat, lastValid : Nat]
  BY <1>2, ElementOfSeq DEF Txs
<1>5. \A t \in Txs : signed[t].lastValid \in Nat
  BY <1>4
<1>6. \A t \in DOMAIN landed : t \in Txs /\ landed[t] \in Nat
  BY <1>2
<1> QED
  BY <1>1, <1>2, <1>3, <1>4, <1>5, <1>6

-----------------------------------------------------------------------------
(* What the chain never takes back. *)

\* A step keeps what is final and what can no longer get onto the chain.
Keeps ==
    /\ lagging' = lagging
    /\ Txs \subseteq Txs'
    /\ \A t \in Txs : (Final(t) => Final(t)') /\ (Gone(t) => Gone(t)')

\* A step of the wallet that signs nothing.
LEMMA QuietKeeps ==
    ASSUME UNCHANGED <<signed, final, landed, lagging, confirmed>>
    PROVE  Keeps
BY DEF Keeps, Final, Gone, Txs

\* Blocks, finality and forks keep it, because a fork stays above what is confirmed
\* and a block includes only what is still valid on top of the newest one.
LEMMA ChainKeeps ==
    ASSUME TypeOK, HeightsInv, ChainNext
    PROVE  Keeps /\ HeightsInv' /\ TypeOK'
<1> USE DEF HeightsInv
<1>t. /\ final \in Nat /\ tip \in Nat /\ confirmed \in Nat /\ Len(signed) \in Nat
      /\ \A t \in Txs : signed[t].lastValid \in Nat
      /\ \A t \in DOMAIN landed : t \in Txs /\ landed[t] \in Nat
  BY TypeParts
<1>c. ChainTypeOK
  BY DEF TypeOK
<1>d. ASSUME ChainTypeOK', confirmed' \in Nat, UNCHANGED <<serviceVars, spent>>
      PROVE  TypeOK'
  BY <1>d DEF TypeOK, serviceVars
<1>1. ASSUME NEW S \in SUBSET Includable, Produce(S, tip + 1),
             UNCHANGED <<serviceVars, confirmed, spent>>
      PROVE  Keeps /\ HeightsInv' /\ TypeOK'
  <2>1. /\ landed' = [t \in DOMAIN landed \cup S |-> IF t \in S THEN tip + 1 ELSE landed[t]]
        /\ tip' = tip + 1 /\ blocks' = blocks \cup {tip + 1}
        /\ UNCHANGED <<signed, wire, final, forks, lagging>> /\ confirmed' = confirmed
    BY <1>1 DEF Produce
  <2>2. \A t \in S : t \in wire /\ t \notin DOMAIN landed /\ tip < signed[t].lastValid
    BY DEF Includable
  <2>3. DOMAIN landed' = DOMAIN landed \cup S
    BY <2>1
  <2>4. Txs' = Txs /\ \A t \in DOMAIN landed : landed'[t] = landed[t]
    BY <2>1, <2>2 DEF Txs
  <2>5. \A t \in Txs : Final(t) => Final(t)'
    BY <2>1, <2>3, <2>4 DEF Final
  <2>6. \A t \in Txs : Gone(t) => Gone(t)'
    BY <2>1, <2>2, <2>3, <1>t DEF Gone
  <2>7. landed' \in [DOMAIN landed' -> Nat]
    BY <2>1, <2>3, <1>t
  <2>8. ChainTypeOK'
    BY <2>1, <2>2, <2>3, <2>4, <2>7, <1>t, <1>c DEF ChainTypeOK
  <2> QED
    BY <2>1, <2>4, <2>5, <2>6, <2>8, <1>t, <1>1, <1>d DEF Keeps
<1>2. ASSUME final < Firm, Finalize(final + 1), UNCHANGED <<serviceVars, confirmed, spent>>
      PROVE  Keeps /\ HeightsInv' /\ TypeOK'
  <2>1. /\ final' = final + 1
        /\ UNCHANGED <<signed, wire, blocks, tip, landed, forks, lagging, confirmed>>
    BY <1>2 DEF Finalize
  <2>2. Txs' = Txs /\ \A t \in Txs : (Final(t) => Final(t)') /\ (Gone(t) => Gone(t)')
    BY <2>1, <1>t DEF Txs, Final, Gone
  <2>3. ChainTypeOK'
    BY <2>1, <2>2, <1>t, <1>c DEF ChainTypeOK
  <2> QED
    BY <2>1, <2>2, <2>3, <1>t, <1>2, <1>d DEF Keeps, Firm
<1>3. ASSUME NEW keep \in Firm .. tip - 1, Fork(keep), UNCHANGED <<serviceVars, confirmed, spent>>
      PROVE  Keeps /\ HeightsInv' /\ TypeOK'
  <2>1. /\ keep \in blocks /\ forks' = forks + 1 /\ tip' = keep
        /\ blocks' = {b \in blocks : b <= keep}
        /\ landed' = [t \in {u \in DOMAIN landed : landed[u] <= keep} |-> landed[t]]
        /\ UNCHANGED <<signed, wire, final, lagging>> /\ confirmed' = confirmed
    BY <1>3 DEF Fork
  <2>2. DOMAIN landed' = {u \in DOMAIN landed : landed[u] <= keep}
    BY <2>1
  <2>3. keep \in Nat /\ confirmed <= keep /\ final <= keep
    BY <1>t DEF Firm
  <2>4. Txs' = Txs /\ \A t \in DOMAIN landed' : landed'[t] = landed[t]
    BY <2>1, <2>2 DEF Txs
  <2>5. \A t \in Txs : Final(t) => Final(t)'
    BY <2>1, <2>2, <2>3, <2>4, <1>t DEF Final
  <2>6. \A t \in Txs : Gone(t) => Gone(t)'
    BY <2>1, <2>2 DEF Gone
  <2>7. landed' \in [DOMAIN landed' -> Nat]
    BY <2>1, <2>2, <1>t
  <2>8. ChainTypeOK'
    BY <2>1, <2>2, <2>3, <2>4, <2>7, <1>c DEF ChainTypeOK
  <2> QED
    BY <2>1, <2>3, <2>4, <2>5, <2>6, <2>8, <1>t, <1>3, <1>d DEF Keeps
<1>4. ASSUME Confirm PROVE Keeps /\ HeightsInv' /\ TypeOK'
  <2>1. /\ confirmed < tip /\ confirmed' = confirmed + 1
        /\ UNCHANGED <<signed, wire, blocks, tip, final, landed, forks, lagging>>
        /\ UNCHANGED <<serviceVars, spent>>
    BY <1>4 DEF Confirm, chainVars
  <2>2. Txs' = Txs /\ \A t \in Txs : (Final(t) => Final(t)') /\ (Gone(t) => Gone(t)')
    BY <2>1, <1>t DEF Txs, Final, Gone
  <2>3. ChainTypeOK'
    BY <2>1, <2>2, <1>c DEF ChainTypeOK
  <2> QED
    BY <2>1, <2>2, <2>3, <1>t, <1>d DEF Keeps
<1> QED
  BY <1>1, <1>2, <1>3, <1>4 DEF ChainNext, ChainStep

\* What is true of the records stays true when a step leaves the records alone.
LEMMA RecordsKeep ==
    ASSUME Sound(records), Keeps, records' = records
    PROVE  Sound(records)'
BY DEF Sound, Keeps, Dead

\* The same for the file.
LEMMA DiskKeep ==
    ASSUME Sound(disk), Keeps, disk' = disk
    PROVE  Sound(disk)'
BY DEF Sound, Keeps, Dead

-----------------------------------------------------------------------------
(* The rotation of History. *)

\* A non-empty set of numbers has a least element: induction for the next lemma.
LEMMA LeastElement ==
    ASSUME NEW T \in SUBSET Nat, T # {}
    PROVE  \E x \in T : \A y \in T : x <= y
<1>1. \A x, y \in Nat : <<x, y>> \in OpToRel(<, Nat) <=> x < y
  BY DEF OpToRel
<1>2. PICK x \in T : \A y \in T : ~ (<<y, x>> \in OpToRel(<, Nat))
  BY NatLessThanWellFounded, WFMin
<1>3. \A y \in T : ~ (y < x)
  BY <1>1, <1>2
<1>4. \A y \in T : x <= y
  BY <1>3
<1> QED
  BY <1>4

\* A refresh visits some number of positions (Visited is well defined): the batch
\* fills up one record at a time, so it is full exactly once or never.
LEMMA VisitedIsPosition ==
    ASSUME TypeOK
    PROVE  Visited \in 0 .. Len(records)
<1> DEFINE L == Len(records)
           A(n) == {Visit(k) : k \in 0 .. n - 1} \cap Unresolved
           asked(n) == Cardinality(A(n))
           T == {v \in 0 .. L : asked(v) >= Batch \/ v = L}
<1>1. L \in Nat /\ Batch \in Nat \ {0}
  BY TypeParts, SolanaAssumption
<1>2. \A n \in Nat : IsFiniteSet(A(n)) /\ asked(n) \in Nat
  <2>1. IsFiniteSet(Positions)
    BY <1>1, FS_Interval DEF Positions
  <2>2. IsFiniteSet(Unresolved)
    BY <2>1, FS_Subset DEF Unresolved
  <2>3. \A n \in Nat : A(n) \subseteq Unresolved
    OBVIOUS
  <2> HIDE DEF A
  <2> QED
    BY <2>2, <2>3, FS_Subset, FS_CardinalityType
<1>3. asked(0) = 0
  <2>1. A(0) = {}
    OBVIOUS
  <2> QED
    BY <2>1, FS_EmptySet
<1>4. \A n \in Nat : asked(n + 1) <= asked(n) + 1
  <2> SUFFICES ASSUME NEW n \in Nat PROVE asked(n + 1) <= asked(n) + 1
    OBVIOUS
  <2>1. 0 .. (n + 1) - 1 = (0 .. n - 1) \cup {n}
    BY <1>1
  <2>2. A(n + 1) = A(n) \/ A(n + 1) = A(n) \cup {Visit(n)}
    BY <2>1, Zenon
  <2> HIDE DEF A
  <2>3. \A x : Cardinality(A(n) \cup {x}) = IF x \in A(n) THEN asked(n) ELSE asked(n) + 1
    BY <1>2, FS_AddElement
  <2>4. Cardinality(A(n + 1)) = asked(n) \/ Cardinality(A(n + 1)) = asked(n) + 1
    BY <2>2, <2>3
  <2> QED
    BY <2>4, <1>2
<1> HIDE DEF A
<1>5. L \in T /\ T \in SUBSET Nat
  BY <1>1
<1>6. PICK v \in T : \A y \in T : v <= y
  BY <1>5, LeastElement, Zenon
<1>7. \A n \in 0 .. v - 1 : asked(n) < Batch
  <2> SUFFICES ASSUME NEW n \in 0 .. v - 1, ~(asked(n) < Batch) PROVE FALSE
    OBVIOUS
  <2>1. v \in 0 .. L /\ n \in 0 .. L /\ n \in Nat /\ ~(v <= n)
    BY <1>1, <1>6
  <2>2. asked(n) >= Batch
    BY <2>1, <1>2, <1>1
  <2>3. n \in T
    BY <2>1, <2>2
  <2> QED
    BY <2>1, <2>3, <1>6
<1>8. asked(v) = Batch \/ v = L
  <2> SUFFICES ASSUME v # L PROVE asked(v) = Batch
    OBVIOUS
  <2>1. v \in Nat /\ asked(v) >= Batch
    BY <1>5, <1>6
  <2>2. v # 0
    BY <2>1, <1>3, <1>1
  <2>3. v - 1 \in Nat /\ v - 1 \in 0 .. v - 1 /\ (v - 1) + 1 = v
    BY <2>1, <2>2
  <2>4. asked(v - 1) < Batch /\ asked(v) <= asked(v - 1) + 1
    BY <2>3, <1>7, <1>4
  <2> HIDE DEF asked
  <2>5. asked(v) \in Nat /\ asked(v - 1) \in Nat
    BY <2>1, <2>3, <1>2 DEF asked
  <2> QED
    BY <2>1, <2>4, <2>5, <1>1
<1> HIDE DEF T
<1>9. v \in 0 .. Len(records)
  BY <1>6 DEF T
<1> QED
  BY <1>7, <1>8, <1>9 DEF Visited, A

\* The rotation stays a position.
LEMMA NextOffsetType ==
    ASSUME TypeOK
    PROVE  NextOffset \in Nat
<1>1. Visited \in Nat /\ historyOffset \in Nat /\ Len(records) \in Nat
  BY VisitedIsPosition, TypeParts DEF TypeOK
<1>2. records # <<>> => Len(records) > 0
  BY EmptySeq, TypeParts
<1>3. \A a \in Nat, b \in Nat \ {0} : a % b \in Nat
  OBVIOUS
<1>4. historyOffset + Visited \in Nat
  BY <1>1
<1> QED
  BY <1>1, <1>2, <1>3, <1>4 DEF NextOffset

-----------------------------------------------------------------------------
(* persist. *)

\* The journal `next` has the records of s.records, in their order, some of them
\* with another state, and is sound.
Revised(next) ==
    /\ next \in Seq(Record) /\ Len(next) = Len(records)
    /\ \A i \in 1..Len(records) : next[i].tx = records[i].tx
    /\ Sound(next)

\* The transactions of a revised journal are the same.
LEMMA RevisedTxs ==
    ASSUME TypeOK, NEW next, Revised(next)
    PROVE  TxsOf(next) = TxsOf(records)
<1>1. TxsOf(next) = {next[i].tx : i \in 1..Len(records)}
  BY TxsOfSeq DEF Revised
<1>2. TxsOf(records) = {records[i].tx : i \in 1..Len(records)}
  BY TxsOfSeq, TypeParts
<1> QED
  BY <1>1, <1>2 DEF Revised

\* The file names what the memory names, apart from the newest record.
LEMMA FileTxs ==
    ASSUME TypeOK, FileInv
    PROVE  /\ TxsOf(disk) \subseteq TxsOf(records)
           /\ TxsOf(records) = TxsOf(disk)
                \/ TxsOf(records) = TxsOf(disk) \cup {records[Len(records)].tx}
           /\ ~fault => TxsOf(records) = TxsOf(disk)
<1>1. TxsOf(disk) = {disk[i].tx : i \in 1..Len(disk)} /\ Len(disk) \in Nat
  BY TxsOfSeq, TypeParts
<1>2. TxsOf(records) = {records[i].tx : i \in 1..Len(records)} /\ Len(records) \in Nat
  BY TxsOfSeq, TypeParts
<1>3. TxsOf(disk) = {records[i].tx : i \in 1..Len(disk)}
  BY <1>1 DEF FileInv
<1>4. CASE Len(records) = Len(disk)
  BY <1>2, <1>3, <1>4
<1>5. CASE Len(records) = Len(disk) + 1
  <2>1. 1..Len(records) = (1..Len(disk)) \cup {Len(records)}
    BY <1>1, <1>2, <1>5
  <2>2. TxsOf(records) = TxsOf(disk) \cup {records[Len(records)].tx}
    BY <1>2, <1>3, <2>1, Zenon
  <2>3. fault
    BY <1>1, <1>5 DEF FileInv
  <2> QED
    BY <2>2, <2>3
<1>6. Len(records) = Len(disk) \/ Len(records) = Len(disk) + 1
  BY <1>1, <1>2 DEF FileInv
<1> QED
  BY <1>4, <1>5, <1>6

\* A write of a revised journal, whatever comes of it, keeps memory and file sound and
\* the file at most one record behind.
LEMMA PersistRevised ==
    ASSUME SolanaInv, NEW next, Revised(next), NEW w \in WriteOutcome, persist(next, w),
           UNCHANGED <<chainVars, confirmed>>
    PROVE  /\ Sound(records)' /\ Sound(disk)' /\ FileInv'
           /\ records' \in Seq(Record) /\ disk' \in Seq(Record)
           /\ fault' \in BOOLEAN /\ spent' \in [crashes : Nat, writeErrors : Nat]
           /\ TxsOf(disk)' = TxsOf(disk) \/ TxsOf(disk)' = TxsOf(records)
<1>0. TypeOK /\ Sound(disk) /\ FileInv
  BY DEF SolanaInv
<1>1. /\ records' = next
      /\ disk' = IF w = "failed" THEN disk ELSE next
      /\ fault' = (fault \/ w # "ok")
      /\ CountWrite(w)
  BY DEF persist
<1>2. Keeps
  BY QuietKeeps DEF chainVars
<1>s. Sound(next) /\ Txs' = Txs /\ lagging' = lagging
        /\ \A t : (Final(t)' <=> Final(t)) /\ (Gone(t)' <=> Gone(t))
  BY DEF Revised, Txs, Final, Gone, chainVars
<1>3. Sound(records)'
  BY <1>1, <1>s DEF Sound, Dead
<1>4. Sound(disk)'
  <2>1. CASE w = "failed"
    BY <2>1, <1>0, <1>1, <1>2, DiskKeep
  <2>2. CASE w # "failed"
    BY <2>2, <1>1, <1>s DEF Sound, Dead
  <2> QED
    BY <2>1, <2>2
<1>5. records' \in Seq(Record) /\ disk' \in Seq(Record)
  BY <1>0, <1>1, TypeParts DEF Revised
<1>6. spent' \in [crashes : Nat, writeErrors : Nat] /\ fault' \in BOOLEAN
  <2>1. spent \in [crashes : Nat, writeErrors : Nat] /\ fault \in BOOLEAN
    BY <1>0 DEF TypeOK
  <2>2. fault' \in BOOLEAN
    BY <2>1, <1>1
  <2>3. spent' \in [crashes : Nat, writeErrors : Nat]
    BY <2>1, <1>1 DEF CountWrite
  <2> QED
    BY <2>2, <2>3
<1>7. TxsOf(next) = TxsOf(records) /\ TxsOf(disk) \subseteq TxsOf(records)
  BY <1>0, RevisedTxs, FileTxs
<1>8. TxsOf(disk)' = TxsOf(disk) \/ TxsOf(disk)' = TxsOf(records)
  BY <1>1, <1>7 DEF TxsOf
<1>9. wire' \subseteq TxsOf(disk)'
  BY <1>0, <1>7, <1>8 DEF FileInv, chainVars
<1>10. FileInv'
  <2>1. /\ Len(disk) \in Nat /\ Len(records) \in Nat /\ Len(next) = Len(records)
        /\ \A i \in 1..Len(records) : next[i].tx = records[i].tx
        /\ Len(disk) <= Len(records) /\ Len(records) <= Len(disk) + 1
        /\ \A i \in 1..Len(disk) : disk[i].tx = records[i].tx
    BY <1>0, TypeParts DEF Revised, FileInv
  <2>2. CASE w = "failed"
    <3>1. fault' /\ disk' = disk /\ records' = next
      BY <2>2, <1>1
    <3>2. \A i \in 1..Len(disk) : i \in 1..Len(records) /\ disk[i].tx = next[i].tx
      BY <2>1
    <3> QED
      BY <2>1, <3>1, <3>2, <1>9 DEF FileInv
  <2>3. CASE w # "failed"
    <3>1. disk' = next /\ records' = next
      BY <2>3, <1>1
    <3> QED
      BY <2>1, <3>1, <1>9 DEF FileInv
  <2> QED
    BY <2>2, <2>3
<1> QED
  BY <1>3, <1>4, <1>5, <1>6, <1>8, <1>10

-----------------------------------------------------------------------------
(* The steps. *)

\* A step that changes neither the records, nor the file, nor what was sent.
LEMMA QuietFile ==
    ASSUME FileInv, UNCHANGED <<records, disk, fault, wire>>
    PROVE  FileInv'
BY DEF FileInv, TxsOf

\* Blocks, finality, forks and confirmations.
LEMMA ChainPreserves ==
    ASSUME SolanaInv, ChainNext
    PROVE  SolanaInv'
<1>1. Keeps /\ HeightsInv' /\ TypeOK'
  BY ChainKeeps DEF SolanaInv
<1>2. UNCHANGED <<serviceVars, lagging>> /\ wire' = wire
  BY DEF ChainNext, ChainStep, Confirm, Produce, Finalize, Fork, chainVars
<1>3. Sound(records)' /\ Sound(disk)'
  BY <1>1, <1>2, RecordsKeep, DiskKeep DEF SolanaInv, serviceVars
<1>4. FileInv'
  BY <1>2, QuietFile DEF SolanaInv, serviceVars
<1>5. confirmed <= confirmed' /\ confirmed \in Nat /\ confirmed' \in Nat
  <2>1. confirmed \in Nat
    BY TypeParts DEF SolanaInv
  <2> QED
    BY <2>1 DEF ChainNext, ChainStep, Confirm
<1>6. op.height \in Nat
  BY DEF SolanaInv, TypeOK
<1>7. OpInv'
  <2>1. OpInv
    BY DEF SolanaInv
  <2>2. op' = op /\ fault' = fault /\ quotes' = quotes /\ disk' = disk /\ records' = records
        /\ lagging' = lagging
    BY <1>2 DEF serviceVars
  <2>3. (op.pc = "statuses" /\ op.known /\ ~lagging) => op.height <= confirmed'
    BY <2>1, <1>5, <1>6 DEF OpInv
  <2> QED
    BY <2>1, <2>2, <2>3 DEF OpInv, hasPending, Positions, TxsOf
<1> QED
  BY <1>1, <1>3, <1>4, <1>7 DEF SolanaInv

\* A step that only touches the quotes, the rotation and the operation under way.
LEMMA QuietStep ==
    ASSUME SolanaInv, UNCHANGED <<chainVars, records, disk, fault, confirmed>>,
           TypeOK', OpInv'
    PROVE  SolanaInv'
<1>1. Sound(records)' /\ Sound(disk)'
  BY QuietKeeps, RecordsKeep, DiskKeep DEF SolanaInv, chainVars
<1>2. FileInv'
  BY QuietFile DEF SolanaInv, chainVars
<1>3. HeightsInv'
  BY DEF SolanaInv, HeightsInv, chainVars
<1> QED
  BY <1>1, <1>2, <1>3 DEF SolanaInv

Ops == [pc : {"idle", "ready", "dispatch", "result", "statuses"},
        quote : Nat, tx : Nat, height : Nat, known : BOOLEAN]

\* When no operation is under way nothing has been made sure of.
LEMMA IdleOp ==
    /\ Idle \in Ops /\ Idle.pc = "idle" /\ (op' = Idle => OpInv')
BY DEF Idle, Ops, OpInv

\* A type invariant for the steps that leave the chain and the files alone.
LEMMA QuietType ==
    ASSUME TypeOK, UNCHANGED <<chainVars, records, disk, fault, confirmed, spent>>,
           DOMAIN quotes' \subseteq Nat, quotes' \in [DOMAIN quotes' -> Nat],
           issued' \in Nat, historyOffset' \in Nat, op' \in Ops
    PROVE  TypeOK'
<1>1. ChainTypeOK'
  BY DEF TypeOK, ChainTypeOK, chainVars, Txs
<1> QED
  BY <1>1 DEF TypeOK, Ops

\* What a node says of the confirmed height.
LEMMA HeightsType ==
    ASSUME TypeOK, HeightsInv, NEW h \in ConfirmedHeights
    PROVE  h \in Nat /\ h <= confirmed
BY TypeParts DEF ConfirmedHeights, HeightsInv

\* The quote endpoints.
LEMMA QuotePreserves ==
    ASSUME SolanaInv,
           \/ \E h \in ConfirmedHeights : Quote(h)
           \/ \E q \in DOMAIN quotes : ExpireQuote(q)
    PROVE  SolanaInv'
<1>0. /\ TypeOK /\ HeightsInv /\ DOMAIN quotes \subseteq Nat /\ quotes \in [DOMAIN quotes -> Nat]
      /\ issued \in Nat /\ historyOffset \in Nat /\ op \in Ops /\ Validity \in Nat
  BY SolanaAssumption DEF SolanaInv, TypeOK, Ops
<1>1. ASSUME NEW h \in ConfirmedHeights, Quote(h) PROVE SolanaInv'
  <2>1. /\ op = Idle /\ issued' = issued + 1
        /\ quotes' = [q \in DOMAIN quotes \cup {issued + 1} |->
                        IF q = issued + 1 THEN h + Validity ELSE quotes[q]]
        /\ UNCHANGED <<chainVars, records, disk, fault, historyOffset, op, confirmed, spent>>
    BY <1>1 DEF Quote
  <2>2. h + Validity \in Nat
    BY <1>0, HeightsType
  <2>3. DOMAIN quotes' = DOMAIN quotes \cup {issued + 1} /\ quotes' \in [DOMAIN quotes' -> Nat]
    BY <2>1, <2>2, <1>0
  <2>4. TypeOK'
    BY <2>1, <2>3, <1>0, QuietType
  <2> QED
    BY <2>1, <2>4, IdleOp, QuietStep
<1>2. ASSUME NEW q \in DOMAIN quotes, ExpireQuote(q) PROVE SolanaInv'
  <2>1. /\ op = Idle /\ quotes' = [r \in DOMAIN quotes \ {q} |-> quotes[r]]
        /\ UNCHANGED <<chainVars, records, disk, issued, fault, historyOffset, op, confirmed, spent>>
    BY <1>2 DEF ExpireQuote
  <2>2. DOMAIN quotes' \subseteq DOMAIN quotes /\ quotes' \in [DOMAIN quotes' -> Nat]
    BY <2>1, <1>0
  <2>3. TypeOK'
    BY <2>1, <2>2, <1>0, QuietType
  <2> QED
    BY <2>1, <2>3, IdleOp, QuietStep
<1> QED
  BY <1>1, <1>2

\* Send up to the signature, Retry up to the RPC, and History up to the statuses.
LEMMA StartPreserves ==
    ASSUME SolanaInv,
           \/ \E q \in DOMAIN quotes, h \in ConfirmedHeights : SendCheck(q, h)
           \/ SendAbort
           \/ \E i \in Positions, h \in FinalizedHeights : Retry(i, h)
           \/ \E h \in ConfirmedHeights : HistoryHeight(h, TRUE)
           \/ HistoryHeight(0, FALSE)
           \/ HistoryFails
    PROVE  SolanaInv'
<1>0. /\ TypeOK /\ HeightsInv /\ DOMAIN quotes \subseteq Nat /\ quotes \in [DOMAIN quotes -> Nat]
      /\ issued \in Nat /\ historyOffset \in Nat /\ op \in Ops
  BY DEF SolanaInv, TypeOK, Ops
<1>1. ASSUME UNCHANGED <<chainVars, records, disk, fault, quotes, issued, confirmed, spent>>,
             historyOffset' \in Nat, op' \in Ops, OpInv'
      PROVE  SolanaInv'
  BY <1>0, <1>1, QuietType, QuietStep
<1>2. ASSUME NEW q \in DOMAIN quotes, NEW h \in ConfirmedHeights, SendCheck(q, h)
      PROVE  SolanaInv'
  <2>1. /\ ~fault /\ ~hasPending
        /\ op' = [Idle EXCEPT !.pc = "ready", !.quote = q]
        /\ UNCHANGED <<chainVars, records, disk, quotes, issued, fault, historyOffset, confirmed, spent>>
    BY <1>2 DEF SendCheck
  <2>2. op' \in Ops /\ op'.pc = "ready" /\ op'.quote = q
    BY <2>1, <1>0 DEF Idle, Ops
  <2>3. OpInv'
    BY <2>1, <2>2 DEF OpInv, hasPending, Positions
  <2> QED
    BY <2>1, <2>2, <2>3, <1>0, <1>1
<1>3. ASSUME SendAbort PROVE SolanaInv'
  BY <1>0, <1>1, <1>3, IdleOp DEF SendAbort
<1>4. ASSUME NEW i \in Positions, NEW h \in FinalizedHeights, Retry(i, h) PROVE SolanaInv'
  <2>1. /\ ~fault /\ op' = [Idle EXCEPT !.pc = "dispatch", !.tx = records[i].tx]
        /\ UNCHANGED <<chainVars, records, disk, quotes, issued, fault, historyOffset, confirmed, spent>>
    BY <1>4 DEF Retry
  <2>2. records[i] \in Record /\ records \in Seq(Record)
    BY <1>0, TypeParts, ElementOfSeq DEF Positions
  <2>3. op' \in Ops /\ op'.pc = "dispatch" /\ op'.tx = records[i].tx
    BY <2>1, <2>2 DEF Idle, Ops, Record
  <2>4. records[i].tx \in TxsOf(disk)
    <3>1. disk = records
      BY <2>1 DEF SolanaInv, FileInv
    <3> QED
      BY <3>1, <2>2, TxsOfSeq DEF Positions
  <2>5. OpInv'
    BY <2>1, <2>3, <2>4 DEF OpInv, TxsOf
  <2> QED
    BY <2>1, <2>3, <2>5, <1>0, <1>1
<1>5. ASSUME NEW h \in Nat, NEW k \in BOOLEAN, k => h <= confirmed, HistoryHeight(h, k)
      PROVE  SolanaInv'
  <2>1. /\ op' = [Idle EXCEPT !.pc = "statuses", !.height = h, !.known = k]
        /\ UNCHANGED <<chainVars, records, disk, quotes, issued, fault, historyOffset, confirmed, spent>>
    BY <1>5 DEF HistoryHeight
  <2>2. op' \in Ops /\ op'.pc = "statuses" /\ op'.height = h /\ op'.known = k
    BY <2>1, Zenon DEF Idle, Ops
  <2>3. OpInv'
    BY <2>1, <2>2, <1>5 DEF OpInv
  <2> QED
    BY <2>1, <2>2, <2>3, <1>0, <1>1
<1>6. ASSUME HistoryFails PROVE SolanaInv'
  BY <1>0, <1>1, <1>6, IdleOp, NextOffsetType DEF HistoryFails
<1>7. \A h \in ConfirmedHeights : h \in Nat /\ h <= confirmed
  BY <1>0, HeightsType
<1>8. ASSUME NEW h \in ConfirmedHeights, HistoryHeight(h, TRUE) PROVE SolanaInv'
  BY <1>5, <1>7, <1>8
<1>9. ASSUME HistoryHeight(0, FALSE) PROVE SolanaInv'
  BY <1>5, <1>9
<1> QED
  BY <1>2, <1>3, <1>4, <1>6, <1>8, <1>9

\* Records that block no new transfer are settled: the chain has them for good or
\* will never have them.
LEMMA SettledIsDead ==
    ASSUME Sound(records), ~hasPending, ~lagging
    PROVE  \A i \in 1..Len(records) : Dead(records[i].tx)
BY DEF Sound, hasPending, Positions, Dead

\* Send's first write: the new transaction is the only one that can be outstanding.
LEMMA PreparePreserves ==
    ASSUME SolanaInv, NEW w \in WriteOutcomes, SendPrepare(w)
    PROVE  /\ SolanaInv'
           /\ \/ TxsOf(disk)' = TxsOf(disk)
              \/ Len(signed) + 1 \notin TxsOf(disk)
                   /\ TxsOf(disk)' = TxsOf(disk) \cup {Len(signed) + 1}
<1> DEFINE t == Len(signed) + 1
           next == Append(records, NewRecord(t))
<1>0. TypeOK /\ Sound(records) /\ Sound(disk) /\ FileInv /\ OpInv /\ HeightsInv
  BY DEF SolanaInv
<1>1. /\ op.pc = "ready" /\ ~fault /\ ~hasPending /\ op.quote \in DOMAIN quotes /\ disk = records
  BY <1>0 DEF SendPrepare, OpInv, FileInv
<1>2. /\ signed' = Append(signed, [quote |-> op.quote, lastValid |-> quotes[op.quote]])
      /\ records' = next
      /\ disk' = (IF w = "failed" THEN disk ELSE next)
      /\ fault' = (fault \/ w # "ok") /\ CountWrite(w)
      /\ op' = (IF w = "ok" THEN [op EXCEPT !.pc = "dispatch", !.tx = t] ELSE Idle)
      /\ UNCHANGED <<wire, blocks, tip, final, landed, forks, lagging, quotes, issued,
                     historyOffset, confirmed>>
  BY DEF SendPrepare, persist
<1>3. /\ Len(signed) \in Nat /\ Len(records) \in Nat /\ records \in Seq(Record)
      /\ signed \in Seq([quote : Nat, lastValid : Nat])
      /\ DOMAIN quotes \subseteq Nat /\ quotes \in [DOMAIN quotes -> Nat] /\ op \in Ops
  BY <1>0, TypeParts DEF TypeOK, ChainTypeOK, Ops
<1>4. NewRecord(t) \in Record /\ NewRecord(t).tx = t /\ ~NewRecord(t).finalized
        /\ NewRecord(t).state = "broadcast_unknown"
  BY <1>3 DEF NewRecord, Record, State
<1>5. /\ next \in Seq(Record) /\ Len(next) = Len(records) + 1
      /\ \A i \in 1..Len(records) : next[i] = records[i]
      /\ next[Len(records) + 1] = NewRecord(t)
  BY <1>3, <1>4, AppendSeq
<1> HIDE DEF next
<1>6. [quote |-> op.quote, lastValid |-> quotes[op.quote]] \in [quote : Nat, lastValid : Nat]
  BY <1>1, <1>3
<1>7. /\ signed' \in Seq([quote : Nat, lastValid : Nat]) /\ Len(signed') = t
      /\ \A i \in 1..Len(signed) : signed'[i] = signed[i]
  BY <1>2, <1>3, <1>6, AppendSeq
<1>8. Txs \subseteq Txs' /\ t \in Txs' /\ t \notin Txs /\ \A u \in Txs : signed'[u] = signed[u]
  BY <1>3, <1>7 DEF Txs
<1>9. Keeps
  BY <1>2, <1>8 DEF Keeps, Final, Gone
<1>10. Sound(records)'
  <2>1. \A i \in 1..Len(records) :
            /\ records[i].tx \in Txs
            /\ records[i].finalized => Final(records[i].tx)
            /\ (~lagging /\ records[i].state = "expired_unconfirmed") => Gone(records[i].tx)
            /\ ~lagging => Dead(records[i].tx)
    BY <1>0, <1>1, SettledIsDead DEF Sound
  <2>2. /\ Len(records') = Len(records) + 1
        /\ \A i \in 1..Len(records) : records'[i] = records[i]
        /\ records'[Len(records) + 1] = NewRecord(t)
    BY <1>2, <1>5
  <2>3. \A i \in 1..Len(records) :
            /\ records'[i].tx \in Txs'
            /\ records'[i].finalized => Final(records[i].tx)'
            /\ (~lagging' /\ records'[i].state = "expired_unconfirmed") => Gone(records[i].tx)'
            /\ ~lagging' => Dead(records[i].tx)'
    BY <2>1, <2>2, <1>2, <1>9 DEF Keeps, Dead
  <2> SUFFICES ASSUME NEW i \in 1..Len(records')
               PROVE  /\ records'[i].tx \in Txs'
                      /\ records'[i].finalized => Final(records[i].tx)'
                      /\ (~lagging' /\ records'[i].state = "expired_unconfirmed")
                            => Gone(records[i].tx)'
                      /\ (~lagging' /\ i < Len(records')) => Dead(records[i].tx)'
    BY DEF Sound
  <2>4. CASE i \in 1..Len(records)
    BY <2>3, <2>4
  <2>5. CASE i = Len(records) + 1
    BY <2>2, <2>5, <1>3, <1>4, <1>8
  <2> QED
    BY <2>2, <2>4, <2>5, <1>3
<1>11. Sound(disk)'
  <2>1. CASE w = "failed"
    BY <2>1, <1>0, <1>2, <1>9, DiskKeep
  <2>2. CASE w # "failed"
    BY <2>2, <1>2, <1>10 DEF Sound
  <2> QED
    BY <2>1, <2>2
<1>12. TxsOf(disk) \subseteq Txs /\ t \notin TxsOf(disk) /\ TxsOf(next) = TxsOf(disk) \cup {t}
  <2>1. TxsOf(disk) = {records[i].tx : i \in 1..Len(records)}
    BY <1>1, <1>3, TxsOfSeq
  <2>2. TxsOf(disk) \subseteq Txs
    BY <2>1, <1>0 DEF Sound
  <2>3. TxsOf(next) = {next[i].tx : i \in 1..(Len(records) + 1)}
    BY <1>5, TxsOfSeq
  <2>4. 1..(Len(records) + 1) = (1..Len(records)) \cup {Len(records) + 1}
    BY <1>3
  <2>5. TxsOf(next) = {next[i].tx : i \in 1..Len(records)} \cup {next[Len(records) + 1].tx}
    BY <2>3, <2>4, Zenon
  <2>6. {next[i].tx : i \in 1..Len(records)} = {records[i].tx : i \in 1..Len(records)}
    BY <1>5
  <2> QED
    BY <2>1, <2>2, <2>5, <2>6, <1>4, <1>5, <1>8
<1>13. TxsOf(disk)' = IF w = "failed" THEN TxsOf(disk) ELSE TxsOf(disk) \cup {t}
  BY <1>2, <1>12 DEF TxsOf
<1>14. FileInv'
  <2>1. wire' \subseteq TxsOf(disk)'
    BY <1>0, <1>2, <1>13 DEF FileInv
  <2>2. CASE w = "failed"
    <3>1. fault' /\ disk' = records /\ records' = next
      BY <2>2, <1>1, <1>2
    <3> QED
      BY <2>1, <3>1, <1>3, <1>5 DEF FileInv
  <2>3. CASE w # "failed"
    <3>1. disk' = next /\ records' = next
      BY <2>3, <1>2
    <3> QED
      BY <2>1, <3>1, <1>3, <1>5 DEF FileInv
  <2> QED
    BY <2>2, <2>3
<1>15. op' \in Ops /\ (w = "ok" => op'.pc = "dispatch" /\ op'.tx = t)
  <2>1. [op EXCEPT !.pc = "dispatch", !.tx = t] \in Ops
    <3>1. t \in Nat
      BY <1>3
    <3> HIDE DEF t
    <3> QED
      BY <3>1, <1>3, Zenon DEF Ops
  <2>2. [op EXCEPT !.pc = "dispatch", !.tx = t].pc = "dispatch"
        /\ [op EXCEPT !.pc = "dispatch", !.tx = t].tx = t
    BY <1>3 DEF Ops
  <2>3. CASE w = "ok"
    BY <2>1, <2>2, <2>3, <1>2
  <2>4. CASE w # "ok"
    BY <2>4, <1>2, IdleOp
  <2> QED
    BY <2>3, <2>4
<1>16. OpInv'
  <2>1. CASE w = "ok"
    <3>1. ~fault' /\ t \in TxsOf(disk)'
      BY <2>1, <1>1, <1>2, <1>13
    <3> QED
      BY <2>1, <3>1, <1>15 DEF OpInv
  <2>2. CASE w # "ok"
    BY <2>2, <1>2, IdleOp
  <2> QED
    BY <2>1, <2>2
<1>17. HeightsInv'
  BY <1>0, <1>2 DEF HeightsInv
<1>18. TypeOK'
  <2>1. ChainTypeOK'
    BY <1>0, <1>2, <1>7, <1>8 DEF TypeOK, ChainTypeOK
  <2>2. records' \in Seq(Record) /\ disk' \in Seq(Record)
    BY <1>1, <1>2, <1>3, <1>5
  <2>3. spent' \in [crashes : Nat, writeErrors : Nat] /\ fault' \in BOOLEAN
    <3>1. spent \in [crashes : Nat, writeErrors : Nat] /\ fault \in BOOLEAN
      BY <1>0 DEF TypeOK
    <3>2. fault' \in BOOLEAN
      BY <3>1, <1>2
    <3>3. spent' \in [crashes : Nat, writeErrors : Nat]
      BY <3>1, <1>2 DEF CountWrite
    <3> QED
      BY <3>2, <3>3
  <2>4. /\ DOMAIN quotes' \subseteq Nat /\ quotes' \in [DOMAIN quotes' -> Nat]
        /\ issued' \in Nat /\ historyOffset' \in Nat /\ confirmed' \in Nat
    BY <1>0, <1>2 DEF TypeOK
  <2> QED
    BY <2>1, <2>2, <2>3, <2>4, <1>15 DEF TypeOK, Ops
<1> QED
  BY <1>10, <1>11, <1>12, <1>13, <1>14, <1>16, <1>17, <1>18 DEF SolanaInv

\* The RPC: what it delivers is already in the file.
LEMMA SendTransactionPreserves ==
    ASSUME SolanaInv, NEW d \in BOOLEAN, NEW ok \in BOOLEAN, SendTransaction(d, ok)
    PROVE  SolanaInv' /\ op.tx \in TxsOf(disk)
<1>0. TypeOK /\ Sound(records) /\ Sound(disk) /\ FileInv /\ OpInv /\ HeightsInv
  BY DEF SolanaInv
<1>1. /\ op.pc = "dispatch"
      /\ wire' = (IF d THEN wire \cup {op.tx} ELSE wire)
      /\ op' = (IF ok THEN [op EXCEPT !.pc = "result"] ELSE Idle)
      /\ UNCHANGED <<signed, blocks, tip, final, landed, forks, lagging, records, disk, quotes,
                     issued, fault, historyOffset, confirmed, spent>>
  BY DEF SendTransaction
<1>2. op.tx \in TxsOf(disk) /\ ~fault
  BY <1>0, <1>1 DEF OpInv
<1>3. TxsOf(disk) \subseteq Txs
  <2>1. TxsOf(disk) = {disk[i].tx : i \in 1..Len(disk)}
    BY <1>0, TypeParts, TxsOfSeq
  <2> QED
    BY <2>1, <1>0 DEF Sound
<1>4. Sound(records)' /\ Sound(disk)'
  BY <1>0, <1>1, QuietKeeps, RecordsKeep, DiskKeep
<1>5. FileInv'
  BY <1>0, <1>1, <1>2 DEF FileInv, TxsOf
<1>6. op \in Ops
  BY <1>0 DEF TypeOK, Ops
<1>7. op' \in Ops /\ (ok => op'.pc = "result" /\ op'.tx = op.tx)
  BY <1>1, <1>6, IdleOp DEF Ops
<1>8. OpInv'
  <2>1. CASE ok
    BY <2>1, <1>1, <1>2, <1>7 DEF OpInv, TxsOf
  <2>2. CASE ~ok
    BY <2>2, <1>1, IdleOp
  <2> QED
    BY <2>1, <2>2
<1>9. TypeOK'
  <2>1. wire' \subseteq Txs' /\ DOMAIN landed' \subseteq wire' /\ Txs' = Txs
    BY <1>0, <1>1, <1>2, <1>3 DEF TypeOK, ChainTypeOK, Txs
  <2>2. ChainTypeOK'
    BY <1>0, <1>1, <2>1 DEF TypeOK, ChainTypeOK
  <2> QED
    BY <1>0, <1>1, <1>7, <2>2 DEF TypeOK, Ops
<1>10. HeightsInv'
  BY <1>0, <1>1 DEF HeightsInv
<1> QED
  BY <1>2, <1>4, <1>5, <1>8, <1>9, <1>10 DEF SolanaInv

\* The write of Send and of Retry after the RPC.
LEMMA ResultRevises ==
    ASSUME SolanaInv
    PROVE  Revised([i \in Positions |-> IF records[i].tx = op.tx
                                        THEN [records[i] EXCEPT !.state = "submitted"]
                                        ELSE records[i]])
<1> DEFINE Submit(r) == IF r.tx = op.tx THEN [r EXCEPT !.state = "submitted"] ELSE r
           next == [i \in Positions |-> Submit(records[i])]
<1>1. Len(records) \in Nat /\ records \in Seq(Record) /\ Sound(records)
  BY TypeParts DEF SolanaInv
<1>2. \A r \in Record : /\ Submit(r) \in Record /\ Submit(r).tx = r.tx
                        /\ Submit(r).finalized = r.finalized
                        /\ Submit(r).state \in {r.state, "submitted"}
  <2> TAKE r \in Record
  <2>1. /\ [r EXCEPT !.state = "submitted"] \in Record
        /\ [r EXCEPT !.state = "submitted"].tx = r.tx
        /\ [r EXCEPT !.state = "submitted"].state = "submitted"
    BY DEF Record, State
  <2>2. [r EXCEPT !.state = "submitted"].finalized = r.finalized
    BY Zenon DEF Record, State
  <2> QED
    BY <2>1, <2>2
<1>3. \A i \in 1..Len(records) : records[i] \in Record
  BY <1>1, ElementOfSeq
<1> HIDE DEF Submit
<1>4. next \in [1..Len(records) -> Record]
  BY <1>2, <1>3 DEF Positions
<1>5. next \in Seq(Record) /\ Len(next) = Len(records)
  BY <1>1, <1>4, MapSeq, Zenon
<1>6. \A i \in 1..Len(records) : /\ next[i].tx = records[i].tx
                                 /\ next[i].finalized = records[i].finalized
                                 /\ next[i].state \in {records[i].state, "submitted"}
  BY <1>2, <1>3 DEF Positions
<1>7. Revised(next)
  <2> HIDE DEF next
  <2>1. Sound(next)
    BY <1>1, <1>5, <1>6 DEF Sound
  <2> QED
    BY <2>1, <1>5, <1>6 DEF Revised
<1> QED
  BY <1>7 DEF Submit

\* What the statuses make of the records: a verdict is taken from the chain itself, or
\* from its silence once the height read before was past the last valid one.
LEMMA StatusesRevise ==
    ASSUME SolanaInv, op.pc = "statuses", NEW answer \in Answers,
           \A i \in Asked : answer[i] \in Statuses(records[i].tx)
    PROVE  Revised([i \in Positions |-> IF i \in Asked THEN Refreshed(records[i], answer[i])
                                        ELSE records[i]])
<1> DEFINE next == [i \in Positions |-> IF i \in Asked THEN Refreshed(records[i], answer[i])
                                        ELSE records[i]]
<1>1. /\ Len(records) \in Nat /\ records \in Seq(Record) /\ Sound(records) /\ confirmed \in Nat
      /\ \A t \in Txs : signed[t].lastValid \in Nat
      /\ op.height \in Nat
      /\ (op.known /\ ~lagging) => op.height <= confirmed
  BY TypeParts DEF SolanaInv, TypeOK, OpInv
<1>2. \A i \in 1..Len(records) : records[i] \in Record
  BY <1>1, ElementOfSeq
<1>3. \A r \in Record, s \in {"none", "processed", "confirmed", "finalized"} :
          /\ Refreshed(r, s) \in Record /\ Refreshed(r, s).tx = r.tx
          /\ Refreshed(r, s).finalized = (s = "finalized")
          /\ Refreshed(r, s).state =
               (IF s # "none" THEN s
                ELSE IF op.known /\ op.height > signed[r.tx].lastValid
                THEN "expired_unconfirmed" ELSE r.state)
  <2> SUFFICES ASSUME NEW r \in Record, NEW s \in {"none", "processed", "confirmed", "finalized"}
               PROVE  /\ Refreshed(r, s) \in Record /\ Refreshed(r, s).tx = r.tx
                      /\ Refreshed(r, s).finalized = (s = "finalized")
                      /\ Refreshed(r, s).state =
                           (IF s # "none" THEN s
                            ELSE IF op.known /\ op.height > signed[r.tx].lastValid
                            THEN "expired_unconfirmed" ELSE r.state)
    OBVIOUS
  <2> DEFINE st == IF s # "none" THEN s
                   ELSE IF op.known /\ op.height > signed[r.tx].lastValid
                   THEN "expired_unconfirmed" ELSE r.state
             fin == s = "finalized"
  <2>1. st \in State /\ fin \in BOOLEAN
    BY DEF Record, State
  <2>2. Refreshed(r, s) = [r EXCEPT !.state = st, !.finalized = fin]
    BY DEF Refreshed, IsFinal
  <2> HIDE DEF st, fin
  <2>3. /\ [r EXCEPT !.state = st, !.finalized = fin] \in Record
        /\ [r EXCEPT !.state = st, !.finalized = fin].tx = r.tx
        /\ [r EXCEPT !.state = st, !.finalized = fin].state = st
        /\ [r EXCEPT !.state = st, !.finalized = fin].finalized = fin
    BY <2>1, Zenon DEF Record
  <2>4. Refreshed(r, s) \in Record /\ Refreshed(r, s).tx = r.tx
        /\ Refreshed(r, s).finalized = fin /\ Refreshed(r, s).state = st
    BY <2>2, <2>3, Zenon
  <2> QED
    BY <2>4, Zenon DEF st, fin
<1>4. \A i \in Asked : answer[i] \in {"none", "processed", "confirmed", "finalized"}
  BY DEF Answers
<1>5. Asked \subseteq 1..Len(records)
  BY DEF Asked, Unresolved, Positions
<1>6. \A i \in 1..Len(records) : next[i] = IF i \in Asked THEN Refreshed(records[i], answer[i])
                                           ELSE records[i]
  BY DEF Positions
<1>7. next \in [1..Len(records) -> Record]
  BY <1>2, <1>3, <1>4 DEF Positions
<1>8. next \in Seq(Record) /\ Len(next) = Len(records)
  BY <1>1, <1>7, MapSeq, Zenon
<1> HIDE DEF next
<1>9. \A i \in 1..Len(records) : next[i].tx = records[i].tx
  BY <1>2, <1>3, <1>4, <1>6
<1>10. \A i \in 1..Len(records) : next[i].finalized => Final(next[i].tx)
  <2> SUFFICES ASSUME NEW i \in 1..Len(records), next[i].finalized
               PROVE  Final(records[i].tx)
    BY <1>9
  <2>1. CASE i \in Asked
    <3>1. answer[i] = "finalized"
      <4>1. next[i].finalized = (answer[i] = "finalized")
        <5>1. next[i] = Refreshed(records[i], answer[i])
          BY <2>1, <1>6
        <5>2. Refreshed(records[i], answer[i]).finalized = (answer[i] = "finalized")
          <6> DEFINE Entry == {"none", "processed", "confirmed", "finalized"}
          <6>1. records[i] \in Record /\ answer[i] \in Entry
            BY <2>1, <1>2, <1>4
          <6>2. \A r \in Record, s \in Entry : Refreshed(r, s).finalized = (s = "finalized")
            BY <1>3, Zenon
          <6> HIDE DEF Entry
          <6> QED
            BY <6>1, <6>2, Zenon
        <5> QED
          BY <5>1, <5>2, Zenon
      <4> QED
        BY <4>1, Zenon
    <3> QED
      BY <2>1, <3>1 DEF Statuses, Final
  <2>2. CASE i \notin Asked
    BY <2>2, <1>1, <1>6 DEF Sound
  <2> QED
    BY <2>1, <2>2
<1>11. \A i \in 1..Len(records) :
          (~lagging /\ next[i].state = "expired_unconfirmed") => Gone(next[i].tx)
  <2> SUFFICES ASSUME NEW i \in 1..Len(records), ~lagging,
                      next[i].state = "expired_unconfirmed"
               PROVE  Gone(records[i].tx)
    BY <1>9
  <2>1. records[i].tx \in Txs
    BY <1>1 DEF Sound
  <2>2. CASE next[i].state = records[i].state
    BY <2>2, <1>1 DEF Sound
  <2>3. CASE next[i].state # records[i].state
    <3>1. i \in Asked
      BY <2>3, <1>6
    <3>2. answer[i] = "none" /\ op.known /\ op.height > signed[records[i].tx].lastValid
      BY <2>3, <3>1, <1>2, <1>3, <1>4, <1>6
    <3>3. records[i].tx \notin DOMAIN landed
      BY <3>1, <3>2 DEF Statuses
    <3> QED
      BY <2>1, <3>2, <3>3, <1>1 DEF Gone
  <2> QED
    BY <2>2, <2>3
<1>12. Sound(next)
  BY <1>1, <1>8, <1>9, <1>10, <1>11 DEF Sound
<1>13. Revised(next)
  BY <1>8, <1>9, <1>12 DEF Revised
<1> QED
  BY <1>13 DEF next

\* A step that writes a revised journal.
LEMMA WritePreserves ==
    ASSUME SolanaInv, NEW next, Revised(next), NEW w \in WriteOutcome, persist(next, w),
           UNCHANGED <<chainVars, quotes, issued, confirmed>>, op' = Idle, historyOffset' \in Nat
    PROVE  SolanaInv'
<1>1. /\ Sound(records)' /\ Sound(disk)' /\ FileInv'
      /\ records' \in Seq(Record) /\ disk' \in Seq(Record)
      /\ fault' \in BOOLEAN /\ spent' \in [crashes : Nat, writeErrors : Nat]
  BY PersistRevised
<1>2. ChainTypeOK' /\ HeightsInv'
  BY DEF SolanaInv, TypeOK, ChainTypeOK, HeightsInv, chainVars, Txs
<1>3. /\ DOMAIN quotes' \subseteq Nat /\ quotes' \in [DOMAIN quotes' -> Nat]
      /\ issued' \in Nat /\ confirmed' \in Nat
  BY DEF SolanaInv, TypeOK
<1>4. op' \in Ops /\ OpInv'
  BY IdleOp
<1>5. TypeOK'
  BY <1>1, <1>2, <1>3, <1>4 DEF TypeOK, Ops
<1> QED
  BY <1>1, <1>2, <1>4, <1>5 DEF SolanaInv

\* Send's and Retry's second write.
LEMMA ResultPreserves ==
    ASSUME SolanaInv, NEW w \in WriteOutcomes, BroadcastResult(w)
    PROVE  SolanaInv'
<1>1. w \in WriteOutcome /\ historyOffset' \in Nat
  BY DEF WriteOutcomes, WriteOutcome, BroadcastResult, SolanaInv, TypeOK
<1> QED
  BY <1>1, ResultRevises, WritePreserves DEF BroadcastResult

\* History's write.
LEMMA HistoryPreserves ==
    ASSUME SolanaInv, NEW answer \in Answers, NEW w \in WriteOutcomes,
           \A i \in Asked : answer[i] \in Statuses(records[i].tx), HistoryStatuses(answer, w)
    PROVE  SolanaInv'
<1> DEFINE next == [i \in Positions |-> IF i \in Asked THEN Refreshed(records[i], answer[i])
                                        ELSE records[i]]
<1>1. w \in WriteOutcome
  BY DEF WriteOutcomes, WriteOutcome
<1>2. /\ op.pc = "statuses" /\ historyOffset' = NextOffset /\ op' = Idle
      /\ UNCHANGED <<chainVars, quotes, issued, confirmed>>
      /\ persist(next, w) \/ UNCHANGED <<records, disk, fault, spent>>
  BY DEF HistoryStatuses
<1>3. Revised(next)
  BY <1>2, StatusesRevise
<1> HIDE DEF next
<1>4. historyOffset' \in Nat
  BY <1>2, NextOffsetType DEF SolanaInv
<1>5. CASE persist(next, w)
  BY <1>1, <1>2, <1>3, <1>4, <1>5, WritePreserves
<1>6. CASE UNCHANGED <<records, disk, fault, spent>>
  <2>1. TypeOK'
    BY <1>2, <1>4, <1>6, IdleOp, QuietType DEF SolanaInv, TypeOK
  <2> QED
    BY <1>2, <1>6, <2>1, IdleOp, QuietStep
<1> QED
  BY <1>2, <1>5, <1>6

\* A restart reads the file.
LEMMA CrashPreserves ==
    ASSUME SolanaInv, Crash
    PROVE  SolanaInv'
<1>0. TypeOK /\ Sound(disk) /\ FileInv /\ HeightsInv
  BY DEF SolanaInv
<1>1. /\ records' = disk /\ disk' = disk /\ quotes' = EmptyStore /\ fault' = FALSE
      /\ historyOffset' = 0 /\ op' = Idle /\ spent' = [spent EXCEPT !.crashes = @ + 1]
      /\ UNCHANGED <<chainVars, issued, confirmed>>
  BY DEF Crash
<1>2. Sound(disk)'
  BY <1>0, <1>1, QuietKeeps, DiskKeep DEF chainVars
<1>3. Sound(records)'
  BY <1>1, <1>2 DEF Sound
<1>4. FileInv'
  BY <1>0, <1>1, TypeParts DEF FileInv, TxsOf, chainVars
<1>5. DOMAIN quotes' \subseteq Nat /\ quotes' \in [DOMAIN quotes' -> Nat]
  BY <1>1 DEF EmptyStore
<1>6. spent' \in [crashes : Nat, writeErrors : Nat]
  BY <1>0, <1>1 DEF TypeOK
<1>7. ChainTypeOK' /\ HeightsInv'
  BY <1>0, <1>1 DEF TypeOK, ChainTypeOK, HeightsInv, chainVars, Txs
<1>8. op' \in Ops /\ OpInv'
  BY <1>1, IdleOp
<1>9. TypeOK'
  BY <1>0, <1>1, <1>5, <1>6, <1>7, <1>8 DEF TypeOK, Ops
<1> QED
  BY <1>2, <1>3, <1>4, <1>7, <1>8, <1>9 DEF SolanaInv

\* A new account has an empty journal.
LEMMA InitSolana ==
    ASSUME Init
    PROVE  SolanaInv
<1>1. ChainTypeOK /\ HeightsInv
  BY DEF Init, ChainInit, ChainTypeOK, HeightsInv, Txs
<1>2. Sound(records) /\ Sound(disk)
  BY DEF Init, Sound
<1>3. FileInv
  BY DEF Init, ChainInit, FileInv
<1>4. op \in Ops /\ OpInv
  BY DEF Init, Idle, Ops, OpInv
<1>5. DOMAIN quotes \subseteq Nat /\ quotes \in [DOMAIN quotes -> Nat]
  BY DEF Init, EmptyStore
<1>6. TypeOK
  <2>1. records \in Seq(Record) /\ disk \in Seq(Record)
    BY EmptySeq DEF Init
  <2>2. /\ issued \in Nat /\ fault \in BOOLEAN /\ historyOffset \in Nat /\ confirmed \in Nat
        /\ spent \in [crashes : Nat, writeErrors : Nat]
    BY DEF Init
  <2> QED
    BY <1>1, <1>4, <1>5, <2>1, <2>2 DEF TypeOK, Ops
<1> QED
  BY <1>1, <1>2, <1>3, <1>4, <1>6 DEF SolanaInv

\* Every step preserves the invariant.
LEMMA NextSolana ==
    ASSUME SolanaInv, [Next]_vars
    PROVE  SolanaInv'
<1>1. CASE ChainNext
  BY <1>1, ChainPreserves
<1>2. CASE Request
  BY <1>2, QuotePreserves, StartPreserves, PreparePreserves, SendTransactionPreserves,
     ResultPreserves DEF Request
<1>3. CASE History
  BY <1>3, StartPreserves, HistoryPreserves DEF History
<1>4. CASE Crash
  BY <1>4, CrashPreserves
<1>5. CASE UNCHANGED vars
  <2>1. UNCHANGED <<chainVars, records, disk, fault, confirmed, spent, quotes, issued,
                    historyOffset, op>>
    BY <1>5 DEF vars, serviceVars
  <2>2. TypeOK'
    BY <2>1, QuietType DEF SolanaInv, TypeOK, Ops
  <2>3. OpInv'
    BY <2>1 DEF SolanaInv, OpInv, hasPending, Positions, TxsOf, chainVars
  <2> QED
    BY <2>1, <2>2, <2>3, QuietStep
<1> QED
  BY <1>1, <1>2, <1>3, <1>4, <1>5 DEF Next

-----------------------------------------------------------------------------
(* Theorems. *)

\* SolanaInv holds in every reachable state: what the records and transactions.json
\* say is true of the chain, the file is at most one unsent record behind the memory,
\* and all but the newest transaction are settled.
THEOREM SolanaInvariant == Spec => []SolanaInv
<1>1. Init => SolanaInv
  BY InitSolana
<1>2. SolanaInv /\ [Next]_vars => SolanaInv'
  BY NextSolana
<1> QED
  BY <1>1, <1>2, PTL DEF Spec

\* Every variable of the Solana service keeps its type, the rotation of History included.
THEOREM SolanaTypeCorrect == Spec => []TypeOK
<1>1. SolanaInv => TypeOK
  BY DEF SolanaInv
<1> QED
  BY <1>1, SolanaInvariant, PTL

\* A record History marked final is final on the chain, whatever lagging nodes answered,
\* and after any number of restarts, failed writes and forks.
THEOREM SolanaFinalVerdicts == Spec => []FinalVerdictsSound
<1>1. SolanaInv => FinalVerdictsSound
  <2> SUFFICES ASSUME SolanaInv PROVE FinalVerdictsSound
    OBVIOUS
  <2>1. DOMAIN records = 1..Len(records)
    BY TypeParts, LenProperties DEF SolanaInv
  <2> QED
    BY <2>1 DEF SolanaInv, Sound, FinalVerdictsSound
<1> QED
  BY <1>1, SolanaInvariant, PTL

\* With nodes that agree, a record shown as expired_unconfirmed never gets onto the chain.
THEOREM SolanaExpiry == Spec => []ExpiredNeverLands
<1>1. SolanaInv => ExpiredNeverLands
  BY DEF SolanaInv, Sound, Gone, ExpiredNeverLands, Positions
<1> QED
  BY <1>1, SolanaInvariant, PTL

\* With nodes that agree, at most one transfer the network may have received can still
\* take effect: hasPending lets the next one through only when the last one is settled.
THEOREM SolanaOneOutstanding == Spec => []OneOutstanding
<1>1. SolanaInv => OneOutstanding
  <2> SUFFICES ASSUME SolanaInv, ~lagging
               PROVE  Cardinality({t \in wire : Live(t, confirmed)}) <= 1
    BY DEF OneOutstanding
  <2> DEFINE L == {t \in wire : Live(t, confirmed)}
             last == disk[Len(disk)].tx
  <2>1. /\ TxsOf(disk) = {disk[i].tx : i \in 1..Len(disk)} /\ Len(disk) \in Nat
        /\ wire \subseteq TxsOf(disk) /\ confirmed \in Nat
        /\ \A t \in Txs : signed[t].lastValid \in Nat
    BY TypeParts, TxsOfSeq DEF SolanaInv, FileInv
  <2>2. \A i \in 1..Len(disk) : disk[i].tx \in Txs /\ (i < Len(disk) => Dead(disk[i].tx))
    BY DEF SolanaInv, Sound
  <2>3. \A t \in Txs : Dead(t) => ~Live(t, confirmed)
    BY <2>1 DEF Dead, Gone, Live
  <2>4. L \subseteq {last}
    BY <2>1, <2>2, <2>3
  <2>5. IsFiniteSet({last}) /\ Cardinality({last}) = 1
    BY FS_Singleton
  <2> HIDE DEF L, last
  <2>6. Cardinality(L) <= 1
    BY <2>4, <2>5, FS_Subset
  <2> QED
    BY <2>6 DEF L
<1> QED
  BY <1>1, SolanaInvariant, PTL

\* The service implements the write-ahead promise with transactions.json as the book.
LEMMA SolanaStepWriteAhead ==
    ASSUME SolanaInv, [Next]_vars
    PROVE  [WAB!WABNext]_<<TxsOf(disk), wire>>
<1> USE DEF WAB!WABNext
<1>0. TypeOK /\ FileInv
  BY DEF SolanaInv
<1>1. ASSUME TxsOf(disk)' = TxsOf(disk), wire' = wire
      PROVE  [WAB!WABNext]_<<TxsOf(disk), wire>>
  BY <1>1
<1>2. ASSUME NEW t, t \notin TxsOf(disk), TxsOf(disk)' = TxsOf(disk) \cup {t}, wire' = wire
      PROVE  [WAB!WABNext]_<<TxsOf(disk), wire>>
  BY <1>2 DEF WAB!Prepare
<1>3. ASSUME TxsOf(disk)' = TxsOf(disk) \/ TxsOf(disk)' = TxsOf(records), wire' = wire
      PROVE  [WAB!WABNext]_<<TxsOf(disk), wire>>
  <2>1. TxsOf(records) = TxsOf(disk)
          \/ TxsOf(records) = TxsOf(disk) \cup {records[Len(records)].tx}
    BY <1>0, FileTxs
  <2>2. CASE TxsOf(disk)' = TxsOf(disk)
    BY <2>2, <1>1, <1>3
  <2>3. CASE TxsOf(disk)' # TxsOf(disk)
    <3>1. TxsOf(disk)' = TxsOf(disk) \cup {records[Len(records)].tx}
      BY <2>1, <2>3, <1>3
    <3>2. records[Len(records)].tx \notin TxsOf(disk)
      BY <3>1, <2>3
    <3> QED
      BY <3>1, <3>2, <1>2, <1>3
  <2> QED
    BY <2>2, <2>3
<1>4. ASSUME UNCHANGED <<disk, wire>> PROVE [WAB!WABNext]_<<TxsOf(disk), wire>>
  BY <1>1, <1>4 DEF TxsOf
<1>5. ASSUME NEW w \in WriteOutcomes, SendPrepare(w)
      PROVE  [WAB!WABNext]_<<TxsOf(disk), wire>>
  <2>1. wire' = wire
    BY <1>5 DEF SendPrepare
  <2> QED
    BY <1>1, <1>2, <1>5, <2>1, PreparePreserves
<1>6. ASSUME NEW d \in BOOLEAN, NEW ok \in BOOLEAN, SendTransaction(d, ok)
      PROVE  [WAB!WABNext]_<<TxsOf(disk), wire>>
  <2>1. op.tx \in TxsOf(disk) /\ TxsOf(disk)' = TxsOf(disk)
    BY <1>6, SendTransactionPreserves DEF SendTransaction, TxsOf
  <2>2. wire' = wire \/ wire' = wire \cup {op.tx}
    BY <1>6 DEF SendTransaction
  <2> QED
    BY <2>1, <2>2 DEF WAB!Broadcast
<1>7. ASSUME NEW next, Revised(next), NEW w \in WriteOutcomes, persist(next, w),
             UNCHANGED <<chainVars, confirmed>>
      PROVE  [WAB!WABNext]_<<TxsOf(disk), wire>>
  <2>1. w \in WriteOutcome /\ wire' = wire
    BY <1>7 DEF WriteOutcomes, WriteOutcome, chainVars
  <2> QED
    BY <1>3, <1>7, <2>1, PersistRevised
<1>8. ASSUME NEW w \in WriteOutcomes, BroadcastResult(w)
      PROVE  [WAB!WABNext]_<<TxsOf(disk), wire>>
  BY <1>7, <1>8, ResultRevises DEF BroadcastResult
<1>9. ASSUME NEW answer \in Answers, NEW w \in WriteOutcomes,
             \A i \in Asked : answer[i] \in Statuses(records[i].tx), HistoryStatuses(answer, w)
      PROVE  [WAB!WABNext]_<<TxsOf(disk), wire>>
  <2> DEFINE next == [i \in Positions |-> IF i \in Asked THEN Refreshed(records[i], answer[i])
                                          ELSE records[i]]
  <2>1. /\ op.pc = "statuses" /\ UNCHANGED <<chainVars, confirmed>>
        /\ persist(next, w) \/ UNCHANGED <<records, disk, fault, spent>>
    BY <1>9 DEF HistoryStatuses
  <2>2. Revised(next)
    BY <2>1, <1>9, StatusesRevise
  <2> HIDE DEF next
  <2> QED
    BY <1>4, <1>7, <2>1, <2>2 DEF chainVars
<1>10. CASE UNCHANGED <<disk, wire>>
  BY <1>4, <1>10
<1>11. ChainNext => UNCHANGED <<disk, wire>>
  BY DEF ChainNext, ChainStep, Confirm, Produce, Finalize, Fork, chainVars, serviceVars
<1>12. Crash => UNCHANGED <<disk, wire>>
  BY DEF Crash, chainVars
<1>13. UNCHANGED vars => UNCHANGED <<disk, wire>>
  BY DEF vars, chainVars, serviceVars
<1>14. CASE Request
  <2>1. /\ \A h : Quote(h) => UNCHANGED <<disk, wire>>
        /\ \A q : ExpireQuote(q) => UNCHANGED <<disk, wire>>
        /\ \A q, h : SendCheck(q, h) => UNCHANGED <<disk, wire>>
        /\ SendAbort => UNCHANGED <<disk, wire>>
        /\ \A i, h : Retry(i, h) => UNCHANGED <<disk, wire>>
    BY DEF Quote, ExpireQuote, SendCheck, SendAbort, Retry, chainVars
  <2> HIDE DEF WAB!WABNext
  <2> QED
    BY <1>4, <1>5, <1>6, <1>8, <1>14, <2>1 DEF Request
<1>15. CASE History
  <2>1. /\ \A h, k : HistoryHeight(h, k) => UNCHANGED <<disk, wire>>
        /\ HistoryFails => UNCHANGED <<disk, wire>>
    BY DEF HistoryHeight, HistoryFails, chainVars
  <2> HIDE DEF WAB!WABNext
  <2> QED
    BY <1>4, <1>9, <1>15, <2>1 DEF History
<1> HIDE DEF WAB!WABNext
<1> QED
  BY <1>4, <1>11, <1>12, <1>13, <1>14, <1>15 DEF Next

\* Signed bytes are in transactions.json before any node sees them and stay there, for
\* every interleaving of writes, RPCs and restarts: SolanaWallet implements
\* WriteAheadBroadcast.
THEOREM SolanaWriteAhead == Spec => WriteAhead
<1>1. Init => WAB!WABInit
  BY DEF Init, ChainInit, WAB!WABInit, TxsOf
<1>2. SolanaInv /\ [Next]_vars => [WAB!WABNext]_<<TxsOf(disk), wire>>
  BY SolanaStepWriteAhead
<1> QED
  BY <1>1, <1>2, SolanaInvariant, PTL DEF Spec, WriteAhead, WAB!WABSpec
=============================================================================
