-------------------------- MODULE TronWalletProofs --------------------------
(***************************************************************************)
(* Theorems about TronWallet, for every value of its constants.            *)
(***************************************************************************)
EXTENDS TronWallet, FiniteSetTheorems, SequenceTheorems, WellFoundedInduction, TLAPS

-----------------------------------------------------------------------------
(* The inductive invariant. *)

\* The transaction cannot get onto the chain any more.
Gone(t) == t \notin DOMAIN landed /\ signed[t].lastValid <= final

Dead(t) == Final(t) \/ Gone(t)

\* The block below the one that includes a transaction is older than the expiration;
\* the including block itself may be younger, because blocks may be missed.
BlocksInv ==
    /\ final \in blocks
    /\ \A b \in blocks : b <= tip
    /\ \A t \in DOMAIN landed :
          /\ landed[t] <= tip
          /\ \A b \in blocks : b < landed[t] => b < signed[t].lastValid

\* What a journal, in memory, in the copy of a refresh or on disk, says of its
\* transactions is true, and only its last transaction can still be outstanding.
Sound(journal) ==
    \A i \in 1..Len(journal) :
        /\ journal[i].tx \in Txs
        /\ journal[i].finalized => Final(journal[i].tx)
        /\ (~lagging /\ journal[i].state = "expired_unconfirmed") => Gone(journal[i].tx)
        /\ (~lagging /\ i < Len(journal)) => Dead(journal[i].tx)

\* The file is ahead of the memory by at most one record, which was never sent, and
\* only after a write that failed after it was published.
FileInv ==
    /\ Len(records) <= Len(disk) /\ Len(disk) <= Len(records) + 1
    /\ \A i \in 1..Len(records) : disk[i].tx = records[i].tx
    /\ ~fault => disk = records
    /\ wire \subseteq TxsOf(records)

Ops == [pc : {"idle", "ready", "dispatch", "result", "visit", "receipt"},
        quote : Nat, tx : Nat, ok : BOOLEAN, next : Seq(Record),
        start : Nat, offset : Nat, visits : Nat, solid : Nat]

\* The journal `next` has the records of s.records, in their order, some of them with
\* another state, and is sound.
Revised(next) ==
    /\ next \in Seq(Record) /\ Len(next) = Len(records)
    /\ \A i \in 1..Len(records) : next[i].tx = records[i].tx
    /\ Sound(next)

\* What the operation under way has made sure of.
OpInv ==
    /\ op \in Ops
    /\ op.pc = "ready" => ~fault /\ ~pending /\ op.quote \in DOMAIN quotes
    /\ op.pc \in {"dispatch", "result"} => ~fault /\ op.tx \in TxsOf(records)
    /\ op.pc \in {"visit", "receipt"} => Revised(op.next)
    /\ op.pc = "receipt" => op.solid <= final /\ Left # {}

TronInv == TypeOK /\ BlocksInv /\ Sound(records) /\ Sound(disk) /\ FileInv /\ OpInv

-----------------------------------------------------------------------------
(* Journals. *)

\* A journal in which records were replaced in place (BroadcastResult
\* builds one) is a sequence of the same length.
LEMMA MapSeq ==
    ASSUME NEW T, NEW n \in Nat, NEW f \in [1..n -> T]
    PROVE  f \in Seq(T) /\ Len(f) = n /\ DOMAIN f = 1..n
<1>1. f \in Seq(T)
  BY SeqDef, Zenon
<1>2. DOMAIN f = 1..Len(f) /\ Len(f) \in Nat /\ DOMAIN f = 1..n
  BY <1>1, LenProperties
<1>3. Len(f) = n
  <2>1. \A j \in Nat : j \in 1..Len(f) <=> j \in 1..n
    BY <1>2
  <2>2. n <= Len(f)
    BY <2>1, <1>2
  <2>3. Len(f) <= n
    BY <2>1, <1>2
  <2> QED
    BY <2>2, <2>3, <1>2
<1> QED
  BY <1>1, <1>2, <1>3

\* The journal with the record Send adds.
LEMMA AppendSeq ==
    ASSUME NEW T, NEW s \in Seq(T), NEW r \in T
    PROVE  /\ Append(s, r) \in Seq(T) /\ Len(Append(s, r)) = Len(s) + 1
           /\ \A i \in 1..Len(s) : Append(s, r)[i] = s[i]
           /\ Append(s, r)[Len(s) + 1] = r
           /\ Len(s) \in Nat
OBVIOUS

\* TxsOf in terms of positions.
LEMMA TxsOfSeq ==
    ASSUME NEW s \in Seq(Record)
    PROVE  TxsOf(s) = {s[i].tx : i \in 1..Len(s)} /\ Len(s) \in Nat
BY LenProperties DEF TxsOf

\* The names of the parts of the type invariant.
LEMMA TypeParts ==
    ASSUME TypeOK
    PROVE  /\ ChainTypeOK
           /\ records \in Seq(Record) /\ disk \in Seq(Record)
           /\ Len(records) \in Nat /\ Len(disk) \in Nat /\ Len(signed) \in Nat
           /\ final \in Nat /\ tip \in Nat /\ blocks \subseteq Nat /\ clock \in Nat
           /\ \A t \in Txs : signed[t] \in [quote : Nat, lastValid : Nat]
           /\ \A t \in Txs : signed[t].lastValid \in Nat
           /\ \A t \in DOMAIN landed : t \in Txs /\ landed[t] \in Nat
<1>1. /\ ChainTypeOK
      /\ records \in Seq(Record) /\ disk \in Seq(Record) /\ clock \in Nat
  BY DEF TypeOK
<1>2. /\ signed \in Seq([quote : Nat, lastValid : Nat])
      /\ final \in Nat /\ tip \in Nat /\ blocks \subseteq Nat /\ wire \subseteq Txs
      /\ DOMAIN landed \subseteq wire /\ landed \in [DOMAIN landed -> Nat]
  BY <1>1 DEF ChainTypeOK
<1>3. Len(records) \in Nat /\ Len(disk) \in Nat /\ Len(signed) \in Nat
  BY <1>1, <1>2, LenProperties
<1>4. \A t \in Txs : signed[t] \in [quote : Nat, lastValid : Nat]
  BY <1>2, ElementOfSeq DEF Txs
<1>5. \A t \in Txs : signed[t].lastValid \in Nat
  BY <1>4
<1>6. \A t \in DOMAIN landed : t \in Txs /\ landed[t] \in Nat
  BY <1>2
<1> QED
  BY <1>1, <1>2, <1>3, <1>4, <1>5, <1>6

-----------------------------------------------------------------------------

\* A non-empty set of numbers has a least element: induction for the next lemma.
LEMMA LeastElement ==
    ASSUME NEW T \in SUBSET Nat, T # {}
    PROVE  \E x \in T : \A y \in T : x <= y
<1>1. \A x, y \in Nat : <<x, y>> \in OpToRel(<, Nat) <=> x < y
  BY DEF OpToRel
<1>2. PICK x \in T : \A y \in T : ~ (<<y, x>> \in OpToRel(<, Nat))
  BY NatLessThanWellFounded, WFMin
<1>3. \A y \in T : ~ (y < x)
  BY <1>1, <1>2
<1>4. \A y \in T : x <= y
  BY <1>3
<1> QED
  BY <1>4

-----------------------------------------------------------------------------
(* What the chain never takes back. *)

\* A step keeps what is final and what can no longer get onto the chain.
Keeps ==
    /\ lagging' = lagging
    /\ Txs \subseteq Txs'
    /\ \A t \in Txs : (Final(t) => Final(t)') /\ (Gone(t) => Gone(t)')

\* A step of the wallet that signs nothing.
LEMMA QuietKeeps ==
    ASSUME UNCHANGED <<signed, final, landed, lagging>>
    PROVE  Keeps
BY DEF Keeps, Final, Gone, Txs

\* Blocks, solidity and forks keep it, because a fork stays above what is solid and a
\* block includes only what has not expired at the block below.
LEMMA ChainKeeps ==
    ASSUME TypeOK, BlocksInv, ChainNext
    PROVE  Keeps /\ BlocksInv' /\ ChainTypeOK' /\ final <= final'
<1>t. /\ final \in Nat /\ tip \in Nat /\ Len(signed) \in Nat /\ blocks \subseteq Nat
      /\ \A t \in Txs : signed[t].lastValid \in Nat
      /\ \A t \in DOMAIN landed : t \in Txs /\ landed[t] \in Nat
  BY TypeParts
<1>c. ChainTypeOK
  BY DEF TypeOK
<1>b. /\ final \in blocks /\ \A b \in blocks : b <= tip
      /\ \A t \in DOMAIN landed : landed[t] <= tip
      /\ \A t \in DOMAIN landed : \A b \in blocks : b < landed[t] => b < signed[t].lastValid
  BY DEF BlocksInv
<1>1. ASSUME NEW time \in tip + 1 .. MaxHeight, NEW S \in SUBSET Includable, Produce(S, time)
      PROVE  Keeps /\ BlocksInv' /\ ChainTypeOK' /\ final <= final'
  <2>1. /\ landed' = [t \in DOMAIN landed \cup S |-> IF t \in S THEN time ELSE landed[t]]
        /\ tip' = time /\ blocks' = blocks \cup {time}
        /\ UNCHANGED <<signed, wire, final, forks, lagging>>
    BY <1>1 DEF Produce
  <2>0. time \in Nat /\ tip < time
    BY <1>t, ChainBoundsAssumption
  <2>2. \A t \in S : t \in wire /\ t \notin DOMAIN landed /\ tip < signed[t].lastValid
    BY DEF Includable
  <2>3. DOMAIN landed' = DOMAIN landed \cup S
    BY <2>1
  <2>4. /\ Txs' = Txs /\ \A t \in DOMAIN landed : landed'[t] = landed[t]
        /\ \A t \in S : landed'[t] = time /\ t \in Txs
    BY <2>1, <2>2, <1>c DEF Txs, ChainTypeOK
  <2>5. \A t \in Txs : Final(t) => Final(t)'
    BY <2>1, <2>3, <2>4 DEF Final
  <2>6. \A t \in Txs : Gone(t) => Gone(t)'
    <3>1. final <= tip
      BY <1>b
    <3> QED
      BY <2>1, <2>2, <2>3, <1>t, <3>1 DEF Gone
  <2>7. landed' \in [DOMAIN landed' -> Nat]
    BY <2>0, <2>1, <2>3, <1>t
  <2>8. ChainTypeOK'
    BY <2>0, <2>1, <2>2, <2>3, <2>4, <2>7, <1>c DEF ChainTypeOK
  <2>9. BlocksInv'
    <3>1. final' \in blocks' /\ \A b \in blocks' : b <= tip'
      BY <2>0, <2>1, <1>b, <1>t
    <3>2. \A t \in DOMAIN landed' : landed'[t] <= tip'
      BY <2>0, <2>1, <2>3, <2>4, <1>b, <1>t
    <3>3. ASSUME NEW t \in DOMAIN landed', NEW b \in blocks', b < landed'[t]
          PROVE  b < signed'[t].lastValid
      <4>1. CASE t \in S
        <5>1. b \in blocks /\ b <= tip /\ b \in Nat
          BY <4>1, <3>3, <2>0, <2>1, <2>4, <1>b, <1>t
        <5> QED
          BY <5>1, <4>1, <2>1, <2>2, <2>4, <1>t
      <4>2. CASE t \notin S
        <5>1. t \in DOMAIN landed /\ landed'[t] = landed[t] /\ landed[t] <= tip
          BY <4>2, <2>3, <2>4, <1>b
        <5>2. b \in blocks
          BY <5>1, <3>3, <2>0, <2>1, <1>t
        <5> QED
          BY <5>1, <5>2, <3>3, <2>1, <1>b
      <4> QED
        BY <4>1, <4>2
    <3> QED
      BY <3>1, <3>2, <3>3 DEF BlocksInv
  <2> QED
    BY <2>1, <2>4, <2>5, <2>6, <2>8, <2>9, <1>t DEF Keeps
<1>2. ASSUME NEW time \in final + 1 .. tip, Finalize(time)
      PROVE  Keeps /\ BlocksInv' /\ ChainTypeOK' /\ final <= final'
  <2>1. /\ final' = time /\ time \in blocks /\ time \in Nat /\ final < time
        /\ UNCHANGED <<signed, wire, blocks, tip, landed, forks, lagging>>
    BY <1>2, <1>t DEF Finalize
  <2>2. Txs' = Txs /\ \A t \in Txs : (Final(t) => Final(t)') /\ (Gone(t) => Gone(t)')
    BY <2>1, <1>t DEF Txs, Final, Gone
  <2>3. ChainTypeOK'
    BY <2>1, <2>2, <1>t, <1>c DEF ChainTypeOK
  <2>4. BlocksInv'
    BY <2>1, <1>b DEF BlocksInv
  <2> QED
    BY <2>1, <2>2, <2>3, <2>4, <1>t DEF Keeps
<1>3. ASSUME NEW keep \in final .. tip - 1, Fork(keep)
      PROVE  Keeps /\ BlocksInv' /\ ChainTypeOK' /\ final <= final'
  <2>1. /\ keep \in blocks /\ forks' = forks + 1 /\ tip' = keep
        /\ blocks' = {b \in blocks : b <= keep}
        /\ landed' = [t \in {u \in DOMAIN landed : landed[u] <= keep} |-> landed[t]]
        /\ UNCHANGED <<signed, wire, final, lagging>>
    BY <1>3 DEF Fork
  <2>2. DOMAIN landed' = {u \in DOMAIN landed : landed[u] <= keep}
    BY <2>1
  <2>3. keep \in Nat /\ final <= keep
    BY <1>t
  <2>4. Txs' = Txs /\ \A t \in DOMAIN landed' : landed'[t] = landed[t]
    BY <2>1, <2>2 DEF Txs
  <2>5. \A t \in Txs : Final(t) => Final(t)'
    BY <2>1, <2>2, <2>3, <2>4, <1>t DEF Final
  <2>6. \A t \in Txs : Gone(t) => Gone(t)'
    BY <2>1, <2>2 DEF Gone
  <2>7. landed' \in [DOMAIN landed' -> Nat]
    BY <2>1, <2>2, <1>t
  <2>8. ChainTypeOK'
    BY <2>1, <2>2, <2>3, <2>4, <2>7, <1>c DEF ChainTypeOK
  <2>9. BlocksInv'
    BY <2>1, <2>2, <2>3, <2>4, <1>b DEF BlocksInv
  <2> QED
    BY <2>1, <2>3, <2>4, <2>5, <2>6, <2>8, <2>9, <1>t DEF Keeps
<1>4. ASSUME Tick PROVE Keeps /\ BlocksInv' /\ ChainTypeOK' /\ final <= final'
  <2>1. UNCHANGED <<signed, wire, blocks, tip, final, landed, forks, lagging>>
    BY <1>4 DEF Tick, chainVars
  <2> QED
    BY <2>1, <1>t, <1>c, <1>b, QuietKeeps DEF ChainTypeOK, BlocksInv, Txs
<1> QED
  BY <1>1, <1>2, <1>3, <1>4 DEF ChainNext, ChainStep

\* What is true of the records stays true when a step leaves the records alone.
LEMMA RecordsKeep ==
    ASSUME Sound(records), Keeps, records' = records
    PROVE  Sound(records)'
BY DEF Sound, Keeps, Dead

\* The same for the file.
LEMMA DiskKeep ==
    ASSUME Sound(disk), Keeps, disk' = disk
    PROVE  Sound(disk)'
BY DEF Sound, Keeps, Dead

\* The same for the copy a refresh works on.
LEMMA CopyKeeps ==
    ASSUME Revised(op.next), Keeps, op'.next = op.next, records' = records
    PROVE  Revised(op.next)'
BY DEF Revised, Sound, Keeps, Dead

-----------------------------------------------------------------------------
(* save. *)

\* The transactions of a revised journal are the same.
LEMMA RevisedTxs ==
    ASSUME TypeOK, NEW next, Revised(next)
    PROVE  TxsOf(next) = TxsOf(records)
<1>1. TxsOf(next) = {next[i].tx : i \in 1..Len(records)}
  BY TxsOfSeq DEF Revised
<1>2. TxsOf(records) = {records[i].tx : i \in 1..Len(records)}
  BY TxsOfSeq, TypeParts
<1> QED
  BY <1>1, <1>2 DEF Revised

\* The memory names nothing that the file does not.
LEMMA FileTxs ==
    ASSUME TypeOK, FileInv
    PROVE  TxsOf(records) \subseteq TxsOf(disk)
<1>1. TxsOf(disk) = {disk[i].tx : i \in 1..Len(disk)} /\ Len(disk) \in Nat
  BY TxsOfSeq, TypeParts
<1>2. TxsOf(records) = {records[i].tx : i \in 1..Len(records)} /\ Len(records) \in Nat
  BY TxsOfSeq, TypeParts
<1>3. \A i \in 1..Len(records) : i \in 1..Len(disk) /\ disk[i].tx = records[i].tx
  BY <1>1, <1>2 DEF FileInv
<1> QED
  BY <1>1, <1>2, <1>3

\* A write of a revised journal, whatever comes of it, keeps memory and file sound;
\* afterwards the file names what it named before or what the memory names.
LEMMA SaveRevised ==
    ASSUME TronInv, NEW next, Revised(next), NEW w \in WriteOutcome, save(next, w),
           UNCHANGED chainVars
    PROVE  /\ Sound(records)' /\ Sound(disk)' /\ FileInv'
           /\ records' \in Seq(Record) /\ disk' \in Seq(Record)
           /\ fault' \in BOOLEAN /\ spent' \in [crashes : Nat, writeErrors : Nat]
           /\ TxsOf(disk)' = TxsOf(disk) \/ TxsOf(disk)' = TxsOf(records)
<1>0. TypeOK /\ Sound(disk) /\ Sound(records) /\ FileInv
  BY DEF TronInv
<1>1. /\ records' = (IF w = "ok" THEN next ELSE records)
      /\ disk' = (IF w = "failed" THEN disk ELSE next)
      /\ fault' = (fault \/ w # "ok")
      /\ CountWrite(w)
  BY DEF save
<1>2. Keeps
  BY QuietKeeps DEF chainVars
<1>s. Sound(next) /\ Txs' = Txs /\ lagging' = lagging
        /\ \A t : (Final(t)' <=> Final(t)) /\ (Gone(t)' <=> Gone(t))
  BY DEF Revised, Txs, Final, Gone, chainVars
<1>3. Sound(records)'
  <2>1. CASE w = "ok"
    BY <2>1, <1>1, <1>s DEF Sound, Dead
  <2>2. CASE w # "ok"
    BY <2>2, <1>0, <1>1, <1>2, RecordsKeep
  <2> QED
    BY <2>1, <2>2
<1>4. Sound(disk)'
  <2>1. CASE w = "failed"
    BY <2>1, <1>0, <1>1, <1>2, DiskKeep
  <2>2. CASE w # "failed"
    BY <2>2, <1>1, <1>s DEF Sound, Dead
  <2> QED
    BY <2>1, <2>2
<1>5. records' \in Seq(Record) /\ disk' \in Seq(Record)
  BY <1>0, <1>1, TypeParts DEF Revised
<1>6. spent' \in [crashes : Nat, writeErrors : Nat] /\ fault' \in BOOLEAN
  <2>1. spent \in [crashes : Nat, writeErrors : Nat] /\ fault \in BOOLEAN
    BY <1>0 DEF TypeOK
  <2>2. fault' \in BOOLEAN
    BY <2>1, <1>1
  <2>3. spent' \in [crashes : Nat, writeErrors : Nat]
    BY <2>1, <1>1 DEF CountWrite
  <2> QED
    BY <2>2, <2>3
<1>7. TxsOf(next) = TxsOf(records)
  BY <1>0, RevisedTxs
<1>8. /\ TxsOf(disk)' = TxsOf(disk) \/ TxsOf(disk)' = TxsOf(records)
      /\ TxsOf(records)' = TxsOf(records)
  BY <1>1, <1>7 DEF TxsOf
<1>9. wire' \subseteq TxsOf(records)'
  BY <1>0, <1>8 DEF FileInv, chainVars
<1>10. FileInv'
  <2>1. /\ Len(disk) \in Nat /\ Len(records) \in Nat /\ Len(next) = Len(records)
        /\ \A i \in 1..Len(records) : next[i].tx = records[i].tx
        /\ Len(records) <= Len(disk) /\ Len(disk) <= Len(records) + 1
        /\ \A i \in 1..Len(records) : disk[i].tx = records[i].tx
    BY <1>0, TypeParts DEF Revised, FileInv
  <2>2. CASE w = "failed"
    <3>1. fault' /\ disk' = disk /\ records' = records
      BY <2>2, <1>1
    <3> QED
      BY <2>1, <3>1, <1>9 DEF FileInv
  <2>3. CASE w = "published"
    <3>1. fault' /\ disk' = next /\ records' = records
      BY <2>3, <1>1
    <3> QED
      BY <2>1, <3>1, <1>9 DEF FileInv
  <2>4. CASE w = "ok"
    <3>1. disk' = next /\ records' = next
      BY <2>4, <1>1
    <3> QED
      BY <2>1, <3>1, <1>9 DEF FileInv
  <2> QED
    BY <2>2, <2>3, <2>4 DEF WriteOutcome
<1> QED
  BY <1>3, <1>4, <1>5, <1>6, <1>8, <1>10

-----------------------------------------------------------------------------
(* The steps. *)

\* A step that changes neither the records, nor the file, nor what was sent.
LEMMA QuietFile ==
    ASSUME FileInv, UNCHANGED <<records, disk, fault, wire>>
    PROVE  FileInv'
BY DEF FileInv, TxsOf

\* An operation's fields have their types (TypeOK says it field by field).
LEMMA OpFields ==
    ASSUME NEW o \in Ops
    PROVE  /\ o.pc \in {"idle", "ready", "dispatch", "result", "visit", "receipt"}
           /\ o.next \in Seq(Record)
           /\ {o.quote, o.tx, o.start, o.offset, o.visits, o.solid} \subseteq Nat
BY DEF Ops

\* When no operation is under way nothing has been made sure of.
LEMMA IdleOp ==
    /\ Idle \in Ops /\ Idle.pc = "idle" /\ (op' = Idle => OpInv')
<1>1. Idle \in Ops
  <2>1. <<>> \in Seq(Record)
    BY EmptySeq
  <2> QED
    BY <2>1 DEF Idle, Ops
<1>2. Idle.pc = "idle"
  BY DEF Idle
<1> QED
  BY <1>1, <1>2 DEF OpInv

\* The type invariant, put together from its parts.
LEMMA AssembleType ==
    ASSUME ChainTypeOK', records' \in Seq(Record), disk' \in Seq(Record), op' \in Ops,
           DOMAIN quotes' \subseteq Nat, quotes' \in [DOMAIN quotes' -> Nat],
           issued' \in Nat, fault' \in BOOLEAN, historyNext' \in Nat, clock' \in Nat,
           spent' \in [crashes : Nat, writeErrors : Nat]
    PROVE  TypeOK'
<1>1. /\ op'.pc \in {"idle", "ready", "dispatch", "result", "visit", "receipt"}
      /\ op'.next \in Seq(Record)
      /\ {op'.quote, op'.tx, op'.start, op'.offset, op'.visits, op'.solid} \subseteq Nat
  BY OpFields
<1> QED
  BY <1>1 DEF TypeOK

\* A step that only touches the quotes, the rotation and the operation under way.
LEMMA QuietStep ==
    ASSUME TronInv, UNCHANGED <<chainVars, records, disk, fault, clock, spent>>,
           DOMAIN quotes' \subseteq Nat, quotes' \in [DOMAIN quotes' -> Nat],
           issued' \in Nat, historyNext' \in Nat, OpInv'
    PROVE  TronInv'
<1>1. Sound(records)' /\ Sound(disk)'
  BY QuietKeeps, RecordsKeep, DiskKeep DEF TronInv, chainVars
<1>2. FileInv'
  BY QuietFile DEF TronInv, chainVars
<1>3. BlocksInv'
  BY DEF TronInv, BlocksInv, chainVars
<1>4. ChainTypeOK'
  BY DEF TronInv, TypeOK, ChainTypeOK, chainVars, Txs
<1>5. /\ records' \in Seq(Record) /\ disk' \in Seq(Record) /\ op' \in Ops
      /\ fault' \in BOOLEAN /\ clock' \in Nat /\ spent' \in [crashes : Nat, writeErrors : Nat]
  BY DEF TronInv, TypeOK, OpInv
<1>6. TypeOK'
  BY <1>4, <1>5, AssembleType
<1> QED
  BY <1>1, <1>2, <1>3, <1>6 DEF TronInv

\* The facts every step starts from.
LEMMA Parts ==
    ASSUME TronInv
    PROVE  /\ TypeOK /\ BlocksInv /\ Sound(records) /\ Sound(disk) /\ FileInv /\ OpInv
           /\ op \in Ops /\ DOMAIN quotes \subseteq Nat /\ quotes \in [DOMAIN quotes -> Nat]
           /\ issued \in Nat /\ fault \in BOOLEAN /\ historyNext \in Nat /\ clock \in Nat
           /\ spent \in [crashes : Nat, writeErrors : Nat]
BY DEF TronInv, TypeOK, OpInv

\* Blocks, solidity, forks and the clock.
LEMMA ChainPreserves ==
    ASSUME TronInv, ChainNext
    PROVE  TronInv'
<1>0. /\ TypeOK /\ BlocksInv /\ Sound(records) /\ Sound(disk) /\ FileInv /\ OpInv
      /\ op \in Ops /\ DOMAIN quotes \subseteq Nat /\ quotes \in [DOMAIN quotes -> Nat]
      /\ issued \in Nat /\ fault \in BOOLEAN /\ historyNext \in Nat /\ clock \in Nat
      /\ spent \in [crashes : Nat, writeErrors : Nat]
  BY Parts
<1>1. Keeps /\ BlocksInv' /\ ChainTypeOK' /\ final <= final'
  BY <1>0, ChainKeeps
<1>2. /\ UNCHANGED <<records, disk, quotes, issued, fault, historyNext, op, spent, wire, lagging>>
      /\ clock' \in Nat
  <2>1. CASE ChainStep
    <3>1. UNCHANGED <<serviceVars, clock, spent>>
      BY <2>1 DEF ChainStep
    <3>2. UNCHANGED <<wire, lagging>>
      BY <2>1 DEF ChainStep, Produce, Finalize, Fork
    <3> QED
      BY <3>1, <3>2, <1>0 DEF serviceVars
  <2>2. CASE Tick
    BY <2>2, <1>0 DEF Tick, chainVars, serviceVars
  <2> QED
    BY <2>1, <2>2 DEF ChainNext
<1>3. Sound(records)' /\ Sound(disk)' /\ FileInv'
  BY <1>0, <1>1, <1>2, RecordsKeep, DiskKeep, QuietFile
<1>4. TypeOK'
  BY <1>0, <1>1, <1>2, AssembleType DEF TypeOK
<1>5. OpInv'
  <2>1. op.pc \in {"visit", "receipt"} => Revised(op.next)'
    BY <1>0, <1>1, <1>2, CopyKeeps DEF OpInv
  <2>2. op.pc = "receipt" => op.solid <= final' /\ Left' # {}
    <3>1. op.solid \in Nat /\ final \in Nat /\ final' \in Nat
      BY <1>0, <1>4, TypeParts DEF Ops, TypeOK, ChainTypeOK
    <3>2. Left' = Left
      BY <1>2 DEF Left, Position
    <3> QED
      BY <1>0, <1>1, <3>1, <3>2 DEF OpInv
  <2>3. op.pc = "ready" => ~fault' /\ ~pending' /\ op.quote \in DOMAIN quotes'
    BY <1>0, <1>2 DEF OpInv, pending, Positions
  <2>4. op.pc \in {"dispatch", "result"} => ~fault' /\ op.tx \in TxsOf(records)'
    BY <1>0, <1>2 DEF OpInv, TxsOf
  <2> QED
    BY <1>0, <1>2, <2>1, <2>2, <2>3, <2>4 DEF OpInv
<1> QED
  BY <1>1, <1>3, <1>4, <1>5 DEF TronInv

\* The steps that change only the operation under way, the rotation and the quotes.
LEMMA StartPreserves ==
    ASSUME TronInv,
           \/ \E block \in NowBlocks : Quote(block)
           \/ \E q \in DOMAIN quotes : SendCheck(q)
           \/ SendAbort
           \/ BroadcastRefused
           \/ \E i \in Positions : Retry(i)
           \/ HistoryStart
    PROVE  TronInv'
<1>0. /\ TypeOK /\ BlocksInv /\ Sound(records) /\ Sound(disk) /\ FileInv /\ OpInv
      /\ op \in Ops /\ DOMAIN quotes \subseteq Nat /\ quotes \in [DOMAIN quotes -> Nat]
      /\ issued \in Nat /\ historyNext \in Nat /\ clock \in Nat /\ QuoteLife \in Nat
      /\ records \in Seq(Record) /\ Len(records) \in Nat
  BY Parts, TypeParts, TronAssumption
<1>1. ASSUME UNCHANGED <<chainVars, records, disk, fault, quotes, issued, historyNext, clock, spent>>,
             OpInv'
      PROVE  TronInv'
  BY <1>0, <1>1, QuietStep
<1>2. ASSUME NEW block \in NowBlocks, Quote(block) PROVE TronInv'
  <2> DEFINE kept == {q \in DOMAIN quotes : clock <= quotes[q]}
  <2>1. /\ op = Idle /\ issued' = issued + 1
        /\ quotes' = [q \in kept \cup {issued + 1} |->
                         IF q = issued + 1 THEN clock + QuoteLife ELSE quotes[q]]
        /\ UNCHANGED <<chainVars, records, disk, fault, historyNext, op, clock, spent>>
    BY <1>2 DEF Quote
  <2>2. clock + QuoteLife \in Nat /\ kept \subseteq DOMAIN quotes
    BY <1>0
  <2> HIDE DEF kept
  <2>3. DOMAIN quotes' = kept \cup {issued + 1} /\ quotes' \in [DOMAIN quotes' -> Nat]
    BY <2>1, <2>2, <1>0
  <2> QED
    BY <2>1, <2>2, <2>3, <1>0, IdleOp, QuietStep
<1>3. ASSUME NEW q \in DOMAIN quotes, SendCheck(q) PROVE TronInv'
  <2>1. /\ ~fault /\ ~pending
        /\ op' = [Idle EXCEPT !.pc = "ready", !.quote = q]
        /\ UNCHANGED <<chainVars, records, disk, quotes, issued, fault, historyNext, clock, spent>>
    BY <1>3 DEF SendCheck
  <2>2. op' \in Ops /\ op'.pc = "ready" /\ op'.quote = q
    BY <2>1, <1>0, IdleOp, Zenon DEF Ops
  <2>3. OpInv'
    BY <2>1, <2>2 DEF OpInv, pending, Positions
  <2> QED
    BY <2>1, <2>3, <1>1
<1>4. ASSUME SendAbort PROVE TronInv'
  BY <1>1, <1>4, IdleOp DEF SendAbort
<1>5. ASSUME BroadcastRefused PROVE TronInv'
  BY <1>1, <1>5, IdleOp DEF BroadcastRefused
<1>6. ASSUME NEW i \in Positions, Retry(i) PROVE TronInv'
  <2>1. /\ ~fault /\ op' = [Idle EXCEPT !.pc = "dispatch", !.tx = records[i].tx]
        /\ UNCHANGED <<chainVars, records, disk, quotes, issued, fault, historyNext, clock, spent>>
    BY <1>6 DEF Retry
  <2>2. records[i].tx \in Nat
    <3>1. records[i] \in Record
      BY <1>0, ElementOfSeq DEF Positions
    <3> QED
      BY <3>1 DEF Record
  <2>3. op' \in Ops /\ op'.pc = "dispatch" /\ op'.tx = records[i].tx
    BY <2>1, <2>2, IdleOp, Zenon DEF Ops
  <2>4. records[i].tx \in TxsOf(records)
    BY <1>0, TxsOfSeq DEF Positions
  <2>5. OpInv'
    BY <2>1, <2>3, <2>4 DEF OpInv, TxsOf
  <2> QED
    BY <2>1, <2>5, <1>1
<1>7. ASSUME HistoryStart PROVE TronInv'
  <2>1. /\ op' = [Idle EXCEPT !.pc = "visit", !.next = records, !.start = historyNext]
        /\ UNCHANGED <<chainVars, records, disk, quotes, issued, fault, historyNext, clock, spent>>
    BY <1>7 DEF HistoryStart
  <2>2. op' \in Ops /\ op'.pc = "visit" /\ op'.next = records
    BY <2>1, <1>0, IdleOp, Zenon DEF Ops
  <2>3. Sound(records)'
    BY <2>1, <1>0, QuietKeeps, RecordsKeep DEF chainVars
  <2>4. Revised(op.next)'
    BY <2>1, <2>2, <2>3, <1>0 DEF Revised, Sound
  <2>5. OpInv'
    BY <2>2, <2>4 DEF OpInv
  <2> QED
    BY <2>1, <2>5, <1>1
<1> QED
  BY <1>2, <1>3, <1>4, <1>5, <1>6, <1>7

\* Records that block no new transfer are settled: the chain has them for good or
\* will never have them.
LEMMA SettledIsDead ==
    ASSUME Sound(records), ~pending, ~lagging
    PROVE  \A i \in 1..Len(records) : Dead(records[i].tx)
BY DEF Sound, pending, Positions, Dead

\* The journal Send writes first: the new transaction is the only one that can be
\* outstanding, and nothing below it has changed.
LEMMA PreparedJournal ==
    ASSUME TronInv, NEW w \in WriteOutcomes, SendPrepare(w),
           NEW next, next = Append(records, NewRecord(Len(signed) + 1))
    PROVE  /\ next \in Seq(Record) /\ Len(next) = Len(records) + 1
           /\ \A i \in 1..Len(records) : next[i] = records[i]
           /\ next[Len(records) + 1] = NewRecord(Len(signed) + 1)
           /\ Len(signed) + 1 \notin TxsOf(records)
           /\ TxsOf(next) = TxsOf(records) \cup {Len(signed) + 1}
<1> DEFINE t == Len(signed) + 1
<1>0. TypeOK /\ Sound(records)
  BY DEF TronInv
<1>1. Len(signed) \in Nat /\ Len(records) \in Nat /\ records \in Seq(Record)
  BY <1>0, TypeParts
<1>2. NewRecord(t) \in Record /\ NewRecord(t).tx = t
  BY <1>1 DEF NewRecord, Record, State
<1>3. /\ next \in Seq(Record) /\ Len(next) = Len(records) + 1
      /\ \A i \in 1..Len(records) : next[i] = records[i]
      /\ next[Len(records) + 1] = NewRecord(t)
  BY <1>1, <1>2, AppendSeq
<1>4. TxsOf(records) = {records[i].tx : i \in 1..Len(records)}
  BY <1>1, TxsOfSeq
<1>5. t \notin TxsOf(records)
  BY <1>0, <1>1, <1>4 DEF Sound, Txs
<1>6. TxsOf(next) = {next[i].tx : i \in 1..(Len(records) + 1)}
  BY <1>3, TxsOfSeq
<1>7. 1..(Len(records) + 1) = (1..Len(records)) \cup {Len(records) + 1}
  BY <1>1
<1>8. TxsOf(next) = {next[i].tx : i \in 1..Len(records)} \cup {next[Len(records) + 1].tx}
  BY <1>6, <1>7, Zenon
<1>9. {next[i].tx : i \in 1..Len(records)} = {records[i].tx : i \in 1..Len(records)}
  BY <1>3
<1> QED
  BY <1>2, <1>3, <1>4, <1>5, <1>8, <1>9

\* Send's first write.
LEMMA PreparePreserves ==
    ASSUME TronInv, NEW w \in WriteOutcomes, SendPrepare(w)
    PROVE  /\ TronInv'
           /\ \/ TxsOf(disk)' = TxsOf(disk)
              \/ Len(signed) + 1 \notin TxsOf(disk)
                   /\ TxsOf(disk)' = TxsOf(disk) \cup {Len(signed) + 1}
<1> DEFINE t == Len(signed) + 1
           next == Append(records, NewRecord(t))
<1>0. /\ TypeOK /\ BlocksInv /\ Sound(records) /\ Sound(disk) /\ FileInv /\ OpInv
      /\ op \in Ops /\ DOMAIN quotes \subseteq Nat /\ quotes \in [DOMAIN quotes -> Nat]
      /\ issued \in Nat /\ fault \in BOOLEAN /\ historyNext \in Nat /\ clock \in Nat
      /\ spent \in [crashes : Nat, writeErrors : Nat]
  BY Parts
<1>1. /\ op.pc = "ready" /\ ~fault /\ ~pending /\ op.quote \in DOMAIN quotes /\ disk = records
  BY <1>0 DEF SendPrepare, OpInv, FileInv
<1>2. /\ signed' = Append(signed, [quote |-> op.quote, lastValid |-> quotes[op.quote]])
      /\ records' = (IF w = "ok" THEN next ELSE records)
      /\ disk' = (IF w = "failed" THEN disk ELSE next)
      /\ fault' = (fault \/ w # "ok") /\ CountWrite(w)
      /\ w = "ok" => /\ quotes' = [q \in DOMAIN quotes \ {op.quote} |-> quotes[q]]
                     /\ op' = [Idle EXCEPT !.pc = "dispatch", !.tx = t]
      /\ w # "ok" => op' = Idle /\ quotes' = quotes
      /\ UNCHANGED <<wire, blocks, tip, final, landed, forks, lagging, issued,
                     historyNext, clock>>
  BY DEF SendPrepare, save
<1>w. w \in {"ok", "failed", "published"}
  BY DEF WriteOutcomes, WriteOutcome
<1>3. /\ Len(signed) \in Nat /\ Len(records) \in Nat /\ records \in Seq(Record)
      /\ signed \in Seq([quote : Nat, lastValid : Nat]) /\ t \in Nat
  <2>1. Len(signed) \in Nat /\ Len(records) \in Nat /\ records \in Seq(Record)
    BY <1>0, TypeParts
  <2>2. signed \in Seq([quote : Nat, lastValid : Nat])
    BY <1>0 DEF TypeOK, ChainTypeOK
  <2> QED
    BY <2>1, <2>2
<1>4. NewRecord(t).tx = t /\ ~NewRecord(t).finalized
        /\ NewRecord(t).state = "broadcast_unknown"
  BY DEF NewRecord
<1>5. /\ next \in Seq(Record) /\ Len(next) = Len(records) + 1
      /\ \A i \in 1..Len(records) : next[i] = records[i]
      /\ next[Len(records) + 1] = NewRecord(t)
      /\ t \notin TxsOf(records) /\ TxsOf(next) = TxsOf(records) \cup {t}
  BY PreparedJournal
<1> HIDE DEF next
<1>6. [quote |-> op.quote, lastValid |-> quotes[op.quote]] \in [quote : Nat, lastValid : Nat]
  BY <1>0, <1>1
<1>7. /\ signed' \in Seq([quote : Nat, lastValid : Nat]) /\ Len(signed') = t
      /\ \A i \in 1..Len(signed) : signed'[i] = signed[i]
  BY <1>2, <1>3, <1>6, AppendSeq
<1>8. Txs \subseteq Txs' /\ t \in Txs' /\ \A u \in Txs : signed'[u] = signed[u]
  BY <1>3, <1>7 DEF Txs
<1>9. Keeps
  BY <1>2, <1>8 DEF Keeps, Final, Gone
<1>10. \A i \in 1..Len(records) :
          /\ records[i].tx \in Txs'
          /\ records[i].finalized => records[i].tx \in DOMAIN landed' /\ landed'[records[i].tx] <= final'
          /\ (~lagging' /\ records[i].state = "expired_unconfirmed")
                => records[i].tx \notin DOMAIN landed' /\ signed'[records[i].tx].lastValid <= final'
          /\ ~lagging' => \/ records[i].tx \in DOMAIN landed' /\ landed'[records[i].tx] <= final'
                          \/ /\ records[i].tx \notin DOMAIN landed'
                             /\ signed'[records[i].tx].lastValid <= final'
  <2>1. \A i \in 1..Len(records) :
            /\ records[i].tx \in Txs
            /\ records[i].finalized => Final(records[i].tx)
            /\ (~lagging /\ records[i].state = "expired_unconfirmed") => Gone(records[i].tx)
            /\ ~lagging => Dead(records[i].tx)
    BY <1>0, <1>1, SettledIsDead DEF Sound
  <2> QED
    BY <2>1, <1>2, <1>8 DEF Dead, Final, Gone
<1>11. ASSUME NEW i \in 1..Len(next)
       PROVE  /\ next[i].tx \in Txs'
              /\ next[i].finalized => next[i].tx \in DOMAIN landed' /\ landed'[next[i].tx] <= final'
              /\ (~lagging' /\ next[i].state = "expired_unconfirmed")
                    => next[i].tx \notin DOMAIN landed' /\ signed'[next[i].tx].lastValid <= final'
              /\ (~lagging' /\ i < Len(next))
                    => \/ next[i].tx \in DOMAIN landed' /\ landed'[next[i].tx] <= final'
                       \/ /\ next[i].tx \notin DOMAIN landed'
                          /\ signed'[next[i].tx].lastValid <= final'
  <2>1. CASE i \in 1..Len(records)
    BY <2>1, <1>5, <1>10
  <2>2. CASE i = Len(records) + 1
    BY <2>2, <1>3, <1>4, <1>5, <1>8
  <2> QED
    BY <2>1, <2>2, <1>3, <1>5
<1>12. Sound(records)'
  <2>1. CASE w = "ok"
    <3>1. records' = next
      BY <2>1, <1>2
    <3> QED
      BY <3>1, <1>11 DEF Sound, Dead, Final, Gone
  <2>2. CASE w # "ok"
    BY <2>2, <1>0, <1>2, <1>9, RecordsKeep
  <2> QED
    BY <2>1, <2>2
<1>13. Sound(disk)'
  <2>1. CASE w = "failed"
    BY <2>1, <1>0, <1>2, <1>9, DiskKeep
  <2>2. CASE w # "failed"
    <3>1. disk' = next
      BY <2>2, <1>2
    <3> QED
      BY <3>1, <1>11 DEF Sound, Dead, Final, Gone
  <2> QED
    BY <2>1, <2>2
<1>14. /\ TxsOf(disk)' = (IF w = "failed" THEN TxsOf(disk) ELSE TxsOf(disk) \cup {t})
       /\ TxsOf(records)' = (IF w = "ok" THEN TxsOf(records) \cup {t} ELSE TxsOf(records))
  <2>1. /\ w = "failed" => TxsOf(disk)' = TxsOf(disk)
        /\ w # "failed" => TxsOf(disk)' = TxsOf(next)
        /\ w = "ok" => TxsOf(records)' = TxsOf(next)
        /\ w # "ok" => TxsOf(records)' = TxsOf(records)
    BY <1>2 DEF TxsOf
  <2>2. TxsOf(disk) = TxsOf(records)
    BY <1>1
  <2> QED
    BY <2>1, <2>2, <1>5
<1>15. FileInv'
  <2>1. wire' \subseteq TxsOf(records)'
    BY <1>0, <1>2, <1>14 DEF FileInv
  <2>2. CASE w = "failed"
    <3>1. fault' /\ disk' = records /\ records' = records
      BY <2>2, <1>1, <1>2
    <3> QED
      BY <2>1, <3>1, <1>3 DEF FileInv
  <2>3. CASE w = "published"
    <3>1. fault' /\ disk' = next /\ records' = records
      BY <2>3, <1>1, <1>2
    <3> QED
      BY <2>1, <3>1, <1>3, <1>5 DEF FileInv
  <2>4. CASE w = "ok"
    <3>1. disk' = next /\ records' = next
      BY <2>4, <1>2
    <3> QED
      BY <2>1, <3>1, <1>3, <1>5 DEF FileInv
  <2> QED
    BY <2>2, <2>3, <2>4, <1>w
<1>16. OpInv'
  <2>1. CASE w = "ok"
    <3>1. op' \in Ops /\ op'.pc = "dispatch" /\ op'.tx = t
      <4>1. t \in Nat /\ op' = [Idle EXCEPT !.pc = "dispatch", !.tx = t]
        BY <2>1, <1>2, <1>3
      <4> HIDE DEF t
      <4> QED
        BY <4>1, IdleOp, Zenon DEF Ops
    <3>2. ~fault' /\ t \in TxsOf(records)'
      BY <2>1, <1>1, <1>2, <1>14
    <3> QED
      BY <3>1, <3>2 DEF OpInv
  <2>2. CASE w # "ok"
    BY <2>2, <1>2, IdleOp
  <2> QED
    BY <2>1, <2>2
<1>17. BlocksInv'
  <2>1. \A u \in DOMAIN landed : u \in Txs
    BY <1>0, TypeParts
  <2> QED
    BY <2>1, <1>0, <1>2, <1>8 DEF BlocksInv
<1>18. TypeOK'
  <2>1. ChainTypeOK'
    BY <1>0, <1>2, <1>7, <1>8 DEF TypeOK, ChainTypeOK
  <2>2. records' \in Seq(Record) /\ disk' \in Seq(Record)
    BY <1>1, <1>2, <1>3, <1>5
  <2>3. fault' \in BOOLEAN
    BY <1>0, <1>2
  <2>4. spent' \in [crashes : Nat, writeErrors : Nat]
    BY <1>0, <1>2 DEF CountWrite
  <2>5. DOMAIN quotes' \subseteq Nat /\ quotes' \in [DOMAIN quotes' -> Nat]
    BY <1>0, <1>2
  <2>6. op' \in Ops
    BY <1>16 DEF OpInv
  <2> QED
    BY <1>0, <1>2, <2>1, <2>2, <2>3, <2>4, <2>5, <2>6, AssembleType
<1> QED
  BY <1>1, <1>5, <1>12, <1>13, <1>14, <1>15, <1>16, <1>17, <1>18 DEF TronInv

\* /wallet/broadcasthex: what it delivers is already in the file.
LEMMA BroadcastPreserves ==
    ASSUME TronInv, NEW d \in BOOLEAN, NEW ok \in BOOLEAN, BroadcastHex(d, ok)
    PROVE  TronInv' /\ op.tx \in TxsOf(disk)
<1>0. /\ TypeOK /\ BlocksInv /\ Sound(records) /\ Sound(disk) /\ FileInv /\ OpInv
      /\ op \in Ops /\ DOMAIN quotes \subseteq Nat /\ quotes \in [DOMAIN quotes -> Nat]
      /\ issued \in Nat /\ fault \in BOOLEAN /\ historyNext \in Nat /\ clock \in Nat
      /\ spent \in [crashes : Nat, writeErrors : Nat]
  BY Parts
<1>1. /\ op.pc = "dispatch"
      /\ wire' = (IF d THEN wire \cup {op.tx} ELSE wire)
      /\ op' = [op EXCEPT !.pc = "result", !.ok = ok]
      /\ UNCHANGED <<signed, blocks, tip, final, landed, forks, lagging, records, disk, quotes,
                     issued, fault, historyNext, clock, spent>>
  BY DEF BroadcastHex
<1>2. op.tx \in TxsOf(records) /\ ~fault
  BY <1>0, <1>1 DEF OpInv
<1>3. TxsOf(records) \subseteq Txs
  <2>1. TxsOf(records) = {records[i].tx : i \in 1..Len(records)}
    BY <1>0, TypeParts, TxsOfSeq
  <2> QED
    BY <2>1, <1>0 DEF Sound
<1>4. Sound(records)' /\ Sound(disk)'
  BY <1>0, <1>1, QuietKeeps, RecordsKeep, DiskKeep
<1>5. FileInv'
  BY <1>0, <1>1, <1>2 DEF FileInv, TxsOf
<1>6. op' \in Ops /\ op'.pc = "result" /\ op'.tx = op.tx
  BY <1>0, <1>1, Zenon DEF Ops
<1>7. OpInv'
  BY <1>1, <1>2, <1>6 DEF OpInv, TxsOf
<1>8. ChainTypeOK'
  <2>1. wire' \subseteq Txs' /\ DOMAIN landed' \subseteq wire' /\ Txs' = Txs
    BY <1>0, <1>1, <1>2, <1>3 DEF TypeOK, ChainTypeOK, Txs
  <2> QED
    BY <1>0, <1>1, <2>1 DEF TypeOK, ChainTypeOK
<1>9. TypeOK'
  BY <1>0, <1>1, <1>6, <1>8, AssembleType DEF TypeOK
<1>10. BlocksInv'
  BY <1>0, <1>1 DEF BlocksInv
<1>11. op.tx \in TxsOf(disk)
  BY <1>0, <1>2, FileTxs
<1> QED
  BY <1>4, <1>5, <1>7, <1>9, <1>10, <1>11 DEF TronInv

\* The journal Send and Retry write after the RPC.
LEMMA ResultRevises ==
    ASSUME TronInv, NEW state \in {"submitted", "broadcast_unknown"}
    PROVE  Revised([i \in Positions |-> IF records[i].tx = op.tx
                                        THEN [records[i] EXCEPT !.state = state]
                                        ELSE records[i]])
<1> DEFINE Submit(r) == IF r.tx = op.tx THEN [r EXCEPT !.state = state] ELSE r
           next == [i \in Positions |-> Submit(records[i])]
<1>1. Len(records) \in Nat /\ records \in Seq(Record) /\ Sound(records)
  BY TypeParts DEF TronInv
<1>2. \A r \in Record : /\ Submit(r) \in Record /\ Submit(r).tx = r.tx
                        /\ Submit(r).finalized = r.finalized
                        /\ Submit(r).state \in {r.state, state}
  <2> TAKE r \in Record
  <2>1. /\ [r EXCEPT !.state = state] \in Record
        /\ [r EXCEPT !.state = state].tx = r.tx
        /\ [r EXCEPT !.state = state].state = state
    BY DEF Record, State
  <2>2. [r EXCEPT !.state = state].finalized = r.finalized
    BY Zenon DEF Record, State
  <2> QED
    BY <2>1, <2>2
<1>3. \A i \in 1..Len(records) : records[i] \in Record
  BY <1>1, ElementOfSeq
<1> HIDE DEF Submit
<1>4. next \in [1..Len(records) -> Record]
  BY <1>2, <1>3 DEF Positions
<1>5. next \in Seq(Record) /\ Len(next) = Len(records)
  BY <1>1, <1>4, MapSeq, Zenon
<1>6. \A i \in 1..Len(records) : /\ next[i].tx = records[i].tx
                                 /\ next[i].finalized = records[i].finalized
                                 /\ next[i].state \in {records[i].state, state}
  BY <1>2, <1>3 DEF Positions
<1>7. Revised(next)
  <2> HIDE DEF next
  <2>1. Sound(next)
    BY <1>1, <1>5, <1>6 DEF Sound
  <2> QED
    BY <2>1, <1>5, <1>6 DEF Revised
<1> QED
  BY <1>7 DEF Submit

\* A step that writes a revised journal and ends the operation.
LEMMA WritePreserves ==
    ASSUME TronInv, NEW next, Revised(next), NEW w \in WriteOutcome, save(next, w),
           UNCHANGED <<chainVars, quotes, issued, historyNext, clock>>, op' = Idle
    PROVE  TronInv'
<1>1. /\ Sound(records)' /\ Sound(disk)' /\ FileInv'
      /\ records' \in Seq(Record) /\ disk' \in Seq(Record)
      /\ fault' \in BOOLEAN /\ spent' \in [crashes : Nat, writeErrors : Nat]
  BY SaveRevised
<1>2. ChainTypeOK' /\ BlocksInv'
  BY DEF TronInv, TypeOK, ChainTypeOK, BlocksInv, chainVars, Txs
<1>3. /\ DOMAIN quotes' \subseteq Nat /\ quotes' \in [DOMAIN quotes' -> Nat]
      /\ issued' \in Nat /\ historyNext' \in Nat /\ clock' \in Nat
  BY Parts
<1>4. op' \in Ops /\ OpInv'
  BY IdleOp
<1>5. TypeOK'
  BY <1>1, <1>2, <1>3, <1>4, AssembleType
<1> QED
  BY <1>1, <1>2, <1>4, <1>5 DEF TronInv

\* Send's and Retry's second write.
LEMMA ResultPreserves ==
    ASSUME TronInv, NEW w \in WriteOutcomes, BroadcastResult(w)
    PROVE  TronInv'
<1> DEFINE state == IF op.ok THEN "submitted" ELSE "broadcast_unknown"
           next == [i \in Positions |-> IF records[i].tx = op.tx
                                        THEN [records[i] EXCEPT !.state = state]
                                        ELSE records[i]]
<1>1. w \in WriteOutcome
  BY DEF WriteOutcomes, WriteOutcome
<1>2. /\ save(next, w) /\ op' = Idle
      /\ UNCHANGED <<chainVars, quotes, issued, historyNext, clock>>
  BY DEF BroadcastResult
<1>3. state \in {"submitted", "broadcast_unknown"}
  OBVIOUS
<1> HIDE DEF state
<1>4. Revised(next)
  BY <1>3, ResultRevises
<1> HIDE DEF next
<1> QED
  BY <1>1, <1>2, <1>4, WritePreserves

-----------------------------------------------------------------------------
(* History. *)

\* While a record is visited (Left is not empty) its position exists, and so does the
\* place where the next refresh starts.
LEMMA CurrentPosition ==
    ASSUME op \in Ops, Left # {}
    PROVE  /\ Current \in Left /\ Current \in Nat
           /\ Position(Current) \in 1..Len(op.next)
           /\ NextStart \in Nat
<1>1. op.offset \in Nat /\ op.start \in Nat /\ Len(op.next) \in Nat
  <2>1. op.next \in Seq(Record)
    BY DEF Ops
  <2> QED
    BY <2>1, LenProperties DEF Ops
<1>2. \A o \in Left : o \in Nat /\ o < Len(op.next)
  BY <1>1 DEF Left
<1>3. \E o \in Left : \A p \in Left : o <= p
  BY <1>2, LeastElement
<1>4. Current \in Left
  BY <1>3 DEF Current
<1>5. Current \in Nat /\ Len(op.next) \in Nat \ {0}
  BY <1>1, <1>2, <1>4
<1>6. \A a \in Nat, b \in Nat \ {0} : a % b \in 0 .. b - 1
  OBVIOUS
<1>7. (op.start + Current) % Len(op.next) \in 0 .. Len(op.next) - 1
  <2>1. op.start + Current \in Nat
    BY <1>1, <1>5
  <2> QED
    BY <2>1, <1>5, <1>6
<1>8. Position(Current) \in 1..Len(op.next)
  BY <1>1, <1>7 DEF Position
<1>9. NextStart \in 0 .. Len(op.next) - 1
  <2>1. Position(Current) \in Nat
    BY <1>8
  <2> QED
    BY <2>1, <1>5, <1>6 DEF NextStart
<1> QED
  BY <1>4, <1>5, <1>8, <1>9

\* The loop's next turn is an operation of its type.
LEMMA AdvanceOp ==
    ASSUME op \in Ops, Left # {}, NEW next \in Seq(Record)
    PROVE  Advance(next) \in Ops /\ Advance(next).pc = "visit" /\ Advance(next).next = next
<1> DEFINE o == Current + 1
           v == op.visits + 1
<1>1. o \in Nat /\ v \in Nat /\ 0 \in Nat
  BY CurrentPosition DEF Ops
<1>2. Advance(next) = [op EXCEPT !.pc = "visit", !.next = next, !.offset = o, !.visits = v, !.solid = 0]
  BY DEF Advance
<1> HIDE DEF o, v
<1>3. [op EXCEPT !.pc = "visit", !.next = next, !.offset = o, !.visits = v, !.solid = 0] \in Ops
  BY <1>1, Zenon DEF Ops
<1>4. /\ [op EXCEPT !.pc = "visit", !.next = next, !.offset = o, !.visits = v, !.solid = 0].pc = "visit"
      /\ [op EXCEPT !.pc = "visit", !.next = next, !.offset = o, !.visits = v, !.solid = 0].next = next
  BY Zenon DEF Ops
<1> QED
  BY <1>2, <1>3, <1>4

\* What the receipt makes of a record of the copy.  Without a receipt and with a solid
\* head past the expiration the transaction is in no block: a block that includes it
\* would be at or below the solid head.
LEMMA ReceiptRevises ==
    ASSUME TronInv, op.pc = "receipt", NEW p \in 1..Len(op.next),
           NEW found \in Receipts(op.next[p].tx)
    PROVE  Revised([op.next EXCEPT ![p] = Refreshed(op.next[p], found)])
<1> DEFINE r == op.next[p]
           x == Refreshed(r, found)
           next == [op.next EXCEPT ![p] = x]
<1>0. /\ TypeOK /\ BlocksInv /\ Sound(records) /\ Sound(disk) /\ FileInv /\ OpInv
      /\ op \in Ops
  BY Parts
<1>1. /\ Revised(op.next) /\ Sound(op.next) /\ op.next \in Seq(Record)
      /\ Len(op.next) = Len(records) /\ op.solid <= final
  BY <1>0 DEF OpInv, Revised
<1>2. /\ Len(records) \in Nat /\ final \in Nat /\ op.solid \in Nat
      /\ \A t \in Txs : signed[t].lastValid \in Nat
      /\ \A t \in DOMAIN landed : t \in Txs /\ landed[t] \in Nat
  BY <1>0, TypeParts DEF Ops
<1>3. r \in Record /\ r.tx \in Txs
  BY <1>1, ElementOfSeq DEF Sound
<1>4. found \in BOOLEAN /\ (found => Final(r.tx)) /\ (~found => ~Final(r.tx) \/ lagging)
  BY DEF Receipts
<1>5. CASE found
  <2>1. x = [r EXCEPT !.finalized = TRUE, !.state = "finalized"]
    BY <1>5 DEF Refreshed
  <2>2. x \in Record /\ x.tx = r.tx /\ x.state = "finalized"
    BY <2>1, <1>3, Zenon DEF Record, State
  <2> HIDE DEF x
  <2>3. next \in Seq(Record) /\ Len(next) = Len(op.next)
        /\ \A j \in 1..Len(op.next) : next[j] = IF j = p THEN x ELSE op.next[j]
    BY <2>2, <1>1, ExceptSeq
  <2> HIDE DEF next
  <2>4. Sound(next)
    BY <2>2, <2>3, <1>1, <1>4, <1>5 DEF Sound
  <2>5. Revised(next)
    BY <2>2, <2>3, <2>4, <1>1 DEF Revised
  <2> QED
    BY <2>5 DEF next, x
<1>6. CASE ~found /\ op.solid > Expires(r.tx)
  <2>0. op.solid \in Nat
    BY <1>2
  <2>1. x = [r EXCEPT !.state = "expired_unconfirmed", !.checkedAt = op.solid]
    BY <1>6 DEF Refreshed
  <2>2. x \in Record /\ x.tx = r.tx /\ x.finalized = r.finalized
    BY <2>0, <2>1, <1>3, Zenon DEF Record, State
  <2>3. ~lagging => Gone(r.tx)
    <3> SUFFICES ASSUME ~lagging PROVE Gone(r.tx)
      OBVIOUS
    <3>1. signed[r.tx].lastValid <= final /\ ~(final < signed[r.tx].lastValid)
      BY <1>1, <1>2, <1>3, <1>6 DEF Expires
    <3>2. r.tx \notin DOMAIN landed
      <4> SUFFICES ASSUME r.tx \in DOMAIN landed PROVE FALSE
        OBVIOUS
      <4>1. final < landed[r.tx]
        BY <1>2, <1>4, <1>6 DEF Final
      <4> QED
        BY <4>1, <3>1, <1>0 DEF BlocksInv
    <3> QED
      BY <3>1, <3>2 DEF Gone
  <2> HIDE DEF x
  <2>4. next \in Seq(Record) /\ Len(next) = Len(op.next)
        /\ \A j \in 1..Len(op.next) : next[j] = IF j = p THEN x ELSE op.next[j]
    BY <2>2, <1>1, ExceptSeq
  <2> HIDE DEF next
  <2>5. Sound(next)
    BY <2>2, <2>3, <2>4, <1>1 DEF Sound
  <2>6. Revised(next)
    BY <2>2, <2>4, <2>5, <1>1 DEF Revised
  <2> QED
    BY <2>6 DEF next, x
<1>7. CASE ~found /\ ~(op.solid > Expires(r.tx))
  <2>1. x = r
    BY <1>7 DEF Refreshed
  <2>2. next = op.next
    BY <2>1, <1>1
  <2> QED
    BY <2>2, <1>1
<1> QED
  BY <1>4, <1>5, <1>6, <1>7

\* The loop of History.
LEMMA LoopPreserves ==
    ASSUME TronInv,
           \/ \E solid \in 0 .. final : RefreshSolid(solid)
           \/ \E found \in BOOLEAN : RefreshReceipt(found)
           \/ RefreshFails
    PROVE  TronInv'
<1>0. /\ TypeOK /\ OpInv /\ op \in Ops
      /\ DOMAIN quotes \subseteq Nat /\ quotes \in [DOMAIN quotes -> Nat]
      /\ issued \in Nat /\ historyNext \in Nat /\ final \in Nat
  BY Parts, TypeParts
<1>1. ASSUME UNCHANGED <<chainVars, records, disk, quotes, issued, fault, clock, spent>>,
             historyNext' \in Nat, OpInv'
      PROVE  TronInv'
  BY <1>0, <1>1, QuietStep
<1>k. ASSUME UNCHANGED chainVars, records' = records, NEW next, Revised(next), op'.next = next
      PROVE  Revised(op.next)'
  BY <1>k DEF Revised, Sound, Dead, Final, Gone, Txs, chainVars
<1>2. ASSUME NEW solid \in 0 .. final, RefreshSolid(solid) PROVE TronInv'
  <2>1. /\ op.pc = "visit" /\ Left # {} /\ historyNext' = NextStart
        /\ op' = [op EXCEPT !.pc = "receipt", !.solid = solid]
        /\ UNCHANGED <<chainVars, records, disk, quotes, issued, fault, clock, spent>>
    BY <1>2 DEF RefreshSolid
  <2>2. solid \in Nat /\ solid <= final
    BY <1>0
  <2>3. op' \in Ops /\ op'.pc = "receipt" /\ op'.solid = solid /\ op'.next = op.next
        /\ op'.start = op.start /\ op'.offset = op.offset
    BY <2>1, <2>2, <1>0, Zenon DEF Ops
  <2>4. Left' = Left
    BY <2>3 DEF Left, Position
  <2>5. Revised(op.next)'
    BY <2>1, <2>3, <1>0, <1>k DEF OpInv
  <2>6. op'.solid <= final'
    BY <2>1, <2>2, <2>3 DEF chainVars
  <2>7. OpInv'
    BY <2>1, <2>3, <2>4, <2>5, <2>6 DEF OpInv
  <2> QED
    BY <2>1, <2>7, <1>0, <1>1, CurrentPosition
<1>3. ASSUME NEW found \in BOOLEAN, RefreshReceipt(found) PROVE TronInv'
  <2> DEFINE p == Position(Current)
             next == [op.next EXCEPT ![p] = Refreshed(op.next[p], found)]
  <2>1. /\ op.pc = "receipt" /\ found \in Receipts(op.next[p].tx)
        /\ op' = Advance(next)
        /\ UNCHANGED <<chainVars, records, disk, quotes, issued, fault, historyNext, clock, spent>>
    BY <1>3 DEF RefreshReceipt
  <2>2. Left # {}
    BY <2>1, <1>0 DEF OpInv
  <2>3. p \in 1..Len(op.next)
    BY <2>2, <1>0, CurrentPosition
  <2>4. Revised(next)
    BY <2>1, <2>3, ReceiptRevises
  <2> HIDE DEF next, p
  <2>5. op' \in Ops /\ op'.pc = "visit" /\ op'.next = next
    BY <2>1, <2>2, <2>4, <1>0, AdvanceOp DEF Revised
  <2>6. OpInv'
    BY <2>1, <2>4, <2>5, <1>k DEF OpInv
  <2> QED
    BY <2>1, <2>6, <1>0, <1>1
<1>4. ASSUME RefreshFails PROVE TronInv'
  <2>1. /\ op.pc \in {"visit", "receipt"} /\ Left # {} /\ historyNext' = NextStart
        /\ op' = Advance(op.next)
        /\ UNCHANGED <<chainVars, records, disk, quotes, issued, fault, clock, spent>>
    BY <1>4 DEF RefreshFails
  <2>2. Revised(op.next)
    BY <2>1, <1>0 DEF OpInv
  <2>3. op' \in Ops /\ op'.pc = "visit" /\ op'.next = op.next
    BY <2>1, <2>2, <1>0, AdvanceOp DEF Revised
  <2>4. OpInv'
    BY <2>1, <2>2, <2>3, <1>k DEF OpInv
  <2> QED
    BY <2>1, <2>4, <1>0, <1>1, CurrentPosition
<1> QED
  BY <1>2, <1>3, <1>4

\* The write that ends History.
LEMMA HistoryEndPreserves ==
    ASSUME TronInv, NEW w \in WriteOutcomes, HistoryEnd(w)
    PROVE  TronInv'
<1>1. w \in WriteOutcome
  BY DEF WriteOutcomes, WriteOutcome
<1>2. /\ op.pc = "visit" /\ op' = Idle
      /\ UNCHANGED <<chainVars, quotes, issued, historyNext, clock>>
      /\ save(op.next, w) \/ UNCHANGED <<records, disk, fault, spent>>
  BY DEF HistoryEnd
<1>3. Revised(op.next)
  BY <1>2, Parts DEF OpInv
<1>4. CASE save(op.next, w)
  BY <1>1, <1>2, <1>3, <1>4, WritePreserves
<1>5. CASE UNCHANGED <<records, disk, fault, spent>>
  BY <1>2, <1>5, IdleOp, Parts, QuietStep
<1> QED
  BY <1>2, <1>4, <1>5

\* A restart reads the file.
LEMMA CrashPreserves ==
    ASSUME TronInv, Crash
    PROVE  TronInv'
<1>0. /\ TypeOK /\ BlocksInv /\ Sound(disk) /\ FileInv
      /\ issued \in Nat /\ clock \in Nat /\ spent \in [crashes : Nat, writeErrors : Nat]
      /\ disk \in Seq(Record) /\ Len(disk) \in Nat
  BY Parts, TypeParts
<1>1. /\ records' = disk /\ disk' = disk /\ quotes' = EmptyStore /\ fault' = FALSE
      /\ historyNext' = 0 /\ op' = Idle /\ spent' = [spent EXCEPT !.crashes = @ + 1]
      /\ UNCHANGED <<chainVars, issued, clock>>
  BY DEF Crash
<1>2. Sound(disk)'
  BY <1>0, <1>1, QuietKeeps, DiskKeep DEF chainVars
<1>3. Sound(records)'
  BY <1>1, <1>2 DEF Sound
<1>4. FileInv'
  <2>1. wire' \subseteq TxsOf(records)'
    <3>1. wire \subseteq TxsOf(disk)
      BY <1>0, FileTxs DEF FileInv
    <3> QED
      BY <3>1, <1>1 DEF TxsOf, chainVars
  <2> QED
    BY <1>0, <1>1, <2>1 DEF FileInv
<1>5. DOMAIN quotes' \subseteq Nat /\ quotes' \in [DOMAIN quotes' -> Nat]
  BY <1>1 DEF EmptyStore
<1>6. spent' \in [crashes : Nat, writeErrors : Nat]
  BY <1>0, <1>1
<1>7. ChainTypeOK' /\ BlocksInv'
  BY <1>0, <1>1 DEF TypeOK, ChainTypeOK, BlocksInv, chainVars, Txs
<1>8. op' \in Ops /\ OpInv'
  BY <1>1, IdleOp
<1>9. TypeOK'
  BY <1>0, <1>1, <1>5, <1>6, <1>7, <1>8, AssembleType
<1> QED
  BY <1>2, <1>3, <1>4, <1>7, <1>8, <1>9 DEF TronInv

\* A new account has an empty journal.
LEMMA InitTron ==
    ASSUME Init
    PROVE  TronInv
<1>1. ChainTypeOK /\ BlocksInv
  BY DEF Init, ChainInit, ChainTypeOK, BlocksInv, Txs
<1>2. Sound(records) /\ Sound(disk)
  BY DEF Init, Sound
<1>3. FileInv
  BY DEF Init, ChainInit, FileInv
<1>4. op \in Ops /\ OpInv
  BY IdleOp DEF Init, OpInv
<1>5. DOMAIN quotes \subseteq Nat /\ quotes \in [DOMAIN quotes -> Nat]
  BY DEF Init, EmptyStore
<1>6. TypeOK
  <2>1. records \in Seq(Record) /\ disk \in Seq(Record)
    BY EmptySeq DEF Init
  <2>2. /\ issued \in Nat /\ fault \in BOOLEAN /\ historyNext \in Nat /\ clock \in Nat
        /\ spent \in [crashes : Nat, writeErrors : Nat]
    BY DEF Init
  <2>3. /\ op.pc \in {"idle", "ready", "dispatch", "result", "visit", "receipt"}
        /\ op.next \in Seq(Record)
        /\ {op.quote, op.tx, op.start, op.offset, op.visits, op.solid} \subseteq Nat
    BY <1>4, OpFields
  <2> QED
    BY <1>1, <1>5, <2>1, <2>2, <2>3 DEF TypeOK
<1> QED
  BY <1>1, <1>2, <1>3, <1>4, <1>6 DEF TronInv

\* Every step preserves the invariant.
LEMMA NextTron ==
    ASSUME TronInv, [Next]_vars
    PROVE  TronInv'
<1>1. CASE ChainNext
  BY <1>1, ChainPreserves
<1>2. CASE Request
  BY <1>2, StartPreserves, PreparePreserves, BroadcastPreserves, ResultPreserves DEF Request
<1>3. CASE History
  BY <1>3, StartPreserves, LoopPreserves, HistoryEndPreserves DEF History
<1>4. CASE Crash
  BY <1>4, CrashPreserves
<1>5. CASE UNCHANGED vars
  <2>1. UNCHANGED <<chainVars, records, disk, fault, clock, spent, quotes, issued,
                    historyNext, op>>
    BY <1>5 DEF vars, serviceVars
  <2>2. OpInv'
    BY <2>1, Parts DEF OpInv, pending, Positions, TxsOf, Revised, Sound, Dead, Final, Gone,
                       Txs, Left, Position, chainVars
  <2> QED
    BY <2>1, <2>2, Parts, QuietStep
<1> QED
  BY <1>1, <1>2, <1>3, <1>4, <1>5 DEF Next

-----------------------------------------------------------------------------
(* Theorems. *)

\* TronInv holds in every reachable state: what the records, the copy of a refresh and
\* transactions.json say is true of the chain, the file is at most one unsent record
\* ahead of the memory, and all but the newest transaction are settled.
THEOREM TronInvariant == Spec => []TronInv
<1>1. Init => TronInv
  BY InitTron
<1>2. TronInv /\ [Next]_vars => TronInv'
  BY NextTron
<1> QED
  BY <1>1, <1>2, PTL DEF Spec

\* Every variable of the TRON service keeps its type, the rotation of History included.
THEOREM TronTypeCorrect == Spec => []TypeOK
<1>1. TronInv => TypeOK
  BY DEF TronInv
<1> QED
  BY <1>1, TronInvariant, PTL

\* A record History marked final is in a solid block, whatever lagging nodes answered,
\* and after any number of restarts, failed writes and forks.
THEOREM TronFinalVerdicts == Spec => []FinalVerdictsSound
<1>1. TronInv => FinalVerdictsSound
  <2> SUFFICES ASSUME TronInv PROVE FinalVerdictsSound
    OBVIOUS
  <2>1. DOMAIN records = 1..Len(records)
    BY TypeParts, LenProperties DEF TronInv
  <2> QED
    BY <2>1 DEF TronInv, Sound, FinalVerdictsSound
<1> QED
  BY <1>1, TronInvariant, PTL

\* With nodes that agree, a record shown as expired_unconfirmed never gets onto the
\* chain, however many blocks are missed around its expiration.
THEOREM TronExpiry == Spec => []ExpiredNeverLands
<1>1. TronInv => ExpiredNeverLands
  BY DEF TronInv, Sound, Gone, ExpiredNeverLands, Positions
<1> QED
  BY <1>1, TronInvariant, PTL

\* With nodes that agree, at most one transfer the network may have received can still
\* take effect.
THEOREM TronOneOutstanding == Spec => []OneOutstanding
<1>1. TronInv => OneOutstanding
  <2> SUFFICES ASSUME TronInv, ~lagging
               PROVE  Cardinality({t \in wire : Live(t, final)}) <= 1
    BY DEF OneOutstanding
  <2> DEFINE L == {t \in wire : Live(t, final)}
             last == records[Len(records)].tx
  <2>1. /\ TxsOf(records) = {records[i].tx : i \in 1..Len(records)} /\ Len(records) \in Nat
        /\ wire \subseteq TxsOf(records) /\ final \in Nat
        /\ \A t \in Txs : signed[t].lastValid \in Nat
    BY TypeParts, TxsOfSeq DEF TronInv, FileInv
  <2>2. \A i \in 1..Len(records) : records[i].tx \in Txs /\ (i < Len(records) => Dead(records[i].tx))
    BY DEF TronInv, Sound
  <2>3. \A t \in Txs : Dead(t) => ~Live(t, final)
    BY <2>1 DEF Dead, Gone, Live
  <2>4. L \subseteq {last}
    BY <2>1, <2>2, <2>3
  <2>5. IsFiniteSet({last}) /\ Cardinality({last}) = 1
    BY FS_Singleton
  <2> HIDE DEF L, last
  <2>6. Cardinality(L) <= 1
    BY <2>4, <2>5, FS_Subset
  <2> QED
    BY <2>6 DEF L
<1> QED
  BY <1>1, TronInvariant, PTL

\* Every step is a step of the write-ahead promise.  A refresh that writes the memory
\* over a file with an unsent record discards that record.
LEMMA TronStepWriteAhead ==
    ASSUME TronInv, [Next]_vars
    PROVE  [WAB!WABNext]_<<TxsOf(disk), wire>>
<1> USE DEF WAB!WABNext
<1>0. TypeOK /\ FileInv /\ OpInv
  BY DEF TronInv
<1>1. ASSUME TxsOf(disk)' = TxsOf(disk), wire' = wire
      PROVE  [WAB!WABNext]_<<TxsOf(disk), wire>>
  BY <1>1
<1>2. ASSUME NEW t, t \notin TxsOf(disk), TxsOf(disk)' = TxsOf(disk) \cup {t}, wire' = wire
      PROVE  [WAB!WABNext]_<<TxsOf(disk), wire>>
  BY <1>2 DEF WAB!Prepare
<1>3. ASSUME TxsOf(disk)' = TxsOf(records), wire' = wire
      PROVE  [WAB!WABNext]_<<TxsOf(disk), wire>>
  <2> DEFINE S == TxsOf(disk) \ TxsOf(records)
  <2>1. TxsOf(records) \subseteq TxsOf(disk) /\ wire \subseteq TxsOf(records)
    BY <1>0, FileTxs DEF FileInv
  <2>2. S \in SUBSET TxsOf(disk) /\ S \subseteq TxsOf(disk) \ wire
        /\ TxsOf(disk)' = TxsOf(disk) \ S
    BY <2>1, <1>3
  <2> HIDE DEF S
  <2>3. \E R \in SUBSET TxsOf(disk) : WAB!Discard(R)
    BY <2>2, <1>3 DEF WAB!Discard
  <2> QED
    BY <2>3
<1>4. ASSUME UNCHANGED <<disk, wire>> PROVE [WAB!WABNext]_<<TxsOf(disk), wire>>
  BY <1>1, <1>4 DEF TxsOf
<1>5. ASSUME NEW w \in WriteOutcomes, SendPrepare(w)
      PROVE  [WAB!WABNext]_<<TxsOf(disk), wire>>
  <2>1. wire' = wire
    BY <1>5 DEF SendPrepare
  <2> QED
    BY <1>1, <1>2, <1>5, <2>1, PreparePreserves
<1>6. ASSUME NEW d \in BOOLEAN, NEW ok \in BOOLEAN, BroadcastHex(d, ok)
      PROVE  [WAB!WABNext]_<<TxsOf(disk), wire>>
  <2>1. op.tx \in TxsOf(disk) /\ TxsOf(disk)' = TxsOf(disk)
    BY <1>6, BroadcastPreserves DEF BroadcastHex, TxsOf
  <2>2. wire' = wire \/ wire' = wire \cup {op.tx}
    BY <1>6 DEF BroadcastHex
  <2> QED
    BY <2>1, <2>2 DEF WAB!Broadcast
<1>7. ASSUME NEW next, Revised(next), NEW w \in WriteOutcomes, save(next, w),
             UNCHANGED chainVars
      PROVE  [WAB!WABNext]_<<TxsOf(disk), wire>>
  <2>1. w \in WriteOutcome /\ wire' = wire
    BY <1>7 DEF WriteOutcomes, WriteOutcome, chainVars
  <2>2. TxsOf(disk)' = TxsOf(disk) \/ TxsOf(disk)' = TxsOf(records)
    BY <1>7, <2>1, SaveRevised
  <2> QED
    BY <1>1, <1>3, <2>1, <2>2
<1>8. ASSUME NEW w \in WriteOutcomes, BroadcastResult(w)
      PROVE  [WAB!WABNext]_<<TxsOf(disk), wire>>
  <2> DEFINE state == IF op.ok THEN "submitted" ELSE "broadcast_unknown"
             next == [i \in Positions |-> IF records[i].tx = op.tx
                                          THEN [records[i] EXCEPT !.state = state]
                                          ELSE records[i]]
  <2>1. save(next, w) /\ UNCHANGED chainVars
    BY <1>8 DEF BroadcastResult
  <2>2. state \in {"submitted", "broadcast_unknown"}
    OBVIOUS
  <2> HIDE DEF state
  <2>3. Revised(next)
    BY <2>2, ResultRevises
  <2> HIDE DEF next
  <2> QED
    BY <2>1, <2>3, <1>7
<1>9. ASSUME NEW w \in WriteOutcomes, HistoryEnd(w)
      PROVE  [WAB!WABNext]_<<TxsOf(disk), wire>>
  <2>1. /\ op.pc = "visit" /\ UNCHANGED chainVars
        /\ save(op.next, w) \/ UNCHANGED <<records, disk, fault, spent>>
    BY <1>9 DEF HistoryEnd
  <2>2. Revised(op.next)
    BY <2>1, <1>0 DEF OpInv
  <2> QED
    BY <1>4, <1>7, <2>1, <2>2 DEF chainVars
<1>11. ChainNext => UNCHANGED <<disk, wire>>
  <2>1. ChainStep => UNCHANGED <<disk, wire>>
    BY DEF ChainStep, Produce, Finalize, Fork, serviceVars
  <2>2. Tick => UNCHANGED <<disk, wire>>
    BY DEF Tick, chainVars, serviceVars
  <2> QED
    BY <2>1, <2>2 DEF ChainNext
<1>12. Crash => UNCHANGED <<disk, wire>>
  BY DEF Crash, chainVars
<1>13. UNCHANGED vars => UNCHANGED <<disk, wire>>
  BY DEF vars, chainVars, serviceVars
<1>14. CASE Request
  <2>1. /\ \A b : Quote(b) => UNCHANGED <<disk, wire>>
        /\ \A q : SendCheck(q) => UNCHANGED <<disk, wire>>
        /\ SendAbort => UNCHANGED <<disk, wire>>
        /\ BroadcastRefused => UNCHANGED <<disk, wire>>
        /\ \A i : Retry(i) => UNCHANGED <<disk, wire>>
    BY DEF Quote, SendCheck, SendAbort, BroadcastRefused, Retry, chainVars
  <2> HIDE DEF WAB!WABNext
  <2> QED
    BY <1>4, <1>5, <1>6, <1>8, <1>14, <2>1 DEF Request
<1>15. CASE History
  <2>1. /\ HistoryStart => UNCHANGED <<disk, wire>>
        /\ \A s : RefreshSolid(s) => UNCHANGED <<disk, wire>>
        /\ \A f : RefreshReceipt(f) => UNCHANGED <<disk, wire>>
        /\ RefreshFails => UNCHANGED <<disk, wire>>
    BY DEF HistoryStart, RefreshSolid, RefreshReceipt, RefreshFails, chainVars
  <2> HIDE DEF WAB!WABNext
  <2> QED
    BY <1>4, <1>9, <1>15, <2>1 DEF History
<1> HIDE DEF WAB!WABNext
<1> QED
  BY <1>4, <1>11, <1>12, <1>13, <1>14, <1>15 DEF Next

\* Signed bytes are in transactions.json before any node sees them, and a record leaves
\* the file only if it was never sent: TronWallet implements WriteAheadBroadcast.
THEOREM TronWriteAhead == Spec => WriteAhead
<1>1. Init => WAB!WABInit
  BY DEF Init, ChainInit, WAB!WABInit, TxsOf
<1>2. TronInv /\ [Next]_vars => [WAB!WABNext]_<<TxsOf(disk), wire>>
  BY TronStepWriteAhead
<1> QED
  BY <1>1, <1>2, TronInvariant, PTL DEF Spec, WriteAhead, WAB!WABSpec
=============================================================================
