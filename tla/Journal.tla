------------------------------ MODULE Journal ------------------------------
(***************************************************************************)
(* JournalManager (internal/wallet/journal.go): the durable transaction    *)
(* journal of one EVM account on one network.                              *)
(*                                                                         *)
(* A transaction is named by a natural number, its position in the order   *)
(* in which transactions were signed.  AppendAtomic only appends and       *)
(* ArchiveFinalized keeps the order, so this number also orders the active *)
(* records, and a journal is a function from transactions to records.      *)
(* Amounts, recipients, timestamps, fees and the signed bytes are left     *)
(* out; "mined" stands for both succeeded and reverted, which no branch of *)
(* the journal tells apart (isMinedJournalState).                          *)
(*                                                                         *)
(* Every operator that changes the journal is one critical section of      *)
(* jm.mu.  Its last parameters are the outcomes of the file writes made in *)
(* it (see WriteOutcome); a crash inside the section is the outcome        *)
(* "failed" or "published" followed by the crash.                          *)
(***************************************************************************)
EXTENDS Naturals, FiniteSets

CONSTANTS
    Capacity,           \* active records at which AppendAtomic refuses (1000)
    ArchiveThreshold,   \* active records from which ArchiveFinalized works (900)
    KeepRecent          \* newest records that are never archived (100)

ASSUME CapacityAssumption == Capacity \in Nat \ {0}
ASSUME ArchiveThresholdAssumption == ArchiveThreshold \in Nat
ASSUME KeepRecentAssumption == KeepRecent \in Nat

VARIABLES
    records,            \* jm.records: the active records in memory
    archived,           \* jm.archived: the archived records in memory
    diskRecords,        \* journal.json
    diskArchive         \* the union of the archive-*.json files

journalVars == <<records, archived, diskRecords, diskArchive>>

JournalState == {"pending", "submitted", "broadcast_unknown",
                 "receipt_unavailable", "mined", "reorg_detected", "replaced"}

JournalRecord == [nonce     : Nat,
                  quote     : Nat,
                  state     : JournalState,
                  finalized : BOOLEAN,
                  version   : Nat]

EmptyJournal == [t \in {} |-> 0]

IsJournal(f) ==
    DOMAIN f \subseteq Nat /\ IsFiniteSet(DOMAIN f) /\ f \in [DOMAIN f -> JournalRecord]

-----------------------------------------------------------------------------
(* Readers: forEachRecordLocked visits the archive, then the active records. *)

Known == DOMAIN archived \cup DOMAIN records

Rec(t) == IF t \in DOMAIN archived THEN archived[t] ELSE records[t]

IsMined(r) == r.state = "mined"

NonceRecords(n) == {t \in Known : Rec(t).nonce = n}

NonceMined(n) == \E t \in NonceRecords(n) : IsMined(Rec(t))

NonceFinalized(n) == \E t \in NonceRecords(n) : Rec(t).finalized /\ IsMined(Rec(t))

\* Seeded fault: archives are not searched.
FindByQuoteIDActiveOnly(q) == {t \in DOMAIN records : records[t].quote = q}

FindByQuoteID(q) == {t \in Known : Rec(t).quote = q}

\* Nonces without a mined record that finalized-nonce evidence below `evidence`
\* does not show as consumed; evidence 0 is the code's nil.
InFlightNonces(evidence) ==
    {n \in {Rec(t).nonce : t \in Known} : ~NonceMined(n) /\ n >= evidence}

HasInFlightTx(evidence) == InFlightNonces(evidence) # {}

\* Seeded fault: a nonce with any mined record is left alone.
RefreshItemsUnmined ==
    LET due == {t \in DOMAIN records : ~NonceMined(records[t].nonce)}
    IN  [t \in due |-> records[t].version]

\* What History asks the chain about, with the version the answer will be
\* compared with.
RefreshItems ==
    LET due == {t \in DOMAIN records : ~records[t].finalized
                                       /\ ~NonceFinalized(records[t].nonce)}
    IN  [t \in due |-> records[t].version]

\* The state listHistory shows: the last mined record of a nonce is its winner,
\* every other record of that nonce is shown as replaced.
Winners(n) == {t \in NonceRecords(n) : IsMined(Rec(t))}

LaterInList(t, u) ==   \* u comes after t in slices.Concat(archived, records)
    \/ t \in DOMAIN archived /\ u \in DOMAIN records
    \/ (t \in DOMAIN archived <=> u \in DOMAIN archived) /\ t < u

ListedState(t) ==
    LET rivals == {u \in Winners(Rec(t).nonce) \ {t} :
                      \A v \in Winners(Rec(t).nonce) \ {u} : LaterInList(v, u)}
    IN  IF rivals # {} THEN "replaced" ELSE Rec(t).state

-----------------------------------------------------------------------------
(* Writers. *)

\* atomicWriteFile: "failed" is an error before the rename, "published" an
\* error after it (opening or syncing the directory).
WriteOutcome == {"ok", "failed", "published"}

\* atomicSave, then the assignment to jm.records that follows a success.
Save(next, w) ==
    /\ diskRecords' = IF w = "failed" THEN diskRecords ELSE next
    /\ records' = IF w = "ok" THEN next ELSE records

JournalFull == Cardinality(DOMAIN records) >= Capacity

\* Seeded fault: a state name that ParseJournalState does not know.
NewRecordUnparsable(nonce, quote) == [nonce |-> nonce, quote |-> quote, state |-> "prepared",
                                      finalized |-> FALSE, version |-> 1]

NewRecord(nonce, quote) == [nonce |-> nonce, quote |-> quote, state |-> "pending",
                            finalized |-> FALSE, version |-> 1]

With(journal, t, r) == [u \in DOMAIN journal \cup {t} |-> IF u = t THEN r ELSE journal[u]]

AppendAtomic(t, r, w) ==
    /\ ~JournalFull
    /\ Save(With(records, t, r), w)
    /\ UNCHANGED <<archived, diskArchive>>

\* Seeded fault: a stale result is applied.
AppliesStale(t, version, state, finalized, fresh) ==
    /\ t \in DOMAIN records
    /\ fresh \/ records[t].state # state \/ records[t].finalized # finalized

\* The record accepts the result: same version, and something to change.
\* `fresh`: confirmations, fee or error text differ from the stored ones.
Applies(t, version, state, finalized, fresh) ==
    /\ t \in DOMAIN records
    /\ records[t].version = version
    /\ fresh \/ records[t].state # state \/ records[t].finalized # finalized

UpdateStateAtomicIfVersion(t, version, state, finalized, fresh, w) ==
    /\ IF Applies(t, version, state, finalized, fresh)
       THEN Save(With(records, t, [records[t] EXCEPT !.state = state,
                                                     !.finalized = finalized,
                                                     !.version = @ + 1]), w)
       ELSE w = "ok" /\ UNCHANGED <<records, diskRecords>>
    /\ UNCHANGED <<archived, diskArchive>>

\* The error results of the update: a failed write, or a hash that is nowhere.
UpdateFails(t, w) == w # "ok" \/ t \notin Known

Archivable ==
    {t \in DOMAIN records :
        /\ Cardinality({u \in DOMAIN records : u > t}) >= KeepRecent
        /\ records[t].finalized \/ NonceFinalized(records[t].nonce)}

\* Seeded fault: a loser is archived with the state it had.
ArchiveCopyKeepsState(r) == [r EXCEPT !.finalized = TRUE]

ArchiveCopy(r) == IF r.finalized THEN r ELSE [r EXCEPT !.finalized = TRUE, !.state = "replaced"]

\* Two archive files can hold the same record (a retried archival); they then
\* agree on everything but the version, so the later one stands for both.
Merge(old, new) == [t \in DOMAIN old \cup DOMAIN new |->
                        IF t \in DOMAIN new THEN new[t] ELSE old[t]]

\* Seeded fault: the active journal is shortened first.
ArchiveAfterShortening(archiveWrite, activeWrite) ==
    LET batch == [t \in Archivable |-> ArchiveCopy(records[t])]
        keep  == [t \in DOMAIN records \ Archivable |-> records[t]]
    IN  IF Cardinality(DOMAIN records) < ArchiveThreshold \/ Archivable = {}
        THEN archiveWrite = "ok" /\ activeWrite = "ok" /\ UNCHANGED journalVars
        ELSE /\ Save(keep, activeWrite)
             /\ diskArchive' = IF activeWrite # "ok" \/ archiveWrite = "failed"
                               THEN diskArchive ELSE Merge(diskArchive, batch)
             /\ archived' = IF activeWrite = "ok" /\ archiveWrite = "ok"
                            THEN Merge(archived, batch) ELSE archived

\* The archive file is written before the active journal is shortened.
ArchiveFinalized(archiveWrite, activeWrite) ==
    LET batch == [t \in Archivable |-> ArchiveCopy(records[t])]
        keep  == [t \in DOMAIN records \ Archivable |-> records[t]]
    IN  IF Cardinality(DOMAIN records) < ArchiveThreshold \/ Archivable = {}
        THEN archiveWrite = "ok" /\ activeWrite = "ok" /\ UNCHANGED journalVars
        ELSE /\ diskArchive' = IF archiveWrite = "failed" THEN diskArchive
                               ELSE Merge(diskArchive, batch)
             /\ IF archiveWrite = "ok"
                THEN /\ Save(keep, activeWrite)
                     /\ archived' = IF activeWrite = "ok" THEN Merge(archived, batch)
                                    ELSE archived
                ELSE activeWrite = "ok" /\ UNCHANGED <<records, archived, diskRecords>>

\* load and loadArchives refuse an oversized journal and an unfinalized archive.
Loadable == /\ Cardinality(DOMAIN diskRecords) <= Capacity
            /\ \A t \in DOMAIN diskArchive : diskArchive[t].finalized

\* Seeded fault: an unreadable journal is taken for an empty one.
LoadEmpty ==
    /\ Loadable
    /\ records' = EmptyJournal
    /\ archived' = diskArchive
    /\ UNCHANGED <<diskRecords, diskArchive>>

\* NewJournalManager: an active record hides its archived duplicate.
Load ==
    /\ Loadable
    /\ records' = diskRecords
    /\ archived' = [t \in DOMAIN diskArchive \ DOMAIN diskRecords |-> diskArchive[t]]
    /\ UNCHANGED <<diskRecords, diskArchive>>

JournalInit ==
    /\ records = EmptyJournal
    /\ archived = EmptyJournal
    /\ diskRecords = EmptyJournal
    /\ diskArchive = EmptyJournal

JournalTypeOK ==
    /\ IsJournal(records)
    /\ IsJournal(archived)
    /\ IsJournal(diskRecords)
    /\ IsJournal(diskArchive)
=============================================================================
