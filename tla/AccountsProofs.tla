--------------------------- MODULE AccountsProofs ---------------------------
(***************************************************************************)
(* Theorems about Accounts, for every value of its constants: any number   *)
(* of accounts, keys, crashes and failed writes.                           *)
(***************************************************************************)
EXTENDS Accounts, TLAPS

-----------------------------------------------------------------------------
(* The inductive invariant. *)

\* The account that AddAccount is making exists and nobody else has it.
AddInv ==
    add.pc # "idle" =>
        /\ add.id \in dirs
        /\ add.id \notin loaded \cup used \cup DOMAIN imp

\* An import under way is alone, is for an account without a key and will write an
\* address that no other account has (catalogMu, NoWalletYet, checkDuplicateAddress).
ImpInv ==
    /\ DOMAIN imp \subseteq Listed
    /\ \A i, j \in DOMAIN imp : i = j
    /\ \A i \in DOMAIN imp : i \notin DOMAIN keys /\ \A j \in DOMAIN keys : keys[j] # imp[i]

\* What is open, maintained and still to be loaded or closed in each phase.
ProcessInv ==
    /\ loaded \subseteq Listed /\ used \subseteq Listed
    /\ maint \subseteq loaded
    /\ phase \in {"down", "starting"} => add = NoAdd /\ DOMAIN imp = {}
    /\ phase \in {"starting", "up"} => Main \in loaded /\ loaded \subseteq maint
    /\ phase = "starting" => used \subseteq maint \cup toLoad
    /\ phase = "up" => used \subseteq maint
    /\ phase = "stopping" => loaded \subseteq toClose \cup {Main}
    /\ phase = "stopping" /\ Main \notin loaded => loaded = {}

AccountsInv == TypeOK /\ AddInv /\ ImpInv /\ ProcessInv /\ NoSharedSigner

\* A file written for one account leaves the files of the others alone.
LEMMA PutType ==
    ASSUME NEW f, NEW V, f \in [DOMAIN f -> V], NEW i, NEW v \in V
    PROVE  Put(f, i, v) \in [DOMAIN f \cup {i} -> V] /\ DOMAIN Put(f, i, v) = DOMAIN f \cup {i}
BY DEF Put

\* account.json of one account is written, or the write fails: every file is still one.
LEMMA MetaType ==
    ASSUME NEW i, NEW w, NEW archived \in BOOLEAN, meta \in [DOMAIN meta -> BOOLEAN],
           meta' = IF w = "failed" THEN meta ELSE Put(meta, i, archived)
    PROVE  meta' \in [DOMAIN meta' -> BOOLEAN] /\ DOMAIN meta' \subseteq DOMAIN meta \cup {i}
<1>1. CASE w = "failed"
  BY <1>1
<1>2. CASE w # "failed"
  <2>1. meta' = Put(meta, i, archived)
    BY <1>2
  <2>2. Put(meta, i, archived) \in [DOMAIN meta \cup {i} -> BOOLEAN]
    BY PutType
  <2>3. meta' \in [DOMAIN meta \cup {i} -> BOOLEAN]
    BY <2>1, <2>2
  <2> QED
    BY <2>3
<1> QED
  BY <1>1, <1>2

\* A fresh wallet directory and a process that is down satisfy the invariant.
LEMMA InitAccounts == Init => AccountsInv
BY AccountsAssumption DEF Init, AccountsInv, TypeOK, AddInv, ImpInv, ProcessInv, NoSharedSigner,
                          Listed, Account, NoAdd

\* Every step of a request, of the start and the stop, and every crash keeps it.
LEMMA NextAccounts == AccountsInv /\ [Next]_vars => AccountsInv'
<1> SUFFICES ASSUME AccountsInv, [Next]_vars PROVE AccountsInv'
  OBVIOUS
<1> USE AccountsAssumption DEF AccountsInv, TypeOK, AddInv, ImpInv, ProcessInv, NoSharedSigner,
        Listed, Account, NoAdd, Put, Drop, CountWrite, WriteOutcomes, Loadable, Serving, disk, process
<1>1. ASSUME NEW i \in Ids, AddBegin(i) PROVE AccountsInv'
  BY <1>1 DEF AddBegin
<1>2. ASSUME NEW w \in WriteOutcomes, NEW k \in Keys, AddKey(k, w) PROVE AccountsInv'
  BY <1>2 DEF AddKey
<1>3. ASSUME AddWithoutKey PROVE AccountsInv'
  BY <1>3 DEF AddWithoutKey
<1>4. ASSUME NEW w \in WriteOutcomes, AddPublish(w) PROVE AccountsInv'
  <2>1. meta' \in [DOMAIN meta' -> BOOLEAN] /\ DOMAIN meta' \subseteq DOMAIN meta \cup {add.id}
    BY <1>4, MetaType DEF AddPublish
  <2>2. meta' \in [DOMAIN meta' -> BOOLEAN] /\ DOMAIN meta' \subseteq Listed'
    BY <1>4, <2>1 DEF AddPublish
  <2>3. /\ add.pc = "publish" /\ add' = (IF w = "ok" THEN NoAdd ELSE [add EXCEPT !.pc = "cleanup"])
        /\ UNCHANGED <<dirs, keys, used, process, imp>> /\ spent' \in [crashes : Nat, writeErrors : Nat]
    BY <1>4 DEF AddPublish
  <2> QED
    BY <2>2, <2>3
<1>5. ASSUME NEW removed \in BOOLEAN, NEW gone \in SUBSET {"key", "meta"}, AddCleanup(removed, gone) PROVE AccountsInv'
  BY <1>5 DEF AddCleanup
<1>6. ASSUME NEW i \in Account, NEW archived \in BOOLEAN, NEW w \in WriteOutcomes,
             UpdateAccount(i, archived, w) PROVE AccountsInv'
  <2>1. meta' \in [DOMAIN meta' -> BOOLEAN] /\ DOMAIN meta' \subseteq DOMAIN meta \cup {i}
    BY <1>6, MetaType DEF UpdateAccount
  <2>2. meta' \in [DOMAIN meta' -> BOOLEAN] /\ DOMAIN meta' \subseteq Listed'
    BY <1>6, <2>1 DEF UpdateAccount, Found
  <2> HIDE DEF Put
  <2> QED
    BY <1>6, <2>2 DEF UpdateAccount
<1>7. ASSUME NEW i \in Account, NEW k \in Keys, ImportCheck(i, k) PROVE AccountsInv'
  BY <1>7 DEF ImportCheck, CatalogMuFree, NoWalletYet, checkDuplicateAddress
<1>8. ASSUME NEW i \in Account, NEW w \in WriteOutcomes, ImportWrite(i, w) PROVE AccountsInv'
  BY <1>8 DEF ImportWrite
<1>9. ASSUME NEW i \in Account, Transact(i) PROVE AccountsInv'
  BY <1>9 DEF Transact
<1>10. ASSUME StartProcess PROVE AccountsInv'
  BY <1>10 DEF StartProcess
<1>11. ASSUME NEW i \in Ids, LoadAtStart(i) PROVE AccountsInv'
  BY <1>11 DEF LoadAtStart
<1>12. ASSUME StartFails PROVE AccountsInv'
  BY <1>12 DEF StartFails, BeginStop
<1>13. ASSUME StartDone PROVE AccountsInv'
  BY <1>13 DEF StartDone
<1>14. ASSUME Stop PROVE AccountsInv'
  BY <1>14 DEF Stop, BeginStop
<1>15. ASSUME NEW i \in Ids, LoadAccount(i) PROVE AccountsInv'
  BY <1>15 DEF LoadAccount, AcceptsLoads
<1>16. ASSUME NEW i \in Account, MaintenanceEnds(i) PROVE AccountsInv'
  BY <1>16 DEF MaintenanceEnds
<1>17. ASSUME NEW i \in Ids, CloseAccount(i) PROVE AccountsInv'
  BY <1>17 DEF CloseAccount
<1>18. ASSUME CloseMain PROVE AccountsInv'
  BY <1>18 DEF CloseMain
<1>19. ASSUME Exit PROVE AccountsInv'
  BY <1>19 DEF Exit, Gone
<1>20. ASSUME Crash PROVE AccountsInv'
  BY <1>20 DEF Crash, Gone
<1>21. ASSUME UNCHANGED vars PROVE AccountsInv'
  BY <1>21 DEF vars
<1> HIDE DEF AccountsInv
<1> QED
  BY <1>1, <1>2, <1>3, <1>4, <1>5, <1>6, <1>7, <1>8, <1>9, <1>10, <1>11, <1>12, <1>13, <1>14, <1>15, <1>16, <1>17, <1>18, <1>19, <1>20, <1>21 DEF Next, Request, AddStep, Lifecycle

\* Accounts and their directories, key files, locks and loops keep their types, and
\* the requests under way what they have established (AccountsInv).
THEOREM AccountsInvariant == Spec => []AccountsInv
<1>1. Init => AccountsInv
  BY InitAccounts
<1>2. AccountsInv /\ [Next]_vars => AccountsInv'
  BY NextAccounts
<1> QED
  BY <1>1, <1>2, PTL DEF Spec

\* No two accounts ever sign for one address (checkDuplicateAddress and the write of
\* the key file under catalogMu, against AddAccount under root.sendMu).
THEOREM SignersAreSeparate == Spec => []NoSharedSigner
<1>1. AccountsInv => NoSharedSigner
  BY DEF AccountsInv
<1> QED
  BY <1>1, AccountsInvariant, PTL

\* While the process is up, the maintenance loop of every account with transactions
\* runs (loadAccount at the start and on request, archived accounts included).
THEOREM TrackingIsComplete == Spec => []UsedIsTracked
<1>1. AccountsInv => UsedIsTracked
  BY DEF AccountsInv, ProcessInv, UsedIsTracked
<1> QED
  BY <1>1, AccountsInvariant, PTL

\* Maintenance only runs on open services, and once the main account is closed no
\* other is open (the deferred function of run against late requests).
THEOREM StopsCleanly == Spec => []StopIsClean
<1>1. AccountsInv => StopIsClean
  BY DEF AccountsInv, ProcessInv, StopIsClean
<1> QED
  BY <1>1, AccountsInvariant, PTL

\* What KeysAreKept says of one step.
KeyStep == \A i \in DOMAIN keys :
    (add.pc = "idle" \/ add.id # i) => i \in DOMAIN keys' /\ keys'[i] = keys[i]

\* The three steps that write key files leave those of other accounts alone, and
\* ImportWrite finds none of its own.
LEMMA NextKeepsKeys == AccountsInv /\ [Next]_vars => [KeyStep]_vars
<1> SUFFICES ASSUME AccountsInv, Next PROVE KeyStep
  BY DEF vars
<1>1. ASSUME NEW k, NEW w, AddKey(k, w) PROVE KeyStep
  BY <1>1 DEF AddKey, Put, KeyStep
<1>2. ASSUME NEW removed, NEW gone, AddCleanup(removed, gone) PROVE KeyStep
  BY <1>2 DEF AddCleanup, Drop, KeyStep
<1>3. ASSUME NEW i, NEW w, ImportWrite(i, w) PROVE KeyStep
  BY <1>3 DEF ImportWrite, Put, KeyStep, AccountsInv, ImpInv
<1>4. CASE keys' = keys
  BY <1>4 DEF KeyStep
<1> QED
  BY <1>1, <1>2, <1>3, <1>4 DEF Next, Request, AddStep, Lifecycle,
     AddBegin, AddWithoutKey, AddPublish, UpdateAccount, ImportCheck, Transact, StartProcess,
     LoadAtStart, StartFails, BeginStop, StartDone, Stop, LoadAccount, MaintenanceEnds,
     CloseAccount, CloseMain, Exit, Crash, Gone, disk

\* No step changes or removes a key file, except AddAccount's own clean-up
\* (Create, Import and ImportKeystore never overwrite a wallet).
THEOREM KeysSurvive == Spec => KeysAreKept
<1>1. AccountsInv /\ [Next]_vars => [KeyStep]_vars
  BY NextKeepsKeys
<1> QED
  BY <1>1, AccountsInvariant, PTL DEF Spec, KeysAreKept, KeyStep
=============================================================================
