------------------------------ MODULE Accounts ------------------------------
(***************************************************************************)
(* The account catalogue on disk (accounts.go, keystore.go) and the        *)
(* process that opens one wallet service per account, runs its maintenance *)
(* loop and closes it again (main.go).  A service stands for the account's *)
(* Sepolia service together with its linked networks, which are opened,    *)
(* maintained and closed with it.  Names, passwords and encryption are     *)
(* left out; a key is the address it signs for.  root.sendMu is held while *)
(* `add` is not idle, catalogMu while `imp` is not empty.                  *)
(***************************************************************************)
EXTENDS Naturals, FiniteSets

CONSTANTS
    Main,           \* the account with the empty id, kept in walletDir itself
    Ids,            \* ids AddAccount can draw
    Keys,           \* signing addresses
    MaxAccounts,    \* 20, the main account included
    MaxCrashes, MaxWriteErrors      \* bounds of the instance

ASSUME AccountsAssumption ==
    /\ Main \notin Ids /\ IsFiniteSet(Ids)
    /\ {MaxAccounts, MaxCrashes, MaxWriteErrors} \subseteq Nat

VARIABLES
    dirs,       \* directories under accounts/
    meta,       \* account.json: account -> archived
    keys,       \* keystore.json: account -> address
    used,       \* accounts whose journal holds transactions
    phase,      \* of the process: "down", "starting", "up", "stopping"
    toLoad,     \* accounts the start-up has still to load
    toClose,    \* accountServices as copied when the process stops
    loaded,     \* accounts whose service is open and holds its .lock
    maint,      \* accounts whose RunMaintenance runs
    add,        \* AddAccount under way
    imp,        \* Create, Import or ImportKeystore under way: account -> address
    spent       \* crashes and failed writes so far

disk == <<dirs, meta, keys, used>>
process == <<phase, toLoad, toClose, loaded, maint>>
vars == <<disk, process, add, imp, spent>>

Account == Ids \cup {Main}

NoAdd == [pc |-> "idle", id |-> Main]

Put(f, i, v) == [j \in DOMAIN f \cup {i} |-> IF j = i THEN v ELSE f[j]]
Drop(f, i) == [j \in DOMAIN f \ {i} |-> f[j]]

Init ==
    /\ dirs = {} /\ used = {} /\ toLoad = {} /\ toClose = {} /\ loaded = {} /\ maint = {}
    /\ meta = [i \in {} |-> FALSE]
    /\ keys = [i \in {} |-> 0] /\ imp = keys
    /\ phase = "down"
    /\ add = NoAdd
    /\ spent = [crashes |-> 0, writeErrors |-> 0]

\* atomicWriteFile: "published" is an error after the rename.
WriteOutcomes ==
    {w \in {"ok", "failed", "published"} : w = "ok" \/ spent.writeErrors < MaxWriteErrors}

CountWrite(w) ==
    spent' = IF w = "ok" THEN spent ELSE [spent EXCEPT !.writeErrors = @ + 1]

\* HTTP handlers run.  Shutdown waits 30 seconds for them and then goes on, so
\* some may still run while the process stops.
Serving == phase \in {"up", "stopping"}

-----------------------------------------------------------------------------
(* The catalogue. *)

\* listAccounts: every directory with a valid name, whatever it holds.
Listed == dirs \cup {Main}

Archived(i) == i \in DOMAIN meta /\ meta[i]

Active == {i \in Listed : ~Archived(i)}

\* AddAccount: limit, new id, MkdirAll.
AddBegin(i) ==
    /\ Serving
    /\ add.pc = "idle"
    /\ Cardinality(Listed) < MaxAccounts
    /\ i \notin dirs
    /\ dirs' = dirs \cup {i}
    /\ add' = [pc |-> "key", id |-> i]
    /\ UNCHANGED <<meta, keys, used, process, imp, spent>>

\* keys.Create in the new directory.  Its manager shares no lock and no catalogue
\* with the others; the address comes from fresh entropy.
AddKey(k, w) ==
    /\ add.pc = "key"
    /\ k \notin {keys[j] : j \in DOMAIN keys} \cup {imp[j] : j \in DOMAIN imp}
    /\ keys' = IF w = "failed" THEN keys ELSE Put(keys, add.id, k)
    /\ add' = [add EXCEPT !.pc = IF w = "ok" THEN "publish" ELSE "cleanup"]
    /\ CountWrite(w)
    /\ UNCHANGED <<dirs, meta, used, process, imp>>

\* AddAccount without a password: the key comes later, by Create or Import.
AddWithoutKey ==
    /\ add.pc = "key"
    /\ add' = [add EXCEPT !.pc = "publish"]
    /\ UNCHANGED <<disk, process, imp, spent>>

AddPublish(w) ==
    /\ add.pc = "publish"
    /\ meta' = IF w = "failed" THEN meta ELSE Put(meta, add.id, FALSE)
    /\ add' = IF w = "ok" THEN NoAdd ELSE [add EXCEPT !.pc = "cleanup"]
    /\ CountWrite(w)
    /\ UNCHANGED <<dirs, keys, used, process, imp>>

\* The deferred RemoveAll, whose own error is ignored: it may stop half way.
AddCleanup(removed, gone) ==
    /\ add.pc = "cleanup"
    /\ removed \/ spent.writeErrors < MaxWriteErrors
    /\ dirs' = IF removed THEN dirs \ {add.id} ELSE dirs
    /\ keys' = IF removed \/ "key" \in gone THEN Drop(keys, add.id) ELSE keys
    /\ meta' = IF removed \/ "meta" \in gone THEN Drop(meta, add.id) ELSE meta
    /\ add' = NoAdd
    /\ CountWrite(IF removed THEN "ok" ELSE "failed")
    /\ UNCHANGED <<used, process, imp>>

Found(i) == i \in Listed

UpdateAccount(i, archived, w) ==
    /\ Serving
    /\ add.pc = "idle"
    /\ Found(i)
    /\ ~(archived /\ ~Archived(i) /\ Cardinality(Active) <= 1)
    /\ meta' = IF w = "failed" THEN meta ELSE Put(meta, i, archived)
    /\ CountWrite(w)
    /\ UNCHANGED <<dirs, keys, used, process, add, imp>>

-----------------------------------------------------------------------------
(* Keys of the accounts that are open. *)

\* Seeded fault: NewAccountService leaves every account its own catalogMu.
CatalogMuFreeOwn(i) == i \notin DOMAIN imp

CatalogMuFree(i) == DOMAIN imp = {}

\* Seeded fault: the key file is written without looking.
NoWalletYetUnchecked(i) == TRUE

\* Lstat finds no keystore.json.
NoWalletYet(i) == i \notin DOMAIN keys

\* Every other keystore.json of the catalogue, also of unfinished accounts.
checkDuplicateAddress(i, k) == \A j \in (DOMAIN keys \cap Listed) \ {i} : keys[j] # k

\* Create, Import and ImportKeystore up to the encryption of the key.
ImportCheck(i, k) ==
    /\ Serving /\ i \in loaded
    /\ CatalogMuFree(i)
    /\ NoWalletYet(i)
    /\ checkDuplicateAddress(i, k)
    /\ imp' = Put(imp, i, k)
    /\ UNCHANGED <<disk, process, add, spent>>

ImportWrite(i, w) ==
    /\ i \in DOMAIN imp
    /\ keys' = IF w = "failed" THEN keys ELSE Put(keys, i, imp[i])
    /\ imp' = Drop(imp, i)
    /\ CountWrite(w)
    /\ UNCHANGED <<dirs, meta, used, process, add>>

\* The account signs a transaction and journals it (EvmWallet).
Transact(i) ==
    /\ Serving /\ i \in loaded /\ i \in DOMAIN keys
    /\ used' = used \cup {i}
    /\ UNCHANGED <<dirs, meta, keys, process, add, imp, spent>>

-----------------------------------------------------------------------------
(* The process. *)

\* NewService takes the main account's lock and its maintenance starts; the
\* catalogue is read once.
StartProcess ==
    /\ phase = "down"
    /\ phase' = "starting"
    /\ loaded' = {Main} /\ maint' = {Main}
    /\ toLoad' = Listed \ {Main}
    /\ UNCHANGED <<disk, toClose, add, imp, spent>>

\* NewAccountService insists on account.json.
Loadable(i) == i \in dirs /\ i \in DOMAIN meta

\* Seeded fault: archived accounts are left out at the start.
LoadAtStartActive(i) ==
    /\ phase = "starting" /\ i \in toLoad
    /\ Loadable(i)
    /\ toLoad' = toLoad \ {i}
    /\ loaded' = IF Archived(i) THEN loaded ELSE loaded \cup {i}
    /\ maint' = IF Archived(i) THEN maint ELSE maint \cup {i}
    /\ UNCHANGED <<disk, phase, toClose, add, imp, spent>>

LoadAtStart(i) ==
    /\ phase = "starting" /\ i \in toLoad
    /\ Loadable(i)
    /\ toLoad' = toLoad \ {i}
    /\ loaded' = loaded \cup {i}
    /\ maint' = maint \cup {i}
    /\ UNCHANGED <<disk, phase, toClose, add, imp, spent>>

\* The deferred function of run: shuttingDown is set and accountServices copied
\* in one critical section, then the maintenance context is cancelled.
BeginStop ==
    /\ phase' = "stopping"
    /\ toClose' = loaded \ {Main}
    /\ toLoad' = {}
    /\ UNCHANGED <<disk, loaded, maint, add, imp, spent>>

\* run returns the error of loadAccount.
StartFails ==
    /\ phase = "starting"
    /\ \E i \in toLoad : ~Loadable(i)
    /\ BeginStop

StartDone ==
    /\ phase = "starting" /\ toLoad = {}
    /\ phase' = "up"
    /\ UNCHANGED <<disk, toLoad, toClose, loaded, maint, add, imp, spent>>

\* SIGTERM, after server.Shutdown has returned or given up.
Stop == phase = "up" /\ BeginStop

\* Seeded fault: loadAccount does not look at shuttingDown.
AcceptsLoadsAlways == Serving

AcceptsLoads == phase = "up"

\* loadAccount for a request.  The id of an account that is being added is not
\* known to anybody yet.
LoadAccount(i) ==
    /\ AcceptsLoads
    /\ i \notin loaded
    /\ Loadable(i) /\ (add.pc = "idle" \/ add.id # i)
    /\ loaded' = loaded \cup {i}
    /\ maint' = maint \cup {i}
    /\ UNCHANGED <<disk, phase, toLoad, toClose, add, imp, spent>>

\* Seeded fault: the maintenance context is not cancelled.
MaintenanceEndsNever(i) == FALSE

\* RunMaintenance returns once its context is cancelled.
MaintenanceEnds(i) ==
    /\ phase = "stopping" /\ i \in maint
    /\ maint' = maint \ {i}
    /\ UNCHANGED <<disk, phase, toLoad, toClose, loaded, add, imp, spent>>

\* maintenance.Wait, then Close for the accounts of the copy.
CloseAccount(i) ==
    /\ phase = "stopping" /\ maint = {}
    /\ i \in toClose
    /\ toClose' = toClose \ {i}
    /\ loaded' = loaded \ {i}
    /\ UNCHANGED <<disk, phase, toLoad, maint, add, imp, spent>>

\* The main account is closed last; Close waits for AddAccount (root.sendMu).
CloseMain ==
    /\ phase = "stopping" /\ maint = {} /\ toClose = {}
    /\ Main \in loaded /\ add.pc = "idle"
    /\ loaded' = loaded \ {Main}
    /\ UNCHANGED <<disk, phase, toLoad, toClose, maint, add, imp, spent>>

\* Everything in memory is gone, requests under way included.
Gone ==
    /\ phase' = "down"
    /\ toLoad' = {} /\ toClose' = {} /\ loaded' = {} /\ maint' = {}
    /\ add' = NoAdd
    /\ imp' = [i \in {} |-> 0]
    /\ UNCHANGED disk

Exit == phase = "stopping" /\ Main \notin loaded /\ Gone /\ UNCHANGED spent

Crash ==
    /\ phase # "down" /\ spent.crashes < MaxCrashes
    /\ Gone
    /\ spent' = [spent EXCEPT !.crashes = @ + 1]

-----------------------------------------------------------------------------
AddStep ==
    \/ \E w \in WriteOutcomes : AddPublish(w) \/ \E k \in Keys : AddKey(k, w)
    \/ AddWithoutKey
    \/ \E removed \in BOOLEAN, gone \in SUBSET {"key", "meta"} : AddCleanup(removed, gone)

Request ==
    \/ \E i \in Ids : AddBegin(i) \/ LoadAccount(i)
    \/ AddStep
    \/ \E i \in Account : Transact(i) \/ \E k \in Keys : ImportCheck(i, k)
    \/ \E i \in Account, w \in WriteOutcomes :
          ImportWrite(i, w) \/ \E archived \in BOOLEAN : UpdateAccount(i, archived, w)

Lifecycle ==
    \/ StartProcess \/ StartFails \/ StartDone \/ Stop \/ CloseMain \/ Exit \/ Crash
    \/ \E i \in Ids : LoadAtStart(i) \/ CloseAccount(i)
    \/ \E i \in Account : MaintenanceEnds(i)

Next == Request \/ Lifecycle

Spec == Init /\ [][Next]_vars

-----------------------------------------------------------------------------
(* Properties. *)

\* Every variable holds a value of its type, and account.json and keystore.json
\* exist only in directories that exist.
TypeOK ==
    /\ dirs \subseteq Ids
    /\ DOMAIN meta \subseteq Listed /\ meta \in [DOMAIN meta -> BOOLEAN]
    /\ DOMAIN keys \subseteq Listed /\ keys \in [DOMAIN keys -> Keys]
    /\ used \subseteq Account
    /\ phase \in {"down", "starting", "up", "stopping"}
    /\ toLoad \subseteq Ids /\ toClose \subseteq Ids
    /\ loaded \subseteq Account /\ maint \subseteq Account
    /\ add \in [pc : {"idle", "key", "publish", "cleanup"}, id : Account]
    /\ DOMAIN imp \subseteq Account /\ imp \in [DOMAIN imp -> Keys]
    /\ spent \in [crashes : Nat, writeErrors : Nat]

\* "Multiple aliases for one signing address would otherwise have independent
\* nonce journals": no two accounts sign for one address, although the check for
\* duplicates and the write of the key file are apart and AddAccount writes keys
\* under another lock.
NoSharedSigner == \A i, j \in DOMAIN keys : keys[i] = keys[j] => i = j

\* "Never overwrites an existing wallet": no request, failed write or crash
\* changes or removes a key file, except that AddAccount takes back the account
\* it has not announced.
KeysAreKept ==
    [][\A i \in DOMAIN keys :
           (add.pc = "idle" \/ add.id # i) =>
               i \in DOMAIN keys' /\ keys'[i] = keys[i]]_vars

\* "Archiving only hides the account; its pending transactions still need
\* tracking": once the process is up, the maintenance loop of every account with
\* transactions runs, across restarts and however the account was archived.
UsedIsTracked == phase = "up" => used \subseteq maint

\* "RunMaintenance is cancelled and joined by the server before closing the
\* wallet", and when the main account is closed no account is left open, although
\* requests that outlive the shutdown may still ask for accounts.
StopIsClean ==
    /\ maint \subseteq loaded
    /\ (phase = "stopping" /\ Main \notin loaded) => loaded = {}

\* docs/wallet-reference.md says that after the process was killed a restart reads
\* the journals back, and that accounts are loaded on first visit: so whatever a
\* crash leaves in the catalogue, no account that the start has to load makes it
\* fail.
CatalogueLoads == phase = "starting" => \A i \in toLoad : Loadable(i)

(* Liveness: goroutines that can go on do so; RunMaintenance looks at its     *)
(* context on every turn, its requests are bounded by deadlines and cancelled *)
(* with it; sync.Mutex hands a waiting Close the lock.                        *)
Fairness ==
    /\ WF_vars(\E i \in Account : MaintenanceEnds(i))
    /\ WF_vars(\E i \in Ids : CloseAccount(i))
    /\ WF_vars(AddStep)
    /\ SF_vars(CloseMain)
    /\ WF_vars(Exit)

FairSpec == Spec /\ Fairness

\* A stop, also after a failed start, ends: nobody waits for a lock or a
\* goroutine for ever.
StopEnds == phase = "stopping" ~> phase = "down"
=============================================================================
