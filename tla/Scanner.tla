------------------------------ MODULE Scanner ------------------------------
(***************************************************************************)
(* The automatic activity scanner (internal/wallet/scanner.go) on top of   *)
(* the activity index: the cursor in scan.json, the maintenance loop that  *)
(* scans one finalized block at a time and backs off after an error, and   *)
(* the settings that may change while a scan is under way.                 *)
(*                                                                         *)
(* scan.json is read again wherever it is needed, so it has no copy in     *)
(* memory except the one a running scan holds.  Its fields Finalized,      *)
(* Error and UpdatedAt are only shown.                                     *)
(***************************************************************************)
EXTENDS ActivityIndex

CONSTANTS
    MaxBlock,           \* highest block of the instance
    BlockHashes,        \* block number -> the account's transactions in it
    Recent,             \* blocks scanned by default (20)
    BackoffBase, BackoffCap,        \* 4 s and 60 s
    Starts,             \* start blocks a user may set
    ImportIds,          \* hash lists a user may import or synchronize
    MaxConfigs, MaxRpcErrors        \* bounds of the instance

ASSUME ScannerAssumption ==
    /\ MaxBlock \in Nat /\ Recent \in Nat \ {0}
    /\ BlockHashes \in [0 .. MaxBlock -> Seq(Hashes)]
    /\ BackoffCap \in Nat /\ BackoffBase \in 1 .. BackoffCap
    /\ Starts \subseteq Nat /\ ImportIds \subseteq Seq(Hashes)
    /\ {MaxConfigs, MaxRpcErrors} \subseteq Nat

VARIABLES
    scan,               \* scan.json
    scanGeneration,     \* s.scanGeneration
    backoff,            \* s.scanBackoffUntil in the future?, s.scanBackoffDuration
    run,                \* the maintenance loop (it holds s.scanRunMu in ScanOnce)
    final               \* the chain's finalized block

scanVars == <<scan, scanGeneration, backoff, run, final>>
vars == <<activityVars, scanVars, spent>>

ScanState == [enabled : BOOLEAN, explicit : BOOLEAN, start : Nat, next : Nat]

NoScan == [enabled |-> FALSE, explicit |-> FALSE, start |-> 0, next |-> 0]

\* generation is what checkScanBackoff returned, own what ScanOnce read.
IdleRun == [pc |-> "idle", generation |-> 0, own |-> 0, state |-> NoScan,
            found |-> FALSE, failed |-> FALSE]

WriteOutcomes ==
    IF spent.writeErrors < MaxWriteErrors THEN {"ok", "failed", "published"} ELSE {"ok"}

Written(old, new, w) == IF w = "failed" THEN old ELSE new

-----------------------------------------------------------------------------

FinalizeBlock ==
    /\ final < MaxBlock
    /\ final' = final + 1
    /\ UNCHANGED <<activityVars, scan, scanGeneration, backoff, run, spent>>

\* ConfigureScan(enabled, start); start = NoStart leaves the cursor alone.
NoStart == MaxBlock + 1

ConfigureScan(enabled, start, w) ==
    LET moved == IF start = NoStart THEN scan
                 ELSE [scan EXCEPT !.explicit = TRUE, !.start = start, !.next = start]
    IN  /\ spent.configs < MaxConfigs
        /\ scanGeneration' = scanGeneration + 1
        /\ backoff' = [active |-> FALSE, duration |-> 0]
        /\ scan' = Written(scan, [moved EXCEPT !.enabled = enabled], w)
        /\ spent' = [spent EXCEPT !.configs = @ + 1,
                                  !.writeErrors = IF w = "ok" THEN @ ELSE @ + 1]
        /\ UNCHANGED <<activityVars, run, final>>

-----------------------------------------------------------------------------
(* RunMaintenance: checkScanBackoff, ScanOnce, recordScanError. *)

checkScanBackoff ==
    /\ run.pc = "idle" /\ ~backoff.active
    /\ run' = [IdleRun EXCEPT !.pc = "begin", !.generation = scanGeneration]
    /\ UNCHANGED <<activityVars, scan, scanGeneration, backoff, final, spent>>

\* ScanOnce up to its first RPC; a disabled scan is over without an error.
ScanBegin ==
    /\ run.pc = "begin"
    /\ run' = IF scan.enabled
              THEN [run EXCEPT !.pc = "rpc", !.state = scan, !.own = scanGeneration]
              ELSE [run EXCEPT !.pc = "record", !.own = scanGeneration]
    /\ UNCHANGED <<activityVars, scan, scanGeneration, backoff, final, spent>>

\* The cursor of a file that never had one.
Started(state, head) ==
    IF state.next = 0 /\ ~state.explicit
    THEN LET first == IF head > Recent - 1 THEN head - (Recent - 1) ELSE head
         IN  [state EXCEPT !.next = first, !.start = first]
    ELSE state

\* FinalizedNumber and ScanFinalizedBlock, which may be answered by nodes that
\* are behind (head) and may fail; without a head the cursor is not even started.
ScanRpc(head, knowsHead, ok) ==
    LET state == IF knowsHead THEN Started(run.state, head) ELSE run.state
        due == knowsHead /\ state.next <= head
    IN  /\ run.pc = "rpc"
        /\ ok => knowsHead
        /\ ~ok => spent.rpcErrors < MaxRpcErrors /\ (due \/ ~knowsHead)
        /\ run' = [run EXCEPT !.pc = "apply", !.state = state, !.found = due /\ ok, !.failed = ~ok]
        /\ spent' = [spent EXCEPT !.rpcErrors = IF ok THEN @ ELSE @ + 1]
        /\ UNCHANGED <<activityVars, scan, scanGeneration, backoff, final>>

\* Seeded fault: a scan applies its result whatever happened to the settings.
OwnsProgressAlways == TRUE

\* "A changed setting owns the progress file."
OwnsProgress == run.own = scanGeneration

\* The settings have changed: the result is ignored.
ScanIgnored ==
    /\ run.pc = "apply" /\ ~OwnsProgress
    /\ run' = [run EXCEPT !.pc = "record", !.failed = FALSE]
    /\ UNCHANGED <<activityVars, scan, scanGeneration, backoff, final, spent>>

\* Seeded fault: the cursor moves only when the block had something.
AdvancedOnHit(state) ==
    IF BlockHashes[state.next] = <<>> THEN state ELSE [state EXCEPT !.next = @ + 1]

Advanced(state) == [state EXCEPT !.next = @ + 1]

\* Seeded fault: the cursor moves although the hashes could not be stored.
ScanFoundRegardless(now, outcome) ==
    /\ run.pc = "apply" /\ OwnsProgress /\ run.found
    /\ addActivityHashes(BlockHashes[run.state.next], now, outcome)
    /\ run' = [run EXCEPT !.pc = "save", !.failed = outcome # Success, !.state = Advanced(@)]
    /\ UNCHANGED <<scan, scanGeneration, backoff, final>>

\* Hashes first, then the cursor.
ScanFound(now, outcome) ==
    /\ run.pc = "apply" /\ OwnsProgress /\ run.found
    /\ addActivityHashes(BlockHashes[run.state.next], now, outcome)
    /\ run' = [run EXCEPT !.pc = "save", !.failed = outcome # Success,
                          !.state = IF outcome = Success THEN Advanced(@) ELSE @]
    /\ UNCHANGED <<scan, scanGeneration, backoff, final>>

ScanNothing ==
    /\ run.pc = "apply" /\ OwnsProgress /\ ~run.found
    /\ run' = [run EXCEPT !.pc = "save"]
    /\ UNCHANGED <<activityVars, scan, scanGeneration, backoff, final, spent>>

\* Still under s.scanMu, so no setting changes between the hashes and this.
ScanSave(w) ==
    /\ run.pc = "save"
    /\ scan' = Written(scan, run.state, w)
    /\ run' = [run EXCEPT !.pc = "record", !.failed = @ \/ w # "ok"]
    /\ spent' = [spent EXCEPT !.writeErrors = IF w = "ok" THEN @ ELSE @ + 1]
    /\ UNCHANGED <<activityVars, scanGeneration, backoff, final>>

NextBackoff ==
    IF backoff.duration = 0 THEN BackoffBase ELSE Min({2 * backoff.duration, BackoffCap})

recordScanError ==
    /\ run.pc = "record"
    /\ run' = IdleRun
    /\ backoff' = IF run.generation # scanGeneration THEN backoff
                  ELSE [active |-> run.failed,
                        duration |-> IF run.failed THEN NextBackoff ELSE 0]
    /\ UNCHANGED <<activityVars, scan, scanGeneration, final, spent>>

\* The time of the backoff has passed.
BackoffOver ==
    /\ backoff.active
    /\ backoff' = [backoff EXCEPT !.active = FALSE]
    /\ UNCHANGED <<activityVars, scan, scanGeneration, run, final, spent>>

-----------------------------------------------------------------------------

\* ImportActivity and SyncActivity, once the chain has answered.
ImportActivity(ids, now, outcome) ==
    /\ addActivityHashes(ids, now, outcome)
    /\ UNCHANGED scanVars

Crash ==
    /\ spent.crashes < MaxCrashes
    /\ ActivityCrash
    /\ scanGeneration' = 0
    /\ backoff' = [active |-> FALSE, duration |-> 0]
    /\ run' = IdleRun
    /\ spent' = [spent EXCEPT !.crashes = @ + 1]
    /\ UNCHANGED <<scan, final>>

Init ==
    /\ ActivityInit
    /\ scan = NoScan
    /\ scanGeneration = 0
    /\ backoff = [active |-> FALSE, duration |-> 0]
    /\ run = IdleRun
    /\ final = 0
    /\ spent = [crashes |-> 0, writeErrors |-> 0, configs |-> 0, rpcErrors |-> 0, loads |-> 0]

Locked == run.pc = "save"       \* ScanOnce holds s.scanMu between two steps

Settings ==
    ~Locked /\ \E enabled \in BOOLEAN, start \in Starts \cup {NoStart}, w \in WriteOutcomes :
                  ConfigureScan(enabled, start, w)

Scan ==
    \/ checkScanBackoff
    \/ ScanBegin
    \/ \E head \in 0 .. final, knowsHead, ok \in BOOLEAN : ScanRpc(head, knowsHead, ok)
    \/ ScanIgnored
    \/ \E now \in 0 .. MaxNano, outcome \in Outcomes : ScanFound(now, outcome)
    \/ ScanNothing
    \/ \E w \in WriteOutcomes : ScanSave(w)
    \/ recordScanError
    \/ BackoffOver

Pages ==
    /\ LoadCheck \/ activitySnapshot \/ LoadRead \/ LoadReturn
    /\ UNCHANGED scanVars

Next ==
    \/ FinalizeBlock
    \/ Settings
    \/ Scan
    \/ \E ids \in ImportIds, now \in 0 .. MaxNano, outcome \in Outcomes :
          ImportActivity(ids, now, outcome)
    \/ Pages
    \/ Crash

Spec == Init /\ [][Next]_vars

-----------------------------------------------------------------------------
(* Properties. *)

\* Every variable holds a value of its type.
TypeOK ==
    /\ ActivityTypeOK
    /\ scan \in ScanState /\ run.state \in ScanState
    /\ {scanGeneration, run.generation, run.own, final} \subseteq Nat
    /\ backoff \in [active : BOOLEAN, duration : 0 .. BackoffCap]

\* "Errors retain the cursor; restarts resume. The displayed start block defines
\* coverage": every transaction of the account in the blocks from start up to the
\* cursor is in the index, whatever failed, crashed or was reconfigured.
ScannedIsIndexed ==
    \A b \in 0 .. MaxBlock :
        b \in scan.start .. scan.next - 1 => ToSet(BlockHashes[b]) \subseteq OnDisk

\* "Ignore results from the old scan": once the settings have changed, a scan that was
\* under way neither moves their cursor or range nor delays them by its error.
OldScanIsIgnored ==
    [][/\ scan'.start # scan.start \/ scan'.next < scan.next \/ scan'.enabled # scan.enabled
             => \/ scanGeneration' # scanGeneration
                \/ scan.next = 0 /\ ~scan.explicit
       /\ backoff'.active /\ ~backoff.active => run.own = scanGeneration]_vars

\* Every finalized block of the range is scanned in the end, through RPC errors
\* and backoff, as long as the scan stays enabled and its start is not moved.
EveryBlockIsScanned ==
    \A b \in 0 .. MaxBlock :
        (scan.enabled /\ scan.explicit /\ scan.start <= b /\ b <= final)
            ~> (~scan.enabled \/ scan.start > b \/ scan.next > b)

\* The loop ticks every two seconds and every RPC has a deadline; a node that is
\* asked for the block again and again eventually has it.
Fairness ==
    /\ WF_vars(checkScanBackoff) /\ WF_vars(ScanBegin) /\ WF_vars(ScanIgnored)
    /\ SF_vars(ScanRpc(final, TRUE, TRUE))
    /\ WF_vars(\E head \in 0 .. final : ScanRpc(head, TRUE, TRUE))
    /\ WF_vars(\E now \in 0 .. MaxNano : ScanFound(now, Success))
    /\ WF_vars(ScanNothing)
    /\ WF_vars(\E w \in WriteOutcomes : ScanSave(w))
    /\ WF_vars(recordScanError) /\ WF_vars(BackoffOver)

FairSpec == Spec /\ Fairness
=============================================================================
