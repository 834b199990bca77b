--------------------------- MODULE ActivityIndex ---------------------------
(***************************************************************************)
(* The activity index (internal/wallet/activity.go): hashes of the         *)
(* account's transactions in activity.json and in immutable archive files, *)
(* and the list that is rebuilt from them for the pages.                   *)
(*                                                                         *)
(* addActivityHashes holds s.sendMu throughout, so a write is one step;    *)
(* how many of its files reach the disk is a parameter, which also covers  *)
(* a crash half way (the step, then Crash).  A reader holds s.sendMu only  *)
(* where it looks at the generation and where it takes its snapshot.       *)
(***************************************************************************)
EXTENDS Naturals, Sequences, FiniteSets, SequencesExt

CONSTANTS
    Hashes,             \* transaction hashes
    MaxHashes,          \* maxActivityHashes (1000), the limit of one file
    Keep,               \* activityActiveKeepCount (200)
    MaxNano,            \* bound of the wall clock that names archives
    MaxCrashes, MaxWriteErrors, MaxLoads        \* bounds of the instance

ASSUME ActivityAssumption ==
    /\ MaxHashes \in Nat \ {0} /\ Keep \in 1 .. MaxHashes
    /\ {MaxNano, MaxCrashes, MaxWriteErrors, MaxLoads} \subseteq Nat

VARIABLES
    archives,           \* archive name -> its hashes
    active,             \* activity.json
    generation,         \* s.activityGeneration
    lastNano,           \* s.lastActivityArchiveNano
    index,              \* s.activityIndex
    loader,             \* the request in loadActivityIndex (it holds s.activityMu)
    acked,              \* hashes a caller was told are stored
    spent               \* what is used up of the bounded events

activityVars == <<archives, active, generation, lastNano, index, loader, acked>>

NoIndex == [valid |-> FALSE, generation |-> 0, ids |-> <<>>]

IdleLoader == [pc |-> "idle", need |-> {}, names |-> {}, active |-> <<>>,
               generation |-> 0, ids |-> <<>>]

-----------------------------------------------------------------------------

\* The ids that are not seen yet, in order and once; new[n] are those of the first n.
Fresh(ids, seen) ==
    LET new[n \in 0 .. Len(ids)] ==
            IF n = 0 THEN <<>>
            ELSE LET earlier == new[n - 1]
                 IN  IF ids[n] \in seen \cup ToSet(earlier) THEN earlier
                     ELSE Append(earlier, ids[n])
    IN  new[Len(ids)]

\* The archives of the given names one after the other, as ReadDir sorts them.
Concatenated(names) ==
    MapThenFoldSet(LAMBDA last, earlier : earlier \o last, <<>>, LAMBDA n : archives[n],
                   LAMBDA S : Max(S), names)

ArchivedIds == UNION {ToSet(archives[n]) : n \in DOMAIN archives}

OnDisk == ArchivedIds \cup ToSet(active)

\* Seeded fault: the archives of earlier processes are not looked at.
nextActivityArchiveNameLocal(now) == Max({now, lastNano + 1})

nextActivityArchiveName(now) ==
    Max({now, lastNano + 1} \cup {n + 1 : n \in DOMAIN archives})

splitActivityArchiveChunks(ids) ==
    [k \in 1 .. (Len(ids) + MaxHashes - 1) \div MaxHashes |->
        SubSeq(ids, (k - 1) * MaxHashes + 1, IF k * MaxHashes <= Len(ids) THEN k * MaxHashes
                                             ELSE Len(ids))]

\* The files one call writes, in order: archive chunks, then activity.json.
Combined(ids) ==
    LET old == Fresh(active, ArchivedIds)
    IN  old \o Fresh(ids, ArchivedIds \cup ToSet(old))

Chunks(combined) ==
    IF Len(combined) <= MaxHashes THEN <<>>
    ELSE splitActivityArchiveChunks(SubSeq(combined, 1, Len(combined) - Keep))

Kept(combined) ==
    IF Len(combined) <= MaxHashes THEN combined
    ELSE SubSeq(combined, Len(combined) - Keep + 1, Len(combined))

FilesReadable ==
    Len(active) <= MaxHashes /\ \A n \in DOMAIN archives : Len(archives[n]) <= MaxHashes

\* Seeded fault: activity.json is shortened first.
PublishKeptFirst(chunks, kept, first, written) ==
    /\ active' = IF written > 0 THEN kept ELSE active
    /\ archives' = [n \in DOMAIN archives \cup {first + k - 1 : k \in 1 .. written - 1} |->
                       IF n >= first THEN chunks[n - first + 1] ELSE archives[n]]

\* The first `written` files reach the disk.
Publish(chunks, kept, first, written) ==
    /\ archives' = [n \in DOMAIN archives \cup
                          {first + k - 1 : k \in 1 .. Min({written, Len(chunks)})} |->
                       IF n >= first /\ n < first + Len(chunks) THEN chunks[n - first + 1]
                       ELSE archives[n]]
    /\ active' = IF written > Len(chunks) THEN kept ELSE active

\* Seeded fault: a write that failed leaves the generation alone.
NextGenerationOnSuccess(ok) == IF ok THEN generation + 1 ELSE generation

NextGeneration(ok) == generation + 1

NewIds(ids) == ToSet(ids) \ OnDisk

\* What a call may do: succeed, or fail after so many files have reached the disk.
Success == Cardinality(Hashes) + 2

Outcomes == IF spent.writeErrors < MaxWriteErrors THEN 0 .. Success ELSE {Success}

\* addActivityHashes when every hash is known already, or the files cannot be read.
addActivityHashesNothing(ids, outcome) ==
    /\ outcome = IF ids = <<>> \/ FilesReadable THEN Success ELSE 0
    /\ FilesReadable => NewIds(ids) = {}
    /\ acked' = IF outcome = Success THEN acked \cup ToSet(ids) ELSE acked
    /\ UNCHANGED <<archives, active, generation, lastNano, index, loader, spent>>

\* addActivityHashes with new hashes.
addActivityHashesNew(ids, now, outcome) ==
    \E combined \in {Combined(ids)} :
        LET ok == outcome = Success
            chunks == Chunks(combined)
            first == nextActivityArchiveName(now)
            written == IF ok THEN Len(chunks) + 1 ELSE outcome
        IN  /\ FilesReadable /\ NewIds(ids) # {}
            /\ written <= Len(chunks) + 1
            /\ generation' = NextGeneration(ok)
            /\ Publish(chunks, Kept(combined), first, written)
            /\ lastNano' = IF chunks = <<>> THEN lastNano
                           ELSE Max({first, first - 1 + Min({written, Len(chunks)})})
            /\ acked' = IF ok THEN acked \cup ToSet(ids) ELSE acked
            /\ spent' = [spent EXCEPT !.writeErrors = IF ok THEN @ ELSE @ + 1]
            /\ UNCHANGED <<index, loader>>

addActivityHashes(ids, now, outcome) ==
    addActivityHashesNothing(ids, outcome) \/ addActivityHashesNew(ids, now, outcome)

-----------------------------------------------------------------------------
(* loadActivityIndex. *)

\* Under s.sendMu: is the list of the current generation there?
LoadCheck ==
    /\ loader.pc = "idle" /\ spent.loads < MaxLoads
    /\ spent' = [spent EXCEPT !.loads = @ + 1]
    /\ loader' = IF index.valid /\ index.generation = generation
                 THEN [IdleLoader EXCEPT !.pc = "serve", !.need = acked, !.ids = index.ids]
                 ELSE [IdleLoader EXCEPT !.pc = "snapshot", !.need = acked]
    /\ UNCHANGED <<archives, active, generation, lastNano, index, acked>>

\* Under s.sendMu: archive names, activity.json and the generation.
activitySnapshot ==
    /\ loader.pc = "snapshot" /\ FilesReadable
    /\ loader' = [loader EXCEPT !.pc = "read", !.names = DOMAIN archives, !.active = active,
                                !.generation = generation]
    /\ UNCHANGED <<archives, active, generation, lastNano, index, acked, spent>>

\* The archives are read without a lock, and the list is published.
LoadRead ==
    LET ids == Fresh(Concatenated(loader.names) \o loader.active, {})
    IN  /\ loader.pc = "read"
        /\ index' = [valid |-> TRUE, generation |-> loader.generation, ids |-> ids]
        /\ loader' = [loader EXCEPT !.pc = "serve", !.ids = ids]
        /\ UNCHANGED <<archives, active, generation, lastNano, acked, spent>>

\* The page is answered, or a file cannot be read.
LoadReturn ==
    /\ loader.pc # "idle"
    /\ loader' = IdleLoader
    /\ UNCHANGED <<archives, active, generation, lastNano, index, acked, spent>>

ActivityCrash ==
    /\ generation' = 0
    /\ lastNano' = 0
    /\ index' = NoIndex
    /\ loader' = IdleLoader
    /\ UNCHANGED <<archives, active, acked>>

ActivityInit ==
    /\ archives = [n \in {} |-> <<>>]
    /\ active = <<>>
    /\ generation = 0
    /\ lastNano = 0
    /\ index = NoIndex
    /\ loader = IdleLoader
    /\ acked = {}

-----------------------------------------------------------------------------
(* Properties. *)

ActivityTypeOK ==
    /\ DOMAIN archives \subseteq Nat /\ \A n \in DOMAIN archives : archives[n] \in Seq(Hashes)
    /\ active \in Seq(Hashes) /\ {index.ids, loader.ids, loader.active} \subseteq Seq(Hashes)
    /\ {generation, lastNano, index.generation, loader.generation} \subseteq Nat
    /\ acked \subseteq Hashes

\* "Writes archives before shortening the active index so a crash cannot lose
\* hashes": what a caller was told is stored is in a file, and no sequence of
\* additions, failed writes, crashes and clocks that go back makes a file longer than
\* the limit above which every later read of the index is refused.
NoHashLost == FilesReadable /\ acked \subseteq OnDisk

\* A page is built from a list that has every hash stored before the request,
\* although the list is cached and the archives are read without the lock.
ServedIsComplete == loader.pc = "serve" => loader.need \subseteq ToSet(loader.ids)

\* "Ordering follows insertion into the index": pages only grow at the end, also
\* when hashes move to an archive or a write of several files stops half way.
DiskIndex == Fresh(Concatenated(DOMAIN archives) \o active, {})

OrderIsStable ==
    [][UNCHANGED <<archives, active>> \/ IsPrefix(DiskIndex, DiskIndex')]_<<archives, active>>
=============================================================================
