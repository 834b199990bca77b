------------------------ MODULE WriteAheadBroadcast ------------------------
(***************************************************************************)
(* What the wallet promises about durability, without saying how: a        *)
(* transaction reaches the network only after it is in the book (the files *)
(* a restart reads), and nothing that reached the network ever leaves the  *)
(* book.  Entries that were never broadcast may be dropped: a failed write *)
(* can leave one behind and a later write can remove it again.             *)
(***************************************************************************)
VARIABLES book, wire

WABInit == book = {} /\ wire = {}

Prepare(t) == t \notin book /\ book' = book \cup {t} /\ wire' = wire

Discard(S) == S \subseteq book \ wire /\ book' = book \ S /\ wire' = wire

Broadcast(t) == t \in book /\ wire' = wire \cup {t} /\ book' = book

WABNext == \/ \E t \in book' : Prepare(t)
           \/ \E S \in SUBSET book : Discard(S)
           \/ \E t \in book : Broadcast(t)

WABSpec == WABInit /\ [][WABNext]_<<book, wire>>
=============================================================================
