------------------------------ MODULE MCScanner ------------------------------
(* Scanner for TLC, in two scenarios that would be too large together: scans   *)
(* of three blocks (one needs an archive, one is empty) with errors and        *)
(* settings that change; and long imports by a user, with a clock that goes    *)
(* back and pages that are loaded meanwhile.                                   *)
EXTENDS Scanner

CONSTANTS h1, h2, h3, h4

VARIABLE scenario

MCHashes == {h1, h2, h3, h4}
MCBlockHashes == (0 :> <<h1>>) @@ (1 :> <<h2, h3>>) @@ (2 :> <<>>)
MCStarts == {0, 1}
MCNoImports == {}

Imports == INSTANCE Scanner WITH
    ImportIds <- {<<h1>>, <<h2, h3>>, <<h1, h2, h3, h4>>}, BlockHashes <- 0 :> <<h1>>,
    MaxNano <- 1, MaxLoads <- 2, MaxBlock <- 0, MaxConfigs <- 0, MaxRpcErrors <- 0

MCInit == Init /\ scenario \in {"scans", "imports"}

MCNext ==
    /\ \/ scenario = "scans" /\ Next
       \/ scenario = "imports" /\ Imports!Next
    /\ UNCHANGED scenario

\* No scan is enabled in the scenario of imports, so that liveness is about the other.
MCSpec == MCInit /\ [][MCNext]_<<vars, scenario>> /\ Fairness
=============================================================================
