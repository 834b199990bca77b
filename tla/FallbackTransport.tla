-------------------------- MODULE FallbackTransport --------------------------
(***************************************************************************)
(* The EVM client's transport with up to four endpoints, used by several   *)
(* requests at the same time (fallback.go), and the client's cached check  *)
(* of the network (checkNetwork, verifyNetwork).  active, healthy and      *)
(* failovers are atomic variables without a lock: every load, store and    *)
(* compare-and-swap of them is a step of its own (the two values of the    *)
(* cached check are read, and written, together).  A request is one        *)
(* operation of the client: the check, which may need an RPC, and then its *)
(* own RPC.  An endpoint answers, fails (a transport error, 429, 5xx; it   *)
(* may have received the bytes) or turns out to serve another network.     *)
(***************************************************************************)
EXTENDS Naturals, FiniteSets

CONSTANTS
    Requests,
    N,                  \* endpoints
    MaxRounds,          \* bound: operations of all requests
    MaxMisroutes        \* bound: endpoints that change to another network

Endpoints == 0 .. N - 1

VARIABLES
    right,          \* endpoints that serve the selected network
    active, healthy, failovers,     \* fallbackTransport
    networkVerified, verifiedFailovers,     \* Client
    req,            \* request -> what it is doing
    rounds,         \* operations so far
    checked,        \* history: endpoints that have shown the right chain id
    answeredAt      \* history: failovers when the cached answer was given

transportVars == <<active, healthy, failovers>>
clientVars == <<networkVerified, verifiedFailovers, answeredAt>>
vars == <<right, transportVars, clientVars, req, rounds, checked>>

Idle == [pc |-> "idle"]

Init ==
    /\ right \in SUBSET Endpoints
    /\ active = 0 /\ healthy = FALSE /\ failovers = 0
    /\ networkVerified = FALSE /\ verifiedFailovers = 0 /\ answeredAt = 0
    /\ req = [r \in Requests |-> Idle]
    /\ rounds = 0
    /\ checked = {}

\* r goes on with the fields of f replaced.
Goes(r, f) ==
    req' = [req EXCEPT ![r] = [x \in DOMAIN @ \cup DOMAIN f |-> IF x \in DOMAIN f THEN f[x] ELSE @[x]]]

At(r, pc) == req[r].pc = pc

\* An endpoint's provider starts to serve another network.
Misroute(e) ==
    /\ e \in right /\ Cardinality(Endpoints \ right) < MaxMisroutes
    /\ right' = right \ {e}
    /\ UNCHANGED <<transportVars, clientVars, req, rounds, checked>>

-----------------------------------------------------------------------------
(* Client *)

\* checkNetwork: the counter is loaded, and compared with the cached one.
CheckNetwork(r) ==
    /\ At(r, "idle") /\ rounds < MaxRounds
    /\ rounds' = rounds + 1
    /\ req' = [req EXCEPT ![r] = [pc |-> "compare", seen |-> failovers]]
    /\ UNCHANGED <<right, transportVars, clientVars, checked>>

CompareCached(r) ==
    /\ At(r, "compare")
    /\ req' = [req EXCEPT ![r] = IF networkVerified /\ verifiedFailovers = @.seen
                                 THEN [pc |-> "send", rpc |-> "call"]
                                 ELSE [pc |-> "count", rpc |-> "verify"]]
    /\ UNCHANGED <<right, transportVars, clientVars, rounds, checked>>

\* verifyNetwork: the counter is loaded before the RPC.
LoadFailovers(r) ==
    /\ At(r, "count")
    /\ Goes(r, [pc |-> "send", seen |-> failovers])
    /\ UNCHANGED <<right, transportVars, clientVars, rounds, checked>>

\* Seeded fault: the counter of the end of the RPC is recorded.
SeenNow(r) == failovers

Seen(r) == req[r].seen

\* The RPC is over: the chain id is compared, then the operation's own RPC follows.
Verified(r) ==
    /\ At(r, "answered") /\ req[r].rpc = "verify"
    /\ IF req[r].correct
       THEN /\ verifiedFailovers' = Seen(r) /\ networkVerified' = TRUE
            /\ answeredAt' = req[r].at
            /\ req' = [req EXCEPT ![r] = [pc |-> "send", rpc |-> "call"]]
       ELSE /\ networkVerified' = FALSE
            /\ UNCHANGED <<verifiedFailovers, answeredAt>>
            /\ req' = [req EXCEPT ![r] = Idle]
    /\ UNCHANGED <<right, transportVars, rounds, checked>>

Done(r) ==
    /\ req[r].pc \in {"failed", "cancelled", "answered"}
    /\ At(r, "answered") => req[r].rpc = "call"
    /\ req' = [req EXCEPT ![r] = Idle]
    /\ UNCHANGED <<right, transportVars, clientVars, rounds, checked>>

-----------------------------------------------------------------------------
(* RoundTrip *)

LoadHealthy(r) ==
    /\ At(r, "send")
    /\ Goes(r, [pc |-> IF healthy THEN "active" ELSE "start", skip |-> 0])
    /\ UNCHANGED <<right, transportVars, clientVars, rounds, checked>>

\* The fast path: the active endpoint gets the request without a probe.
LoadActive(r) ==
    /\ At(r, "active")
    /\ Goes(r, [pc |-> "fast", to |-> active])
    /\ UNCHANGED <<right, transportVars, clientVars, rounds, checked>>

\* The endpoint answers; a chain id is compared by verifyNetwork.
FastAnswer(r) ==
    /\ At(r, "fast")
    /\ Goes(r, [pc |-> "answered", correct |-> req[r].to \in right, at |-> failovers])
    /\ UNCHANGED <<right, transportVars, clientVars, rounds, checked>>

FastFail(r) ==
    /\ At(r, "fast")
    /\ healthy' = FALSE
    /\ Goes(r, [pc |-> "start", skip |-> 1])
    /\ UNCHANGED <<right, active, failovers, clientVars, rounds, checked>>

\* The caller's context ends: no endpoint is blamed, none is tried any more.
Cancel(r) ==
    /\ req[r].pc \in {"active", "fast", "probe"}
    /\ Goes(r, [pc |-> "cancelled"])
    /\ UNCHANGED <<right, transportVars, clientVars, rounds, checked>>

LoadStart(r) ==
    /\ At(r, "start")
    /\ Goes(r, [pc |-> "probe", start |-> active, offset |-> 0])
    /\ UNCHANGED <<right, transportVars, clientVars, rounds, checked>>

\* index in the loop over the targets
Index(r) == (req[r].start + req[r].skip + req[r].offset) % N

NextTarget(r) ==
    IF req[r].offset + 1 < N
    THEN Goes(r, [pc |-> "probe", offset |-> req[r].offset + 1])
    ELSE Goes(r, [pc |-> "failed"])

\* Seeded fault: any answer to the probe is taken.
ProbeAnyChain(r) == TRUE

ProbePasses(r) == Index(r) \in right

Probe(r) ==
    /\ At(r, "probe")
    /\ ProbePasses(r)
    /\ Goes(r, [pc |-> "attempt", to |-> Index(r)])
    /\ checked' = IF Index(r) \in right THEN checked \cup {Index(r)} ELSE checked
    /\ UNCHANGED <<right, transportVars, clientVars, rounds>>

\* No answer, or that of another network.
ProbeFails(r) ==
    /\ At(r, "probe")
    /\ NextTarget(r)
    /\ UNCHANGED <<right, transportVars, clientVars, rounds, checked>>

AttemptFails(r) ==
    /\ At(r, "attempt")
    /\ NextTarget(r)
    /\ UNCHANGED <<right, transportVars, clientVars, rounds, checked>>

AttemptAnswer(r) ==
    /\ At(r, "attempt")
    /\ Goes(r, [pc |-> "swap", correct |-> Index(r) \in right, at |-> failovers])
    /\ UNCHANGED <<right, transportVars, clientVars, rounds, checked>>

\* CompareAndSwap when another endpoint answered, a plain Store otherwise.
Swap(r) ==
    LET start == req[r].start IN
    /\ At(r, "swap")
    /\ IF Index(r) = start
       THEN active' = start /\ Goes(r, [pc |-> "mark"])
       ELSE IF active = start
            THEN active' = Index(r) /\ Goes(r, [pc |-> "add"])
            ELSE active' = active /\ Goes(r, [pc |-> "mark"])
    /\ UNCHANGED <<right, healthy, failovers, clientVars, rounds, checked>>

AddFailover(r) ==
    /\ At(r, "add")
    /\ failovers' = failovers + 1
    /\ Goes(r, [pc |-> "mark"])
    /\ UNCHANGED <<right, active, healthy, clientVars, rounds, checked>>

MarkHealthy(r) ==
    /\ At(r, "mark")
    /\ healthy' = TRUE
    /\ Goes(r, [pc |-> "answered"])
    /\ UNCHANGED <<right, active, failovers, clientVars, rounds, checked>>

-----------------------------------------------------------------------------
RoundTrip(r) ==
    \/ LoadHealthy(r) \/ LoadActive(r) \/ FastAnswer(r) \/ FastFail(r) \/ Cancel(r)
    \/ LoadStart(r) \/ Probe(r) \/ ProbeFails(r) \/ AttemptFails(r) \/ AttemptAnswer(r)
    \/ Swap(r) \/ AddFailover(r) \/ MarkHealthy(r)

Next ==
    \/ \E r \in Requests :
          \/ CheckNetwork(r) \/ CompareCached(r) \/ LoadFailovers(r) \/ Verified(r) \/ Done(r)
          \/ RoundTrip(r)
    \/ \E e \in Endpoints : Misroute(e)

Spec == Init /\ [][Next]_vars

-----------------------------------------------------------------------------
(* Properties. *)

\* "Each endpoint is checked for the selected chain before forwarding operations":
\* an endpoint that receives a request has shown the right chain id to this request
\* or, on the fast path, to an earlier one, although active and healthy are stored
\* separately by requests that overtake each other.  And the client's cached check
\* is not older than the failover it is recorded for: an answer of the endpoint
\* before a counted failover never vouches for the one after it.
EndpointsAreChecked ==
    /\ \A r \in Requests : req[r].pc \in {"fast", "attempt"} => req[r].to \in checked
    /\ networkVerified => verifiedFailovers <= answeredAt
=============================================================================
