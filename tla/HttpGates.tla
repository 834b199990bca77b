------------------------------ MODULE HttpGates ------------------------------
(***************************************************************************)
(* The way of a request to its handler (internal/web): WithPublicOrigin,   *)
(* RequireAccessToken or SharedDemo, LimitTraffic, localWalletFilter, and  *)
(* what the handler itself checks before it calls a service.  Requests run *)
(* concurrently; the counters are behind mutexes and the slots are         *)
(* buffered channels, so that each use of one is a step of its own.        *)
(*                                                                         *)
(* A body is abstracted to whether it passes the handler's checks, chosen  *)
(* where they are made.  What a service does is in the wallets' modules.   *)
(***************************************************************************)
EXTENDS HttpRoutes, Naturals, Sequences, FiniteSets

CONSTANTS
    Requests,
    Limit,              \* requests in a minute (300)
    Reads, Writes,      \* slots (8 and 1)
    Attempts,           \* password and login attempts in a minute (10)
    Minute,             \* in ticks of the clock
    MaxClock            \* bound

VARIABLES
    config,             \* what config.go accepts: shared, token, public
    now,
    traffic,            \* the LimitTraffic instances
    budget,             \* attempts of SharedDemo and of RequireAccessToken
    req,
    checks,             \* history: times of the comparisons of passwords and of the
                        \* login form's token
    counted             \* history: who was counted in each traffic window

vars == <<config, now, traffic, budget, req, checks, counted>>

-----------------------------------------------------------------------------
Instances == {"shared", "public", "authenticated"}

Init ==
    /\ config \in Configs
    /\ now = 0
    /\ traffic = [t \in Instances |-> [window |-> 0, requests |-> 0]]
    /\ budget = [b \in {"password", "login"} |-> [window |-> 0, attempts |-> 0]]
    /\ req = [r \in Requests |-> Idle]
    /\ checks = [b \in {"password", "login"} |-> <<>>]
    /\ counted = [t \in Instances |-> {}]

Tick ==
    /\ now < MaxClock
    /\ now' = now + 1
    /\ UNCHANGED <<config, traffic, budget, req, checks, counted>>

Answer(r) == req' = [req EXCEPT ![r] = Idle]

\* Seeded fault: the count starts again, its window does not.
ChargedNoWindow(b) ==
    LET w == IF now - b.window >= Minute THEN [b EXCEPT !.attempts = 0] ELSE b
    IN  IF w.attempts >= Attempts THEN w ELSE [w EXCEPT !.attempts = @ + 1]

\* One attempt: the window starts again after a minute; a refused attempt is not counted.
Charged(b) ==
    LET w == IF now - b.window >= Minute THEN [window |-> now, attempts |-> 0] ELSE b
    IN  IF w.attempts >= Attempts THEN w ELSE [w EXCEPT !.attempts = @ + 1]

Limited(b) == now - b.window < Minute /\ b.attempts >= Attempts

-----------------------------------------------------------------------------
(* The outer gates: v is what they make of the request (HttpRoutes). *)

Arrive(r, v) ==
    /\ req[r].pc = "idle"
    /\ budget' = IF v.guess THEN [budget EXCEPT !["login"] = Charged(@)] ELSE budget
    /\ IF v.guess /\ Limited(budget["login"])
       THEN Answer(r) /\ UNCHANGED checks
       ELSE /\ req' = [req EXCEPT ![r] = v.next]
            /\ checks' = IF v.compares THEN [checks EXCEPT !["login"] = Append(@, now)] ELSE checks
    /\ UNCHANGED <<config, now, traffic, counted>>

-----------------------------------------------------------------------------
(* LimitTraffic *)

At(r, pc) == req[r].pc = pc
To(r) == req[r].to
Who(r) == IF req[r].operator THEN "operator" ELSE "visitor"

\* Seeded fault: every path is counted.
CountedAlways(r) == TRUE

\* Only paths with /api/ are limited.
Counted(r) == req[r].slot # "none"

Unlimited(r) ==
    /\ At(r, "traffic") /\ ~Counted(r)
    /\ req' = [req EXCEPT ![r].pc = "handler"]
    /\ UNCHANGED <<config, now, traffic, budget, checks, counted>>

\* The request is counted, or the window is full: 429.
Count(r) ==
    LET t == traffic[To(r)]
        over == now - t.window >= Minute
        before == IF over THEN 0 ELSE t.requests
        free == before < Limit
    IN
    /\ At(r, "traffic") /\ Counted(r)
    /\ traffic' = [traffic EXCEPT ![To(r)].window = IF over THEN now ELSE @,
                                  ![To(r)].requests = IF free THEN before + 1 ELSE before]
    /\ counted' = [counted EXCEPT ![To(r)] = (IF over THEN {} ELSE @)
                                             \cup (IF free THEN {Who(r)} ELSE {})]
    /\ req' = [req EXCEPT ![r] = IF free THEN [@ EXCEPT !.pc = "slot"] ELSE Idle]
    /\ UNCHANGED <<config, now, budget, checks>>

Slots == [none |-> Cardinality(Requests), reads |-> Reads, writes |-> Writes]

Holders(slot, to) ==
    {r \in Requests : req[r].pc \in {"handler", "service"} /\ req[r].slot = slot /\ To(r) = to}

\* A free slot, or 429 at once.  It is held until the handler returns.
Slot(r) ==
    /\ At(r, "slot")
    /\ IF Cardinality(Holders(req[r].slot, To(r))) < Slots[req[r].slot]
       THEN req' = [req EXCEPT ![r].pc = "handler"]
       ELSE Answer(r)
    /\ UNCHANGED <<config, now, traffic, budget, checks, counted>>

-----------------------------------------------------------------------------
(* The handler *)

\* localWalletFilter, decodeStrictJSON, or a field the handler looks at refuses.
Refuse(r) ==
    /\ At(r, "handler")
    /\ req[r].does # {}
    /\ Answer(r)
    /\ UNCHANGED <<config, now, traffic, budget, checks, counted>>

FilterPasses(r) == req[r].own

\* allowSharedPasswordAttempt with a password.
ChargeAttempt(r) ==
    /\ At(r, "handler") /\ FilterPasses(r)
    /\ "charge" \in req[r].does
    /\ budget' = [budget EXCEPT !["password"] = Charged(@)]
    /\ IF Limited(budget["password"])
       THEN Answer(r)
       ELSE req' = [req EXCEPT ![r].pc = "service"]
    /\ UNCHANGED <<config, now, traffic, checks, counted>>

Proceed(r) ==
    /\ At(r, "handler") /\ FilterPasses(r)
    /\ "charge" \notin req[r].does
    /\ req' = [req EXCEPT ![r].pc = "service"]
    /\ UNCHANGED <<config, now, traffic, budget, checks, counted>>

\* The service is called; a password is compared with the key file's.
Serve(r) ==
    /\ At(r, "service")
    /\ checks' = IF "verify" \in req[r].does /\ ~req[r].operator
                 THEN [checks EXCEPT !["password"] = Append(@, now)]
                 ELSE checks
    /\ Answer(r)
    /\ UNCHANGED <<config, now, traffic, budget, counted>>

-----------------------------------------------------------------------------
Next ==
    \/ Tick
    \/ \E r \in Requests :
          \/ Unlimited(r) \/ Count(r) \/ Slot(r)
          \/ Refuse(r) \/ ChargeAttempt(r) \/ Proceed(r) \/ Serve(r)
          \/ \E v \in Verdicts : v[1] = config /\ Arrive(r, v[2])

Spec == Init /\ [][Next]_vars

-----------------------------------------------------------------------------
(* Properties. *)

\* The fixed window lets through twice its limit around its end, and never more: in
\* no minute are more passwords of the shared wallets, or tokens of the login form,
\* compared than two windows allow.  Every open route that compares a password has to
\* be charged for that.
GuessesAreBounded ==
    \A b \in DOMAIN checks : \A i, j \in DOMAIN checks[b] :
        j - i >= 2 * Attempts => checks[b][j] - checks[b][i] >= Minute

\* "Public unauthenticated queries and authenticated sessions maintain separate
\* traffic budgets so external public traffic cannot exhaust the administrator's
\* quota", and "account-scoped handlers must never be public": whatever visitors
\* send, they are never counted in the operator's window, never hold one of its
\* slots, and without the shared demo never reach a wallet's handler.
OperatorIsSeparate ==
    /\ "visitor" \notin counted["authenticated"]
    /\ \A r \in Requests :
          req[r].pc \in {"handler", "service"} /\ ~req[r].operator =>
              /\ To(r) = "authenticated" => req[r].slot = "none"
              /\ ~config.shared => "filter" \notin req[r].does
=============================================================================
