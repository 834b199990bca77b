----------------------------- MODULE HttpRoutes -----------------------------
(***************************************************************************)
(* The routes of the server (internal/web), what each handler does before  *)
(* it calls its service, and what the gates before it make of a request in *)
(* each configuration.  HttpGates adds the counters and the slots.         *)
(***************************************************************************)

(* The handlers: what each does before its service is called, besides        *)
(* looking at the query or the body (decodeStrictJSON).                      *)
(*   filter    localWalletFilter                                             *)
(*   charge    allowSharedPasswordAttempt                                    *)
(*   verify    the service compares the password of a key file               *)

Route(path, post, does) == [path |-> path, post |-> post, does |-> does]

Get(paths) == {Route(p, FALSE, {"filter"}) : p \in paths}
Post(paths, does) == {Route(p, TRUE, {"filter"} \cup does) : p \in paths}

PageRoutes == {Route(p, FALSE, {}) : p \in {"page", "healthz"}}
NetworkRoutes == {Route(p, FALSE, {}) : p \in {"network", "balance", "transaction"}}
ObservationRoutes == {Route(p, FALSE, {}) : p \in {"diagnostics", "watch/token", "watch/activity"}}

PoolsRoute == Post({"exchange/pools"}, {})
StatusRoutes == Get({"wallet", "vault"})
ImportRoutes == Post({"import-keystore", "password"}, {"verify"})
AccountRoutes == Get({"accounts"}) \cup Post({"accounts"}, {"charge"}) \cup Post({"accounts/update"}, {})
CreateRoutes == Post({"create", "import"}, {})
BackupRoute == Post({"backup"}, {"charge", "verify"})
TokenRoutes == Get({"token"}) \cup Post({"token"}, {})
QuoteRoute == Post({"quote"}, {})

SendRoute == Post({"send"}, {"charge", "verify"})
RetryRoute == Post({"retry"}, {})
ActivityRoutes == Get({"activity"}) \cup Post({"activity/import", "activity/sync"}, {})
ScanRoutes == Get({"scan"}) \cup Post({"scan"}, {})
HistoryRoute == Get({"history"})
EscrowRoutes == Get({"escrow", "escrow/order"})
FaucetRoutes == Get({"faucet", "faucet/tron/hash"}) \cup Post({"faucet", "faucet/solana", "faucet/tron"}, {})

\* registerKeyRoutes, for Solana and TRON.
KeyRoutes ==
    Post({"solana/backup", "tron/backup"}, {"charge", "verify"})
    \cup Post({"solana/restore", "tron/restore", "solana/password", "tron/password"}, {"verify"})

SolanaRoutes ==
    Get({"solana/status", "solana/balance", "solana/history"})
    \cup Post({"solana/create", "solana/quote", "solana/retry"}, {})
    \cup Post({"solana/send"}, {"charge", "verify"})

TronRoutes ==
    Get({"tron/status", "tron/balance", "tron/history", "tron/token"})
    \cup Post({"tron/create", "tron/quote", "tron/retry"}, {})
    \cup Post({"tron/send"}, {"charge", "verify"})

Routes ==
    UNION {PageRoutes, NetworkRoutes, ObservationRoutes, PoolsRoute, StatusRoutes, ImportRoutes,
           AccountRoutes, CreateRoutes, BackupRoute, TokenRoutes, QuoteRoute, SendRoute, RetryRoute,
           ActivityRoutes, ScanRoutes, HistoryRoute, EscrowRoutes, FaucetRoutes, KeyRoutes,
           SolanaRoutes, TronRoutes, {Route("login", TRUE, {})}}

-----------------------------------------------------------------------------
(* Requests.  site: from the service's own pages, a navigation from another  *)
(* site, or anything else (another host, origin or site).  cred: Basic       *)
(* credentials or a session cookie.  What no gate of the configuration looks *)
(* at is left out.                                                           *)

Idle == [pc |-> "idle"]

Configs == {c \in [shared : BOOLEAN, token : BOOLEAN, public : BOOLEAN] :
                /\ c.shared => c.public
                /\ c.public => c.shared \/ c.token}

-----------------------------------------------------------------------------
(* The outer gates, for a configuration c: what becomes of a request.        *)
(*   next      Idle when it is answered here                                 *)
(*   guess     it is charged to the login budget, and answered if that is    *)
(*             used up                                                       *)
(*   compares  the login form's token is compared                            *)

Sites(c) == IF c.public THEN {"own", "link", "foreign"} ELSE {"own", "foreign"}

\* WithPublicOrigin
OriginAllowed(c, route, site) ==
    c.public /\ route.path # "healthz" => site = "own" \/ (site = "link" /\ ~route.post)

\* publicReadAllowed
PublicRead(route) ==
    ~route.post /\ route.path \in {"page", "network", "balance", "transaction", "watch/token"}

\* The POST routes of SharedDemo.
SharedPosts ==
    {"faucet", "faucet/solana", "faucet/tron",
     "accounts", "quote", "send", "retry", "token", "exchange/pools", "backup",
     "solana/quote", "solana/send", "solana/retry", "solana/backup",
     "tron/quote", "tron/send", "tron/retry", "tron/backup"}

InitializePosts == {"solana/create", "tron/create"}

Credentials(c, route) ==
    IF c.token /\ (c.shared => route.path \in InitializePosts)
    THEN {"none", "wrong", "right"} ELSE {"none"}

Metered(route) ==
    route.path \in {"accounts", "send", "solana/send", "tron/send",
                    "backup", "solana/backup", "tron/backup"}

\* The slot that LimitTraffic asks for.
SlotFor(route) ==
    IF route.path \in {"page", "healthz"} THEN "none"      \* no /api/ in the path
    ELSE IF ~route.post \/ route.path \in {"token", "exchange/pools"} THEN "reads" ELSE "writes"

\* The request goes on to a LimitTraffic.  operator: it has shown the token, or the
\* service is for this machine only.  own: localWalletFilter finds nothing wrong with
\* its host and origin.  A charge is only made if the request is metered.
Forward(route, site, to, operator, metered) ==
    [pc |-> "traffic", slot |-> SlotFor(route),
     own |-> site = "own" \/ "filter" \notin route.does,
     does |-> IF metered THEN route.does ELSE route.does \ {"charge"},
     to |-> to, operator |-> operator]

\* RequireAccessToken, behind SharedDemo also.  The login form is answered with a
\* session cookie when the token is right; the last case is the public page, the
\* login page or 401.
RequireAccessToken(c, route, site, cred) ==
    LET login == route.path = "login"
        asks == c.token /\ route.path # "healthz"
    IN  [guess |-> asks /\ (login \/ cred = "wrong"),
         compares |-> asks /\ login /\ site = "own",
         next |->
            CASE route.path = "healthz" ->
                    Forward(route, site, "authenticated", FALSE, FALSE)
              [] ~c.token /\ route.path # "healthz" ->
                    IF site = "own" THEN Forward(route, site, "authenticated", TRUE, FALSE)
                                    ELSE Idle
              [] asks /\ ~login /\ cred = "right" ->
                    Forward(route, site, "authenticated", TRUE, FALSE)
              [] asks /\ cred # "right" /\ c.public /\ PublicRead(route) /\ route.path # "page" ->
                    Forward(route, site, "public", FALSE, FALSE)
              [] OTHER -> Idle]

\* SharedDemo.  All reads are open; only the operator creates a Solana or TRON wallet.
SharedDemo(c, route, site, cred) ==
    IF route.path \in InitializePosts /\ c.token
    THEN RequireAccessToken(c, route, site, cred)
    ELSE [guess |-> FALSE, compares |-> FALSE,
          next |-> IF route.path # "login" /\ (route.post => route.path \in SharedPosts)
                   THEN Forward(route, site, "shared", FALSE, route.post /\ Metered(route))
                   ELSE Idle]

Verdict(c, route, site, cred) ==
    IF c.shared THEN SharedDemo(c, route, site, cred)
                ELSE RequireAccessToken(c, route, site, cred)

\* The requests that WithPublicOrigin lets through (403 otherwise).
Admitted ==
    {a \in [config : Configs, route : Routes, site : {"own", "link", "foreign"},
            cred : {"none", "wrong", "right"}] :
        /\ a.site \in Sites(a.config) /\ OriginAllowed(a.config, a.route, a.site)
        /\ a.cred \in Credentials(a.config, a.route)}

\* What can become of them, in each configuration.
Verdicts == {<<a.config, Verdict(a.config, a.route, a.site, a.cred)>> : a \in Admitted}
=============================================================================
