-------------------------------- MODULE Web --------------------------------
(***************************************************************************)
(* What visitors of the web layer can use up: the traffic and attempts of  *)
(* the gates before every handler (HttpGates), and the payouts behind the  *)
(* faucet's handlers (Faucet).                                             *)
(***************************************************************************)
EXTENDS Faucet

CONSTANTS Requests, TrafficLimit, Reads, Writes, Attempts, Minute, MaxTicks     \* HttpGates

\* One write at a time, as the server has it; the limits are positive.
ASSUME GatesAssumption ==
    IsFiniteSet(Requests) /\ Writes = 1 /\ Attempts \in Nat \ {0} /\ Minute \in Nat

VARIABLES config, now, traffic, budget, req, checks, counted                    \* HttpGates

Gates == INSTANCE HttpGates WITH Limit <- TrafficLimit, MaxClock <- MaxTicks

\* In no minute are more passwords of the shared wallets, or tokens of the login form,
\* compared than two windows allow (allowSharedPasswordAttempt, RequireAccessToken).
GuessesAreBounded == Gates!GuessesAreBounded

\* Visitors are never counted in the operator's traffic window, never hold one of its
\* slots, and without the shared demo never reach a wallet's handler (LimitTraffic and
\* the gates before it).
OperatorIsSeparate == Gates!OperatorIsSeparate
=============================================================================
