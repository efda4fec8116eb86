-------------------------------- MODULE Proxy --------------------------------
(***************************************************************************)
(* cmd/proxy: the reverse proxy in front of Bungie.  Each request goes out *)
(* through one of N addresses, taken in turn, and each address has one     *)
(* rate limiter for either domain.                                         *)
(*                                                                         *)
(* Of a counter only the remainder modulo N is used and kept.  A client    *)
(* has one request at a time.  (golang.org/x/time/rate and Bungie are      *)
(* external.)                                                              *)
(***************************************************************************)
EXTENDS Integers, FiniteSets

CONSTANTS Client, N, Burst

ASSUME ProxyAssumption == N \in Nat \ {0} /\ Burst \in Nat \ {0}

Domain  == {"stats", "base"}
Address == 0 .. N - 1
InFlight == {"accepted", "waiting", "sending"}
Answers  == {"ok", "status", "error"}

VARIABLES
  up,        \* is the proxy running?
  count,     \* baseURLCount and statsURLCount, modulo N
  tokens,    \* what each limiter has to give
  ahead,     \* history: requests of each address beyond those of the least used one
  req,       \* each client's request
  domain, address    \* what the request asks for, and through which address

proxyVars == <<up, count, tokens, ahead, req, domain, address>>

\* A process that has just started.
NoRequests == [d \in Domain |-> 0]
Full == [d \in Domain |-> [i \in Address |-> Burst]]
Even == [d \in Domain |-> [i \in Address |-> 0]]

ProxyInit ==
  /\ up = TRUE
  /\ count = NoRequests /\ tokens = Full /\ ahead = Even
  /\ req = [c \in Client |-> "none"]
  /\ domain = [c \in Client |-> "base"]
  /\ address = [c \in Client |-> 0]

-----------------------------------------------------------------------------
\* A client sends a request; the handler of "/" rewrites it.
Request(c, d) ==
  /\ req[c] = "none"
  /\ req' = [req EXCEPT ![c] = IF up THEN "accepted" ELSE "error"]
  /\ domain' = [domain EXCEPT ![c] = d]
  /\ UNCHANGED <<up, count, tokens, ahead, address>>

\* The least used address stays at zero.
Used(used, i) ==
  LET more == [used EXCEPT ![i] = @ + 1]
  IN  IF \A j \in Address : more[j] > 0 THEN [j \in Address |-> more[j] - 1] ELSE more

\* Mutant: one counter serves both domains.
BugCounted(c) ==
  LET n == (count["base"] + 1) % N
  IN  /\ count' = [count EXCEPT !["base"] = n]
      /\ address' = [address EXCEPT ![c] = n]
      /\ ahead' = [ahead EXCEPT ![domain[c]] = Used(@, n)]

\* The domain's counter picks limiter and transport; Add(1) is atomic.
Counted(c) ==
  LET n == (count[domain[c]] + 1) % N
  IN  /\ count' = [count EXCEPT ![domain[c]] = n]
      /\ address' = [address EXCEPT ![c] = n]
      /\ ahead' = [ahead EXCEPT ![domain[c]] = Used(@, n)]

\* RoundTrip begins.
Count(c) ==
  /\ req[c] = "accepted"
  /\ Counted(c)
  /\ req' = [req EXCEPT ![c] = "waiting"]
  /\ UNCHANGED <<up, tokens, domain>>

\* rl.Wait has its token.
Granted(c) ==
  /\ req[c] = "waiting"
  /\ tokens[domain[c]][address[c]] > 0
  /\ tokens' = [tokens EXCEPT ![domain[c]][address[c]] = @ - 1]
  /\ req' = [req EXCEPT ![c] = "sending"]
  /\ UNCHANGED <<up, count, ahead, domain, address>>

\* Bungie's answer, or the 502 with which ReverseProxy answers when it gets none.
Answer(c) ==
  /\ req[c] = "sending"
  /\ \E a \in {"ok", "status"} : req' = [req EXCEPT ![c] = a]
  /\ UNCHANGED <<up, count, tokens, ahead, domain, address>>

\* The process ends, and with it every connection; counters and limiters start anew.
Dies ==
  /\ up
  /\ up' = FALSE
  /\ req' = [c \in Client |-> IF req[c] \in InFlight THEN "error" ELSE req[c]]
  /\ count' = NoRequests /\ tokens' = Full /\ ahead' = Even
  /\ UNCHANGED <<domain, address>>

\* A transport that cannot dial calls log.Fatalf.
DialFails(c) == req[c] = "sending" /\ Dies

Restart ==
  /\ ~up
  /\ up' = TRUE
  /\ UNCHANGED <<count, tokens, ahead, req, domain, address>>

Refill(d, i) ==
  /\ up /\ tokens[d][i] < Burst
  /\ tokens' = [tokens EXCEPT ![d][i] = @ + 1]
  /\ UNCHANGED <<up, count, ahead, req, domain, address>>

\* A client that has a time limit gives up.  rl.Wait fails then, its error is ignored, and
\* the transport does not send the request: no token is taken.
HangUp(c) ==
  /\ req[c] \in InFlight
  /\ IF req[c] = "accepted" THEN Counted(c) ELSE UNCHANGED <<count, address, ahead>>
  /\ req' = [req EXCEPT ![c] = "error"]
  /\ UNCHANGED <<up, tokens, domain>>

\* The client takes its answer.
Taken(c) ==
  /\ req[c] \in Answers
  /\ req' = [req EXCEPT ![c] = "none"]
  /\ address' = [address EXCEPT ![c] = 0]
  /\ UNCHANGED <<up, count, tokens, ahead, domain>>

Serve(c) == Count(c) \/ Granted(c) \/ Answer(c) \/ DialFails(c)

ProxyNext ==
  \/ \E c \in Client : Serve(c)
  \/ Restart
  \/ \E d \in Domain, i \in Address : Refill(d, i)

-----------------------------------------------------------------------------
\* Every variable of the proxy has its type.
ProxyTypeOK ==
  /\ up \in BOOLEAN
  /\ count \in [Domain -> Address]
  /\ tokens \in [Domain -> [Address -> 0 .. Burst]]
  /\ ahead \in [Domain -> [Address -> Nat]]
  /\ req \in [Client -> {"none"} \union InFlight \union Answers]
  /\ domain \in [Client -> Domain] /\ address \in [Client -> Address]

\* Either domain's requests are spread evenly: whatever the other domain's traffic, and
\* however the handlers interleave, no address has had two more than another.
BalancedPerDomain ==
  \A d \in Domain : \A i, j \in Address : ahead[d][i] - ahead[d][j] <= 1
=============================================================================
