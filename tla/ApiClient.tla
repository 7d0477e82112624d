----------------------------- MODULE ApiClient -----------------------------
(***************************************************************************)
(* The HTTP client of the web application (lib/api/client.ts) as its       *)
(* callers see it.  A request on its way is an entry of `call`; requests   *)
(* overtake each other freely.  A network error or a 5xx makes the client  *)
(* send the same request again, whatever its method, although the server   *)
(* may have done it already; after MAX_ATTEMPTS retries, after an error    *)
(* that is not retried, and after the time limit, the caller gets an error *)
(* although the server may have done it, or may still be going to.         *)
(***************************************************************************)
EXTENDS Naturals, FiniteSets

CONSTANTS
  Calls,         \* places for requests on their way at one time (a bound)
  MAX_ATTEMPTS,  \* retries of one request (constants/timings.ts)
  MaxFaults      \* bound: requests or answers that get lost

ASSUME ApiAssumption == MAX_ATTEMPTS \in Nat /\ MaxFaults \in Nat

VARIABLES
  call,   \* call[k]: the request in place k, or Idle
  faults  \* faults so far

apiVars == <<call, faults>>

Idle == [stage |-> "idle"]

\* The same method, address and body are sent by every attempt.
Request(r) == [stage |-> "sent", of |-> r, tries |-> 0]

\* Any part of the bound may be left.
ApiInit == call = [k \in Calls |-> Idle] /\ faults \in 0..MaxFaults

Free(c) == {k \in Calls : c[k] = Idle}

\* Enough free places for n requests, beside the one an answer in place k gives back.
Room(n) == Cardinality(Free(call)) >= n

Sent(c, r) == LET k == CHOOSE k \in Free(c) : TRUE IN [c EXCEPT ![k] = Request(r)]

Without(k) == [call EXCEPT ![k] = Idle]

-----------------------------------------------------------------------------
AtServer(k, to) == call[k].stage \in {"sent", "left"} /\ call[k].of.to = to

\* The server has done the request and answers; nobody waits for the answer of one the
\* client has given up.
Answer(k, a) ==
  call' = IF call[k].stage = "left" THEN Without(k)
          ELSE [call EXCEPT ![k] = [stage |-> "served", of |-> @.of, tries |-> @.tries, answer |-> a]]

Served(k, to) == call[k].stage = "served" /\ call[k].of.to = to

\* The request or its answer is lost and the client sends it again, as r: what a header
\* says is read anew.
Resent(k, r) ==
  /\ call[k].stage \in {"sent", "served"} /\ faults < MaxFaults /\ call[k].tries < MAX_ATTEMPTS
  /\ call' = [call EXCEPT ![k] = [Request(r) EXCEPT !.tries = call[k].tries + 1]]
  /\ faults' = faults + 1

Lost(k) == Resent(k, call[k].of)

\* The caller of a request of this kind gets an error.
Fails(k, to) ==
  /\ call[k].stage \in {"sent", "served"} /\ call[k].of.to = to
  /\ faults < MaxFaults /\ faults' = faults + 1

\* What becomes of a request that writes: the server has done it, or never gets it, or
\* gets it later.
Abandoned(k) ==
  {Without(k)} \union (IF call[k].stage = "sent" THEN {[call EXCEPT ![k].stage = "left"]} ELSE {})
=============================================================================
