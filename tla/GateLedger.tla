------------------------------ MODULE GateLedger ------------------------------
(***************************************************************************)
(* What the Gate index promises its readers.  Requests are numbered as     *)
(* they are opened; a gate has at most one open request and no two gates   *)
(* have one at once; only the open request may decide its gate, with the   *)
(* verdict of its own report.  A request that was withdrawn or overtaken   *)
(* never decides anything.                                                 *)
(***************************************************************************)
EXTENDS Naturals

CONSTANTS Gates,        \* the review gates of a task
          MaxRequests   \* bound on the requests

VARIABLES opened,    \* number of requests opened so far
          current,   \* gate -> its open request, 0 if none
          decided,   \* gate -> the request whose verdict it shows, 0 if none
          verdict    \* request -> what its report says, "none" until written
ledgerVars == <<opened, current, decided, verdict>>

Requests == 1..MaxRequests
Verdicts == {"approve", "request_changes", "malformed"}

LedgerInit == /\ opened = 0
              /\ current = [g \in Gates |-> 0]
              /\ decided = [g \in Gates |-> 0]
              /\ verdict = [r \in Requests |-> "none"]

(* A gate other than the one acted on may lose what it shows (its request  *)
(* fails or is withdrawn, or the gate is no longer required), never gain.  *)
OnlyLoses(S) == \A g \in S : /\ current'[g] \in {current[g], 0}
                             /\ decided'[g] \in {decided[g], 0}

Open(g) == /\ current[g] = 0
           /\ opened < MaxRequests
           /\ opened' = opened + 1
           /\ current' = [h \in Gates |-> IF h = g THEN opened + 1 ELSE 0]
           /\ decided'[g] = 0
           /\ OnlyLoses(Gates \ {g})
           /\ UNCHANGED verdict

Decide(g) == /\ current[g] # 0
             /\ verdict[current[g]] \in {"approve", "request_changes"}
             /\ decided'[g] = current[g]
             /\ current'[g] = 0
             /\ OnlyLoses(Gates \ {g})
             /\ UNCHANGED <<opened, verdict>>

Withdraw == OnlyLoses(Gates) /\ UNCHANGED <<opened, verdict>>

Judge(r, v) == /\ r <= opened
               /\ verdict[r] = "none"
               /\ verdict' = [verdict EXCEPT ![r] = v]
               /\ UNCHANGED <<opened, current, decided>>

LedgerNext == \/ \E g \in Gates : Open(g) \/ Decide(g)
              \/ Withdraw
              \/ \E r \in Requests, v \in Verdicts : Judge(r, v)

LedgerSpec == LedgerInit /\ [][LedgerNext]_ledgerVars
=============================================================================
