----------------------------- MODULE ClaimLedger -----------------------------
(***************************************************************************)
(* What the claim pipeline promises about one (worker, trigger) pair,      *)
(* whatever sessions, messages and crashes produce it: the pair is settled *)
(* at most once, the claim and its payout row appear together, and from    *)
(* then on only an appeal moves the claim, never into or out of "paid".    *)
(* ClaimPipeline implements this specification.                            *)
(***************************************************************************)
CONSTANTS Keys,             \* the (worker, trigger) pairs
          GatewayOutcomes   \* the payout statuses a gateway call can leave

VARIABLES claims,    \* claims[k]: the committed status of the claim row, or "none"
          paidOut    \* paidOut[k]: the committed status of the payout row, or "none"

ledger == <<claims, paidOut>>

Init == /\ claims = [k \in Keys |-> "none"]
        /\ paidOut = [k \in Keys |-> "none"]

(* Settled without money: held for review or blocked. *)
Withhold(k) ==
  /\ claims[k] = "none"
  /\ \E st \in {"in_review", "blocked"} : claims' = [claims EXCEPT ![k] = st]
  /\ UNCHANGED paidOut

(* Settled with money: claim and payout in one step. *)
Pay(k) ==
  /\ claims[k] = "none"
  /\ claims' = [claims EXCEPT ![k] = "paid"]
  /\ \E o \in GatewayOutcomes : paidOut' = [paidOut EXCEPT ![k] = o]

(* A worker appeals against a claim that was blocked or rejected. *)
Appeal(k) ==
  /\ claims[k] \in {"rejected", "blocked"}
  /\ claims' = [claims EXCEPT ![k] = "in_review"]
  /\ UNCHANGED paidOut

Next == \E k \in Keys : Withhold(k) \/ Pay(k) \/ Appeal(k)

Spec == Init /\ [][Next]_ledger
=============================================================================
