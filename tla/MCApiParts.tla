----------------------------- MODULE MCApiParts -----------------------------
(* Parts of the API that share no state, for TLC: limits whose replicas'      *)
(* clocks differ, logins behind them, lists read page by page, and replicas   *)
(* that pay claims of one worker from a weekly sum.  Each takes its steps     *)
(* while the others rest.                                                     *)
EXTENDS Sessions, Listings, MCClaimPipeline, TLC

VARIABLE active \* the part that takes steps

(* A short window and a long one per address, in the order of rate_limit. *)
Windows == <<[by |-> "ip", window |-> 1, limit |-> 1], [by |-> "ip", window |-> 2, limit |-> 1]>>
CallsAlike == Permutations(Calls)

(* Two of the rows have the same time. *)
MCRows == {[at |-> 1, id |-> 2], [at |-> 1, id |-> 1], [at |-> 2, id |-> 3]}

PartsInit ==
    /\ active \in {"limits", "logins", "lists", "payouts"}
    /\ LoginInit /\ ListInit /\ Init
    /\ active = "logins" \/ ~registered

(* Behind the limits the clocks of all replicas agree, to keep logins small. *)
PartsNext ==
    \/ active = "limits" /\ LimiterNext /\ UNCHANGED <<sessionVars, listVars, vars, active>>
    \/ active = "logins" /\ LoginNext /\ (\A q \in Calls : calls'[q].skew = 0)
                         /\ UNCHANGED <<listVars, vars, active>>
    \/ active = "lists" /\ ListNext /\ UNCHANGED <<loginVars, vars, active>>
    \/ active = "payouts" /\ Next /\ UNCHANGED <<loginVars, listVars, active>>

PartsSpec == PartsInit /\ [][PartsNext]_<<loginVars, listVars, vars, active>>
=============================================================================
