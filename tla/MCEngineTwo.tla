------------------------------ MODULE MCEngineTwo ------------------------------
(***************************************************************************)
(* CampaignEngine with relaunch and the emergency stop.  The first campaign *)
(* says what is explored.  Where it is one, that campaign stays alone, and  *)
(* two requests may overlap.  Where it is two, it has one recipient and     *)
(* another campaign follows; one request is under way at a time, and nobody *)
(* pauses.                                                                  *)
(***************************************************************************)
EXTENDS CampaignEngine, TLC

CONSTANTS one, two      \* the campaigns

Symmetry == Permutations(Contacts) \union Permutations(Requests) \union Permutations(Workers)

OneOrTwo ==
    /\ status[one] # "none" /\ status[two] = "none" => status'[two] = "none"
    /\ status'[two] # "none" =>
        /\ Cardinality({x \in Contacts : rec'[<<two, x>>] # "none"}) <= 1
        /\ \A q \in Requests : req'[q].at # "pause"
        /\ \A p, q \in Requests : "idle" \in {req'[p].at, req'[q].at} \/ p = q
================================================================================
