----------------------------- MODULE MCTenancy -----------------------------
(***************************************************************************)
(* Rows and guards are explored one after the other: part, fixed at the      *)
(* start, says whether the tables or the measures of the Super Admin move.   *)
(***************************************************************************)
EXTENDS Tenancy, TLC

VARIABLE part

MCInit == TenancyInit /\ part \in {"rows", "guards"} /\ (part = "guards" => looksUp)
MCNext ==
    /\ TenancyNext /\ UNCHANGED part
    /\ part = "rows" => UNCHANGED service /\ needs' = [r \in TenantRequests |-> NoModule]
    /\ part = "guards" => UNCHANGED tables
MCSpec == MCInit /\ [][MCNext]_<<tvars, part>>

TenancySymmetry ==
    Permutations(Orgs) \union Permutations(Rows) \union Permutations(ModuleNames)
        \union Permutations(TenantRequests)
=============================================================================
