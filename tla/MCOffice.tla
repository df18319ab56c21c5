------------------------------ MODULE MCOffice ------------------------------
(***************************************************************************)
(* Users, plans and contacts are administered by components that share no   *)
(* state, so they are explored one after the other and not in product:      *)
(* part, fixed at the start, names the one whose requests are under way;    *)
(* the others rest where they began.                                        *)
(***************************************************************************)
EXTENDS UserAdmin, PlanAdmin, ContactBook, TLC

CONSTANTS a1        \* the user the other parts begin with

VARIABLE part

MCPlanTerms == {<<1, 1, 0>>, <<2, 2, 1>>}
\* Plans are contacts are users, for the sake of symmetry only.
OfficeSymmetry == Permutations(Contacts) \union Permutations(BookRequests) \union Permutations(Phones)

OfficeInit ==
    /\ part \in {"users", "plans", "book"}
    /\ UserInit /\ PlanInit /\ BookInit
    /\ part # "users" => apart /\ role[a1] = "Admin"
    /\ part # "plans" => orderly
    /\ part # "book" => clear

\* Of two imports that overlap one has a single row.
FewRows == \A r, q \in BookRequests : r # q => total[r] + total[q] <= MaxRows + 1

OfficeNext ==
    \/ part = "users" /\ UserNext /\ UNCHANGED <<part, pvars, bvars>>
    \/ part = "plans" /\ PlanNext /\ UNCHANGED <<part, uvars, bvars>>
    \/ part = "book" /\ BookNext /\ FewRows' /\ UNCHANGED <<part, uvars, pvars>>

OfficeSpec == OfficeInit /\ [][OfficeNext]_<<part, uvars, pvars, bvars>>
=============================================================================
