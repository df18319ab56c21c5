------------------------------ MODULE UserAdmin ------------------------------
(***************************************************************************)
(* The users of one organization: UsersService runs one statement at a time, *)
(* for requests whose caller may be any user, since an access token outlives *)
(* what it says.  A user stands for its e-mail address, which is unique.     *)
(*                                                                          *)
(* apart is an environment assumption, fixed for a behaviour: these requests *)
(* do not overlap.  Nothing in the code enforces it.                         *)
(***************************************************************************)
EXTENDS Naturals, FiniteSets

CONSTANTS
    Users,          \* users the organization has, had or may have
    UserRequests,   \* requests that may be under way at a time
    NoUser,
    UserModes       \* the values of apart to explore

ASSUME UserAdminAssumption ==
    /\ IsFiniteSet(Users) /\ NoUser \notin Users /\ UserModes \subseteq BOOLEAN

TENANT_ASSIGNABLE_ROLE_NAMES == {"Admin", "Agent"}

VARIABLES
    apart,      \* the assumption above
    role,       \* the role of each user, or none while there is no such row
    active,     \* the users whose isActive is set
    ustep,      \* the step of each request
    whom,       \* the user it is about
    want,       \* the role it asks for, or the same
    enable      \* the isActive it asks for

asked == <<whom, want, enable>>
rows == <<role, active>>
uvars == <<apart, rows, ustep, asked>>

Exists(u) == role[u] # "none"
Admins == {u \in Users : role[u] = "Admin"}
ActiveAdmins == Admins \intersect active
WantedRoles == TENANT_ASSIGNABLE_ROLE_NAMES \union {"same"}

\* OrganizationsService.create makes the first user, an Admin.
UserInit ==
    /\ apart \in UserModes
    /\ \E u \in Users : role = [v \in Users |-> IF v = u THEN "Admin" ELSE "none"]
                     /\ active = {u}
    /\ ustep = [r \in UserRequests |-> "idle"] /\ whom = [r \in UserRequests |-> NoUser]
    /\ want = [r \in UserRequests |-> "same"] /\ enable = [r \in UserRequests |-> TRUE]

Asks(r, u, name, on) ==
    /\ whom' = [whom EXCEPT ![r] = u]
    /\ want' = [want EXCEPT ![r] = name]
    /\ enable' = [enable EXCEPT ![r] = on]
Ends(r) == ustep' = [ustep EXCEPT ![r] = "idle"] /\ Asks(r, NoUser, "same", TRUE)
GoesOn(r, step) == ustep' = [ustep EXCEPT ![r] = step] /\ UNCHANGED asked
Refuses(r) == Ends(r) /\ UNCHANGED rows

UserAsks(r, step, u, name, on) ==
    /\ ustep[r] = "idle" /\ (apart => \A q \in UserRequests : ustep[q] = "idle")
    /\ ustep' = [ustep EXCEPT ![r] = step]
    /\ Asks(r, u, name, on)
    /\ UNCHANGED <<apart, rows>>

-----------------------------------------------------------------------------
(* POST /users *)

createUser(r) == \E u \in Users, name \in TENANT_ASSIGNABLE_ROLE_NAMES :
    UserAsks(r, "newAdmin", u, name, TRUE)

\* Fault: only active Admins count.
assertSingleActiveAdmin(name, others) == name = "Admin" => ActiveAdmins \intersect others = {}

\* assertSingleAdminPerOrg: nothing is counted for another role.
assertSingleAdminPerOrg(name, others) == name = "Admin" => Admins \intersect others = {}

createWithRoleName(r) ==
    /\ ustep[r] = "newAdmin"
    /\ IF assertSingleAdminPerOrg(want[r], Users)
       THEN GoesOn(r, "email") /\ UNCHANGED rows ELSE Refuses(r)
    /\ UNCHANGED apart

findByEmail(r) ==
    /\ ustep[r] = "email"
    /\ IF Exists(whom[r]) THEN Refuses(r) ELSE GoesOn(r, "insert") /\ UNCHANGED rows
    /\ UNCHANGED apart

\* The unique key on the e-mail address refuses a second row.
insertUser(r) ==
    /\ ustep[r] = "insert"
    /\ IF Exists(whom[r])
       THEN Refuses(r)
       ELSE /\ role' = [role EXCEPT ![whom[r]] = want[r]]
            /\ active' = active \union {whom[r]}
            /\ Ends(r)
    /\ UNCHANGED apart

-----------------------------------------------------------------------------
(* PATCH /users/:id.  Nobody deactivates their own account. *)

updateUser(r) == \E caller, u \in Users, name \in WantedRoles, on \in BOOLEAN :
    (u = caller => on) /\ UserAsks(r, "found", u, name, on)

findOne(r) ==
    /\ ustep[r] = "found"
    /\ IF ~Exists(whom[r]) THEN Refuses(r)
       ELSE GoesOn(r, IF want[r] = "same" THEN "write" ELSE "otherAdmin") /\ UNCHANGED rows
    /\ UNCHANGED apart

\* Fault: a user is re-pointed to any of the two roles.
checkNoRole(r) ==
    /\ ustep[r] = "otherAdmin"
    /\ GoesOn(r, "write") /\ UNCHANGED <<apart, rows>>

checkRole(r) ==
    /\ ustep[r] = "otherAdmin"
    /\ IF assertSingleAdminPerOrg(want[r], Users \ {whom[r]})
       THEN GoesOn(r, "write") /\ UNCHANGED rows ELSE Refuses(r)
    /\ UNCHANGED apart

writeUser(r) ==
    /\ ustep[r] = "write"
    /\ LET u == whom[r]
       IN  IF ~Exists(u) THEN Refuses(r)
           ELSE /\ role' = [role EXCEPT ![u] =
                               IF want[r] = "same" THEN @ ELSE want[r]]
                /\ active' = IF enable[r] THEN active \union {u} ELSE active \ {u}
                /\ Ends(r)
    /\ UNCHANGED apart

-----------------------------------------------------------------------------
(* DELETE /users/:id.  Nobody deletes their own account. *)

removeUser(r) == \E caller, u \in Users :
    u # caller /\ UserAsks(r, "target", u, "same", TRUE)

findTarget(r) ==
    /\ ustep[r] = "target"
    /\ LET u == whom[r]
       IN  IF ~Exists(u) THEN Refuses(r)
           ELSE GoesOn(r, IF role[u] = "Admin" THEN "others" ELSE "delete") /\ UNCHANGED rows
    /\ UNCHANGED apart

\* Fault: the Admin to be deleted is counted too.
countAllAdmins(r) ==
    /\ ustep[r] = "others"
    /\ IF ActiveAdmins = {} THEN Refuses(r) ELSE GoesOn(r, "delete") /\ UNCHANGED rows
    /\ UNCHANGED apart

countOthers(r) ==
    /\ ustep[r] = "others"
    /\ IF ActiveAdmins \ {whom[r]} = {} THEN Refuses(r)
       ELSE GoesOn(r, "delete") /\ UNCHANGED rows
    /\ UNCHANGED apart

deleteUser(r) ==
    /\ ustep[r] = "delete"
    /\ role' = [role EXCEPT ![whom[r]] = "none"]
    /\ active' = active \ {whom[r]}
    /\ Ends(r)
    /\ UNCHANGED apart

UserNext == \E r \in UserRequests :
    \/ createUser(r) \/ createWithRoleName(r) \/ findByEmail(r) \/ insertUser(r)
    \/ updateUser(r) \/ findOne(r) \/ checkRole(r) \/ writeUser(r)
    \/ removeUser(r) \/ findTarget(r) \/ countOthers(r) \/ deleteUser(r)

UserSpec == UserInit /\ [][UserNext]_uvars
-----------------------------------------------------------------------------
(* Properties *)

UserSteps == {"idle", "newAdmin", "email", "insert", "found", "otherAdmin", "write",
              "target", "others", "delete"}

\* Rows and requests have the shape the code gives them, and an active user has a row.
UserTypeOK ==
    /\ apart \in BOOLEAN
    /\ role \in [Users -> TENANT_ASSIGNABLE_ROLE_NAMES \union {"none"}]
    /\ active \in SUBSET {u \in Users : Exists(u)}
    /\ ustep \in [UserRequests -> UserSteps]
    /\ whom \in [UserRequests -> Users \union {NoUser}]
    /\ want \in [UserRequests -> WantedRoles] /\ enable \in [UserRequests -> BOOLEAN]

\* "One Admin per Organization, by design" (users.service.ts): whatever users are created,
\* re-pointed and deleted, there are never two, while the requests do not overlap.
OneAdmin == apart => Cardinality(Admins) <= 1

\* "Cannot delete the last active admin account": a deletion leaves an organization that
\* had an active Admin with one, while the requests do not overlap.
LastAdminSurvivesDeletes ==
    [][apart /\ (\E u \in Users : role[u] # "none" /\ role'[u] = "none") =>
            (ActiveAdmins # {} => ActiveAdmins' # {})]_uvars
===============================================================================
