------------------------------- MODULE Tenancy -------------------------------
(***************************************************************************)
(* How a request reaches the rows of its organization: JwtAuthGuard,         *)
(* RbacGuard and TenantStatusGuard before the handler, TenantContext-        *)
(* Interceptor around it, and the query extension of PrismaService, which    *)
(* rewrites every statement on a tenant's rows.  The campaign runner, the    *)
(* inbound messages and the automations enter the same context without a     *)
(* guard.  Meanwhile the Super Admin suspends and disables organizations.    *)
(*                                                                          *)
(* A handler is any number of statements on the rows of the tenants' tables, *)
(* which refer to one another: a member of a list to a contact, a            *)
(* conversation to the user it is assigned to, a template to its media.      *)
(* The extension rewrites the where clause and the data of the statement     *)
(* itself; what the statement includes, and what a row refers to, is left    *)
(* as the service wrote it.                                                  *)
(***************************************************************************)
EXTENDS FiniteSets

CONSTANTS
    Orgs,           \* organizations
    Rows,           \* the ids of rows with an organizationId; none is given twice
    ModuleNames,    \* the modules routes may require
    NoModule,       \* what a route without @RequireModule requires
    TenantRequests, \* requests and jobs that may be under way at a time
    SuperAdmin,     \* the context of the Super Admin, and of a job outside any context
    Nobody          \* no organization: of a row, that it was never there

ASSUME TenancyAssumption ==
    /\ SuperAdmin \notin Orgs /\ Nobody \notin Orgs \union {SuperAdmin}
    /\ NoModule \notin ModuleNames

VARIABLES
    looksUp,    \* are the ids a request stores in a row ids it has looked up?
    present,    \* the rows there are
    owner,      \* organizationId of each row
    refs,       \* the rows its foreign keys name
    writer,     \* history: in whose context it was written, changed or deleted last
    suspended,  \* organizations whose status is SUSPENDED
    disabled,   \* organizations whose serviceEnabled is false
    off,        \* the modules switched off, as <<organization, module>>
    tstep,      \* the step of each request
    tctx,       \* its context: an organization, SuperAdmin or Nobody
    mutates,    \* is its method neither GET nor HEAD?
    needs,      \* the module its route requires
    known,      \* the rows it has looked up
    fetched,    \* history: whose rows it has read, included ones too
    barred      \* history: what has stood against it ever since it began

tables == <<present, owner, refs, writer>>
service == <<suspended, disabled, off>>
about == <<tctx, mutates, needs>>
read == <<known, fetched>>
tvars == <<looksUp, tables, service, tstep, about, read, barred>>

\* An access token of a user without an organization is the Super Admin's in practice; the
\* extension refuses any other.
Contexts == Orgs \union {SuperAdmin, Nobody}
Reasons == {"suspended", "disabled", "module"}

TenancyInit ==
    /\ looksUp \in BOOLEAN
    /\ present = {} /\ owner = [x \in Rows |-> Nobody]
    /\ refs = [x \in Rows |-> {}] /\ writer = [x \in Rows |-> Nobody]
    /\ suspended = {} /\ disabled = {} /\ off = {}
    /\ tstep = [r \in TenantRequests |-> "idle"] /\ tctx = [r \in TenantRequests |-> Nobody]
    /\ mutates = [r \in TenantRequests |-> FALSE]
    /\ needs = [r \in TenantRequests |-> NoModule]
    /\ known = [r \in TenantRequests |-> {}] /\ fetched = [r \in TenantRequests |-> {}]
    /\ barred = [r \in TenantRequests |-> {}]

Enters(r, step, ctx, mutating, module) ==
    /\ tstep[r] = "idle"
    /\ tstep' = [tstep EXCEPT ![r] = step] /\ tctx' = [tctx EXCEPT ![r] = ctx]
    /\ mutates' = [mutates EXCEPT ![r] = mutating] /\ needs' = [needs EXCEPT ![r] = module]
    /\ UNCHANGED <<looksUp, tables, service, read>>
Leaves(r) ==
    /\ tstep' = [tstep EXCEPT ![r] = "idle"] /\ tctx' = [tctx EXCEPT ![r] = Nobody]
    /\ mutates' = [mutates EXCEPT ![r] = FALSE] /\ needs' = [needs EXCEPT ![r] = NoModule]
    /\ known' = [known EXCEPT ![r] = {}] /\ fetched' = [fetched EXCEPT ![r] = {}]
    /\ barred' = [barred EXCEPT ![r] = {}]

-----------------------------------------------------------------------------
(* Guards *)

\* What TenantStatusGuard has against a request, in the database of the moment.
Against(ctx, module) ==
    (IF ctx \in suspended THEN {"suspended"} ELSE {})
        \union (IF ctx \in disabled THEN {"disabled"} ELSE {})
        \union (IF <<ctx, module>> \in off THEN {"module"} ELSE {})

\* The token says who the caller is; it may be older than any change to the organization.
validate(r) == \E ctx \in Contexts, mutating \in BOOLEAN, module \in ModuleNames \union {NoModule} :
    /\ Enters(r, "rbac", ctx, mutating, module)
    /\ barred' = [barred EXCEPT ![r] = Against(ctx, module)]

\* Roles and permissions are those of the token.
RbacGuard(r) ==
    /\ tstep[r] = "rbac"
    /\ \/ Leaves(r)
       \/ tstep' = [tstep EXCEPT ![r] = "status"] /\ UNCHANGED <<about, read, barred>>
    /\ UNCHANGED <<looksUp, tables, service>>

\* Fault: a read is let through before the status is looked at.
readsFirst(reasons, mutating) == mutating /\ reasons # {}

Refused(reasons, mutating) == "suspended" \in reasons \/ (mutating /\ reasons # {})

TenantStatusGuard(r) ==
    /\ tstep[r] = "status"
    /\ IF Refused(Against(tctx[r], needs[r]), mutates[r]) THEN Leaves(r)
       ELSE tstep' = [tstep EXCEPT ![r] = "handler"] /\ UNCHANGED <<about, read, barred>>
    /\ UNCHANGED <<looksUp, tables, service>>

\* tenantContext.run of a job: no guard stands before it.
TenantContextRun(r) == \E ctx \in Orgs \union {SuperAdmin} :
    Enters(r, "job", ctx, TRUE, NoModule) /\ UNCHANGED barred

-----------------------------------------------------------------------------
(* Statements of a handler or a job, as the query extension rewrites them *)

InHandler(r) == tstep[r] \in {"handler", "job"} /\ tctx[r] # Nobody
Stays == UNCHANGED <<looksUp, service, tstep, about, barred>>

\* Fault: the extension leaves the where clause as it is.
everyRow(r) == present

\* The rows the where clause of a statement can match.
scoped(r) == {x \in present : tctx[r] \in {owner[x], SuperAdmin}}

\* What an include adds to a result: whatever the rows refer to, unscoped.
Included(S) == UNION {refs[x] : x \in S}

\* The rows r may name in the foreign keys of a row of o: any there is, for the database asks
\* no more; those it has looked up where the service does that (createConversation, create and
\* addRecipients of campaigns, sendMessage's media), as addMembers, assign and a template's
\* media do not.  What runs for the platform as a whole names rows of the organization it is at.
Storable(r, o) ==
    {y \in present : (looksUp => y \in known[r]) /\ (tctx[r] = SuperAdmin => owner[y] = o)}

\* No context but the Super Admin's may do without an organization; a handler may throw anyway.
Throws(r) ==
    /\ tstep[r] \in {"handler", "job"} /\ Leaves(r) /\ UNCHANGED <<looksUp, tables, service>>

\* The largest result a where clause and its includes can have.
findRows(r) ==
    /\ InHandler(r) /\ Stays
    /\ known' = [known EXCEPT ![r] = @ \union scoped(r)]
    /\ fetched' = [fetched EXCEPT ![r] =
            @ \union {owner[x] : x \in scoped(r) \union Included(scoped(r))}]
    /\ UNCHANGED tables

\* The data pass as they are.  No service puts an organizationId into those of an update, and
\* the validation of requests lets none through; ids of other rows they may hold.
updateMany(r) == \E S \in SUBSET scoped(r), R \in SUBSET present :
    /\ InHandler(r) /\ mutates[r] /\ S # {} /\ Stays
    /\ \A x \in S : R \subseteq Storable(r, owner[x]) \ {x}
    /\ refs' \in {refs, [x \in Rows |-> IF x \in S THEN R ELSE refs[x]]}
    /\ writer' = [x \in Rows |-> IF x \in S THEN tctx[r] ELSE writer[x]]
    /\ UNCHANGED <<present, owner, read>>

\* A delete takes with it, step by step, rows that refer to what is deleted (onDelete: Cascade)
\* or clears their foreign keys, whosever they are.
Cascade(S, D) ==
    /\ S \subseteq D /\ D \subseteq present
    /\ \A T \in SUBSET (D \ S) : T # {} => \E x \in T : refs[x] \intersect (D \ T) # {}

deleteMany(r) == \E S \in SUBSET scoped(r), D \in SUBSET present :
    /\ InHandler(r) /\ mutates[r] /\ S # {} /\ Stays
    /\ Cascade(S, D)
    /\ present' = present \ D
    /\ refs' = [x \in Rows |-> IF x \in D THEN {} ELSE refs[x] \ D]
    /\ writer' = [x \in Rows |->
            IF x \in D \/ refs[x] \intersect D # {} THEN tctx[r] ELSE writer[x]]
    /\ UNCHANGED <<owner, read>>

\* The organization a new row gets: the context's, or the one the Super Admin names.
stamp(r, named) == IF tctx[r] = SuperAdmin THEN named ELSE tctx[r]

Inserts(r, x, o, R) ==
    /\ owner[x] = Nobody
    /\ present' = present \union {x} /\ owner' = [owner EXCEPT ![x] = o]
    /\ refs' = [refs EXCEPT ![x] = R] /\ writer' = [writer EXCEPT ![x] = tctx[r]]

createRow(r) == \E x \in Rows, named \in Orgs, R \in SUBSET present :
    /\ InHandler(r) /\ mutates[r] /\ Stays
    /\ R \subseteq Storable(r, stamp(r, named))
    /\ Inserts(r, x, stamp(r, named), R)
    /\ UNCHANGED read

\* An upsert finds its row among the scoped ones and changes columns of its own, or makes one,
\* which the unique key refuses if the row exists and is another's.
upsertRow(r) == \E x \in Rows :
    /\ InHandler(r) /\ mutates[r] /\ Stays
    /\ \/ x \in scoped(r)
          /\ writer' = [writer EXCEPT ![x] = tctx[r]] /\ UNCHANGED <<present, owner, refs>>
       \/ \E named \in Orgs, R \in SUBSET present :
            R \subseteq Storable(r, stamp(r, named)) /\ Inserts(r, x, stamp(r, named), R)
    /\ UNCHANGED read

\* The reply is sent; the audit entry of a route that asks for one is a row too, and a
\* failure to write it is swallowed.
Reply(r) ==
    /\ tstep[r] \in {"handler", "job"}
    /\ Leaves(r)
    /\ \/ UNCHANGED tables
       \/ /\ mutates[r] /\ tstep[r] = "handler" /\ tctx[r] \in Orgs
          /\ \E x \in Rows : Inserts(r, x, tctx[r], {})
    /\ UNCHANGED <<looksUp, service>>

-----------------------------------------------------------------------------
(* OrganizationsService: setStatus, setServiceEnabled, updateModules.  Lifting a measure   *)
(* takes it from what stands against the requests under way.                              *)

Lift(o, reason, modules) ==
    barred' = [r \in TenantRequests |->
        IF tctx[r] = o /\ (reason = "module" => needs[r] \in modules)
        THEN barred[r] \ {reason} ELSE barred[r]]

setStatus == \E o \in Orgs :
    /\ \/ suspended' = suspended \union {o} /\ UNCHANGED barred
       \/ suspended' = suspended \ {o} /\ Lift(o, "suspended", {})
    /\ UNCHANGED <<looksUp, tables, disabled, off, tstep, about, read>>

setServiceEnabled == \E o \in Orgs :
    /\ \/ disabled' = disabled \union {o} /\ UNCHANGED barred
       \/ disabled' = disabled \ {o} /\ Lift(o, "disabled", {})
    /\ UNCHANGED <<looksUp, tables, suspended, off, tstep, about, read>>

switchModule == \E o \in Orgs, k \in ModuleNames :
    /\ \/ off' = off \union {<<o, k>>} /\ UNCHANGED barred
       \/ off' = off \ {<<o, k>>} /\ Lift(o, "module", {k})
    /\ UNCHANGED <<looksUp, tables, suspended, disabled, tstep, about, read>>

TenancyNext ==
    \/ \E r \in TenantRequests :
        \/ validate(r) \/ RbacGuard(r) \/ TenantStatusGuard(r) \/ TenantContextRun(r)
        \/ findRows(r) \/ updateMany(r) \/ deleteMany(r) \/ createRow(r) \/ upsertRow(r)
        \/ Throws(r) \/ Reply(r)
    \/ setStatus \/ setServiceEnabled \/ switchModule

TenancySpec == TenancyInit /\ [][TenancyNext]_tvars
-----------------------------------------------------------------------------
(* Properties *)

TenantSteps == {"idle", "rbac", "status", "handler", "job"}

\* Rows and requests have the shape the code gives them.
TenancyTypeOK ==
    /\ looksUp \in BOOLEAN /\ present \in SUBSET Rows /\ refs \in [Rows -> SUBSET present]
    /\ owner \in [Rows -> Orgs \union {Nobody}] /\ writer \in [Rows -> Contexts]
    /\ \A x \in present : owner[x] # Nobody
    /\ suspended \in SUBSET Orgs /\ disabled \in SUBSET Orgs
    /\ off \in SUBSET (Orgs \X ModuleNames)
    /\ tstep \in [TenantRequests -> TenantSteps] /\ tctx \in [TenantRequests -> Contexts]
    /\ mutates \in [TenantRequests -> BOOLEAN]
    /\ needs \in [TenantRequests -> ModuleNames \union {NoModule}]
    /\ known \in [TenantRequests -> SUBSET Rows] /\ fetched \in [TenantRequests -> SUBSET Orgs]
    /\ barred \in [TenantRequests -> SUBSET Reasons]

\* As long as requests store only ids they have looked up: a row is written, changed and
\* deleted, cascades included, for the organization it belongs to or by the Super Admin, and what
\* a request of an organization reads, includes included, is that organization's; whatever
\* requests and jobs overlap, and although what was looked up may be gone when it is stored.
\* "A query/write for a tenant-scoped model can only touch rows belonging to organizationId"
\* (tenant-scope.util.ts).  createConversation looks up for that reason
\* (conversations.service.ts); addMembers and assign store the id they are given.
Isolation == looksUp =>
    /\ \A x \in Rows : owner[x] # Nobody => writer[x] \in {owner[x], SuperAdmin}
    /\ \A r \in TenantRequests : tctx[r] # SuperAdmin => fetched[r] \subseteq {tctx[r]}

\* A request that began after its organization was suspended gets nowhere until that is
\* lifted, and one that began after the service or its module was switched off does not reach
\* a handler that writes, although its token is older than either.  Requests that were past
\* the guard by then go on; jobs are not asked.
GuardHolds == \A r \in TenantRequests :
    tstep[r] = "handler" =>
        "suspended" \notin barred[r] /\ (mutates[r] => barred[r] = {})
=============================================================================
