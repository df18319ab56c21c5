SPECIFICATION MCSpec
CONSTANTS
 Orgs = {o1,o2}
 Rows = {x1,x2}
 ModuleNames = {k1}
 NoModule = NoModule
 TenantRequests = {r1,r2}
 SuperAdmin = SuperAdmin
 Nobody = Nobody
SYMMETRY TenancySymmetry
INVARIANTS Isolation GuardHolds
