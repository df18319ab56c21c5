---------------------------- MODULE Tenancy_proof ----------------------------
(***************************************************************************)
(* The isolation of organizations and the guard's hold, for any number of    *)
(* organizations, rows, requests and jobs.                                  *)
(***************************************************************************)
EXTENDS Tenancy, TLAPS

\* What stood against a request when it began still stands while it is before the guard.
BarredStands == \A r \in TenantRequests :
    tstep[r] \in {"rbac", "status"} => barred[r] \subseteq Against(tctx[r], needs[r])

\* Nothing has been read for a request before it reaches its handler.
NothingYet == \A r \in TenantRequests :
    tstep[r] \in {"idle", "rbac", "status"} => fetched[r] = {} /\ known[r] = {}

\* A row refers to rows of its own organization.
RefsWithin == \A x \in Rows : \A y \in refs[x] : owner[y] = owner[x]

\* What a request of an organization has looked up is that organization's, gone or not.
KnownOwn == \A r \in TenantRequests :
    \A y \in known[r] : owner[y] \in Orgs /\ tctx[r] \in {owner[y], SuperAdmin}

WrittenOwn == \A x \in Rows : owner[x] # Nobody => writer[x] \in {owner[x], SuperAdmin}
ReadOwn == \A r \in TenantRequests : tctx[r] # SuperAdmin => fetched[r] \subseteq {tctx[r]}

\* Why it stays so: references and what a request knows do not leave the organization.
Apart == looksUp => WrittenOwn /\ ReadOwn /\ RefsWithin /\ KnownOwn

\* The inductive invariant.
TenancyInv == TenancyTypeOK /\ Apart /\ NothingYet /\ BarredStands /\ GuardHolds

USE TenancyAssumption

LEMMA TenancyInitInv == TenancyInit => TenancyInv
<1> SUFFICES ASSUME TenancyInit PROVE TenancyInv OBVIOUS
<1>1. TenancyTypeOK
  BY DEF TenancyInit, TenancyTypeOK, TenantSteps, Contexts, Reasons
<1>2. Apart /\ NothingYet /\ BarredStands /\ GuardHolds
  BY DEF TenancyInit, Apart, WrittenOwn, ReadOwn, RefsWithin, KnownOwn, NothingYet,
         BarredStands, GuardHolds
<1> QED BY <1>1, <1>2 DEF TenancyInv

\* A row is within reach of its organization's requests and of the Super Admin's only.
LEMMA ScopedRows ==
  ASSUME TenancyTypeOK, NEW r \in TenantRequests
  PROVE  /\ scoped(r) \subseteq Rows /\ scoped(r) \subseteq present
         /\ tctx[r] # SuperAdmin => \A x \in scoped(r) : owner[x] = tctx[r]
         /\ \A x \in scoped(r) : owner[x] \in Orgs /\ tctx[r] \in {owner[x], SuperAdmin}
  BY DEF TenancyTypeOK, scoped, Contexts

\* What is included belongs to an organization; as long as references stay within theirs, to the
\* one whose rows include it.
LEMMA IncludedRows ==
  ASSUME TenancyTypeOK, NEW r \in TenantRequests
  PROVE  /\ {owner[x] : x \in scoped(r) \union Included(scoped(r))} \subseteq Orgs
         /\ RefsWithin /\ tctx[r] # SuperAdmin
              => {owner[x] : x \in scoped(r) \union Included(scoped(r))} \subseteq {tctx[r]}
<1>1. \A y \in Included(scoped(r)) : \E x \in scoped(r) : y \in refs[x]
  BY DEF Included
<1>2. Included(scoped(r)) \subseteq present
  BY <1>1, ScopedRows DEF TenancyTypeOK
<1>3. \A y \in present : owner[y] \in Orgs
  BY DEF TenancyTypeOK
<1>4. RefsWithin /\ tctx[r] # SuperAdmin => \A y \in Included(scoped(r)) : owner[y] = tctx[r]
  BY <1>1, ScopedRows DEF RefsWithin
<1> QED BY <1>2, <1>3, <1>4, ScopedRows

\* A row that may be named in one of o is o's.
LEMMA StorableRows ==
  ASSUME TenancyTypeOK, Apart, looksUp, NEW r \in TenantRequests, NEW o \in Orgs,
         tctx[r] \in {o, SuperAdmin}
  PROVE  \A y \in Storable(r, o) : owner[y] = o
  BY DEF Storable, Apart, KnownOwn, TenancyTypeOK

\* A new row belongs to an organization, the context's unless that is the Super Admin's.
LEMMA Stamps ==
  ASSUME TenancyTypeOK, NEW r \in TenantRequests, NEW named \in Orgs, tctx[r] # Nobody
  PROVE  /\ stamp(r, named) \in Orgs
         /\ tctx[r] \in {stamp(r, named), SuperAdmin}
  BY DEF TenancyTypeOK, stamp, Contexts

\* A cascade stays within the organization of the rows it starts from: the rows it takes that
\* are not would have to refer to one that is.
LEMMA CascadeWithin ==
  ASSUME TenancyTypeOK, RefsWithin, NEW S \in SUBSET Rows, NEW D \in SUBSET present,
         NEW o, \A x \in S : owner[x] = o, Cascade(S, D)
  PROVE  \A x \in D : owner[x] = o
<1> DEFINE T == {x \in D : owner[x] # o}
<1> SUFFICES ASSUME T # {} PROVE FALSE OBVIOUS
<1>1. T \in SUBSET (D \ S)
  OBVIOUS
<1>2. PICK x \in T : refs[x] \intersect (D \ T) # {}
  BY <1>1 DEF Cascade
<1>3. PICK y \in D \ T : y \in refs[x]
  BY <1>2
<1>4. x \in Rows
  BY DEF TenancyTypeOK
<1>5. owner[y] = owner[x]
  BY <1>3, <1>4 DEF RefsWithin
<1> QED BY <1>2, <1>3, <1>5

\* The types of the tables, after a step.
TypeTables ==
    /\ present' \in SUBSET Rows /\ refs' \in [Rows -> SUBSET present']
    /\ owner' \in [Rows -> Orgs \union {Nobody}] /\ writer' \in [Rows -> Contexts]
    /\ \A x \in present' : owner'[x] # Nobody

\* An inserted row has its type and leaves the others theirs.
LEMMA InsertType ==
  ASSUME TenancyTypeOK, NEW r \in TenantRequests, NEW x \in Rows, NEW o \in Orgs,
         NEW R \in SUBSET present, Inserts(r, x, o, R)
  PROVE  TypeTables
<1>1. /\ present' = present \union {x} /\ owner' = [owner EXCEPT ![x] = o]
      /\ refs' = [refs EXCEPT ![x] = R] /\ writer' = [writer EXCEPT ![x] = tctx[r]]
  BY DEF Inserts
<1>2. refs' \in [Rows -> SUBSET present']
  BY <1>1 DEF TenancyTypeOK
<1> QED BY <1>1, <1>2 DEF TenancyTypeOK, TypeTables

LEMMA TenancyStepType ==
  ASSUME TenancyTypeOK, [TenancyNext]_tvars
  PROVE  TenancyTypeOK'
<1> USE DEF TenancyTypeOK, TenantSteps, Contexts, Reasons
<1>0. CASE UNCHANGED tvars
  BY <1>0 DEF tvars, tables, service, about, read
<1>1. ASSUME NEW r \in TenantRequests, validate(r) PROVE TenancyTypeOK'
  <2>1. PICK ctx \in Contexts, mutating \in BOOLEAN, module \in ModuleNames \union {NoModule} :
            /\ Enters(r, "rbac", ctx, mutating, module)
            /\ barred' = [barred EXCEPT ![r] = Against(ctx, module)]
    BY <1>1 DEF validate
  <2>2. Against(ctx, module) \in SUBSET Reasons
    BY DEF Against
  <2> QED BY <2>1, <2>2 DEF Enters, tables, service, read
<1>2. ASSUME NEW r \in TenantRequests, RbacGuard(r) PROVE TenancyTypeOK'
  BY <1>2 DEF RbacGuard, Leaves, tables, service, about, read
<1>3. ASSUME NEW r \in TenantRequests, TenantStatusGuard(r) PROVE TenancyTypeOK'
  BY <1>3 DEF TenantStatusGuard, Leaves, tables, service, about, read
<1>4. ASSUME NEW r \in TenantRequests, TenantContextRun(r) PROVE TenancyTypeOK'
  BY <1>4 DEF TenantContextRun, Enters, tables, service, read
<1>5. ASSUME NEW r \in TenantRequests, findRows(r) PROVE TenancyTypeOK'
  <2> DEFINE F == {owner[x] : x \in scoped(r) \union Included(scoped(r))}
  <2>1. F \subseteq Orgs
    BY IncludedRows
  <2>2. scoped(r) \subseteq Rows
    BY ScopedRows
  <2>3. /\ known' = [known EXCEPT ![r] = @ \union scoped(r)]
        /\ fetched' = [fetched EXCEPT ![r] = @ \union F]
        /\ UNCHANGED <<tables, looksUp, service, tstep, about, barred>>
    BY <1>5 DEF findRows, Stays
  <2> HIDE DEF F
  <2> QED BY <2>1, <2>2, <2>3 DEF tables, service, about
<1>6. ASSUME NEW r \in TenantRequests, updateMany(r) PROVE TenancyTypeOK'
  BY <1>6 DEF updateMany, Stays, service, about, read
<1>7. ASSUME NEW r \in TenantRequests, deleteMany(r) PROVE TenancyTypeOK'
  <2>1. PICK D \in SUBSET present :
            /\ present' = present \ D
            /\ refs' = [x \in Rows |-> IF x \in D THEN {} ELSE refs[x] \ D]
            /\ writer' = [x \in Rows |->
                    IF x \in D \/ refs[x] \intersect D # {} THEN tctx[r] ELSE writer[x]]
            /\ UNCHANGED <<owner, read>> /\ Stays
    BY <1>7 DEF deleteMany
  <2>2. refs' \in [Rows -> SUBSET present']
    BY <2>1
  <2>3. writer' \in [Rows -> Contexts]
    BY <2>1
  <2> QED BY <2>1, <2>2, <2>3 DEF Stays, service, about, read
<1>8. ASSUME NEW r \in TenantRequests, createRow(r) \/ upsertRow(r) PROVE TenancyTypeOK'
  <2>1. UNCHANGED read /\ Stays /\ tctx[r] # Nobody
    BY <1>8 DEF createRow, upsertRow, InHandler
  <2>2. CASE \E x \in scoped(r) :
            writer' = [writer EXCEPT ![x] = tctx[r]] /\ UNCHANGED <<present, owner, refs>>
    BY <2>1, <2>2, ScopedRows DEF Stays, service, about, read
  <2>3. CASE \E x \in Rows, named \in Orgs, R \in SUBSET present :
                Inserts(r, x, stamp(r, named), R)
    <3>1. PICK x \in Rows, named \in Orgs, R \in SUBSET present :
                Inserts(r, x, stamp(r, named), R)
      BY <2>3
    <3>2. stamp(r, named) \in Orgs
      BY <2>1, Stamps
    <3>3. TypeTables
      BY <3>1, <3>2, InsertType DEF TenancyTypeOK
    <3> QED BY <2>1, <3>3 DEF Stays, service, about, read, TypeTables
  <2> QED BY <1>8, <2>2, <2>3 DEF createRow, upsertRow
<1>10. ASSUME NEW r \in TenantRequests, Throws(r) PROVE TenancyTypeOK'
  BY <1>10 DEF Throws, Leaves, tables, service
<1>11. ASSUME NEW r \in TenantRequests, Reply(r) PROVE TenancyTypeOK'
  <2>1. Leaves(r) /\ UNCHANGED <<looksUp, service>>
    BY <1>11 DEF Reply
  <2>2. CASE UNCHANGED tables
    BY <2>1, <2>2 DEF Leaves, tables, service
  <2>3. CASE tctx[r] \in Orgs /\ \E x \in Rows : Inserts(r, x, tctx[r], {})
    <3>1. TypeTables
      BY <2>3, InsertType DEF TenancyTypeOK
    <3> QED BY <2>1, <3>1 DEF Leaves, service, TypeTables
  <2> QED BY <1>11, <2>2, <2>3 DEF Reply
<1>12. CASE setStatus
  BY <1>12 DEF setStatus, Lift, tables, about, read
<1>13. CASE setServiceEnabled
  BY <1>13 DEF setServiceEnabled, Lift, tables, about, read
<1>14. CASE switchModule
  BY <1>14 DEF switchModule, Lift, tables, about, read
<1> QED
  BY <1>0, <1>1, <1>2, <1>3, <1>4, <1>5, <1>6, <1>7, <1>8, <1>10, <1>11, <1>12, <1>13,
     <1>14 DEF TenancyNext

\* A row that is inserted keeps the rules, if it names rows of its organization only.
LEMMA InsertKeeps ==
  ASSUME TenancyTypeOK, Apart, NEW r \in TenantRequests, NEW x \in Rows, NEW o \in Orgs,
         NEW R \in SUBSET present, tctx[r] \in {o, SuperAdmin}, Inserts(r, x, o, R),
         looksUp => \A y \in R : owner[y] = o, UNCHANGED looksUp
  PROVE  looksUp' => WrittenOwn' /\ RefsWithin'
                       /\ \A y \in Rows : owner[y] \in Orgs => owner'[y] = owner[y]
<1> SUFFICES ASSUME looksUp
             PROVE  WrittenOwn' /\ RefsWithin'
                       /\ \A y \in Rows : owner[y] \in Orgs => owner'[y] = owner[y]
  OBVIOUS
<1>0. WrittenOwn /\ RefsWithin /\ owner[x] = Nobody
  BY DEF Apart, Inserts
<1>1. /\ owner'[x] = o /\ refs'[x] = R /\ writer'[x] = tctx[r]
      /\ \A y \in Rows \ {x} : /\ owner'[y] = owner[y] /\ refs'[y] = refs[y]
                              /\ writer'[y] = writer[y]
  BY DEF Inserts, TenancyTypeOK
<1>2. WrittenOwn'
  BY <1>0, <1>1 DEF WrittenOwn
<1>3. x \notin present /\ present \subseteq Rows
  BY <1>0 DEF TenancyTypeOK
<1>4. \A y \in Rows : refs[y] \subseteq present
  BY DEF TenancyTypeOK
<1>5. RefsWithin'
  BY <1>0, <1>1, <1>3, <1>4 DEF RefsWithin
<1> QED BY <1>0, <1>1, <1>2, <1>5

\* Nothing crosses from one organization to another.
LEMMA TenancyStepRows ==
  ASSUME TenancyTypeOK, Apart, NothingYet, [TenancyNext]_tvars
  PROVE  Apart' /\ NothingYet'
<1> DEFINE Goal == Apart' /\ NothingYet'
<1> SUFFICES Goal OBVIOUS
<1> USE DEF NothingYet
<1>0. CASE UNCHANGED tvars
  BY <1>0 DEF tvars, tables, service, about, read, Apart, WrittenOwn, ReadOwn, RefsWithin,
              KnownOwn
<1>1. ASSUME NEW r \in TenantRequests, validate(r) \/ TenantContextRun(r) PROVE Goal
  BY <1>1 DEF validate, TenantContextRun, Enters, tables, service, read, TenancyTypeOK, Apart,
              WrittenOwn, ReadOwn, RefsWithin, KnownOwn
<1>2. ASSUME NEW r \in TenantRequests, RbacGuard(r) \/ TenantStatusGuard(r) \/ Throws(r)
      PROVE Goal
  BY <1>2 DEF RbacGuard, TenantStatusGuard, Throws, Leaves, tables, service, about, read,
              TenancyTypeOK, Apart, WrittenOwn, ReadOwn, RefsWithin, KnownOwn
<1>3. ASSUME NEW r \in TenantRequests, findRows(r) PROVE Goal
  <2> DEFINE F == {owner[x] : x \in scoped(r) \union Included(scoped(r))}
  <2>1. RefsWithin /\ tctx[r] # SuperAdmin => F \subseteq {tctx[r]}
    BY IncludedRows
  <2>2. \A y \in scoped(r) : owner[y] \in Orgs /\ tctx[r] \in {owner[y], SuperAdmin}
    BY ScopedRows
  <2>3. /\ known' = [known EXCEPT ![r] = @ \union scoped(r)]
        /\ fetched' = [fetched EXCEPT ![r] = @ \union F]
        /\ UNCHANGED <<looksUp, tstep, tctx, owner, refs, writer>>
        /\ tstep[r] \in {"handler", "job"}
    BY <1>3 DEF findRows, InHandler, Stays, tables, about
  <2> HIDE DEF F
  <2>4. NothingYet'
    BY <2>3 DEF TenancyTypeOK
  <2>5. looksUp => WrittenOwn' /\ RefsWithin'
    BY <2>3 DEF Apart, WrittenOwn, RefsWithin
  <2>6. looksUp => ReadOwn'
    BY <2>1, <2>3 DEF TenancyTypeOK, Apart, ReadOwn
  <2>7. looksUp => KnownOwn'
    BY <2>2, <2>3 DEF TenancyTypeOK, Apart, KnownOwn
  <2> QED BY <2>3, <2>4, <2>5, <2>6, <2>7 DEF Apart
<1>4. ASSUME NEW r \in TenantRequests, updateMany(r) PROVE Goal
  <2>1. PICK S \in SUBSET scoped(r), R \in SUBSET present :
            /\ \A x \in S : R \subseteq Storable(r, owner[x]) \ {x}
            /\ refs' \in {refs, [x \in Rows |-> IF x \in S THEN R ELSE refs[x]]}
            /\ writer' = [x \in Rows |-> IF x \in S THEN tctx[r] ELSE writer[x]]
            /\ UNCHANGED <<present, owner, read>> /\ Stays
    BY <1>4 DEF updateMany
  <2>2. \A x \in S : x \in Rows /\ owner[x] \in Orgs /\ tctx[r] \in {owner[x], SuperAdmin}
    BY <2>1, ScopedRows
  <2>3. looksUp => \A x \in S : \A y \in R : owner[y] = owner[x]
    BY <2>1, <2>2, StorableRows
  <2>4. NothingYet' /\ (looksUp => ReadOwn' /\ KnownOwn')
    BY <2>1 DEF Stays, about, read, Apart, ReadOwn, KnownOwn
  <2>5. looksUp => WrittenOwn'
    BY <2>1, <2>2 DEF Apart, WrittenOwn
  <2>6. looksUp => RefsWithin'
    BY <2>1, <2>3 DEF Apart, RefsWithin
  <2> QED BY <2>1, <2>4, <2>5, <2>6 DEF Stays, Apart
<1>5. ASSUME NEW r \in TenantRequests, deleteMany(r) PROVE Goal
  <2>1. PICK S \in SUBSET scoped(r), D \in SUBSET present :
            /\ Cascade(S, D)
            /\ refs' = [x \in Rows |-> IF x \in D THEN {} ELSE refs[x] \ D]
            /\ writer' = [x \in Rows |->
                    IF x \in D \/ refs[x] \intersect D # {} THEN tctx[r] ELSE writer[x]]
            /\ UNCHANGED <<owner, read>> /\ Stays /\ InHandler(r)
    BY <1>5 DEF deleteMany
  <2>2. NothingYet' /\ (looksUp => ReadOwn' /\ KnownOwn')
    BY <2>1 DEF Stays, about, read, Apart, ReadOwn, KnownOwn
  <2>3. looksUp => RefsWithin'
    BY <2>1 DEF Apart, RefsWithin
  <2>4. looksUp /\ tctx[r] # SuperAdmin => \A x \in D : owner[x] = tctx[r]
    BY <2>1, ScopedRows, CascadeWithin DEF Apart
  <2>5. looksUp => WrittenOwn'
    <3> SUFFICES ASSUME looksUp, NEW x \in Rows, owner[x] # Nobody
                 PROVE  writer'[x] \in {owner[x], SuperAdmin}
      BY <2>1 DEF WrittenOwn
    <3>1. CASE x \in D \/ refs[x] \intersect D # {}
      <4>1. writer'[x] = tctx[r]
        BY <2>1, <3>1
      <4>2. tctx[r] # SuperAdmin => owner[x] = tctx[r]
        BY <2>4, <3>1 DEF Apart, RefsWithin
      <4> QED BY <4>1, <4>2
    <3>2. CASE ~(x \in D \/ refs[x] \intersect D # {})
      BY <2>1, <3>2 DEF Apart, WrittenOwn
    <3> QED BY <3>1, <3>2
  <2> QED BY <2>1, <2>2, <2>3, <2>5 DEF Stays, Apart
<1>6. ASSUME NEW r \in TenantRequests, createRow(r) \/ upsertRow(r) PROVE Goal
  <2>1. UNCHANGED read /\ Stays /\ tctx[r] # Nobody
    BY <1>6 DEF createRow, upsertRow, InHandler
  <2>2. NothingYet' /\ (looksUp => ReadOwn')
    BY <2>1 DEF Stays, about, read, Apart, ReadOwn
  <2>3. CASE \E x \in scoped(r) :
            writer' = [writer EXCEPT ![x] = tctx[r]] /\ UNCHANGED <<present, owner, refs>>
    BY <2>1, <2>2, <2>3, ScopedRows
       DEF Stays, about, read, Apart, WrittenOwn, RefsWithin, KnownOwn, TenancyTypeOK
  <2>4. CASE \E x \in Rows, named \in Orgs, R \in SUBSET present :
            R \subseteq Storable(r, stamp(r, named)) /\ Inserts(r, x, stamp(r, named), R)
    <3>1. PICK x \in Rows, named \in Orgs, R \in SUBSET present :
            R \subseteq Storable(r, stamp(r, named)) /\ Inserts(r, x, stamp(r, named), R)
      BY <2>4
    <3>2. stamp(r, named) \in Orgs /\ tctx[r] \in {stamp(r, named), SuperAdmin}
      BY <2>1, Stamps
    <3>3. looksUp => \A y \in R : owner[y] = stamp(r, named)
      BY <3>1, <3>2, StorableRows
    <3>4. looksUp => WrittenOwn' /\ RefsWithin'
                        /\ \A y \in Rows : owner[y] \in Orgs => owner'[y] = owner[y]
      BY <2>1, <3>1, <3>2, <3>3, InsertKeeps DEF Stays
    <3>5. looksUp => KnownOwn'
      BY <2>1, <3>4 DEF Stays, about, read, Apart, KnownOwn, TenancyTypeOK
    <3> QED BY <2>1, <2>2, <3>4, <3>5 DEF Stays, Apart
  <2> QED BY <1>6, <2>3, <2>4 DEF createRow, upsertRow
<1>7. ASSUME NEW r \in TenantRequests, Reply(r) PROVE Goal
  <2>1. Leaves(r) /\ UNCHANGED <<looksUp, service>>
    BY <1>7 DEF Reply
  <2>2. NothingYet' /\ (looksUp => ReadOwn')
    BY <2>1 DEF Leaves, Apart, ReadOwn, TenancyTypeOK
  <2>3. CASE UNCHANGED tables
    BY <2>1, <2>2, <2>3
       DEF Leaves, tables, Apart, WrittenOwn, ReadOwn, RefsWithin, KnownOwn, TenancyTypeOK
  <2>4. CASE tctx[r] \in Orgs /\ \E x \in Rows : Inserts(r, x, tctx[r], {})
    <3>1. PICK x \in Rows : Inserts(r, x, tctx[r], {})
      BY <2>4
    <3>2. looksUp => WrittenOwn' /\ RefsWithin'
                        /\ \A y \in Rows : owner[y] \in Orgs => owner'[y] = owner[y]
      BY <2>1, <2>4, <3>1, InsertKeeps
    <3>3. looksUp => KnownOwn'
      BY <2>1, <3>2 DEF Leaves, Apart, KnownOwn, TenancyTypeOK
    <3> QED BY <2>1, <2>2, <3>2, <3>3 DEF Apart
  <2> QED BY <1>7, <2>3, <2>4 DEF Reply
<1>8. CASE setStatus \/ setServiceEnabled \/ switchModule
  <2>1. UNCHANGED <<looksUp, tables, tstep, about, read>>
    BY <1>8 DEF setStatus, setServiceEnabled, switchModule
  <2> QED BY <2>1 DEF tables, about, read, Apart, WrittenOwn, ReadOwn, RefsWithin, KnownOwn
<1> QED
  BY <1>0, <1>1, <1>2, <1>3, <1>4, <1>5, <1>6, <1>7, <1>8 DEF TenancyNext

LEMMA TenancyStepGuard ==
  ASSUME TenancyTypeOK, BarredStands, GuardHolds, [TenancyNext]_tvars
  PROVE  BarredStands' /\ GuardHolds'
<1> USE DEF BarredStands, GuardHolds
<1>0. CASE UNCHANGED tvars
  BY <1>0 DEF tvars, tables, service, about, Against
<1>1. ASSUME NEW r \in TenantRequests, validate(r) PROVE BarredStands' /\ GuardHolds'
  <2>1. PICK ctx \in Contexts, mutating \in BOOLEAN, module \in ModuleNames \union {NoModule} :
            /\ Enters(r, "rbac", ctx, mutating, module)
            /\ barred' = [barred EXCEPT ![r] = Against(ctx, module)]
    BY <1>1 DEF validate
  <2>2. \A c, k : Against(c, k)' = Against(c, k)
    BY <2>1 DEF Enters, service, Against
  <2>3. tctx'[r] = ctx /\ needs'[r] = module /\ tstep'[r] = "rbac"
            /\ barred'[r] = Against(ctx, module)
    BY <2>1 DEF Enters, TenancyTypeOK
  <2>4. \A q \in TenantRequests \ {r} : /\ tctx'[q] = tctx[q] /\ needs'[q] = needs[q]
                                       /\ tstep'[q] = tstep[q] /\ barred'[q] = barred[q]
                                       /\ mutates'[q] = mutates[q]
    BY <2>1 DEF Enters, TenancyTypeOK
  <2>5. BarredStands'
    BY <2>2, <2>3, <2>4
  <2> QED BY <2>3, <2>4, <2>5
<1>8. ASSUME NEW r \in TenantRequests, TenantContextRun(r) PROVE BarredStands' /\ GuardHolds'
  BY <1>8 DEF TenantContextRun, Enters, service, Against, TenancyTypeOK
<1>2. ASSUME NEW r \in TenantRequests, RbacGuard(r) \/ Throws(r) \/ Reply(r)
      PROVE BarredStands' /\ GuardHolds'
  BY <1>2 DEF RbacGuard, Throws, Reply, Leaves, service, about, Against, TenancyTypeOK
<1>3. ASSUME NEW r \in TenantRequests, TenantStatusGuard(r)
      PROVE BarredStands' /\ GuardHolds'
  <2>1. CASE Refused(Against(tctx[r], needs[r]), mutates[r])
    BY <1>3, <2>1 DEF TenantStatusGuard, Leaves, service, Against, TenancyTypeOK
  <2>2. CASE ~Refused(Against(tctx[r], needs[r]), mutates[r])
    <3>1. "suspended" \notin barred[r] /\ (mutates[r] => barred[r] = {})
      BY <1>3, <2>2 DEF TenantStatusGuard, Refused
    <3> QED BY <1>3, <2>2, <3>1 DEF TenantStatusGuard, service, about, Against, TenancyTypeOK
  <2> QED BY <2>1, <2>2
<1>4. ASSUME NEW r \in TenantRequests,
             findRows(r) \/ updateMany(r) \/ deleteMany(r) \/ createRow(r) \/ upsertRow(r)
      PROVE BarredStands' /\ GuardHolds'
  BY <1>4 DEF findRows, updateMany, deleteMany, createRow, upsertRow, InHandler, Stays,
              service, about, Against
<1>5. CASE setStatus
  BY <1>5 DEF setStatus, Lift, about, Against, TenancyTypeOK
<1>6. CASE setServiceEnabled
  BY <1>6 DEF setServiceEnabled, Lift, about, Against, TenancyTypeOK
<1>7. CASE switchModule
  BY <1>7 DEF switchModule, Lift, about, Against, TenancyTypeOK
<1> QED
  BY <1>0, <1>1, <1>2, <1>3, <1>4, <1>5, <1>6, <1>7, <1>8 DEF TenancyNext

\* The invariant holds of every reachable state.
LEMMA TenancyInvariant == TenancySpec => []TenancyInv
<1>1. TenancyInv /\ [TenancyNext]_tvars => TenancyInv'
  BY TenancyStepType, TenancyStepRows, TenancyStepGuard DEF TenancyInv
<1> QED BY TenancyInitInv, <1>1, PTL DEF TenancySpec

\* Rows, requests and organizations keep their shape (schema.prisma, the request's context).
THEOREM TenancyTypeCorrect == TenancySpec => []TenancyTypeOK
  BY TenancyInvariant, PTL DEF TenancyInv

\* tenant-scope.util.ts with the look-ups of the services: what a request stores, changes, deletes
\* and reads, cascades and includes included, stays within its organization.
THEOREM IsolationCorrect == TenancySpec => []Isolation
<1>1. TenancyInv => Isolation
  BY DEF TenancyInv, Apart, WrittenOwn, ReadOwn, Isolation
<1> QED BY TenancyInvariant, <1>1, PTL

\* tenant-status.guard.ts: what stood against a request when it began keeps it from a handler.
THEOREM GuardHoldsCorrect == TenancySpec => []GuardHolds
  BY TenancyInvariant, PTL DEF TenancyInv
=============================================================================
