--------------------------- MODULE GatewayProofs ---------------------------
(***************************************************************************)
(* Proofs about Gateway: its type invariant, the free allowance and the    *)
(* ceiling of an account, for any accounts, keys, plans and limits.        *)
(***************************************************************************)
EXTENDS Gateway, RateWindowsProofs

---------------------------------------------------------------------------
(* Type correctness. *)

LEMMA QuotaRowsTyped ==
    ASSUME NEW k \in Keys, NEW e \in Endpoints, NEW plan, now \in Nat
    PROVE  QuotaRows(k, e, plan) \subseteq QuotaBuckets \X Periods \X Nat
<1>1. \A period \in Periods : quotaPeriod(period) \in Nat
  BY WindowStartIsNat, NumbersAssumption DEF quotaPeriod, Periods, Day, Month
<1>2. OwnerOf[k] \in Users
  BY KeysAssumption
<1>3. Prefix(plan) \in {"free", "paid"}
  BY DEF Prefix
<1>4. \A period \in Periods : <<Prefix(plan), "key", k>> \in QuotaBuckets
  BY <1>3 DEF QuotaBuckets
<1>5. <<Prefix(plan), "tenant", OwnerOf[k]>> \in QuotaBuckets
  BY <1>2, <1>3 DEF QuotaBuckets
<1>6. <<Prefix(plan), "tenant-endpoint", OwnerOf[k], e>> \in QuotaBuckets
  BY <1>2, <1>3 DEF QuotaBuckets
<1>7. Month \in Periods
  BY DEF Periods
<1> QED
  BY <1>1, <1>4, <1>5, <1>6, <1>7 DEF QuotaRows, QuotaRow

---------------------------------------------------------------------------
(* Type correctness. *)

LEMMA InitTypeOK == Init => TypeOK
<1> SUFFICES ASSUME Init PROVE TypeOK
  OBVIOUS
<1>1. account \in [Users -> Account]
  BY DEF Init, Account
<1>2. windows \in [DOMAIN windows -> Nat] /\ quotas \in [DOMAIN quotas -> Nat]
      /\ DOMAIN quotas \subseteq QuotaBuckets \X Periods \X Nat
  BY DEF Init, EmptyTable
<1> QED
  BY <1>1, <1>2 DEF Init, TypeOK

LEMMA HitWindowsTyped ==
    ASSUME TypeOK, NEW limits, HitWindows(limits)
    PROVE  windows' \in [DOMAIN windows' -> Nat] /\ arrived' \in Nat
<1>1. IsTable(windows) /\ windows' = AddTo(windows, RowsOf(limits, now), 1)
  BY DEF TypeOK, HitWindows, IsTable
<1>2. IsTable(windows')
  BY <1>1, AddToIsTable
<1> QED
  BY <1>2 DEF TypeOK, HitWindows, IsTable

LEMMA NextTypeOK == TypeOK /\ [Next]_vars => TypeOK'
<1> SUFFICES ASSUME TypeOK, [Next]_vars PROVE TypeOK'
  OBVIOUS
<1> USE DEF history
<1>1. ASSUME NEW k \in AllKeys, NEW e \in Endpoints, Refuse(k, e) PROVE TypeOK'
  BY <1>1 DEF TypeOK, Refuse, vars
<1>2. ASSUME NEW k \in Keys, NEW e \in Endpoints, RateLimited(k, e) PROVE TypeOK'
  BY <1>2, HitWindowsTyped DEF TypeOK, RateLimited
<1>3. ASSUME NEW k \in Keys, NEW e \in Endpoints, QuotaExceeded(k, e) PROVE TypeOK'
  BY <1>3, HitWindowsTyped DEF TypeOK, QuotaExceeded
<1>4. ASSUME NEW k \in Keys, NEW e \in Endpoints, NEW d \in BOOLEAN, Admit(k, e, d)
      PROVE  TypeOK'
  <2> DEFINE u == OwnerOf[k]
             plan == activePlan(u)
  <2>1. u \in Users
    BY KeysAssumption
  <2>2. windows' \in [DOMAIN windows' -> Nat] /\ arrived' \in Nat
    BY <1>4, HitWindowsTyped DEF Admit
  <2>3. DOMAIN quotas' \subseteq QuotaBuckets \X Periods \X Nat
        /\ quotas' \in [DOMAIN quotas' -> Nat]
    <3>1. quotas' = AddTo(quotas, QuotaRows(k, e, plan), 1)
      BY <1>4 DEF Admit, ChargeQuotas
    <3>2. QuotaRows(k, e, plan) \subseteq QuotaBuckets \X Periods \X Nat
      BY QuotaRowsTyped DEF TypeOK
    <3>3. IsTable(quotas)
      BY DEF TypeOK, IsTable
    <3>4. IsTable(quotas') /\ DOMAIN quotas' = DOMAIN quotas \cup QuotaRows(k, e, plan)
      BY <3>1, <3>3, AddToIsTable
    <3> QED
      BY <3>2, <3>4 DEF TypeOK, IsTable
  <2>4. account' \in [Users -> Account]
    <3>1. account' = account \/ account' = [account EXCEPT ![u].freeRequestsUsed = @ + 1]
      BY <1>4 DEF Admit
    <3>2. account[u].freeRequestsUsed \in Nat
      BY <2>1 DEF TypeOK, Account
    <3> HIDE DEF u
    <3> QED BY <2>1, <3>1, <3>2 DEF TypeOK, Account
  <2>5. /\ admitted' \in [Users -> Nat] /\ freeAnswered' \in [Users -> Nat]
        /\ paidAdmitted' \in [Users -> Nat]
    BY <1>4, <2>1 DEF Admit, TypeOK
  <2> QED
    BY <1>4, <2>2, <2>3, <2>4, <2>5 DEF Admit, TypeOK
<1>5. ASSUME NEW k \in SiteKeys, NEW e \in Endpoints, NEW v \in Visitors, SiteAdmit(k, e, v)
      PROVE  TypeOK'
  <2>1. windows' \in [DOMAIN windows' -> Nat] /\ arrived' \in Nat
    BY <1>5, HitWindowsTyped DEF SiteAdmit
  <2>2. siteAdmitted' \in [Visitors \X Endpoints -> Nat]
    BY <1>5 DEF SiteAdmit, TypeOK
  <2> QED
    BY <1>5, <2>1, <2>2 DEF TypeOK, SiteAdmit
<1>6. ASSUME NEW k \in SiteKeys, NEW e \in Endpoints, NEW v \in Visitors,
             SiteRateLimited(k, e, v)
      PROVE  TypeOK'
  BY <1>6, HitWindowsTyped DEF TypeOK, SiteRateLimited
<1>7. ASSUME NEW u \in Users, activateFreeTier(u) PROVE TypeOK'
  <2>1. account' \in [Users -> Account]
    BY <1>7 DEF activateFreeTier, TypeOK, Account
  <2> QED
    BY <1>7, <2>1 DEF activateFreeTier, TypeOK
<1>8. ASSUME NEW u \in Users, NEW p \in Plans, GrantPlan(u, p) PROVE TypeOK'
  <2>1. account[u].planExpiresAt \in Nat /\ now \in Nat /\ PLAN_DURATION \in Nat
    BY NumbersAssumption DEF TypeOK, Account
  <2> DEFINE from == IF activePlan(u) # NoPlan THEN account[u].planExpiresAt ELSE now
  <2>2. from + PLAN_DURATION \in Nat
    BY <2>1
  <2>3. account' = [account EXCEPT ![u].plan = p, ![u].planExpiresAt = from + PLAN_DURATION]
    BY <1>8 DEF GrantPlan
  <2> HIDE DEF from
  <2>4. account' \in [Users -> Account]
    BY <2>2, <2>3 DEF TypeOK, Account
  <2> QED
    BY <1>8, <2>4 DEF GrantPlan, TypeOK
<1>9. ASSUME NEW k \in AllKeys, revoke(k) PROVE TypeOK'
  BY <1>9 DEF revoke, TypeOK
<1>10. ASSUME NEW u \in Users, lockUser(u) PROVE TypeOK'
  BY <1>10 DEF lockUser, TypeOK, AllKeys
<1>11. ASSUME NEW u \in Users, enableUser(u) PROVE TypeOK'
  BY <1>11 DEF enableUser, TypeOK
<1>12. ASSUME prune PROVE TypeOK'
  <2>1. IsTable(windows) /\ IsTable(quotas)
    BY DEF TypeOK, IsTable
  <2>2. IsTable(windows')
    <3>1. PICK batch : windows' = Without(windows, batch)
      BY <1>12 DEF prune
    <3> QED
      BY <2>1, <3>1, WithoutIsTable
  <2>3. IsTable(quotas') /\ DOMAIN quotas' \subseteq DOMAIN quotas
    <3>1. PICK batch : quotas' = Without(quotas, batch)
      BY <1>12 DEF prune
    <3>2. IsTable(quotas') /\ DOMAIN quotas' = DOMAIN quotas \ batch
      BY <2>1, <3>1, WithoutIsTable
    <3> QED
      BY <3>2
  <2> QED
    BY <1>12, <2>2, <2>3 DEF prune, TypeOK, IsTable
<1>13. ASSUME Tick PROVE TypeOK'
  BY <1>13 DEF Tick, TypeOK
<1>14. CASE UNCHANGED vars
  BY <1>14 DEF TypeOK, vars
<1> QED
  BY <1>1, <1>2, <1>3, <1>4, <1>5, <1>6, <1>7, <1>8, <1>9, <1>10, <1>11, <1>12, <1>13, <1>14
  DEF Next, Authorize, AccountChange

\* Type correctness of every reachable state.
THEOREM TypeCorrect == Spec => []TypeOK
<1>1. Init => TypeOK
  BY InitTypeOK
<1>2. TypeOK /\ [Next]_vars => TypeOK'
  BY NextTypeOK
<1> QED
  BY <1>1, <1>2, PTL DEF Spec

---------------------------------------------------------------------------
(* The inductive invariant.  The free allowance alone is not inductive: that   *)
(* no quota row refuses a free request depends on every free row being bounded *)
(* by its account's lifetime counter, and that activation never lowers the     *)
(* counter depends on the counter being zero before it.                        *)

\* The account a quota bucket belongs to.
RowOwner(bucket) == IF bucket[2] = "key" THEN OwnerOf[bucket[3]] ELSE bucket[3]

FreeLedger ==
    \A row \in DOMAIN quotas :
        row[1][1] = "free" => quotas[row] <= account[RowOwner(row[1])].freeRequestsUsed

UnusedBeforeActivation ==
    \A u \in Users : ~account[u].freeActivated => account[u].freeRequestsUsed = 0

\* What was admitted is a part of what was counted: a refused request is counted too.
AdmittedIsCounted ==
    \A u \in Users : admitted[u] <= Count(windows, <<<<"user", u>>, now>>)

IInv == TypeOK /\ FreeAllowance /\ FreeLedger /\ UnusedBeforeActivation /\ AdmittedIsCounted

LEMMA QuotaRowOwner ==
    ASSUME NEW k \in Keys, NEW e, NEW plan, NEW row \in QuotaRows(k, e, plan)
    PROVE  RowOwner(row[1]) = OwnerOf[k] /\ row[1][1] = Prefix(plan)
BY DEF QuotaRows, QuotaRow, RowOwner

\* A request that is counted never lowers a counter of the current minute.
LEMMA HitKeepsCounted ==
    ASSUME TypeOK, NEW limits, HitWindows(limits), now' = now, AdmittedIsCounted
    PROVE  \A u \in Users : admitted[u] <= Count(windows', <<<<"user", u>>, now'>>)
<1>1. IsTable(windows) /\ windows' = AddTo(windows, RowsOf(limits, now), 1)
  BY DEF TypeOK, HitWindows, IsTable
<1> TAKE u \in Users
<1> DEFINE row == <<<<"user", u>>, now>>
<1>2. Count(windows', row) = Count(windows, row) + (IF row \in RowsOf(limits, now) THEN 1 ELSE 0)
  BY <1>1, CountAddTo
<1>3. Count(windows, row) \in Nat /\ admitted[u] \in Nat /\ admitted[u] <= Count(windows, row)
  BY <1>1, CountIsNat DEF TypeOK, AdmittedIsCounted
<1> QED
  BY <1>2, <1>3

LEMMA InitIInv == Init => IInv
<1> SUFFICES ASSUME Init PROVE IInv
  OBVIOUS
<1>1. TypeOK
  BY InitTypeOK
<1>2. FreeAllowance /\ UnusedBeforeActivation
  BY NumbersAssumption DEF Init, FreeAllowance, UnusedBeforeActivation
<1>3. FreeLedger
  BY DEF Init, FreeLedger, EmptyTable
<1>4. AdmittedIsCounted
  BY DEF Init, AdmittedIsCounted, EmptyTable, Count
<1> QED
  BY <1>1, <1>2, <1>3, <1>4 DEF IInv

\* A customer request that is refused after it was counted.
LEMMA CountedRefusalIInv ==
    ASSUME IInv, TypeOK', NEW limits, HitWindows(limits),
           UNCHANGED <<now, account, disabled, revoked, quotas, history>>
    PROVE  IInv'
<1>1. AdmittedIsCounted'
  BY HitKeepsCounted DEF IInv, AdmittedIsCounted, history
<1>2. FreeAllowance' /\ FreeLedger' /\ UnusedBeforeActivation'
  BY DEF IInv, FreeAllowance, FreeLedger, UnusedBeforeActivation, history
<1> QED
  BY <1>1, <1>2 DEF IInv

\* The action that charges: the free counter and the free rows move together.
LEMMA AdmitIInv ==
    ASSUME IInv, TypeOK', NEW k \in Keys, NEW e \in Endpoints, NEW d \in BOOLEAN,
           Admit(k, e, d)
    PROVE  IInv'
<1> DEFINE u == OwnerOf[k]
           plan == activePlan(u)
           limits == CustomerLimits(k, e, plan)
           rows == QuotaRows(k, e, plan)
<1>1. u \in Users
  BY KeysAssumption
<1>2. TypeOK /\ IsTable(windows) /\ IsTable(quotas)
  BY DEF IInv, TypeOK, IsTable
<1>3. AdmittedIsCounted'
  <2>1. windows' = AddTo(windows, RowsOf(limits, now), 1)
    BY DEF Admit, HitWindows
  <2>2. <<<<"user", u>>, now>> \in RowsOf(limits, now)
    BY DEF RowsOf, CustomerLimits
  <2> SUFFICES ASSUME NEW w \in Users
               PROVE  admitted'[w] <= Count(windows', <<<<"user", w>>, now>>)
    BY DEF AdmittedIsCounted, Admit
  <2> DEFINE row == <<<<"user", w>>, now>>
  <2>3. Count(windows', row)
          = Count(windows, row) + (IF row \in RowsOf(limits, now) THEN 1 ELSE 0)
    BY <1>2, <2>1, CountAddTo
  <2>4. Count(windows, row) \in Nat /\ admitted[w] \in Nat /\ admitted[w] <= Count(windows, row)
    BY <1>2, CountIsNat DEF TypeOK, IInv, AdmittedIsCounted
  <2>5. admitted'[w] = IF w = u THEN admitted[w] + 1 ELSE admitted[w]
    BY <1>1, <1>2 DEF Admit, TypeOK
  <2> QED
    BY <2>2, <2>3, <2>4, <2>5
<1>4. quotas' = AddTo(quotas, rows, 1) /\ IsTable(quotas')
      /\ DOMAIN quotas' = DOMAIN quotas \cup rows
  BY <1>2, AddToIsTable DEF Admit, ChargeQuotas
<1>5. CASE plan = NoPlan
  <2>1. freeRequestsRemain(u)
    BY <1>5 DEF Admit, CustomerMayCall, hasKeyAccess
  <2>2. \A w \in Users :
          /\ account'[w].freeRequestsUsed
               = IF w = u THEN account[w].freeRequestsUsed + 1 ELSE account[w].freeRequestsUsed
          /\ account'[w].freeActivated = account[w].freeActivated
          /\ account[w].freeRequestsUsed \in Nat
    BY <1>1, <1>2, <1>5 DEF Admit, TypeOK, Account
  <2>3. FreeAllowance'
    <3>1. \A w \in Users : freeAnswered[w] \in Nat
                           /\ freeAnswered'[w] <= IF w = u THEN freeAnswered[w] + 1 ELSE freeAnswered[w]
      BY <1>1, <1>2 DEF Admit, TypeOK
    <3>2. \A w \in Users : freeAnswered'[w] \in Nat
      BY DEF TypeOK
    <3> QED
      BY <2>1, <2>2, <3>1, <3>2, NumbersAssumption DEF FreeAllowance, IInv, freeRequestsRemain
  <2>4. UnusedBeforeActivation'
    BY <2>1, <2>2 DEF UnusedBeforeActivation, IInv, freeRequestsRemain
  <2>5. FreeLedger'
    <3> SUFFICES ASSUME NEW row \in DOMAIN quotas', row[1][1] = "free"
                 PROVE  quotas'[row] <= account'[RowOwner(row[1])].freeRequestsUsed
      BY DEF FreeLedger, RowOwner
    <3>1. row \in QuotaBuckets \X Periods \X Nat
      BY DEF TypeOK
    <3>2. RowOwner(row[1]) \in Users
      BY <3>1, KeysAssumption DEF QuotaBuckets, RowOwner
    <3>3. quotas'[row] = Count(quotas, row) + (IF row \in rows THEN 1 ELSE 0)
      BY <1>2, <1>4, CountAddTo DEF Count
    <3>4. Count(quotas, row) \in Nat
          /\ Count(quotas, row) <= account[RowOwner(row[1])].freeRequestsUsed
      <4>1. CASE row \in DOMAIN quotas
        BY <4>1, <1>2, CountIsNat DEF Count, IInv, FreeLedger
      <4>2. CASE row \notin DOMAIN quotas
        BY <4>2, <2>2, <3>2 DEF Count
      <4> QED
        BY <4>1, <4>2
    <3>5. row \in rows => RowOwner(row[1]) = u
      BY QuotaRowOwner
    <3> QED
      BY <2>2, <3>2, <3>3, <3>4, <3>5
  <2> QED
    BY <1>3, <2>3, <2>4, <2>5 DEF IInv
<1>6. CASE plan # NoPlan
  <2>1. account' = account /\ freeAnswered' = freeAnswered
    BY <1>6 DEF Admit
  <2>2. FreeAllowance' /\ UnusedBeforeActivation'
    BY <2>1 DEF IInv, FreeAllowance, UnusedBeforeActivation
  <2>3. FreeLedger'
    <3> SUFFICES ASSUME NEW row \in DOMAIN quotas', row[1][1] = "free"
                 PROVE  quotas'[row] <= account'[RowOwner(row[1])].freeRequestsUsed
      BY DEF FreeLedger, RowOwner
    <3>1. row \notin rows
      BY <1>6, QuotaRowOwner DEF Prefix
    <3>2. row \in DOMAIN quotas
      BY <1>4, <3>1
    <3>3. quotas'[row] = quotas[row]
      BY <1>2, <1>4, <3>1, <3>2 DEF AddTo, Count, IsTable
    <3> QED
      BY <2>1, <3>2, <3>3 DEF IInv, FreeLedger
  <2> QED
    BY <1>3, <2>2, <2>3 DEF IInv
<1> QED
  BY <1>5, <1>6

\* Changes of an account leave its counters alone, activation included.
LEMMA AccountChangeIInv ==
    ASSUME IInv, TypeOK', AccountChange
    PROVE  IInv'
<1>1. UNCHANGED <<now, windows, quotas, history>>
  BY DEF AccountChange, activateFreeTier, lockUser, enableUser, GrantPlan, revoke, history
<1> DEFINE CountersKept ==
             \A w \in Users : /\ account'[w].freeRequestsUsed = account[w].freeRequestsUsed
                              /\ ~account'[w].freeActivated => ~account[w].freeActivated
<1>2. CountersKept
  <2>1. ASSUME NEW u \in Users, activateFreeTier(u) PROVE CountersKept
    BY <2>1 DEF activateFreeTier, IInv, TypeOK, Account, UnusedBeforeActivation
  <2>2. ASSUME NEW u \in Users, NEW p \in Plans, GrantPlan(u, p) PROVE CountersKept
    <3>1. PICK x : account' = [account EXCEPT ![u].plan = p, ![u].planExpiresAt = x]
      BY <2>2 DEF GrantPlan
    <3> QED
      BY <3>1 DEF IInv, TypeOK, Account
  <2>3. ASSUME UNCHANGED account PROVE CountersKept
    BY <2>3
  <2> QED
    BY <2>1, <2>2, <2>3 DEF AccountChange, lockUser, enableUser, revoke
<1>3. AdmittedIsCounted'
  BY <1>1 DEF IInv, AdmittedIsCounted, history
<1>4. FreeAllowance' /\ UnusedBeforeActivation'
  BY <1>1, <1>2 DEF IInv, FreeAllowance, UnusedBeforeActivation, history
<1>5. FreeLedger'
  <2> SUFFICES ASSUME NEW row \in DOMAIN quotas, row[1][1] = "free"
               PROVE  quotas[row] <= account'[RowOwner(row[1])].freeRequestsUsed
    BY <1>1 DEF FreeLedger, RowOwner
  <2>1. RowOwner(row[1]) \in Users
    BY KeysAssumption DEF IInv, TypeOK, QuotaBuckets, RowOwner
  <2> QED
    BY <1>2, <2>1 DEF IInv, FreeLedger
<1> QED
  BY <1>3, <1>4, <1>5 DEF IInv

LEMMA PruneIInv ==
    ASSUME IInv, TypeOK', prune
    PROVE  IInv'
<1>1. UNCHANGED <<now, account, history>>
  BY DEF prune, history
<1>2. IsTable(windows) /\ IsTable(quotas) /\ now \in Nat
  BY DEF IInv, TypeOK, IsTable
<1>3. AdmittedIsCounted'
  <2>1. PICK batch \in SUBSET ExpiredWindows : windows' = Without(windows, batch)
    BY DEF prune, Batches
  <2>2. \A u \in Users : <<<<"user", u>>, now>> \notin batch
    BY <1>2, NumbersAssumption DEF ExpiredWindows
  <2>3. \A u \in Users : Count(windows', <<<<"user", u>>, now>>) = Count(windows, <<<<"user", u>>, now>>)
    BY <1>2, <2>1, <2>2, CountWithout
  <2> QED
    BY <1>1, <2>3 DEF IInv, AdmittedIsCounted, history
<1>4. FreeLedger'
  <2>1. PICK batch : quotas' = Without(quotas, batch)
    BY DEF prune
  <2>2. \A row \in DOMAIN quotas' : row \in DOMAIN quotas /\ quotas'[row] = quotas[row]
    BY <2>1 DEF Without
  <2> QED
    BY <1>1, <2>2 DEF IInv, FreeLedger, RowOwner
<1>5. FreeAllowance' /\ UnusedBeforeActivation'
  BY <1>1 DEF IInv, FreeAllowance, UnusedBeforeActivation, history
<1> QED
  BY <1>3, <1>4, <1>5 DEF IInv

LEMMA TickIInv ==
    ASSUME IInv, TypeOK', Tick
    PROVE  IInv'
<1>1. AdmittedIsCounted'
  <2>1. IsTable(windows) /\ windows' = windows
    BY DEF IInv, TypeOK, IsTable, Tick
  <2>2. \A u \in Users : admitted'[u] = 0
    BY DEF Tick
  <2> QED
    BY <2>1, <2>2, CountIsNat DEF AdmittedIsCounted
<1>2. FreeAllowance' /\ FreeLedger' /\ UnusedBeforeActivation'
  BY DEF IInv, Tick, FreeAllowance, FreeLedger, UnusedBeforeActivation
<1> QED
  BY <1>1, <1>2 DEF IInv

LEMMA NextIInv == IInv /\ [Next]_vars => IInv'
<1> SUFFICES ASSUME IInv, [Next]_vars PROVE IInv'
  OBVIOUS
<1>1. TypeOK'
  BY NextTypeOK DEF IInv
<1>2. ASSUME UNCHANGED vars PROVE IInv'
  BY <1>2 DEF IInv, TypeOK, FreeAllowance, FreeLedger, UnusedBeforeActivation,
              AdmittedIsCounted, vars, history
<1>3. ASSUME NEW k \in AllKeys, NEW e \in Endpoints, Refuse(k, e) PROVE IInv'
  BY <1>2, <1>3 DEF Refuse
<1>4. ASSUME NEW k \in Keys, NEW e \in Endpoints, RateLimited(k, e) PROVE IInv'
  BY <1>1, <1>4, CountedRefusalIInv DEF RateLimited
<1>5. ASSUME NEW k \in Keys, NEW e \in Endpoints, QuotaExceeded(k, e) PROVE IInv'
  BY <1>1, <1>5, CountedRefusalIInv DEF QuotaExceeded
<1>6. ASSUME NEW k \in SiteKeys, NEW e \in Endpoints, NEW v \in Visitors, SiteAdmit(k, e, v)
      PROVE  IInv'
  <2>1. AdmittedIsCounted'
    BY <1>6, HitKeepsCounted DEF SiteAdmit, IInv, AdmittedIsCounted
  <2>2. FreeAllowance' /\ FreeLedger' /\ UnusedBeforeActivation'
    BY <1>6 DEF SiteAdmit, IInv, FreeAllowance, FreeLedger, UnusedBeforeActivation
  <2> QED
    BY <1>1, <2>1, <2>2 DEF IInv
<1>7. ASSUME NEW k \in SiteKeys, NEW e \in Endpoints, NEW v \in Visitors,
             SiteRateLimited(k, e, v)
      PROVE  IInv'
  BY <1>1, <1>7, CountedRefusalIInv DEF SiteRateLimited
<1> QED
  BY <1>1, <1>2, <1>3, <1>4, <1>5, <1>6, <1>7,
     AdmitIInv, AccountChangeIInv, PruneIInv, TickIInv
  DEF Next, Authorize

LEMMA Invariance == Spec => []IInv
<1>1. Init => IInv
  BY InitIInv
<1>2. IInv /\ [Next]_vars => IInv'
  BY NextIInv
<1> QED
  BY <1>1, <1>2, PTL DEF Spec

---------------------------------------------------------------------------
(* The results. *)

\* No account gets more free answers than its lifetime allowance.
THEOREM FreeAllowanceHolds == Spec => []FreeAllowance
<1>1. IInv => FreeAllowance
  BY DEF IInv
<1> QED
  BY <1>1, Invariance, PTL

\* No free row runs ahead of the lifetime counter.
LEMMA FreeRowsAdmit == IInv => FreeAllowanceUsable
<1> SUFFICES ASSUME IInv, NEW k \in Keys, NEW e \in Endpoints,
                    freeRequestsRemain(OwnerOf[k]),
                    NEW row \in QuotaRows(k, e, NoPlan)
             PROVE  Count(quotas, row) + 1 <= QuotaLimit(row, NoPlan)
  BY DEF FreeAllowanceUsable, QuotaAdmits
<1> DEFINE used == account[OwnerOf[k]].freeRequestsUsed
<1>1. OwnerOf[k] \in Users
  BY KeysAssumption
<1>2. used \in Nat /\ used < FREE_TOTAL_REQUESTS
  BY <1>1 DEF IInv, TypeOK, Account, freeRequestsRemain
<1>3. Count(quotas, row) \in Nat /\ Count(quotas, row) <= used
  <2>1. RowOwner(row[1]) = OwnerOf[k] /\ row[1][1] = "free"
    BY QuotaRowOwner DEF Prefix
  <2>2. CASE row \in DOMAIN quotas
    BY <2>1, <2>2 DEF IInv, TypeOK, FreeLedger, Count
  <2>3. CASE row \notin DOMAIN quotas
    BY <1>2, <2>3 DEF Count
  <2> QED
    BY <2>2, <2>3
<1>4. QuotaLimit(row, NoPlan) = FREE_TOTAL_REQUESTS
  <2>1. row[1][2] \in QuotaKinds /\ row[2] \in Periods
    BY DEF QuotaRows, QuotaRow, QuotaKinds, Periods
  <2>2. /\ ConfiguredQuota[<<row[1][2], row[2]>>] \in Nat
        /\ ConfiguredQuota[<<row[1][2], row[2]>>] >= FREE_TOTAL_REQUESTS
    BY <2>1, FreeQuotaAssumption, NumbersAssumption
  <2> QED
    BY <2>2, NumbersAssumption DEF QuotaLimit, Least
<1> QED
  BY <1>2, <1>3, <1>4, NumbersAssumption

\* A free request is never refused by a quota while free requests remain: the rows
\* of paid traffic are separate, and no free row runs ahead of the lifetime counter.
THEOREM FreeAllowanceUsableHolds == Spec => []FreeAllowanceUsable
  BY FreeRowsAdmit, Invariance, PTL

\* An account's admitted requests of a minute stay within its plan's rate, however
\* many keys it spreads them over.
THEOREM AccountCeilingHolds == Spec => AccountCeiling
<1>1. IInv /\ [Next]_vars =>
        [\A u \in Users : admitted'[u] > admitted[u]
                            => admitted'[u] <= PlanRate(activePlan(u))]_vars
  <2> SUFFICES ASSUME IInv, Next, NEW u \in Users, admitted'[u] > admitted[u]
               PROVE  admitted'[u] <= PlanRate(activePlan(u))
    OBVIOUS
  <2>1. admitted[u] \in Nat
    BY DEF IInv, TypeOK
  <2>2. ASSUME UNCHANGED admitted PROVE FALSE
    BY <2>1, <2>2
  <2>3. ASSUME Tick PROVE FALSE
    BY <2>1, <2>3 DEF Tick
  <2>4. PICK k \in Keys, e \in Endpoints, d \in BOOLEAN : Admit(k, e, d)
    BY <2>2, <2>3 DEF Next, Authorize, Refuse, RateLimited, QuotaExceeded, SiteAdmit,
       SiteRateLimited, AccountChange, activateFreeTier, lockUser, enableUser, GrantPlan,
       revoke, prune, history, vars
  <2>5. OwnerOf[k] = u /\ admitted'[u] = admitted[u] + 1
    BY <2>1, <2>4, KeysAssumption DEF Admit, IInv, TypeOK
  <2>6. Count(windows, <<<<"user", u>>, now>>) + 1 <= PlanRate(activePlan(u))
    <3>1. RateAdmits(CustomerLimits(k, e, activePlan(u)))
      BY <2>4, <2>5 DEF Admit
    <3>2. [bucket |-> <<"user", u>>, limit |-> PlanRate(activePlan(u))]
            \in CustomerLimits(k, e, activePlan(u))
      BY <2>5 DEF CustomerLimits
    <3> QED
      BY <3>1, <3>2 DEF RateAdmits, WithinLimits
  <2>7. /\ Count(windows, <<<<"user", u>>, now>>) \in Nat
        /\ admitted[u] <= Count(windows, <<<<"user", u>>, now>>)
    BY CountIsNat DEF IInv, TypeOK, IsTable, AdmittedIsCounted
  <2>8. PlanRate(activePlan(u)) \in Nat
    BY PlansAssumption, NumbersAssumption DEF PlanRate, activePlan, IInv, TypeOK, Account
  <2> QED
    BY <2>1, <2>5, <2>6, <2>7, <2>8
<1> QED
  BY <1>1, Invariance, PTL DEF Spec, AccountCeiling

---------------------------------------------------------------------------
(* The website's visitors.  What was admitted this minute is a part of what   *)
(* the windows count, since a refused request is counted too; the sums over   *)
(* endpoints and visitors are compared with one row each.                     *)

IpRow(v) == <<<<"ip", v>>, now>>
RouteRow(v) == <<<<"ip-route", v>>, now>>
SiteRow(k) == <<<<"key", k>>, now>>

VisitorsAreCounted ==
    /\ \A v \in Visitors :
          /\ IsFiniteSet(Units(siteAdmitted, {v} \X Endpoints))
          /\ Total(siteAdmitted, {v} \X Endpoints) <= Count(windows, IpRow(v))
          /\ siteAdmitted[<<v, Route>>] <= Count(windows, RouteRow(v))
    /\ IsFiniteSet(Units(siteAdmitted, Visitors \X Endpoints))
    /\ \A k \in SiteKeys :
          SiteKeys = {k} => Total(siteAdmitted, Visitors \X Endpoints) <= Count(windows, SiteRow(k))

VisitorInv == TypeOK /\ VisitorsAreCounted /\ VisitorCeiling

\* No step but the clock's lowers a counter of the current minute.
LEMMA WindowsOnlyGrow ==
    ASSUME TypeOK, [Next]_vars, ~Tick
    PROVE  /\ now' = now
           /\ \A bucket : Count(windows, <<bucket, now>>) <= Count(windows', <<bucket, now>>)
<1>1. IsTable(windows) /\ now \in Nat
  BY DEF TypeOK, IsTable
<1>2. ASSUME UNCHANGED <<now, windows>> PROVE \A bucket : Count(windows, <<bucket, now>>) <= Count(windows', <<bucket, now>>)
  BY <1>1, <1>2, CountIsNat
<1>3. ASSUME NEW limits, HitWindows(limits)
      PROVE  \A bucket : Count(windows, <<bucket, now>>) <= Count(windows', <<bucket, now>>)
  <2>1. windows' = AddTo(windows, RowsOf(limits, now), 1)
    BY <1>3 DEF HitWindows
  <2> QED BY <1>1, <2>1, CountAddTo, CountIsNat
<1>4. ASSUME prune PROVE \A bucket : Count(windows, <<bucket, now>>) <= Count(windows', <<bucket, now>>)
  <2>1. PICK batch \in Batches(ExpiredWindows, 2, BATCH) : windows' = Without(windows, batch)
    BY <1>4 DEF prune
  <2>2. \A bucket : <<bucket, now>> \notin batch
    BY <1>1, BatchIsExpired, NumbersAssumption DEF ExpiredWindows
  <2> QED BY <1>1, <2>1, <2>2, CountWithout, CountIsNat
<1>5. CASE UNCHANGED vars
  BY <1>2, <1>5 DEF vars
<1>6. CASE Authorize
  <2>1. ASSUME NEW k \in AllKeys, NEW e \in Endpoints, Refuse(k, e)
        PROVE  UNCHANGED <<now, windows>>
    BY <2>1 DEF Refuse, vars
  <2>2. ASSUME NEW k \in Keys, NEW e \in Endpoints, RateLimited(k, e) \/ QuotaExceeded(k, e)
        PROVE  now' = now /\ \E limits : HitWindows(limits)
    BY <2>2 DEF RateLimited, QuotaExceeded
  <2>3. ASSUME NEW k \in Keys, NEW e \in Endpoints, NEW d \in BOOLEAN, Admit(k, e, d)
        PROVE  now' = now /\ \E limits : HitWindows(limits)
    BY <2>3 DEF Admit
  <2>4. ASSUME NEW k \in SiteKeys, NEW e \in Endpoints, NEW v \in Visitors,
               SiteAdmit(k, e, v) \/ SiteRateLimited(k, e, v)
        PROVE  now' = now /\ \E limits : HitWindows(limits)
    BY <2>4 DEF SiteAdmit, SiteRateLimited
  <2> QED BY <1>2, <1>3, <1>6, <2>1, <2>2, <2>3, <2>4 DEF Authorize
<1>7. CASE AccountChange
  <2>1. UNCHANGED <<now, windows>>
    BY <1>7 DEF AccountChange, activateFreeTier, lockUser, enableUser, GrantPlan, revoke
  <2> QED BY <1>2, <2>1
<1>8. CASE prune
  BY <1>4, <1>8 DEF prune
<1> QED BY <1>5, <1>6, <1>7, <1>8 DEF Next

LEMMA VisitorInitially == Init => VisitorInv
<1> SUFFICES ASSUME Init PROVE VisitorInv
  OBVIOUS
<1>1. TypeOK
  BY InitTypeOK
<1>2. \A row : Count(windows, row) = 0
  BY DEF Init, EmptyTable, Count
<1>3. \A rows : IsFiniteSet(Units(siteAdmitted, rows)) /\ Total(siteAdmitted, rows) = 0
  <2>1. \A row : Count(siteAdmitted, row) = 0
    BY DEF Init, Count
  <2> QED BY <2>1, NoUnits
<1>4. \A v \in Visitors : siteAdmitted[<<v, Route>>] = 0
  BY KeysAssumption DEF Init
<1>5. VisitorsAreCounted
  BY <1>2, <1>3, <1>4 DEF VisitorsAreCounted
<1>6. VisitorCeiling
  BY <1>3, <1>4, NumbersAssumption DEF VisitorCeiling
<1> QED BY <1>1, <1>5, <1>6 DEF VisitorInv

LEMMA TickKeepsVisitors ==
    ASSUME VisitorInv, TypeOK', Tick
    PROVE  VisitorInv'
<1>1. \A row : Count(windows', row) \in Nat
  BY CountIsNat DEF TypeOK, IsTable
<1>2. \A rows : IsFiniteSet(Units(siteAdmitted', rows)) /\ Total(siteAdmitted', rows) = 0
  <2>1. \A row : Count(siteAdmitted', row) = 0
    BY DEF Tick, Count
  <2> QED BY <2>1, NoUnits
<1>3. \A v \in Visitors : siteAdmitted'[<<v, Route>>] = 0
  BY KeysAssumption DEF Tick
<1>4. VisitorsAreCounted'
  BY <1>1, <1>2, <1>3 DEF VisitorsAreCounted
<1>5. VisitorCeiling'
  BY <1>2, <1>3, NumbersAssumption DEF VisitorCeiling
<1> QED BY <1>4, <1>5 DEF VisitorInv

LEMMA SiteAdmitKeepsVisitors ==
    ASSUME VisitorInv, TypeOK', NEW k \in SiteKeys, NEW e \in Endpoints, NEW v \in Visitors,
           SiteAdmit(k, e, v)
    PROVE  VisitorInv'
<1> DEFINE limits == SiteLimits(k, e, v)
<1>1. /\ WithinLimits(windows, limits, now, 1) /\ windows' = AddTo(windows, RowsOf(limits, now), 1)
      /\ siteAdmitted' = [siteAdmitted EXCEPT ![<<v, e>>] = @ + 1] /\ now' = now
  BY DEF SiteAdmit, RateAdmits, HitWindows
<1>2. IsTable(windows) /\ siteAdmitted \in [Visitors \X Endpoints -> Nat]
  BY DEF VisitorInv, TypeOK, IsTable
<1>3. \A row : /\ Count(windows, row) \in Nat
               /\ Count(windows', row) = Count(windows, row) + (IF row \in RowsOf(limits, now) THEN 1 ELSE 0)
  BY <1>1, <1>2, CountAddTo, CountIsNat
<1>4. /\ IpRow(v) \in RowsOf(limits, now) /\ SiteRow(k) \in RowsOf(limits, now)
      /\ Count(windows, IpRow(v)) + 1 <= PerIpLimit
      /\ Count(windows, SiteRow(k)) + 1 <= SiteKeyLimit
  <2>1. /\ [bucket |-> <<"ip", v>>, limit |-> PerIpLimit] \in limits
        /\ [bucket |-> <<"key", k>>, limit |-> SiteKeyLimit] \in limits
    BY DEF SiteLimits
  <2> QED BY <1>1, <2>1 DEF WithinLimits, RowsOf, IpRow, SiteRow
<1>5. e = Route => /\ RouteRow(v) \in RowsOf(limits, now)
                   /\ Count(windows, RouteRow(v)) + 1 <= RouteLimit
  <2> SUFFICES ASSUME e = Route
               PROVE  /\ RouteRow(v) \in RowsOf(limits, now)
                      /\ Count(windows, RouteRow(v)) + 1 <= RouteLimit
    OBVIOUS
  <2>1. [bucket |-> <<"ip-route", v>>, limit |-> Least(PerIpLimit, RouteLimit)] \in limits
    BY DEF SiteLimits
  <2>2. Count(windows, RouteRow(v)) + 1 <= Least(PerIpLimit, RouteLimit) /\ RouteRow(v) \in RowsOf(limits, now)
    BY <1>1, <2>1 DEF WithinLimits, RowsOf, RouteRow
  <2> QED BY <1>3, <2>2, NumbersAssumption DEF Least
<1> HIDE DEF limits
<1>6. /\ Count(siteAdmitted, <<v, e>>) \in Nat
      /\ Count(siteAdmitted', <<v, e>>) = Count(siteAdmitted, <<v, e>>) + 1
      /\ \A row : row # <<v, e>> => Count(siteAdmitted', row) = Count(siteAdmitted, row)
  BY <1>1, <1>2 DEF Count
<1>7. /\ IsFiniteSet(Units(siteAdmitted', {v} \X Endpoints))
      /\ Total(siteAdmitted', {v} \X Endpoints) = Total(siteAdmitted, {v} \X Endpoints) + 1
      /\ Total(siteAdmitted, {v} \X Endpoints) \in Nat
  <2>1. <<v, e>> \in {v} \X Endpoints /\ IsFiniteSet(Units(siteAdmitted, {v} \X Endpoints))
    BY DEF VisitorInv, VisitorsAreCounted
  <2> QED BY <1>6, <2>1, MoreUnits, TotalIsNat
<1>8. /\ IsFiniteSet(Units(siteAdmitted', Visitors \X Endpoints))
      /\ Total(siteAdmitted', Visitors \X Endpoints) = Total(siteAdmitted, Visitors \X Endpoints) + 1
      /\ Total(siteAdmitted, Visitors \X Endpoints) \in Nat
  <2>1. <<v, e>> \in Visitors \X Endpoints /\ IsFiniteSet(Units(siteAdmitted, Visitors \X Endpoints))
    BY DEF VisitorInv, VisitorsAreCounted
  <2> QED BY <1>6, <2>1, MoreUnits, TotalIsNat
<1>9. ASSUME NEW w \in Visitors \ {v}
      PROVE  /\ Units(siteAdmitted', {w} \X Endpoints) = Units(siteAdmitted, {w} \X Endpoints)
             /\ Total(siteAdmitted', {w} \X Endpoints) = Total(siteAdmitted, {w} \X Endpoints)
  <2>1. \A row \in {w} \X Endpoints : Count(siteAdmitted', row) = Count(siteAdmitted, row)
    BY <1>6
  <2> QED BY <2>1, SameUnits
<1>10. ASSUME NEW w \in Visitors
       PROVE  /\ IsFiniteSet(Units(siteAdmitted', {w} \X Endpoints))
              /\ Total(siteAdmitted', {w} \X Endpoints) <= Count(windows', IpRow(w))
              /\ Total(siteAdmitted', {w} \X Endpoints) <= PerIpLimit
  <2>1. /\ IsFiniteSet(Units(siteAdmitted, {w} \X Endpoints))
        /\ Total(siteAdmitted, {w} \X Endpoints) \in Nat
        /\ Total(siteAdmitted, {w} \X Endpoints) <= Count(windows, IpRow(w))
        /\ Total(siteAdmitted, {w} \X Endpoints) <= PerIpLimit
    BY TotalIsNat DEF VisitorInv, VisitorsAreCounted, VisitorCeiling
  <2>2. CASE w = v
    BY <1>3, <1>4, <1>7, <2>1, <2>2, NumbersAssumption
  <2>3. CASE w # v
    BY <1>3, <1>9, <2>1, <2>3
  <2> QED BY <2>2, <2>3
<1>11. ASSUME NEW w \in Visitors
       PROVE  /\ siteAdmitted'[<<w, Route>>] <= Count(windows', RouteRow(w))
              /\ siteAdmitted'[<<w, Route>>] <= RouteLimit
  <2>1. /\ <<w, Route>> \in Visitors \X Endpoints /\ siteAdmitted[<<w, Route>>] \in Nat
        /\ siteAdmitted[<<w, Route>>] <= Count(windows, RouteRow(w))
        /\ siteAdmitted[<<w, Route>>] <= RouteLimit
    BY <1>2, KeysAssumption DEF VisitorInv, VisitorsAreCounted, VisitorCeiling
  <2>2. CASE w = v /\ e = Route
    <3>1. siteAdmitted'[<<w, Route>>] = siteAdmitted[<<w, Route>>] + 1
      BY <1>1, <1>2, <2>1, <2>2
    <3> QED BY <1>3, <1>5, <2>1, <2>2, <3>1, NumbersAssumption
  <2>3. CASE ~(w = v /\ e = Route)
    <3>1. siteAdmitted'[<<w, Route>>] = siteAdmitted[<<w, Route>>]
      BY <1>1, <1>2, <2>1, <2>3
    <3> QED BY <1>3, <2>1, <3>1
  <2> QED BY <2>2, <2>3
<1>12. ASSUME NEW j \in SiteKeys, SiteKeys = {j}
       PROVE  /\ Total(siteAdmitted', Visitors \X Endpoints) <= Count(windows', SiteRow(j))
              /\ Total(siteAdmitted', Visitors \X Endpoints) <= SiteKeyLimit
  <2>1. /\ j = k /\ Total(siteAdmitted, Visitors \X Endpoints) <= Count(windows, SiteRow(j))
    BY <1>12 DEF VisitorInv, VisitorsAreCounted
  <2> QED BY <1>3, <1>4, <1>8, <2>1, NumbersAssumption
<1>13. \A w \in Visitors : IpRow(w)' = IpRow(w) /\ RouteRow(w)' = RouteRow(w)
  BY <1>1 DEF IpRow, RouteRow
<1>14. \A j \in SiteKeys : SiteRow(j)' = SiteRow(j)
  BY <1>1 DEF SiteRow
<1>15. VisitorsAreCounted'
  BY <1>8, <1>10, <1>11, <1>12, <1>13, <1>14 DEF VisitorsAreCounted
<1>16. VisitorCeiling'
  BY <1>10, <1>11, <1>12 DEF VisitorCeiling
<1> QED BY <1>15, <1>16 DEF VisitorInv

LEMMA OthersKeepVisitors ==
    ASSUME VisitorInv, TypeOK', [Next]_vars, ~Tick, UNCHANGED siteAdmitted
    PROVE  VisitorInv'
<1>1. /\ now' = now
      /\ \A bucket : Count(windows, <<bucket, now>>) <= Count(windows', <<bucket, now>>)
  BY WindowsOnlyGrow DEF VisitorInv
<1>2. /\ \A row : Count(windows, row) \in Nat /\ Count(windows', row) \in Nat
      /\ siteAdmitted \in [Visitors \X Endpoints -> Nat]
  BY CountIsNat DEF VisitorInv, TypeOK, IsTable
<1>3. ASSUME NEW v \in Visitors
      PROVE  /\ Total(siteAdmitted, {v} \X Endpoints) <= Count(windows', IpRow(v)')
             /\ siteAdmitted[<<v, Route>>] <= Count(windows', RouteRow(v)')
  <2>1. /\ Total(siteAdmitted, {v} \X Endpoints) <= Count(windows, IpRow(v))
        /\ siteAdmitted[<<v, Route>>] <= Count(windows, RouteRow(v))
        /\ Total(siteAdmitted, {v} \X Endpoints) \in Nat
        /\ siteAdmitted[<<v, Route>>] \in Nat
    BY <1>2, TotalIsNat, KeysAssumption DEF VisitorInv, VisitorsAreCounted
  <2>2. /\ IpRow(v)' = IpRow(v) /\ Count(windows, IpRow(v)) <= Count(windows', IpRow(v))
        /\ RouteRow(v)' = RouteRow(v) /\ Count(windows, RouteRow(v)) <= Count(windows', RouteRow(v))
    BY <1>1 DEF IpRow, RouteRow
  <2> QED BY <1>2, <2>1, <2>2
<1>4. ASSUME NEW k \in SiteKeys, SiteKeys = {k}
      PROVE  Total(siteAdmitted, Visitors \X Endpoints) <= Count(windows', SiteRow(k)')
  <2>1. /\ Total(siteAdmitted, Visitors \X Endpoints) <= Count(windows, SiteRow(k))
        /\ Total(siteAdmitted, Visitors \X Endpoints) \in Nat
    BY <1>4, TotalIsNat DEF VisitorInv, VisitorsAreCounted
  <2>2. SiteRow(k)' = SiteRow(k) /\ Count(windows, SiteRow(k)) <= Count(windows', SiteRow(k))
    BY <1>1 DEF SiteRow
  <2> QED BY <1>2, <2>1, <2>2
<1>5. VisitorsAreCounted'
  BY <1>3, <1>4 DEF VisitorInv, VisitorsAreCounted
<1>6. VisitorCeiling'
  BY DEF VisitorInv, VisitorCeiling
<1> QED BY <1>5, <1>6 DEF VisitorInv

LEMMA VisitorStep == VisitorInv /\ [Next]_vars => VisitorInv'
<1> SUFFICES ASSUME VisitorInv, [Next]_vars PROVE VisitorInv'
  OBVIOUS
<1>1. TypeOK'
  BY NextTypeOK DEF VisitorInv
<1>2. CASE Tick
  BY <1>1, <1>2, TickKeepsVisitors
<1>3. ASSUME NEW k \in SiteKeys, NEW e \in Endpoints, NEW v \in Visitors, SiteAdmit(k, e, v)
      PROVE  VisitorInv'
  BY <1>1, <1>3, SiteAdmitKeepsVisitors
<1>4. CASE ~Tick /\ ~\E k \in SiteKeys, e \in Endpoints, v \in Visitors : SiteAdmit(k, e, v)
  <2>1. UNCHANGED siteAdmitted
    <3>1. CASE UNCHANGED vars
      BY <3>1 DEF vars, history
    <3>2. CASE Authorize
      BY <1>4, <3>2
      DEF Authorize, Refuse, RateLimited, QuotaExceeded, Admit, SiteRateLimited, vars, history
    <3>3. CASE AccountChange
      BY <3>3 DEF AccountChange, activateFreeTier, lockUser, enableUser, GrantPlan, revoke, history
    <3>4. CASE prune
      BY <3>4 DEF prune, history
    <3> QED BY <1>4, <3>1, <3>2, <3>3, <3>4 DEF Next
  <2> QED BY <1>1, <1>4, <2>1, OthersKeepVisitors
<1> QED BY <1>2, <1>3, <1>4

\* The website's visitors, for any number of them, of endpoints and of site keys: no one
\* is answered more often in a minute than the limits allow, nor all of them together.
THEOREM VisitorCeilingHolds == Spec => []VisitorCeiling
<1>1. VisitorInv => VisitorCeiling
  BY DEF VisitorInv
<1> QED BY <1>1, VisitorInitially, VisitorStep, PTL DEF Spec

---------------------------------------------------------------------------
(* The month's ledger.  That its rows agree when a month begins depends on no *)
(* row being written ahead of time, and that they still agree after a pruning *)
(* on rows outliving the month.                                               *)

NoRowsAhead == \A row \in DOMAIN quotas : row[3] <= now

LedgerIsFinite ==
    \A u \in Users, prefix \in {"free", "paid"} :
        /\ IsFiniteSet(Units(quotas, KeyRows(prefix, u)))
        /\ IsFiniteSet(Units(quotas, EndpointRows(prefix, u)))

\* What was admitted for a plan this month is a part of what the account was charged.
PaidIsCharged ==
    \A u \in Users : paidAdmitted[u] <= Count(quotas, QuotaRow(<<"paid", "tenant", u>>, Month))

LedgerInv == TypeOK /\ NoRowsAhead /\ LedgerIsFinite /\ LedgerAgrees /\ PaidIsCharged

LEMMA MonthRows ==
    ASSUME NEW u, NEW prefix
    PROVE  /\ \A row \in KeyRows(prefix, u) : \E bucket : row = QuotaRow(bucket, Month)
           /\ \A row \in EndpointRows(prefix, u) : \E bucket : row = QuotaRow(bucket, Month)
  BY DEF KeyRows, EndpointRows

\* Where this month's rows stay as they are, the ledger does.
LEMMA LedgerStays ==
    ASSUME LedgerInv, TypeOK', quotaPeriod(Month)' = quotaPeriod(Month), NoRowsAhead',
           \A bucket : Count(quotas', QuotaRow(bucket, Month)) = Count(quotas, QuotaRow(bucket, Month)),
           UNCHANGED paidAdmitted
    PROVE  LedgerInv'
<1>1. \A bucket : QuotaRow(bucket, Month)' = QuotaRow(bucket, Month)
  BY DEF QuotaRow
<1>2. ASSUME NEW u \in Users, NEW prefix \in {"free", "paid"}
      PROVE  KeyRows(prefix, u)' = KeyRows(prefix, u) /\ EndpointRows(prefix, u)' = EndpointRows(prefix, u)
  BY <1>1 DEF KeyRows, EndpointRows
<1>3. ASSUME NEW u \in Users, NEW prefix \in {"free", "paid"}
      PROVE  /\ Units(quotas', KeyRows(prefix, u)) = Units(quotas, KeyRows(prefix, u))
             /\ Total(quotas', KeyRows(prefix, u)) = Total(quotas, KeyRows(prefix, u))
             /\ Units(quotas', EndpointRows(prefix, u)) = Units(quotas, EndpointRows(prefix, u))
             /\ Total(quotas', EndpointRows(prefix, u)) = Total(quotas, EndpointRows(prefix, u))
  <2>1. \A row \in KeyRows(prefix, u) : Count(quotas', row) = Count(quotas, row)
    BY MonthRows
  <2>2. \A row \in EndpointRows(prefix, u) : Count(quotas', row) = Count(quotas, row)
    BY MonthRows
  <2> QED BY <2>1, <2>2, SameUnits
<1>4. LedgerIsFinite'
  BY <1>2, <1>3 DEF LedgerInv, LedgerIsFinite
<1>5. LedgerAgrees'
  <2>1. ASSUME NEW u \in Users, NEW prefix \in {"free", "paid"}
        PROVE  LET charged == Count(quotas', QuotaRow(<<prefix, "tenant", u>>, Month)')
               IN charged = Total(quotas', KeyRows(prefix, u)') /\ charged = Total(quotas', EndpointRows(prefix, u)')
    <3>1. Count(quotas', QuotaRow(<<prefix, "tenant", u>>, Month)')
            = Count(quotas, QuotaRow(<<prefix, "tenant", u>>, Month))
      BY <1>1
    <3> QED BY <1>2, <1>3, <3>1 DEF LedgerInv, LedgerAgrees
  <2> QED BY <2>1 DEF LedgerAgrees
<1>6. PaidIsCharged'
  BY <1>1 DEF LedgerInv, PaidIsCharged
<1> QED BY <1>4, <1>5, <1>6 DEF LedgerInv

LEMMA LedgerInitially == Init => LedgerInv
<1> SUFFICES ASSUME Init PROVE LedgerInv
  OBVIOUS
<1>1. TypeOK /\ NoRowsAhead
  BY InitTypeOK DEF Init, EmptyTable, NoRowsAhead
<1>2. \A row : Count(quotas, row) = 0
  BY DEF Init, EmptyTable, Count
<1>3. \A rows : IsFiniteSet(Units(quotas, rows)) /\ Total(quotas, rows) = 0
  BY <1>2, NoUnits
<1>4. LedgerIsFinite /\ LedgerAgrees
  BY <1>2, <1>3 DEF LedgerIsFinite, LedgerAgrees
<1>5. PaidIsCharged
  BY <1>2 DEF Init, PaidIsCharged
<1> QED BY <1>1, <1>4, <1>5 DEF LedgerInv

LEMMA MonthBegan ==
    ASSUME now \in Nat
    PROVE  /\ quotaPeriod(Month) \in Nat /\ quotaPeriod(Month) <= now
           /\ now < quotaPeriod(Month) + MonthLength
           /\ quotaPeriod(Day) \in Nat /\ quotaPeriod(Day) <= now
<1>1. quotaPeriod(Month) = WindowStart(now, MonthLength) /\ quotaPeriod(Day) = WindowStart(now, DayLength)
  BY DEF quotaPeriod, Day, Month
<1> QED BY <1>1, WindowStartIsNat, WindowHasMoment, NumbersAssumption

LEMMA TickKeepsLedger ==
    ASSUME LedgerInv, TypeOK', Tick
    PROVE  LedgerInv'
<1>1. now \in Nat /\ now' = now + 1 /\ quotas' = quotas /\ quotas \in [DOMAIN quotas -> Nat]
  BY DEF LedgerInv, TypeOK, Tick
<1>2. NoRowsAhead'
  <2>1. ASSUME NEW row \in DOMAIN quotas PROVE row[3] \in Nat
    BY DEF LedgerInv, TypeOK
  <2> QED BY <1>1, <2>1 DEF LedgerInv, NoRowsAhead
<1>3. /\ quotaPeriod(Month) = WindowStart(now, MonthLength)
      /\ quotaPeriod(Month)' = WindowStart(now + 1, MonthLength)
  BY <1>1 DEF quotaPeriod, Day, Month
<1>4. CASE WindowStart(now + 1, MonthLength) = WindowStart(now, MonthLength)
  <2>1. UNCHANGED paidAdmitted
    BY <1>4 DEF Tick
  <2> QED BY <1>1, <1>2, <1>3, <1>4, <2>1, LedgerStays
<1>5. CASE WindowStart(now + 1, MonthLength) # WindowStart(now, MonthLength)
  <2>1. quotaPeriod(Month)' > now
    BY <1>1, <1>3, <1>5, WindowAfter, NumbersAssumption
  <2>2. \A bucket : Count(quotas', QuotaRow(bucket, Month)') = 0
    <3>1. ASSUME NEW bucket PROVE QuotaRow(bucket, Month)' \notin DOMAIN quotas
      <4> SUFFICES ASSUME QuotaRow(bucket, Month)' \in DOMAIN quotas PROVE FALSE
        OBVIOUS
      <4>1. QuotaRow(bucket, Month)'[3] = quotaPeriod(Month)'
        BY DEF QuotaRow
      <4>2. quotaPeriod(Month)' <= now
        BY <4>1 DEF LedgerInv, NoRowsAhead
      <4>3. quotaPeriod(Month)' \in Nat
        BY <1>1, <1>3, WindowStartIsNat, NumbersAssumption
      <4> QED BY <1>1, <2>1, <4>2, <4>3
    <3> QED BY <1>1, <3>1 DEF Count
  <2>3. ASSUME NEW u \in Users, NEW prefix \in {"free", "paid"}
        PROVE  /\ IsFiniteSet(Units(quotas', KeyRows(prefix, u)')) /\ Total(quotas', KeyRows(prefix, u)') = 0
               /\ IsFiniteSet(Units(quotas', EndpointRows(prefix, u)')) /\ Total(quotas', EndpointRows(prefix, u)') = 0
    <3>1. \A row \in KeyRows(prefix, u)' : Count(quotas', row) = 0
      BY <2>2 DEF KeyRows
    <3>2. \A row \in EndpointRows(prefix, u)' : Count(quotas', row) = 0
      BY <2>2 DEF EndpointRows
    <3> QED BY <3>1, <3>2, NoUnits
  <2>4. LedgerIsFinite' /\ LedgerAgrees'
    BY <2>2, <2>3 DEF LedgerIsFinite, LedgerAgrees
  <2>5. PaidIsCharged'
    <3>1. \A u \in Users : paidAdmitted'[u] = 0
      BY <1>5 DEF Tick
    <3> QED BY <2>2, <3>1 DEF PaidIsCharged
  <2> QED BY <1>2, <2>4, <2>5 DEF LedgerInv
<1> QED BY <1>4, <1>5

\* Rows that are pruned are older than the month.
LEMMA PruneKeepsLedger ==
    ASSUME LedgerInv, TypeOK', prune
    PROVE  LedgerInv'
<1>1. IsTable(quotas) /\ now \in Nat /\ now' = now /\ UNCHANGED paidAdmitted
  BY DEF LedgerInv, TypeOK, IsTable, prune, history
<1>2. PICK batch \in Batches(ExpiredQuotas, 3, BATCH) : quotas' = Without(quotas, batch)
  BY DEF prune
<1>3. \A bucket : QuotaRow(bucket, Month) \notin batch
  <2>1. \A bucket : QuotaRow(bucket, Month)[3] = quotaPeriod(Month)
    BY DEF QuotaRow
  <2>2. ~(quotaPeriod(Month) < now - QuotaRetention)
    BY <1>1, MonthBegan, RetentionAssumption, NumbersAssumption
  <2> QED BY <2>1, <2>2, BatchIsExpired DEF ExpiredQuotas
<1>4. \A bucket : Count(quotas', QuotaRow(bucket, Month)) = Count(quotas, QuotaRow(bucket, Month))
  BY <1>1, <1>2, <1>3, CountWithout
<1>5. NoRowsAhead'
  <2>1. DOMAIN quotas' \subseteq DOMAIN quotas
    <3>1. DOMAIN quotas' = DOMAIN quotas \ batch
      BY <1>1, <1>2, WithoutIsTable
    <3> QED BY <3>1
  <2> QED BY <1>1, <2>1 DEF LedgerInv, NoRowsAhead
<1>6. quotaPeriod(Month)' = quotaPeriod(Month)
  BY <1>1 DEF quotaPeriod
<1> QED BY <1>1, <1>4, <1>5, <1>6, LedgerStays

\* An admitted request charges one row of each of the three sums, of its own account and
\* kind of traffic.
LEMMA ChargedTenant ==
    ASSUME NEW k, NEW e, NEW plan, NEW u, NEW prefix
    PROVE  QuotaRow(<<prefix, "tenant", u>>, Month) \in QuotaRows(k, e, plan)
              <=> u = OwnerOf[k] /\ prefix = Prefix(plan)
  BY DEF QuotaRows, QuotaRow, Periods

LEMMA ChargedKey ==
    ASSUME NEW k, NEW e, NEW plan, NEW j, NEW prefix
    PROVE  QuotaRow(<<prefix, "key", j>>, Month) \in QuotaRows(k, e, plan)
              <=> j = k /\ prefix = Prefix(plan)
  BY DEF QuotaRows, QuotaRow, Periods

LEMMA ChargedEndpoint ==
    ASSUME NEW k, NEW e, NEW plan, NEW u, NEW f, NEW prefix
    PROVE  QuotaRow(<<prefix, "tenant-endpoint", u, f>>, Month) \in QuotaRows(k, e, plan)
              <=> u = OwnerOf[k] /\ prefix = Prefix(plan) /\ f = e
  BY DEF QuotaRows, QuotaRow, Periods

LEMMA AdmitKeepsLedger ==
    ASSUME LedgerInv, TypeOK', NEW k \in Keys, NEW e \in Endpoints, NEW d \in BOOLEAN, Admit(k, e, d)
    PROVE  LedgerInv'
<1> DEFINE plan == activePlan(OwnerOf[k])
           rows == QuotaRows(k, e, plan)
<1>1. /\ quotas' = AddTo(quotas, rows, 1) /\ now' = now
      /\ paidAdmitted' = IF plan # NoPlan THEN [paidAdmitted EXCEPT ![OwnerOf[k]] = @ + 1] ELSE paidAdmitted
  BY DEF Admit, ChargeQuotas
<1>2. IsTable(quotas) /\ now \in Nat /\ OwnerOf[k] \in Users /\ paidAdmitted \in [Users -> Nat]
  BY KeysAssumption DEF LedgerInv, TypeOK, IsTable
<1>3. \A row : /\ Count(quotas, row) \in Nat
               /\ Count(quotas', row) = Count(quotas, row) + (IF row \in rows THEN 1 ELSE 0)
  BY <1>1, <1>2, CountAddTo, CountIsNat
<1>4. quotaPeriod(Month)' = quotaPeriod(Month)
  BY <1>1 DEF quotaPeriod
<1>5. NoRowsAhead'
  <2>1. \A row \in rows : row[3] <= now
    BY <1>2, MonthBegan DEF QuotaRows, QuotaRow, Periods
  <2>2. DOMAIN quotas' = DOMAIN quotas \cup rows
    BY <1>1, <1>2, AddToIsTable
  <2> QED BY <1>1, <2>1, <2>2 DEF LedgerInv, NoRowsAhead
<1>6. ASSUME NEW u \in Users, NEW prefix \in {"free", "paid"}
      PROVE  /\ IsFiniteSet(Units(quotas', KeyRows(prefix, u)))
             /\ IsFiniteSet(Units(quotas', EndpointRows(prefix, u)))
             /\ Count(quotas', QuotaRow(<<prefix, "tenant", u>>, Month)) = Total(quotas', KeyRows(prefix, u))
             /\ Count(quotas', QuotaRow(<<prefix, "tenant", u>>, Month)) = Total(quotas', EndpointRows(prefix, u))
  <2> DEFINE tenant == QuotaRow(<<prefix, "tenant", u>>, Month)
             keyRow == QuotaRow(<<prefix, "key", k>>, Month)
             endpointRow == QuotaRow(<<prefix, "tenant-endpoint", u, e>>, Month)
  <2>1. /\ IsFiniteSet(Units(quotas, KeyRows(prefix, u)))
        /\ IsFiniteSet(Units(quotas, EndpointRows(prefix, u)))
        /\ Count(quotas, tenant) = Total(quotas, KeyRows(prefix, u))
        /\ Count(quotas, tenant) = Total(quotas, EndpointRows(prefix, u))
    BY DEF LedgerInv, LedgerIsFinite, LedgerAgrees
  <2> HIDE DEF plan
  <2>4. \A j \in Keys : QuotaRow(<<prefix, "key", j>>, Month) \in rows <=> j = k /\ prefix = Prefix(plan)
    BY ChargedKey
  <2>5. \A f \in Endpoints :
           QuotaRow(<<prefix, "tenant-endpoint", u, f>>, Month) \in rows
             <=> u = OwnerOf[k] /\ prefix = Prefix(plan) /\ f = e
    BY ChargedEndpoint
  <2>6. tenant \in rows <=> u = OwnerOf[k] /\ prefix = Prefix(plan)
    BY ChargedTenant
  <2> HIDE DEF rows
  <2>2. CASE u = OwnerOf[k] /\ prefix = Prefix(plan)
    <3>1. tenant \in rows /\ keyRow \in rows /\ endpointRow \in rows
      BY <2>2, <2>4, <2>5, <2>6
    <3>2. keyRow \in KeyRows(prefix, u) /\ \A row \in KeyRows(prefix, u) \ {keyRow} : row \notin rows
      BY <2>2, <2>4 DEF KeyRows
    <3>3. /\ endpointRow \in EndpointRows(prefix, u)
          /\ \A row \in EndpointRows(prefix, u) \ {endpointRow} : row \notin rows
      BY <2>2, <2>5 DEF EndpointRows
    <3> HIDE DEF tenant, keyRow, endpointRow
    <3>6. /\ Count(quotas', keyRow) = Count(quotas, keyRow) + 1 /\ Count(quotas, keyRow) \in Nat
          /\ \A row \in KeyRows(prefix, u) \ {keyRow} : Count(quotas', row) = Count(quotas, row)
      BY <1>3, <3>1, <3>2
    <3>7. /\ Count(quotas', endpointRow) = Count(quotas, endpointRow) + 1 /\ Count(quotas, endpointRow) \in Nat
          /\ \A row \in EndpointRows(prefix, u) \ {endpointRow} : Count(quotas', row) = Count(quotas, row)
      BY <1>3, <3>1, <3>3
    <3>4. /\ IsFiniteSet(Units(quotas', KeyRows(prefix, u)))
          /\ Total(quotas', KeyRows(prefix, u)) = Total(quotas, KeyRows(prefix, u)) + 1
      <4>1. keyRow \in KeyRows(prefix, u) /\ IsFiniteSet(Units(quotas, KeyRows(prefix, u)))
        BY <2>1, <3>2
      <4> QED BY <3>6, <4>1, OneMoreUnit
    <3>5. /\ IsFiniteSet(Units(quotas', EndpointRows(prefix, u)))
          /\ Total(quotas', EndpointRows(prefix, u)) = Total(quotas, EndpointRows(prefix, u)) + 1
      <4>1. /\ endpointRow \in EndpointRows(prefix, u)
            /\ IsFiniteSet(Units(quotas, EndpointRows(prefix, u)))
        BY <2>1, <3>3
      <4> QED BY <3>7, <4>1, OneMoreUnit
    <3> QED BY <1>3, <2>1, <3>1, <3>4, <3>5 DEF tenant
  <2>3. CASE ~(u = OwnerOf[k] /\ prefix = Prefix(plan))
    <3>1. tenant \notin rows
      BY <2>3, <2>6
    <3>2. \A row \in KeyRows(prefix, u) : row \notin rows
      BY <2>3, <2>4 DEF KeyRows
    <3>3. \A row \in EndpointRows(prefix, u) : row \notin rows
      BY <2>3, <2>5 DEF EndpointRows
    <3> HIDE DEF tenant
    <3>4. \A row \in KeyRows(prefix, u) : Count(quotas', row) = Count(quotas, row)
      BY <1>3, <3>2
    <3>5. \A row \in EndpointRows(prefix, u) : Count(quotas', row) = Count(quotas, row)
      BY <1>3, <3>3
    <3>6. Count(quotas', tenant) = Count(quotas, tenant)
      BY <1>3, <3>1
    <3> QED BY <2>1, <3>4, <3>5, <3>6, SameUnits DEF tenant
  <2> QED BY <2>2, <2>3
<1>7. /\ \A bucket : QuotaRow(bucket, Month)' = QuotaRow(bucket, Month)
      /\ \A u, prefix : KeyRows(prefix, u)' = KeyRows(prefix, u) /\ EndpointRows(prefix, u)' = EndpointRows(prefix, u)
  BY <1>4 DEF QuotaRow, KeyRows, EndpointRows
<1>8. LedgerIsFinite' /\ LedgerAgrees'
  BY <1>6, <1>7 DEF LedgerIsFinite, LedgerAgrees
<1>9. PaidIsCharged'
  <2>1. ASSUME NEW u \in Users
        PROVE  paidAdmitted'[u] <= Count(quotas', QuotaRow(<<"paid", "tenant", u>>, Month))
    <3>1. paidAdmitted[u] <= Count(quotas, QuotaRow(<<"paid", "tenant", u>>, Month)) /\ paidAdmitted[u] \in Nat
      BY <1>2 DEF LedgerInv, PaidIsCharged
    <3>2. CASE u = OwnerOf[k] /\ plan # NoPlan
      <4>1. QuotaRow(<<"paid", "tenant", u>>, Month) \in rows
        BY <3>2, ChargedTenant DEF Prefix
      <4>2. paidAdmitted'[u] = paidAdmitted[u] + 1
        BY <1>1, <1>2, <3>2
      <4> HIDE DEF rows
      <4> QED BY <1>3, <3>1, <4>1, <4>2
    <3>3. CASE ~(u = OwnerOf[k] /\ plan # NoPlan)
      <4>1. paidAdmitted'[u] = paidAdmitted[u]
        BY <1>1, <1>2, <3>3
      <4> HIDE DEF rows
      <4> QED BY <1>3, <3>1, <4>1
    <3> QED BY <3>2, <3>3
  <2> QED BY <1>7, <2>1 DEF PaidIsCharged
<1> QED BY <1>5, <1>8, <1>9 DEF LedgerInv

LEMMA LedgerStep == LedgerInv /\ [Next]_vars => LedgerInv'
<1> SUFFICES ASSUME LedgerInv, [Next]_vars PROVE LedgerInv'
  OBVIOUS
<1>1. TypeOK'
  BY NextTypeOK DEF LedgerInv
<1>2. ASSUME UNCHANGED <<now, quotas, paidAdmitted>> PROVE LedgerInv'
  <2>1. quotaPeriod(Month)' = quotaPeriod(Month) /\ NoRowsAhead'
    BY <1>2 DEF quotaPeriod, LedgerInv, NoRowsAhead
  <2> QED BY <1>1, <1>2, <2>1, LedgerStays
<1>3. CASE UNCHANGED vars
  BY <1>2, <1>3 DEF vars, history
<1>4. CASE Authorize
  <2>1. ASSUME NEW k \in Keys, NEW e \in Endpoints, NEW d \in BOOLEAN, Admit(k, e, d) PROVE LedgerInv'
    BY <1>1, <2>1, AdmitKeepsLedger
  <2>2. CASE ~\E k \in Keys, e \in Endpoints, d \in BOOLEAN : Admit(k, e, d)
    <3>1. UNCHANGED <<now, quotas, paidAdmitted>>
      BY <1>4, <2>2
      DEF Authorize, Refuse, RateLimited, QuotaExceeded, SiteAdmit, SiteRateLimited, vars, history
    <3> QED BY <1>2, <3>1
  <2> QED BY <2>1, <2>2
<1>5. CASE AccountChange
  <2>1. UNCHANGED <<now, quotas, paidAdmitted>>
    BY <1>5 DEF AccountChange, activateFreeTier, lockUser, enableUser, GrantPlan, revoke, history
  <2> QED BY <1>2, <2>1
<1> QED BY <1>1, <1>3, <1>4, <1>5, PruneKeepsLedger, TickKeepsLedger DEF Next

LEMMA LedgerInvariance == Spec => []LedgerInv
  BY LedgerInitially, LedgerStep, PTL DEF Spec

\* The month's rows of an account agree with those of its keys and of its endpoints,
\* for any number of them: a refused request leaves no partial charge behind.
THEOREM LedgerAgreesHolds == Spec => []LedgerAgrees
<1>1. LedgerInv => LedgerAgrees
  BY DEF LedgerInv
<1> QED BY <1>1, LedgerInvariance, PTL

\* A paid request is admitted only within the current plan's number for the month.
THEOREM MonthlyAllowanceHolds == Spec => MonthlyAllowance
<1>1. LedgerInv /\ [Next]_vars =>
        [\A u \in Users : paidAdmitted'[u] > paidAdmitted[u]
                            => paidAdmitted'[u] <= MonthlyRequests[activePlan(u)]]_vars
  <2> SUFFICES ASSUME LedgerInv, Next, NEW u \in Users, paidAdmitted'[u] > paidAdmitted[u]
               PROVE  paidAdmitted'[u] <= MonthlyRequests[activePlan(u)]
    OBVIOUS
  <2>1. paidAdmitted \in [Users -> Nat]
    BY DEF LedgerInv, TypeOK
  <2>2. PICK k \in Keys, e \in Endpoints, d \in BOOLEAN : Admit(k, e, d)
    <3> SUFFICES ASSUME ~\E k \in Keys, e \in Endpoints, d \in BOOLEAN : Admit(k, e, d)
                 PROVE  FALSE
      OBVIOUS
    <3>1. CASE Authorize
      <4>1. paidAdmitted' = paidAdmitted
        BY <3>1 DEF Authorize, Refuse, RateLimited, QuotaExceeded, SiteAdmit, SiteRateLimited, vars, history
      <4> QED BY <2>1, <4>1
    <3>2. CASE AccountChange \/ prune
      <4>1. paidAdmitted' = paidAdmitted
        BY <3>2 DEF AccountChange, activateFreeTier, lockUser, enableUser, GrantPlan, revoke, prune, history
      <4> QED BY <2>1, <4>1
    <3>3. CASE Tick
      <4>1. paidAdmitted'[u] = paidAdmitted[u] \/ paidAdmitted'[u] = 0
        BY <3>3 DEF Tick
      <4> QED BY <2>1, <4>1
    <3> QED BY <3>1, <3>2, <3>3 DEF Next
  <2> DEFINE plan == activePlan(OwnerOf[k])
             row == QuotaRow(<<"paid", "tenant", u>>, Month)
  <2>3. u = OwnerOf[k] /\ plan # NoPlan /\ paidAdmitted'[u] = paidAdmitted[u] + 1
    BY <2>1, <2>2 DEF Admit
  <2>4. row \in QuotaRows(k, e, plan)
    BY <2>3, ChargedTenant DEF Prefix
  <2>5. Count(quotas, row) + 1 <= MonthlyRequests[plan]
    BY <2>2, <2>3, <2>4 DEF Admit, QuotaAdmits, QuotaLimit
  <2>6. paidAdmitted[u] <= Count(quotas, row) /\ Count(quotas, row) \in Nat
    BY CountIsNat DEF LedgerInv, PaidIsCharged, TypeOK, IsTable
  <2>7. MonthlyRequests[plan] \in Nat
    <3>1. account[u] \in Account
      BY DEF LedgerInv, TypeOK
    <3>2. plan \in Plans
      BY <2>3, <3>1 DEF activePlan, Account
    <3> QED BY <3>2, PlansAssumption
  <2> HIDE DEF plan, row
  <2>8. paidAdmitted'[u] <= MonthlyRequests[plan]
    BY <2>1, <2>3, <2>5, <2>6, <2>7
  <2> QED BY <2>3, <2>8 DEF plan
<1> QED BY <1>1, LedgerInvariance, PTL DEF Spec, MonthlyAllowance

---------------------------------------------------------------------------
(* The allowance the dashboard shows is the one authorize goes by.  Several  *)
(* rows may refuse a paid request; the account's own of this month counts no *)
(* less than any of them.                                                    *)

\* What a bucket counts today is a part of what it counts this month.
DaysAreInMonths ==
    \A bucket : Count(quotas, QuotaRow(bucket, Day)) <= Count(quotas, QuotaRow(bucket, Month))

ShownInv == LedgerInv /\ DaysAreInMonths

LEMMA QuotaIsTable == ASSUME TypeOK PROVE IsTable(quotas) /\ \A row : Count(quotas, row) \in Nat
<1>1. IsTable(quotas)
  BY DEF TypeOK, IsTable
<1> QED BY <1>1, CountIsNat

LEMMA TickKeepsDays ==
    ASSUME ShownInv, Tick
    PROVE  DaysAreInMonths'
<1>1. now \in Nat /\ now' = now + 1 /\ quotas' = quotas
  BY DEF ShownInv, LedgerInv, TypeOK, Tick
<1>2. /\ quotaPeriod(Month) = WindowStart(now, MonthLength) /\ quotaPeriod(Day) = WindowStart(now, DayLength)
      /\ quotaPeriod(Month)' = WindowStart(now + 1, MonthLength)
      /\ quotaPeriod(Day)' = WindowStart(now + 1, DayLength)
  BY <1>1 DEF quotaPeriod, Day, Month
<1>3. CASE WindowStart(now + 1, DayLength) = WindowStart(now, DayLength)
  <2>1. PICK n \in Nat \ {0} : MonthLength = n * DayLength
    BY CalendarAssumption, NumbersAssumption
  <2>2. WindowStart(now + 1, MonthLength) = WindowStart(now, MonthLength)
    BY <1>1, <1>3, <2>1, NestedWindows, NumbersAssumption
  <2>3. \A bucket, period : period \in Periods => QuotaRow(bucket, period)' = QuotaRow(bucket, period)
    BY <1>2, <1>3, <2>2 DEF QuotaRow, Periods
  <2> QED BY <1>1, <2>3 DEF ShownInv, DaysAreInMonths, Periods
<1>4. CASE WindowStart(now + 1, DayLength) # WindowStart(now, DayLength)
  <2>1. quotaPeriod(Day)' > now /\ quotaPeriod(Day)' \in Nat
    BY <1>1, <1>2, <1>4, WindowAfter, WindowStartIsNat, NumbersAssumption
  <2>2. ASSUME NEW bucket
        PROVE  Count(quotas', QuotaRow(bucket, Day)') = 0 /\ Count(quotas', QuotaRow(bucket, Month)') \in Nat
    <3>1. QuotaRow(bucket, Day)' \notin DOMAIN quotas
      <4> SUFFICES ASSUME QuotaRow(bucket, Day)' \in DOMAIN quotas PROVE FALSE
        OBVIOUS
      <4>1. QuotaRow(bucket, Day)'[3] = quotaPeriod(Day)'
        BY DEF QuotaRow
      <4>2. quotaPeriod(Day)' <= now
        BY <4>1 DEF ShownInv, LedgerInv, NoRowsAhead
      <4> QED BY <1>1, <2>1, <4>2
    <3>2. \A row : Count(quotas, row) \in Nat
      BY QuotaIsTable DEF ShownInv, LedgerInv
    <3> QED BY <1>1, <3>1, <3>2 DEF Count
  <2>3. ASSUME NEW bucket
        PROVE  Count(quotas', QuotaRow(bucket, Day)') <= Count(quotas', QuotaRow(bucket, Month)')
    BY <2>2
  <2> QED BY <2>3 DEF DaysAreInMonths
<1> QED BY <1>3, <1>4

\* This month's rows are not pruned, and a pruned row counts nothing.
LEMMA PruneKeepsDays ==
    ASSUME ShownInv, prune
    PROVE  DaysAreInMonths'
<1>1. TypeOK /\ IsTable(quotas) /\ now \in Nat /\ now' = now
  BY QuotaIsTable DEF ShownInv, LedgerInv, TypeOK, prune
<1>2. PICK batch \in Batches(ExpiredQuotas, 3, BATCH) : quotas' = Without(quotas, batch)
  BY DEF prune
<1>3. \A bucket : QuotaRow(bucket, Month) \notin batch
  <2>1. \A bucket : QuotaRow(bucket, Month)[3] = quotaPeriod(Month)
    BY DEF QuotaRow
  <2>2. ~(quotaPeriod(Month) < now - QuotaRetention)
    BY <1>1, MonthBegan, RetentionAssumption, NumbersAssumption
  <2> QED BY <2>1, <2>2, BatchIsExpired DEF ExpiredQuotas
<1>4. \A row : /\ Count(quotas, row) \in Nat
               /\ Count(quotas', row) = IF row \in batch THEN 0 ELSE Count(quotas, row)
  BY <1>1, <1>2, CountWithout, QuotaIsTable
<1>5. \A bucket, period : QuotaRow(bucket, period)' = QuotaRow(bucket, period)
  BY <1>1 DEF QuotaRow, quotaPeriod
<1>6. ASSUME NEW bucket
      PROVE  Count(quotas', QuotaRow(bucket, Day)) <= Count(quotas', QuotaRow(bucket, Month))
  <2>1. Count(quotas, QuotaRow(bucket, Day)) <= Count(quotas, QuotaRow(bucket, Month))
    BY DEF ShownInv, DaysAreInMonths
  <2> QED BY <1>3, <1>4, <2>1
<1> QED BY <1>5, <1>6 DEF DaysAreInMonths

\* A charge of a bucket's day is a charge of its month.
LEMMA AdmitKeepsDays ==
    ASSUME ShownInv, NEW k, NEW e, NEW d, Admit(k, e, d)
    PROVE  DaysAreInMonths'
<1> DEFINE rows == QuotaRows(k, e, activePlan(OwnerOf[k]))
<1>1. TypeOK /\ IsTable(quotas) /\ now' = now /\ quotas' = AddTo(quotas, rows, 1)
  BY QuotaIsTable DEF ShownInv, LedgerInv, Admit, ChargeQuotas
<1>2. \A row : /\ Count(quotas, row) \in Nat
               /\ Count(quotas', row) = Count(quotas, row) + (IF row \in rows THEN 1 ELSE 0)
  BY <1>1, CountAddTo, QuotaIsTable
<1>3. \A bucket : QuotaRow(bucket, Day) \in rows => QuotaRow(bucket, Month) \in rows
  BY DEF QuotaRows, QuotaRow, Periods, Day, Month
<1>4. \A bucket, period : QuotaRow(bucket, period)' = QuotaRow(bucket, period)
  BY <1>1 DEF QuotaRow, quotaPeriod
<1> HIDE DEF rows
<1>5. ASSUME NEW bucket
      PROVE  Count(quotas', QuotaRow(bucket, Day)) <= Count(quotas', QuotaRow(bucket, Month))
  <2>1. Count(quotas, QuotaRow(bucket, Day)) <= Count(quotas, QuotaRow(bucket, Month))
    BY DEF ShownInv, DaysAreInMonths
  <2> QED BY <1>2, <1>3, <2>1
<1> QED BY <1>4, <1>5 DEF DaysAreInMonths

LEMMA ShownInitially == Init => ShownInv
<1> SUFFICES ASSUME Init PROVE ShownInv
  OBVIOUS
<1>1. \A row : Count(quotas, row) = 0
  BY DEF Init, EmptyTable, Count
<1> QED BY <1>1, LedgerInitially DEF ShownInv, DaysAreInMonths

LEMMA ShownStep == ShownInv /\ [Next]_vars => ShownInv'
<1> SUFFICES ASSUME ShownInv, [Next]_vars PROVE ShownInv'
  OBVIOUS
<1>1. LedgerInv'
  BY LedgerStep DEF ShownInv
<1>2. ASSUME UNCHANGED <<now, quotas>> PROVE DaysAreInMonths'
  <2>1. \A bucket, period : QuotaRow(bucket, period)' = QuotaRow(bucket, period)
    BY <1>2 DEF QuotaRow, quotaPeriod
  <2> QED BY <1>2, <2>1 DEF ShownInv, DaysAreInMonths
<1>3. CASE UNCHANGED vars
  BY <1>1, <1>2, <1>3 DEF ShownInv, vars
<1>4. CASE Authorize
  <2>1. ASSUME NEW k \in Keys, NEW e \in Endpoints, NEW d \in BOOLEAN, Admit(k, e, d) PROVE DaysAreInMonths'
    BY <2>1, AdmitKeepsDays
  <2>2. CASE ~\E k \in Keys, e \in Endpoints, d \in BOOLEAN : Admit(k, e, d)
    <3>1. UNCHANGED <<now, quotas>>
      BY <1>4, <2>2 DEF Authorize, Refuse, RateLimited, QuotaExceeded, SiteAdmit, SiteRateLimited, vars
    <3> QED BY <1>1, <1>2, <3>1 DEF ShownInv
  <2> QED BY <1>1, <2>1, <2>2 DEF ShownInv
<1>5. CASE AccountChange
  <2>1. UNCHANGED <<now, quotas>>
    BY <1>5 DEF AccountChange, activateFreeTier, lockUser, enableUser, GrantPlan, revoke
  <2> QED BY <1>1, <1>2, <2>1 DEF ShownInv
<1> QED BY <1>1, <1>3, <1>4, <1>5, PruneKeepsDays, TickKeepsDays DEF Next, ShownInv

\* No row that may refuse a paid request counts more than the account's own of the month.
LEMMA AccountCountsMost ==
    ASSUME ShownInv, NEW k \in Keys, NEW e \in Endpoints, NEW plan, NEW row \in QuotaRows(k, e, plan)
    PROVE  Count(quotas, row) <= Count(quotas, QuotaRow(<<Prefix(plan), "tenant", OwnerOf[k]>>, Month))
<1> DEFINE u == OwnerOf[k]
           prefix == Prefix(plan)
           keyRow == QuotaRow(<<prefix, "key", k>>, Month)
           endpointRow == QuotaRow(<<prefix, "tenant-endpoint", u, e>>, Month)
           tenant == QuotaRow(<<prefix, "tenant", u>>, Month)
<1>1. u \in Users /\ prefix \in {"free", "paid"} /\ \A r : Count(quotas, r) \in Nat
  BY KeysAssumption, QuotaIsTable DEF ShownInv, LedgerInv, Prefix
<1>2. /\ Count(quotas, tenant) = Total(quotas, KeyRows(prefix, u))
      /\ Count(quotas, tenant) = Total(quotas, EndpointRows(prefix, u))
      /\ IsFiniteSet(Units(quotas, KeyRows(prefix, u)))
      /\ IsFiniteSet(Units(quotas, EndpointRows(prefix, u)))
  BY <1>1 DEF ShownInv, LedgerInv, LedgerAgrees, LedgerIsFinite
<1>3. keyRow \in KeyRows(prefix, u) /\ endpointRow \in EndpointRows(prefix, u)
  BY DEF KeyRows, EndpointRows
<1>4. row \in {keyRow, endpointRow, tenant, QuotaRow(<<prefix, "key", k>>, Day), QuotaRow(<<prefix, "tenant", u>>, Day)}
  BY DEF QuotaRows, Periods
<1>5. /\ Count(quotas, QuotaRow(<<prefix, "key", k>>, Day)) <= Count(quotas, keyRow)
      /\ Count(quotas, QuotaRow(<<prefix, "tenant", u>>, Day)) <= Count(quotas, tenant)
  BY DEF ShownInv, DaysAreInMonths
<1> HIDE DEF keyRow, endpointRow, tenant, u, prefix
<1>6. Count(quotas, keyRow) <= Total(quotas, KeyRows(prefix, u))
  BY <1>1, <1>2, <1>3, PartOfTotal
<1>7. Count(quotas, endpointRow) <= Total(quotas, EndpointRows(prefix, u))
  BY <1>1, <1>2, <1>3, PartOfTotal
<1>8. Count(quotas, row) <= Count(quotas, tenant)
  BY <1>1, <1>2, <1>4, <1>5, <1>6, <1>7
<1> QED BY <1>8 DEF tenant, u, prefix

\* While the allowance an account is shown is not used up no quota refuses it, and when it
\* is every one of its requests is refused, for any keys, endpoints, plans and periods.
THEOREM AllowanceShownIsUsableHolds == Spec => []AllowanceShownIsUsable
<1>1. IInv /\ ShownInv => AllowanceShownIsUsable
  <2> SUFFICES ASSUME IInv, ShownInv, NEW k \in Keys, NEW e \in Endpoints, hasKeyAccess(OwnerOf[k])
               PROVE  QuotaAdmits(k, e, activePlan(OwnerOf[k]))
                        <=> monthlyQuota(OwnerOf[k]).used < monthlyQuota(OwnerOf[k]).limit
    BY DEF AllowanceShownIsUsable
  <2> DEFINE u == OwnerOf[k]
             plan == activePlan(u)
             tenant == QuotaRow(<<"paid", "tenant", u>>, Month)
  <2>1. CASE plan = NoPlan
    <3>1. freeRequestsRemain(u)
      BY <2>1 DEF hasKeyAccess
    <3>2. QuotaAdmits(k, e, NoPlan)
      BY <3>1, FreeRowsAdmit DEF FreeAllowanceUsable
    <3> QED BY <2>1, <3>1, <3>2 DEF monthlyQuota, freeRequestsRemain
  <2>2. CASE plan # NoPlan
    <3>1. /\ monthlyQuota(u).used = Count(quotas, tenant)
          /\ monthlyQuota(u).limit = MonthlyRequests[plan]
          /\ \A row : QuotaLimit(row, plan) = MonthlyRequests[plan]
          /\ Prefix(plan) = "paid"
      BY <2>2 DEF monthlyQuota, QuotaLimit, Prefix
    <3>2. MonthlyRequests[plan] \in Nat
      <4>1. u \in Users /\ account[u] \in Account
        BY KeysAssumption DEF IInv, TypeOK
      <4>2. plan \in Plans
        BY <2>2, <4>1 DEF activePlan, Account
      <4> QED BY <4>2, PlansAssumption
    <3>3. \A row : Count(quotas, row) \in Nat
      BY QuotaIsTable DEF IInv
    <3>4. tenant \in QuotaRows(k, e, plan)
      BY <3>1, ChargedTenant
    <3>5. \A row \in QuotaRows(k, e, plan) : Count(quotas, row) <= Count(quotas, tenant)
      BY <3>1, AccountCountsMost
    <3>6. QuotaAdmits(k, e, plan) <=> \A row \in QuotaRows(k, e, plan) : Count(quotas, row) + 1 <= MonthlyRequests[plan]
      BY <3>1 DEF QuotaAdmits
    <3> HIDE DEF tenant, plan, u
    <3>7. (\A row \in QuotaRows(k, e, plan) : Count(quotas, row) + 1 <= MonthlyRequests[plan])
            <=> Count(quotas, tenant) + 1 <= MonthlyRequests[plan]
      BY <3>2, <3>3, <3>4, <3>5
    <3>8. Count(quotas, tenant) \in Nat
      BY <3>3
    <3>9. Count(quotas, tenant) + 1 <= MonthlyRequests[plan] <=> Count(quotas, tenant) < MonthlyRequests[plan]
      BY <3>2, <3>8
    <3> QED BY <3>1, <3>6, <3>7, <3>9 DEF u, plan
  <2> QED BY <2>1, <2>2
<1> QED BY <1>1, Invariance, ShownInitially, ShownStep, PTL DEF Spec
=============================================================================
