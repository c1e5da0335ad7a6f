-------------------------- MODULE GitWorkTreeProofs --------------------------
(***************************************************************************)
(* Proofs about GitWorkTree, for any number of callers, any time to live   *)
(* of more than one renewal period and any number of failures.             *)
(***************************************************************************)
EXTENDS GitWorkTree, TLAPS

------------------------------------------------------------------------------
(***************************************************************************)
(* The steps, by what they do to the lease. The steps on the tree and the  *)
(* checks leave the lease alone; the bracket is left in one way.           *)
(***************************************************************************)

\* The steps of caller u on the tree.
TreeStep(u) ==
  \/ OpenTree(u) \/ Checkout(u) \/ Write(u) \/ Commit(u) \/ Push(u)
  \/ PinReviewed(u) \/ ReadConfig(u) \/ GitFails(u) \/ Restore(u)

\* Its checks before a commit or a push, which leave the tree alone.
CheckStep(u) == CheckBeforeCommit(u) \/ CheckBeforePush(u) \/ Refused(u)

\* Such a step goes from one place inside the bracket to another.
Work(u) ==
  /\ pc[u] \in Inside
  /\ \E p \in Inside : Goto(u, p)
  /\ UNCHANGED intruded \/ Touch(u)
  /\ UNCHANGED <<key, ttl, redis, kind, lease, due, proc, faults, disturbed, away>>
  /\ head' \in {head, u, Main}
  /\ dirty' \subseteq dirty \cup {u}
  /\ stray' = stray \/ Use(u)
  /\ late' = late \/ EnsureHeld(u)

\* Caller u leaves its bracket, or never gets into one.
Leave(u) ==
  /\ pc[u] \in {"wait", "release"}
  /\ End(u)
  /\ \/ UNCHANGED <<key, ttl>>
     \/ pc[u] = "release" /\ key = u /\ key' = NoUser /\ ttl' = 0
  /\ UNCHANGED <<redis, head, dirty, faults>>

\* A key exists as long as it has time to live.
Timed == key = NoUser <=> ttl = 0

LEMMA WorkSteps ==
  ASSUME NEW u \in Users, TreeStep(u)
  PROVE  Work(u) /\ Touch(u)
<1> USE DEF Work, At, Goto, Inside, lockVars, treeVars
<1>1. ASSUME OpenTree(u) PROVE Work(u) /\ Touch(u)
  BY <1>1 DEF OpenTree, OpenedHead
<1>2. ASSUME Checkout(u) PROVE Work(u) /\ Touch(u)
  BY <1>2 DEF Checkout
<1>3. ASSUME Write(u) PROVE Work(u) /\ Touch(u)
  BY <1>3 DEF Write
<1>4. ASSUME Commit(u) PROVE Work(u) /\ Touch(u)
  BY <1>4 DEF Commit
<1>5. ASSUME Push(u) PROVE Work(u) /\ Touch(u)
  BY <1>5 DEF Push
<1>6. ASSUME PinReviewed(u) PROVE Work(u) /\ Touch(u)
  BY <1>6 DEF PinReviewed
<1>7. ASSUME ReadConfig(u) PROVE Work(u) /\ Touch(u)
  BY <1>7 DEF ReadConfig
<1>8. ASSUME GitFails(u) PROVE Work(u) /\ Touch(u)
  BY <1>8 DEF GitFails, Unwound
<1>9. ASSUME Restore(u) PROVE Work(u) /\ Touch(u)
  BY <1>9 DEF Restore, MayReturnToMain
<1> QED
  BY <1>1, <1>2, <1>3, <1>4, <1>5, <1>6, <1>7, <1>8, <1>9 DEF TreeStep

LEMMA CheckSteps ==
  ASSUME NEW u \in Users, CheckStep(u)
  PROVE  Work(u) /\ UNCHANGED <<head, dirty, stray, intruded>>
<1> USE DEF Work, At, Goto, Inside, lockVars, treeVars, ghosts
<1>1. ASSUME CheckBeforeCommit(u) PROVE Work(u) /\ UNCHANGED <<head, dirty, stray, intruded>>
  BY <1>1 DEF CheckBeforeCommit
<1>2. ASSUME CheckBeforePush(u) PROVE Work(u) /\ UNCHANGED <<head, dirty, stray, intruded>>
  BY <1>2 DEF CheckBeforePush
<1>3. ASSUME Refused(u) PROVE Work(u) /\ UNCHANGED <<head, dirty, stray, intruded>>
  BY <1>3 DEF Refused, Unwound
<1> QED
  BY <1>1, <1>2, <1>3 DEF CheckStep

LEMMA LeaveSteps ==
  ASSUME Timed, NEW u \in Users, NoCache(u) \/ GiveUp(u) \/ Release(u)
  PROVE  Leave(u)
<1> USE DEF Leave, At, lockVars, treeVars
<1>1. ASSUME NoCache(u) PROVE Leave(u)
  BY <1>1 DEF NoCache
<1>2. ASSUME GiveUp(u) PROVE Leave(u)
  BY <1>2 DEF GiveUp
<1>3. ASSUME Release(u) PROVE Leave(u)
  <2>1. /\ pc[u] = "release" /\ End(u) /\ UNCHANGED <<redis, head, dirty, faults>>
        /\ key' = IF redis = "up" THEN KeyAfterRelease(u) ELSE key
        /\ ttl' = IF key' = NoUser THEN 0 ELSE ttl
    BY <1>3 DEF Release
  <2>2. CASE key' = key
    BY <2>1, <2>2 DEF Timed
  <2>3. CASE key' # key
    BY <2>1, <2>3 DEF KeyAfterRelease
  <2> QED
    BY <2>2, <2>3
<1> QED
  BY <1>1, <1>2, <1>3

\* The steps of the specification in these terms.
LEMMA Steps ==
  ASSUME Timed, [Next]_vars
  PROVE  \/ \E u \in Users :
              \/ Begin(u) \/ Acquire(u) \/ Leave(u) \/ Renew(u) \/ Work(u)
              \/ Stall(u) \/ Resume(u) \/ Crash(u)
         \/ Tick \/ RedisFails \/ RedisReturns \/ ClearCache
         \/ UNCHANGED vars
BY WorkSteps, CheckSteps, LeaveSteps DEF Next, UserStep, TreeStep, CheckStep

------------------------------------------------------------------------------
(***************************************************************************)
(* Types. The lifetime of the key needs Timed: only a key that exists      *)
(* ages.                                                                   *)
(***************************************************************************)

Pcs == {"idle", "wait", "dead"} \cup Inside

\* The lease, the callers, the tree, and the history.
LockOK ==
  /\ key \in Users \cup {NoUser}
  /\ ttl \in 0 .. TTL
  /\ redis \in {"up", "down"}
  /\ Timed

CallersOK ==
  /\ kind \in [Users -> Kinds \cup {"none"}]
  /\ pc \in [Users -> Pcs]
  /\ lease \in [Users -> {"none", "held", "lost"}]
  /\ due \in [Users -> 0 .. 1]
  /\ proc \in [Users -> {"up", "stalled"}]

TreeOK ==
  /\ head \in Users \cup {Main}
  /\ dirty \in SUBSET Users
  /\ faults \in 0 .. MaxFaults

HistoryOK ==
  /\ disturbed \in SUBSET Users
  /\ away \in [Users -> 0 .. 2]
  /\ late \in {"no", "yes"}
  /\ intruded \in {"no", "yes"}
  /\ stray \in {"no", "yes"}

IType == LockOK /\ CallersOK /\ TreeOK /\ HistoryOK

LEMMA ITypeGivesType == IType => TypeOK
BY DEF IType, LockOK, CallersOK, TreeOK, HistoryOK, TypeOK, Pcs

LEMMA TypeInit == Init => IType
<1> USE UsersAssumption, TimesAssumption DEF Init
<1>1. Init => LockOK
  BY DEF LockOK, Timed
<1>2. Init => CallersOK
  BY DEF CallersOK, Pcs
<1>3. Init => TreeOK
  BY DEF TreeOK
<1>4. Init => HistoryOK
  BY DEF HistoryOK
<1> QED
  BY <1>1, <1>2, <1>3, <1>4 DEF IType

LEMMA PartsKept ==
  /\ LockOK /\ UNCHANGED <<key, ttl, redis>> => LockOK'
  /\ CallersOK /\ UNCHANGED <<kind, pc, lease, due, proc>> => CallersOK'
  /\ TreeOK /\ UNCHANGED <<head, dirty, faults>> => TreeOK'
  /\ HistoryOK /\ UNCHANGED <<disturbed, away, late, intruded, stray>> => HistoryOK'
BY DEF LockOK, Timed, CallersOK, TreeOK, HistoryOK

LEMMA TypeStep ==
  ASSUME IType, [Next]_vars
  PROVE  IType'
<1>0. LockOK /\ CallersOK /\ TreeOK /\ HistoryOK /\ Timed
  BY DEF IType, LockOK
<1>1. ASSUME NEW u \in Users, Begin(u) PROVE IType'
  <2>1. CallersOK'
    BY <1>0, <1>1 DEF Begin, CallersOK, Goto, Pcs
  <2> QED
    BY <1>0, <1>1, <2>1, PartsKept DEF Begin, IType, vars, lockVars, userVars, treeVars, ghosts
<1>2. ASSUME NEW u \in Users, Acquire(u) PROVE IType'
  <2>1. LockOK'
    BY <1>0, <1>2, UsersAssumption, TimesAssumption DEF Acquire, LockOK, Timed
  <2>2. CallersOK'
    BY <1>0, <1>2 DEF Acquire, CallersOK, Goto, Pcs, Inside
  <2> QED
    BY <1>0, <1>2, <2>1, <2>2, PartsKept DEF Acquire, IType, vars, lockVars, userVars, treeVars, ghosts
<1>3. ASSUME NEW u \in Users, Leave(u) PROVE IType'
  <2>1. LockOK'
    BY <1>0, <1>3, TimesAssumption DEF Leave, LockOK, Timed
  <2>2. CallersOK'
    BY <1>0, <1>3 DEF Leave, CallersOK, End, Goto, Pcs
  <2>3. HistoryOK'
    BY <1>0, <1>3 DEF Leave, HistoryOK, End
  <2> QED
    BY <1>0, <1>3, <2>1, <2>2, <2>3, PartsKept DEF Leave, IType, vars, lockVars, userVars, treeVars, ghosts
<1>4. ASSUME NEW u \in Users, Renew(u) PROVE IType'
  <2>1. LockOK'
    BY <1>0, <1>4, UsersAssumption, TimesAssumption DEF Renew, LockOK, Timed, RenewedLease, RenewedTTL
  <2>2. CallersOK'
    BY <1>0, <1>4 DEF Renew, CallersOK, RenewedLease
  <2> QED
    BY <1>0, <1>4, <2>1, <2>2, PartsKept DEF Renew, IType, vars, lockVars, userVars, treeVars, ghosts
<1>5. ASSUME NEW u \in Users, Work(u) PROVE IType'
  <2>1. CallersOK'
    BY <1>0, <1>5 DEF Work, CallersOK, Goto, Pcs
  <2>2. TreeOK'
    BY <1>0, <1>5 DEF Work, TreeOK
  <2>3. HistoryOK'
    BY <1>0, <1>5 DEF Work, HistoryOK, Touch, Use, EnsureHeld
  <2> QED
    BY <1>0, <1>5, <2>1, <2>2, <2>3, PartsKept DEF Work, IType, vars, lockVars, userVars, treeVars, ghosts
<1>6. ASSUME NEW u \in Users, Stall(u) PROVE IType'
  <2>1. CallersOK'
    BY <1>0, <1>6 DEF Stall, CallersOK
  <2>2. TreeOK'
    BY <1>0, <1>6, TimesAssumption DEF Stall, TreeOK, Fault, treeVars
  <2>3. HistoryOK'
    BY <1>0, <1>6 DEF Stall, HistoryOK
  <2> QED
    BY <1>0, <1>6, <2>1, <2>2, <2>3, PartsKept DEF Stall, IType, vars, lockVars, userVars, treeVars, ghosts
<1>7. ASSUME NEW u \in Users, Resume(u) PROVE IType'
  <2>1. CallersOK'
    BY <1>0, <1>7 DEF Resume, CallersOK
  <2>2. HistoryOK'
    BY <1>0, <1>7 DEF Resume, HistoryOK
  <2> QED
    BY <1>0, <1>7, <2>1, <2>2, PartsKept DEF Resume, IType, vars, lockVars, userVars, treeVars, ghosts
<1>8. ASSUME NEW u \in Users, Crash(u) PROVE IType'
  <2>1. CallersOK'
    BY <1>0, <1>8 DEF Crash, CallersOK, Goto, Pcs
  <2>2. TreeOK'
    BY <1>0, <1>8, TimesAssumption DEF Crash, TreeOK, Fault, treeVars
  <2> QED
    BY <1>0, <1>8, <2>1, <2>2, PartsKept DEF Crash, IType, vars, lockVars, userVars, treeVars, ghosts
<1>9. ASSUME Tick PROVE IType'
  <2>1. LockOK'
    BY <1>0, <1>9, TimesAssumption DEF Tick, LockOK, Timed, Aged
  <2>2. CallersOK'
    BY <1>0, <1>9 DEF Tick, CallersOK
  <2>3. HistoryOK'
    BY <1>0, <1>9 DEF Tick, HistoryOK
  <2> QED
    BY <1>0, <1>9, <2>1, <2>2, <2>3, PartsKept DEF Tick, IType, vars, lockVars, userVars, treeVars, ghosts
<1>10. ASSUME RedisFails PROVE IType'
  <2>1. LockOK'
    BY <1>0, <1>10 DEF RedisFails, LockOK, Timed
  <2>2. TreeOK'
    BY <1>0, <1>10, TimesAssumption DEF RedisFails, TreeOK, Fault, treeVars
  <2>3. HistoryOK'
    BY <1>0, <1>10 DEF RedisFails, HistoryOK
  <2> QED
    BY <1>0, <1>10, <2>1, <2>2, <2>3, PartsKept DEF RedisFails, IType, vars, lockVars, userVars, treeVars, ghosts
<1>11. ASSUME RedisReturns PROVE IType'
  <2>1. LockOK'
    BY <1>0, <1>11 DEF RedisReturns, LockOK, Timed
  <2> QED
    BY <1>0, <1>11, <2>1, PartsKept DEF RedisReturns, IType, vars, lockVars, userVars, treeVars, ghosts
<1>12. ASSUME ClearCache PROVE IType'
  <2>1. LockOK'
    BY <1>0, <1>12, TimesAssumption DEF ClearCache, LockOK, Timed
  <2>2. TreeOK'
    BY <1>0, <1>12, TimesAssumption DEF ClearCache, TreeOK, Fault, treeVars
  <2>3. HistoryOK'
    BY <1>0, <1>12, <1>0 DEF ClearCache, HistoryOK, LockOK
  <2> QED
    BY <1>0, <1>12, <2>1, <2>2, <2>3, PartsKept DEF ClearCache, IType, vars, lockVars, userVars, treeVars, ghosts
<1>13. ASSUME UNCHANGED vars PROVE IType'
  BY <1>0, <1>13, PartsKept DEF vars, IType, lockVars, userVars, treeVars, ghosts
<1> QED
  BY <1>0, Steps,
    <1>1, <1>2, <1>3, <1>4, <1>5, <1>6, <1>7, <1>8, <1>9, <1>10,
    <1>11, <1>12, <1>13

\* Every reachable state is well typed; in particular the key's lifetime stays
\* within the time to live, however often it is renewed, and never runs below
\* zero, since only a key that exists ages.
THEOREM TypeCorrect == Spec => []TypeOK
<1>1. Spec => []IType
  BY TypeInit, TypeStep, PTL DEF Spec
<1> QED
  BY <1>1, ITypeGivesType, PTL

------------------------------------------------------------------------------
(***************************************************************************)
(* The lease of a holder that is not disturbed. Its renewing thread is     *)
(* never more than one period late, so that the key, once renewed, outlives *)
(* the period: TTL > 1.                                                    *)
(***************************************************************************)

Protected ==
  \A u \in Users \ disturbed :
    pc[u] \in Inside =>
      /\ lease[u] = "held" /\ key = u
      /\ proc[u] = "up" /\ redis = "up"
      /\ ttl + due[u] >= TTL

LEMMA ProtectedInit == Init => Protected
BY DEF Init, Protected, Inside

LEMMA ProtectedStep ==
  ASSUME IType, Protected, [Next]_vars
  PROVE  Protected'
<1>0. /\ Timed /\ pc \in [Users -> Pcs] /\ lease \in [Users -> {"none", "held", "lost"}]
      /\ due \in [Users -> 0 .. 1] /\ proc \in [Users -> {"up", "stalled"}]
      /\ ttl \in 0 .. TTL
  BY DEF IType, LockOK, CallersOK
<1>1. ASSUME NEW u \in Users, Begin(u) PROVE Protected'
  BY <1>0, <1>1 DEF Begin, Protected, Goto, At, Inside, lockVars, ghosts
<1>2. ASSUME NEW u \in Users, Acquire(u) PROVE Protected'
  <2>1. /\ key = NoUser /\ key' = u /\ ttl' = TTL /\ redis = "up" /\ redis' = redis
        /\ pc' = [pc EXCEPT ![u] = "open"] /\ lease' = [lease EXCEPT ![u] = "held"]
        /\ proc[u] = "up" /\ UNCHANGED <<due, proc, disturbed>>
    BY <1>2 DEF Acquire, At, Goto, ghosts
  <2>2. \A v \in Users \ disturbed : pc[v] \notin Inside
    BY <2>1, UsersAssumption DEF Protected
  <2>3. \A v \in Users : v # u => pc'[v] = pc[v]
    BY <1>0, <2>1
  <2>4. lease'[u] = "held" /\ due'[u] >= 0 /\ TTL + due'[u] >= TTL
    BY <1>0, <2>1, TimesAssumption
  <2> QED
    BY <2>1, <2>2, <2>3, <2>4 DEF Protected
<1>3. ASSUME NEW u \in Users, Leave(u) PROVE Protected'
  <2>1. /\ pc' = [pc EXCEPT ![u] = "idle"] /\ disturbed' = disturbed \ {u}
        /\ lease' = [lease EXCEPT ![u] = "none"] /\ due' = [due EXCEPT ![u] = 0]
        /\ UNCHANGED <<proc, redis>>
        /\ UNCHANGED <<key, ttl>> \/ key = u
    BY <1>3 DEF Leave, End, Goto
  <2>2. pc'[u] \notin Inside
    BY <1>0, <2>1 DEF Inside
  <2>3. \A v \in Users : v # u => /\ pc'[v] = pc[v] /\ lease'[v] = lease[v]
                                 /\ due'[v] = due[v]
    BY <1>0, <2>1
  <2> QED
    BY <2>1, <2>2, <2>3 DEF Protected
<1>4. ASSUME NEW u \in Users, Renew(u) PROVE Protected'
  <2>1. /\ lease' = [lease EXCEPT ![u] = RenewedLease(u)] /\ due' = [due EXCEPT ![u] = 0]
        /\ ttl' = IF redis = "up" /\ key = u THEN TTL ELSE ttl
        /\ UNCHANGED <<key, redis, pc, proc, disturbed>>
    BY <1>4 DEF Renew, RenewedTTL, ghosts
  <2>2. \A v \in Users : v # u => lease'[v] = lease[v] /\ due'[v] = due[v]
    BY <1>0, <2>1
  <2>3. due'[u] = 0 /\ (redis = "up" /\ key = u => lease'[u] = "held" /\ ttl' = TTL)
    BY <1>0, <2>1 DEF RenewedLease
  <2>4. key # u => ttl' = ttl
    BY <2>1
  <2> QED
    BY <2>1, <2>2, <2>3, <2>4, TimesAssumption DEF Protected
<1>5. ASSUME NEW u \in Users, Work(u) PROVE Protected'
  <2>1. UNCHANGED <<key, ttl, redis, lease, due, proc, disturbed>> /\ pc[u] \in Inside
    BY <1>5 DEF Work
  <2>2. \A v \in Users : v # u => pc'[v] = pc[v]
    BY <1>0, <1>5 DEF Work, Goto
  <2> QED
    BY <2>1, <2>2 DEF Protected
<1>6. ASSUME NEW u \in Users, Stall(u) PROVE Protected'
  <2>1. /\ disturbed' = disturbed \cup {u} /\ proc' = [proc EXCEPT ![u] = "stalled"]
        /\ UNCHANGED <<key, ttl, redis, pc, lease, due>>
    BY <1>6 DEF Stall, lockVars
  <2>2. \A v \in Users : v # u => proc'[v] = proc[v]
    BY <1>0, <2>1
  <2> QED
    BY <2>1, <2>2 DEF Protected
<1>7. ASSUME NEW u \in Users, Resume(u) PROVE Protected'
  <2>1. /\ UNCHANGED <<key, ttl, redis, pc, lease, due, disturbed>>
        /\ proc' = [proc EXCEPT ![u] = "up"]
    BY <1>7 DEF Resume, lockVars
  <2>2. \A v \in Users : proc[v] = "up" => proc'[v] = "up"
    BY <1>0, <2>1
  <2> QED
    BY <2>1, <2>2 DEF Protected
<1>8. ASSUME NEW u \in Users, Crash(u) PROVE Protected'
  <2>1. /\ pc' = [pc EXCEPT ![u] = "dead"]
        /\ lease' = [lease EXCEPT ![u] = "none"] /\ due' = [due EXCEPT ![u] = 0]
        /\ UNCHANGED <<key, ttl, redis, proc, disturbed>>
    BY <1>8 DEF Crash, Goto, lockVars, ghosts
  <2>2. pc'[u] \notin Inside
    BY <1>0, <2>1 DEF Inside
  <2>3. \A v \in Users : v # u => /\ pc'[v] = pc[v] /\ lease'[v] = lease[v]
                                 /\ due'[v] = due[v]
    BY <1>0, <2>1
  <2> QED
    BY <2>1, <2>2, <2>3 DEF Protected
<1>9. ASSUME Tick PROVE Protected'
  <2>1. /\ ttl' = IF key = NoUser THEN 0 ELSE ttl - 1
        /\ key' = IF ttl' = 0 THEN NoUser ELSE key
        /\ UNCHANGED <<redis, pc, lease, proc, disturbed>>
    BY <1>9 DEF Tick, Aged
  <2> SUFFICES ASSUME NEW u \in Users \ disturbed, pc[u] \in Inside
               PROVE  /\ lease[u] = "held" /\ key' = u /\ proc[u] = "up"
                      /\ redis = "up" /\ ttl' + due'[u] >= TTL
    BY <2>1 DEF Protected
  <2>2. /\ lease[u] = "held" /\ key = u /\ proc[u] = "up" /\ redis = "up"
        /\ ttl + due[u] >= TTL
    BY DEF Protected
  <2>3. due[u] = 0 /\ due'[u] = 1
    BY <1>0, <1>9, <2>2 DEF Tick, Renewing
  <2>4. key # NoUser
    BY <2>2, UsersAssumption
  <2> QED
    BY <1>0, <2>1, <2>2, <2>3, <2>4, TimesAssumption
<1>10. ASSUME RedisFails PROVE Protected'
  BY <1>10 DEF RedisFails, Protected, userVars
<1>11. ASSUME RedisReturns PROVE Protected'
  BY <1>11 DEF RedisReturns, Protected, userVars, ghosts
<1>12. ASSUME ClearCache PROVE Protected'
  <2>1. disturbed' = disturbed \cup {key} /\ UNCHANGED pc
    BY <1>12 DEF ClearCache, userVars
  <2> QED
    BY <2>1 DEF Protected
<1>13. ASSUME UNCHANGED vars PROVE Protected'
  BY <1>13 DEF vars, Protected, lockVars, userVars, ghosts
<1> QED
  BY <1>0, Steps,
    <1>1, <1>2, <1>3, <1>4, <1>5, <1>6, <1>7, <1>8, <1>9, <1>10,
    <1>11, <1>12, <1>13

\* However many callers there are and however late others release what they
\* lost, a holder that is scheduled, with Redis at hand, owns the key for as
\* long as it works.
THEOREM ProtectionHolds == Spec => []PunctualHolderIsProtected
<1>1. Protected => PunctualHolderIsProtected
  BY DEF Protected, PunctualHolderIsProtected
<1>2. Spec => []IType
  BY TypeInit, TypeStep, PTL DEF Spec
<1>3. IType /\ Protected /\ [Next]_vars => Protected'
  BY ProtectedStep
<1> QED
  BY ProtectedInit, <1>1, <1>2, <1>3, PTL DEF Spec

------------------------------------------------------------------------------
(***************************************************************************)
(* The checks of a caller that lost the key. While its lease object still    *)
(* says "held", at most one period has passed since, and then its renewing *)
(* thread is due, which time waits for.                                    *)
(***************************************************************************)

Noticed ==
  /\ late = "no"
  /\ \A u \in Users :
       /\ pc[u] \in {"idle", "wait"} => away[u] = 0
       /\ pc[u] \in Inside => lease[u] # "none"
       /\ pc[u] \in Inside /\ lease[u] = "held" =>
            away[u] <= due[u] /\ (key = u => away[u] = 0)

LEMMA NoticedInit == Init => Noticed
BY DEF Init, Noticed, Inside

LEMMA NoticedStep ==
  ASSUME IType, Noticed, [Next]_vars
  PROVE  Noticed'
<1>0. /\ Timed /\ pc \in [Users -> Pcs] /\ lease \in [Users -> {"none", "held", "lost"}]
      /\ due \in [Users -> 0 .. 1] /\ proc \in [Users -> {"up", "stalled"}]
      /\ away \in [Users -> 0 .. 2]
  BY DEF IType, LockOK, CallersOK, HistoryOK
<1>1. ASSUME NEW u \in Users, Begin(u) PROVE Noticed'
  <2>1. /\ pc[u] = "idle" /\ pc' = [pc EXCEPT ![u] = "wait"]
        /\ UNCHANGED <<key, lease, due, late, away>>
    BY <1>1 DEF Begin, At, Goto, lockVars, ghosts
  <2>2. pc'[u] = "wait" /\ \A v \in Users : v # u => pc'[v] = pc[v]
    BY <1>0, <2>1
  <2> QED
    BY <2>1, <2>2 DEF Noticed, Inside
<1>2. ASSUME NEW u \in Users, Acquire(u) PROVE Noticed'
  <2>1. /\ pc[u] = "wait" /\ pc' = [pc EXCEPT ![u] = "open"] /\ key' = u /\ key = NoUser
        /\ lease' = [lease EXCEPT ![u] = "held"] /\ UNCHANGED <<due, late, away>>
    BY <1>2 DEF Acquire, At, Goto, ghosts
  <2>2. /\ pc'[u] = "open" /\ lease'[u] = "held" /\ away[u] = 0 /\ due[u] >= 0
        /\ \A v \in Users : v # u => pc'[v] = pc[v] /\ lease'[v] = lease[v]
    BY <1>0, <2>1 DEF Noticed
  <2> QED
    BY <2>1, <2>2 DEF Noticed
<1>3. ASSUME NEW u \in Users, Leave(u) PROVE Noticed'
  <2>1. /\ pc' = [pc EXCEPT ![u] = "idle"] /\ lease' = [lease EXCEPT ![u] = "none"]
        /\ due' = [due EXCEPT ![u] = 0] /\ away' = [away EXCEPT ![u] = 0]
        /\ UNCHANGED late /\ (key' = key \/ key' = NoUser)
    BY <1>3 DEF Leave, End, Goto
  <2>2. pc'[u] = "idle" /\ away'[u] = 0
    BY <1>0, <2>1
  <2>3. \A v \in Users : v # u => /\ pc'[v] = pc[v] /\ lease'[v] = lease[v]
                                 /\ due'[v] = due[v] /\ away'[v] = away[v]
    BY <1>0, <2>1
  <2>4. \A v \in Users : key' = v => key = v
    BY <2>1, UsersAssumption
  <2> QED
    BY <2>1, <2>2, <2>3, <2>4 DEF Noticed, Inside
<1>4. ASSUME NEW u \in Users, Renew(u) PROVE Noticed'
  <2>1. /\ lease' = [lease EXCEPT ![u] = RenewedLease(u)] /\ due' = [due EXCEPT ![u] = 0]
        /\ UNCHANGED <<key, pc, late, away>> /\ pc[u] \in Inside /\ lease[u] = "held"
    BY <1>4 DEF Renew, Renewing, ghosts
  <2>2. \A v \in Users : v # u => lease'[v] = lease[v] /\ due'[v] = due[v]
    BY <1>0, <2>1
  <2>3. /\ lease'[u] \in {"held", "lost"} /\ due'[u] = 0
        /\ lease'[u] = "held" => key = u
    BY <1>0, <2>1 DEF RenewedLease
  <2>4. key = u => away[u] = 0
    BY <2>1 DEF Noticed
  <2>5. pc[u] \notin {"idle", "wait"}
    BY <2>1 DEF Inside
  <2> QED
    BY <2>1, <2>2, <2>3, <2>4, <2>5 DEF Noticed
<1>5. ASSUME NEW u \in Users, Work(u) PROVE Noticed'
  <2>1. /\ UNCHANGED <<key, kind, lease, due, away>> /\ pc[u] \in Inside
        /\ late' = late \/ EnsureHeld(u)
    BY <1>5 DEF Work
  <2>2. PICK p \in Inside : pc' = [pc EXCEPT ![u] = p]
    BY <1>5 DEF Work, Goto
  <2>3. pc'[u] \in Inside /\ pc'[u] \notin {"idle", "wait"}
    BY <1>0, <2>2 DEF Inside
  <2>4. \A v \in Users : v # u => pc'[v] = pc[v]
    BY <1>0, <2>2
  <2>5. late' = "no"
    <3>1. CASE late' = late
      BY <3>1 DEF Noticed
    <3>2. CASE EnsureHeld(u)
      <4>1. lease[u] = "held"
        BY <1>0, <2>1, <3>2 DEF EnsureHeld, Noticed
      <4>2. due[u] \in 0 .. 1 /\ away[u] \in 0 .. 2 /\ away[u] <= due[u]
        BY <1>0, <2>1, <4>1 DEF Noticed
      <4> QED
        BY <3>2, <4>2 DEF EnsureHeld, Noticed
    <3> QED
      BY <2>1, <3>1, <3>2
  <2> QED
    BY <2>1, <2>3, <2>4, <2>5 DEF Noticed
<1>6. ASSUME NEW u \in Users, Stall(u) PROVE Noticed'
  BY <1>6 DEF Stall, Noticed, lockVars
<1>7. ASSUME NEW u \in Users, Resume(u) PROVE Noticed'
  <2>1. UNCHANGED <<key, pc, lease, due, late>> /\ away' = [away EXCEPT ![u] = 0]
    BY <1>7 DEF Resume, lockVars
  <2>2. \A v \in Users : due[v] \in 0 .. 1 /\ away'[v] = IF v = u THEN 0 ELSE away[v]
    BY <1>0, <2>1
  <2> QED
    BY <2>1, <2>2 DEF Noticed
<1>8. ASSUME NEW u \in Users, Crash(u) PROVE Noticed'
  <2>1. /\ pc' = [pc EXCEPT ![u] = "dead"] /\ lease' = [lease EXCEPT ![u] = "none"]
        /\ due' = [due EXCEPT ![u] = 0] /\ UNCHANGED <<key, late, away>>
    BY <1>8 DEF Crash, Goto, lockVars, ghosts
  <2>2. pc'[u] = "dead"
    BY <1>0, <2>1
  <2>3. \A v \in Users : v # u => /\ pc'[v] = pc[v] /\ lease'[v] = lease[v]
                                 /\ due'[v] = due[v]
    BY <1>0, <2>1
  <2> QED
    BY <2>1, <2>2, <2>3 DEF Noticed, Inside
<1>9. ASSUME Tick PROVE Noticed'
  <2>1. UNCHANGED <<pc, lease, proc, late>> /\ (key' = key \/ key' = NoUser)
    BY <1>9 DEF Tick
  <2>2. ASSUME NEW v \in Users
        PROVE  /\ due'[v] = IF pc[v] \in Inside /\ lease[v] = "held" THEN 1 ELSE due[v]
               /\ away'[v] = IF pc[v] \in Inside /\ proc[v] = "up" /\ key # v /\ away[v] < 2
                               THEN away[v] + 1 ELSE away[v]
               /\ Renewing(v) => due[v] = 0
    BY <1>9 DEF Tick
  <2>3. \A v \in Users : key' = v => key = v
    BY <2>1, UsersAssumption
  <2> SUFFICES ASSUME NEW v \in Users
               PROVE  /\ pc[v] \in {"idle", "wait"} => away'[v] = 0
                      /\ pc[v] \in Inside /\ lease[v] = "held" =>
                           away'[v] <= due'[v] /\ (key = v => away'[v] = 0)
    BY <2>1, <2>3 DEF Noticed
  <2>4. CASE pc[v] \in {"idle", "wait"}
    BY <2>2, <2>4 DEF Noticed, Inside
  <2>5. CASE pc[v] \in Inside /\ lease[v] = "held"
    <3>1. due'[v] = 1 /\ away[v] <= due[v] /\ (key = v => away[v] = 0)
      BY <2>2, <2>5 DEF Noticed
    <3>2. due[v] \in 0 .. 1 /\ away[v] \in 0 .. 2 /\ proc[v] \in {"up", "stalled"}
      BY <1>0
    <3>3. CASE proc[v] = "up" /\ key # v
      <4>1. due[v] = 0
        BY <2>2, <2>5, <3>3 DEF Renewing
      <4> QED
        BY <2>2, <2>5, <3>1, <3>2, <3>3, <4>1 DEF Inside
    <3>4. CASE ~(proc[v] = "up" /\ key # v)
      BY <2>2, <2>5, <3>1, <3>2, <3>4 DEF Inside
    <3> QED
      BY <3>3, <3>4
  <2> QED
    BY <2>4, <2>5
<1>10. ASSUME RedisFails PROVE Noticed'
  BY <1>10 DEF RedisFails, Noticed, userVars
<1>11. ASSUME RedisReturns PROVE Noticed'
  BY <1>11 DEF RedisReturns, Noticed, userVars, ghosts
<1>12. ASSUME ClearCache PROVE Noticed'
  <2>1. UNCHANGED <<pc, lease, due, away, late>> /\ key' = NoUser
    BY <1>12 DEF ClearCache, userVars
  <2> QED
    BY <2>1, UsersAssumption DEF Noticed
<1>13. ASSUME UNCHANGED vars PROVE Noticed'
  BY <1>13 DEF vars, Noticed, lockVars, userVars, ghosts
<1> QED
  BY <1>0, Steps,
    <1>1, <1>2, <1>3, <1>4, <1>5, <1>6, <1>7, <1>8, <1>9, <1>10,
    <1>11, <1>12, <1>13

\* Whoever asks for its lease more than one renewal period of its own running
\* time after it lost the key is refused, for any number of callers and faults.
\* What a caller does after a check that passed is not bounded: see
\* DeployIsPinned.
THEOREM LossHolds == Spec => []LossStopsTheWork
<1>1. Noticed => LossStopsTheWork
  BY DEF Noticed, LossStopsTheWork
<1>2. Spec => []IType
  BY TypeInit, TypeStep, PTL DEF Spec
<1>3. IType /\ Noticed /\ [Next]_vars => Noticed'
  BY NoticedStep
<1> QED
  BY NoticedInit, <1>1, <1>2, <1>3, PTL DEF Spec

------------------------------------------------------------------------------
(***************************************************************************)
(* The branch. As long as only owners of the key touched the tree, an      *)
(* owner that has opened the tree finds its own branch in it, whatever was *)
(* left behind before.                                                     *)
(***************************************************************************)

Branched(u) ==
  /\ pc[u] = "branch" => kind[u] \in {"stage", "deploy"}
  /\ pc[u] \in {"pin", "read"} => kind[u] = "deploy"
  /\ pc[u] \in {"write", "precommit", "commit", "pin", "read"} => head = BranchOf(u)

OnBranch ==
  /\ stray = "no"
  /\ intruded = "no" => \A u \in Users : key = u => Branched(u)

LEMMA OnBranchInit == Init => OnBranch
BY UsersAssumption DEF Init, OnBranch

\* A caller that owns the key works on the tree.
LEMMA OwnerWorks ==
  ASSUME IType, OnBranch, NEW u \in Users, key = u, intruded = "no",
         TreeStep(u)
  PROVE  Branched(u)' /\ stray' = "no"
<1>0. Branched(u) /\ stray = "no" /\ pc \in [Users -> Pcs]
  BY DEF OnBranch, IType, CallersOK
<1>1. ASSUME OpenTree(u) PROVE Branched(u)' /\ stray' = "no"
  <2>1. UNCHANGED <<kind, stray>>
    BY <1>1 DEF OpenTree
  <2>2. CASE MayReturnToMain
    <3>1. head' = Main /\ pc'[u] = IF kind[u] \in {"stage", "deploy"} THEN "branch" ELSE "write"
      BY <1>0, <1>1, <2>2 DEF OpenTree, OpenedHead, Goto
    <3> QED
      BY <1>0, <2>1, <3>1 DEF Branched, BranchOf
  <2>3. CASE ~MayReturnToMain
    <3>1. pc'[u] = "release"
      BY <1>0, <1>1, <2>3 DEF OpenTree, Goto
    <3> QED
      BY <1>0, <2>1, <3>1 DEF Branched
  <2> QED
    BY <2>2, <2>3
<1>2. ASSUME Checkout(u) PROVE Branched(u)' /\ stray' = "no"
  <2>1. /\ pc[u] = "branch" /\ head' = u /\ UNCHANGED <<kind, stray>>
        /\ pc'[u] = IF kind[u] = "stage" THEN "write" ELSE "pin"
    BY <1>0, <1>2 DEF Checkout, At, Goto
  <2> QED
    BY <1>0, <2>1 DEF Branched, BranchOf
<1>3. ASSUME Write(u) PROVE Branched(u)' /\ stray' = "no"
  <2>1. /\ pc[u] = "write" /\ pc'[u] \in {"precommit", "commit"}
        /\ UNCHANGED <<kind, head, stray>>
    BY <1>0, <1>3 DEF Write, At, Goto
  <2> QED
    BY <1>0, <2>1 DEF Branched, BranchOf
<1>4. ASSUME Commit(u) PROVE Branched(u)' /\ stray' = "no"
  <2>1. pc[u] = "commit" /\ pc'[u] \in {"prepush", "push"} /\ Use(u)
    BY <1>0, <1>4 DEF Commit, At, Goto
  <2> QED
    BY <1>0, <2>1 DEF Branched, Use
<1>5. ASSUME Push(u) PROVE Branched(u)' /\ stray' = "no"
  <2>1. pc'[u] \in {"restore", "release"} /\ UNCHANGED stray
    BY <1>0, <1>5 DEF Push, Goto
  <2> QED
    BY <1>0, <2>1 DEF Branched
<1>6. ASSUME PinReviewed(u) PROVE Branched(u)' /\ stray' = "no"
  <2>1. pc[u] = "pin" /\ pc'[u] = "read" /\ UNCHANGED <<kind, head, stray>>
    BY <1>0, <1>6 DEF PinReviewed, At, Goto, treeVars
  <2> QED
    BY <1>0, <2>1 DEF Branched, BranchOf
<1>7. ASSUME ReadConfig(u) PROVE Branched(u)' /\ stray' = "no"
  <2>1. /\ pc[u] = "read" /\ pc'[u] \in {"read", "restore"} /\ Use(u)
        /\ UNCHANGED <<kind, head>>
    BY <1>0, <1>7 DEF ReadConfig, At, Goto, treeVars
  <2> QED
    BY <1>0, <2>1 DEF Branched, BranchOf, Use
<1>8. ASSUME GitFails(u) PROVE Branched(u)' /\ stray' = "no"
  <2>1. pc'[u] \in {"restore", "release"} /\ UNCHANGED stray
    BY <1>0, <1>8 DEF GitFails, Unwound, Goto
  <2> QED
    BY <1>0, <2>1 DEF Branched
<1>9. ASSUME Restore(u) PROVE Branched(u)' /\ stray' = "no"
  <2>1. pc'[u] = "release" /\ UNCHANGED stray
    BY <1>0, <1>9 DEF Restore, Goto
  <2> QED
    BY <1>0, <2>1 DEF Branched
<1> QED
  BY <1>1, <1>2, <1>3, <1>4, <1>5, <1>6, <1>7, <1>8, <1>9 DEF TreeStep

\* A caller that owns the key passes a check, or is refused.
LEMMA OwnerChecks ==
  ASSUME IType, OnBranch, NEW u \in Users, key = u, intruded = "no", CheckStep(u)
  PROVE  Branched(u)'
<1>0. Branched(u) /\ pc \in [Users -> Pcs] /\ UNCHANGED head
  BY CheckSteps DEF OnBranch, IType, CallersOK
<1>1. ASSUME CheckBeforeCommit(u) PROVE Branched(u)'
  <2>1. pc[u] = "precommit" /\ pc'[u] = "commit" /\ UNCHANGED kind
    BY <1>0, <1>1 DEF CheckBeforeCommit, At, Goto
  <2> QED
    BY <1>0, <2>1 DEF Branched, BranchOf
<1>2. ASSUME CheckBeforePush(u) \/ Refused(u) PROVE Branched(u)'
  <2>1. pc'[u] \in {"push", "restore", "release"}
    BY <1>0, <1>2 DEF CheckBeforePush, Refused, Unwound, Goto
  <2> QED
    BY <2>1 DEF Branched
<1> QED
  BY <1>1, <1>2 DEF CheckStep

LEMMA BranchStep ==
  ASSUME IType, OnBranch, [Next]_vars
  PROVE  OnBranch'
<1>0. /\ Timed /\ pc \in [Users -> Pcs] /\ kind \in [Users -> Kinds \cup {"none"}]
      /\ intruded \in {"no", "yes"} /\ stray = "no"
  BY DEF IType, LockOK, CallersOK, HistoryOK, OnBranch
<1>1. ASSUME NEW u \in Users, TreeStep(u) PROVE OnBranch'
  <2>1. Work(u) /\ UNCHANGED key /\ (stray' = stray \/ Use(u)) /\ Touch(u)
    BY <1>1, WorkSteps DEF Work
  <2>2. CASE key = u /\ intruded = "no"
    <3>1. Branched(u)' /\ stray' = "no"
      BY <1>1, <2>2, OwnerWorks
    <3> QED
      BY <2>1, <2>2, <3>1 DEF OnBranch
  <2>3. CASE ~(key = u /\ intruded = "no")
    <3>1. intruded' = "yes"
      BY <1>0, <2>1, <2>3 DEF Touch
    <3> QED
      BY <1>0, <2>1, <3>1 DEF OnBranch, Use
  <2> QED
    BY <2>2, <2>3
<1>2. ASSUME NEW u \in Users, CheckStep(u) PROVE OnBranch'
  <2>1. Work(u) /\ UNCHANGED <<key, kind, head, stray, intruded>>
    BY <1>2, CheckSteps DEF Work
  <2>2. \A v \in Users : v # u => pc'[v] = pc[v]
    BY <1>0, <2>1 DEF Work, Goto
  <2>3. intruded = "no" /\ key = u => Branched(u)'
    BY <1>2, OwnerChecks
  <2> QED
    BY <2>1, <2>2, <2>3 DEF OnBranch, Branched, BranchOf
<1>3. ASSUME NEW u \in Users, key' = u => 
               pc'[u] \notin {"branch", "write", "precommit", "commit", "pin", "read"},
             UNCHANGED <<head, stray, intruded>>, key' \in {key, u, NoUser},
             \A v \in Users : v # u => pc'[v] = pc[v] /\ kind'[v] = kind[v]
      PROVE  OnBranch'
  <2>1. ASSUME NEW v \in Users, intruded = "no", key' = v PROVE Branched(v)'
    <3>1. CASE v = u
      BY <1>3, <2>1, <3>1 DEF Branched
    <3>2. CASE v # u
      <4>1. key = v
        BY <1>3, <2>1, <3>2, UsersAssumption
      <4> QED
        BY <1>3, <2>1, <3>2, <4>1 DEF OnBranch, Branched, BranchOf
    <3> QED
      BY <3>1, <3>2
  <2> QED
    BY <1>0, <1>3, <2>1 DEF OnBranch
<1>4. ASSUME NEW u \in Users, Begin(u) PROVE OnBranch'
  <2>1. /\ pc'[u] = "wait" /\ UNCHANGED <<key, kind, head, stray, intruded>>
        /\ \A v \in Users : v # u => pc'[v] = pc[v]
    BY <1>0, <1>4 DEF Begin, Goto, lockVars, treeVars, ghosts
  <2> QED
    BY <1>3, <2>1
<1>5. ASSUME NEW u \in Users, Acquire(u) PROVE OnBranch'
  <2>1. /\ pc'[u] = "open" /\ key' = u /\ UNCHANGED <<head, stray, intruded>>
        /\ \A v \in Users : v # u => pc'[v] = pc[v] /\ kind'[v] = kind[v]
    BY <1>0, <1>5 DEF Acquire, Goto, treeVars, ghosts
  <2> QED
    BY <1>3, <2>1
<1>6. ASSUME NEW u \in Users, NoCache(u) \/ GiveUp(u) \/ Release(u) PROVE OnBranch'
  <2>1. Leave(u)
    BY <1>0, <1>6, LeaveSteps
  <2>2. /\ pc'[u] = "idle" /\ key' \in {key, NoUser} /\ UNCHANGED <<head, stray, intruded>>
        /\ \A v \in Users : v # u => pc'[v] = pc[v] /\ kind'[v] = kind[v]
    BY <1>0, <2>1 DEF Leave, End, Goto
  <2> QED
    BY <1>3, <2>2
<1>7. ASSUME NEW u \in Users, Crash(u) PROVE OnBranch'
  <2>1. /\ pc'[u] = "dead" /\ UNCHANGED <<key, head, stray, intruded>>
        /\ \A v \in Users : v # u => pc'[v] = pc[v] /\ kind'[v] = kind[v]
    BY <1>0, <1>7 DEF Crash, Goto, lockVars, treeVars, ghosts
  <2> QED
    BY <1>3, <2>1
<1>8. ASSUME UNCHANGED <<pc, kind, head, stray, intruded>>, key' \in {key, NoUser}
      PROVE  OnBranch'
  BY <1>8, UsersAssumption DEF OnBranch, Branched, BranchOf
<1>9. ASSUME NEW u \in Users, Renew(u) \/ Stall(u) \/ Resume(u) PROVE OnBranch'
  BY <1>8, <1>9 DEF Renew, Stall, Resume, lockVars, treeVars, ghosts
<1>10. ASSUME Tick \/ RedisFails \/ RedisReturns \/ ClearCache \/ UNCHANGED vars PROVE OnBranch'
  BY <1>8, <1>10
    DEF Tick, RedisFails, RedisReturns, ClearCache, vars, lockVars, userVars, treeVars, ghosts
<1> QED
  BY <1>1, <1>2, <1>4, <1>5, <1>6, <1>7, <1>9, <1>10
    DEF Next, UserStep, TreeStep, CheckStep

\* Whatever crashed, failed or was left uncommitted in the tree before, an owner
\* of the key commits to and reads from its own branch, as long as nobody
\* touched the tree without the key.
THEOREM BranchHolds == Spec => []EveryoneOnTheirBranch
<1>1. OnBranch => EveryoneOnTheirBranch
  BY DEF OnBranch, EveryoneOnTheirBranch
<1>2. Spec => []IType
  BY TypeInit, TypeStep, PTL DEF Spec
<1>3. IType /\ OnBranch /\ [Next]_vars => OnBranch'
  BY BranchStep
<1> QED
  BY OnBranchInit, <1>1, <1>2, <1>3, PTL DEF Spec

------------------------------------------------------------------------------
(***************************************************************************)
(* How a key comes to an end: what LockIsFreed rests on, and what it does  *)
(* not cost.                                                               *)
(***************************************************************************)

\* A key is taken from its owner only by the owner's own release, by its expiry or
\* by a fault (an operator's "clear cache"), and nobody else has it at once.
KeyIsNotStolen ==
  [][\A u \in Users : key = u /\ key' # u =>
       /\ key' = NoUser
       /\ \/ pc[u] = "release" /\ pc'[u] = "idle"
          \/ ttl = 1 /\ UNCHANGED pc
          \/ faults' > faults]_vars

\* The life of a key is prolonged only by the renewing thread of its owner, while
\* that one works, is scheduled and has not lost the lease: the key of a caller
\* that is dead, stalled or gone only ages.
OnlyTheHolderRenews ==
  [][\A u \in Users : key = u /\ key' = u /\ ttl' > ttl =>
       Renewing(u) /\ redis = "up"]_vars

\* One step, by what it does to the key.
LEMMA KeyStep ==
  ASSUME IType, [Next]_vars, NEW v \in Users, key = v
  PROVE  /\ key' # v =>
              /\ key' = NoUser
              /\ \/ pc[v] = "release" /\ pc'[v] = "idle"
                 \/ ttl = 1 /\ UNCHANGED pc
                 \/ faults' > faults
         /\ key' = v /\ ttl' > ttl => Renewing(v) /\ redis = "up"
<1> DEFINE Goal == /\ key' # v =>
                        /\ key' = NoUser
                        /\ \/ pc[v] = "release" /\ pc'[v] = "idle"
                           \/ ttl = 1 /\ UNCHANGED pc
                           \/ faults' > faults
                   /\ key' = v /\ ttl' > ttl => Renewing(v) /\ redis = "up"
<1>0. /\ Timed /\ ttl \in 0 .. TTL /\ faults \in 0 .. MaxFaults /\ v # NoUser
      /\ pc \in [Users -> Pcs]
  BY UsersAssumption DEF IType, LockOK, CallersOK, TreeOK
<1>1. ~(ttl > ttl) /\ ttl \in Nat /\ faults \in Nat
  BY <1>0, TimesAssumption
<1>2. ASSUME NEW u \in Users, Begin(u) \/ Work(u) \/ Stall(u) \/ Resume(u) \/ Crash(u)
      PROVE  Goal
  BY <1>1, <1>2 DEF Begin, Work, Stall, Resume, Crash, lockVars
<1>3. ASSUME NEW u \in Users, Acquire(u) PROVE Goal
  BY <1>0, <1>3 DEF Acquire
<1>4. ASSUME NEW u \in Users, Leave(u) PROVE Goal
  <2>1. CASE UNCHANGED <<key, ttl>>
    BY <1>1, <2>1
  <2>2. CASE pc[u] = "release" /\ key = u /\ key' = NoUser /\ ttl' = 0
    <3>1. u = v /\ pc'[v] = "idle" /\ pc[v] = "release"
      BY <1>0, <1>4, <2>2 DEF Leave, End, Goto
    <3> QED
      BY <1>0, <1>4, <2>2, <3>1
  <2> QED
    BY <1>4, <2>1, <2>2 DEF Leave
<1>5. ASSUME NEW u \in Users, Renew(u) PROVE Goal
  BY <1>1, <1>5 DEF Renew
<1>6. CASE Tick
  <2>1. ttl' = ttl - 1 /\ (key' = IF ttl' = 0 THEN NoUser ELSE key) /\ UNCHANGED pc
    BY <1>0, <1>6 DEF Tick, Aged
  <2> QED
    BY <1>0, <1>1, <2>1
<1>7. CASE RedisFails \/ RedisReturns \/ UNCHANGED vars
  BY <1>1, <1>7 DEF RedisFails, RedisReturns, vars, lockVars
<1>8. CASE ClearCache
  BY <1>0, <1>1, <1>8 DEF ClearCache, Fault
<1> QED
  BY <1>0, <1>2, <1>3, <1>4, <1>5, <1>6, <1>7, <1>8, Steps

\* A caller that lost the lock and releases late takes nothing from its successor
\* (delete_if_equals, C1-07), for any number of callers and failures.
THEOREM KeyIsNotStolenHolds == Spec => KeyIsNotStolen
<1>1. IType /\ [Next]_vars =>
        [\A u \in Users : key = u /\ key' # u =>
           /\ key' = NoUser
           /\ \/ pc[u] = "release" /\ pc'[u] = "idle"
              \/ ttl = 1 /\ UNCHANGED pc
              \/ faults' > faults]_vars
  BY KeyStep
<1> QED
  BY <1>1, TypeInit, TypeStep, PTL DEF Spec, KeyIsNotStolen

\* The safety half of LockIsFreed: no key is kept alive by anybody but a working
\* holder (expire_if_equals).
THEOREM OnlyTheHolderRenewsHolds == Spec => OnlyTheHolderRenews
<1>1. IType /\ [Next]_vars =>
        [\A u \in Users : key = u /\ key' = u /\ ttl' > ttl =>
           Renewing(u) /\ redis = "up"]_vars
  BY KeyStep
<1> QED
  BY <1>1, TypeInit, TypeStep, PTL DEF Spec, OnlyTheHolderRenews
==============================================================================
