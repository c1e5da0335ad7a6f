----------------------------- MODULE GitWorkTree -----------------------------
(***************************************************************************)
(* The working tree of one git repository, which every caller shares, and  *)
(* the Redis lease that is to keep them apart:                             *)
(*                                                                         *)
(*   - open-change-request ("stage") commits to a change-request branch    *)
(*     and puts the configured branch back (git_branch_scope);             *)
(*   - from-change-request ("deploy") reads the reviewed branch;           *)
(*   - store-artifact ("store") and backup-aci-config ("aci") commit to    *)
(*     the configured branch.                                              *)
(*                                                                         *)
(* The lease is a key with a time to live that a thread of the holder      *)
(* renews (repo_lock.py). One tick of the clock is one renewal period. The *)
(* holder can stall, die, lose Redis or lose its key; it finds out through *)
(* lease.lost, which only the renewing thread sets, at the few places that *)
(* call ensure_held. Such a check and the work it is for are two steps:    *)
(* the others run in between. The setting GIT_REPO_LOCK_REQUIRED has its   *)
(* default outside development: without Redis nobody gets in.              *)
(***************************************************************************)
EXTENDS Naturals

CONSTANTS
  Users,        \* the callers: step executions in worker processes
  NoUser,       \* not a caller: the key does not exist
  Main,         \* the configured branch; a change-request branch is its caller
  TTL,          \* _LOCK_TTL_SECONDS in renewal periods
  MaxFaults     \* bound on stalls, crashes and Redis failures

ASSUME UsersAssumption == NoUser \notin Users /\ Main \notin Users
ASSUME TimesAssumption == TTL \in Nat /\ TTL > 1 /\ MaxFaults \in Nat

VARIABLES
  key,        \* the owner of the token under git-repo-lock:<id>
  ttl,        \* the key's remaining lifetime
  redis,      \* "up", or "down" when calls raise
  kind,       \* caller -> the step it executes
  pc,         \* caller -> where it is in its bracket
  lease,      \* caller -> its GitRepoLease, "lost" once its flag is set
  due,        \* caller -> 1 when its renewing thread has to run
  proc,       \* caller -> "up", or "stalled" when its process is not scheduled
  head,       \* the branch the tree is on
  dirty,      \* callers with uncommitted files in the tree
  faults,
  disturbed,  \* history: callers stalled, or whose Redis failed, while holding
  away,       \* history: caller -> periods it worked without the key
  late,       \* history: "yes" if a check passed long after the key was lost
  intruded,   \* history: "yes" once a caller touched the tree without the key
  stray       \* history: "yes" if before that a wrong branch was used

lockVars == <<key, ttl, redis>>
userVars == <<kind, pc, lease, due, proc>>
treeVars == <<head, dirty>>
ghosts == <<disturbed, away, late, intruded, stray>>
vars == <<lockVars, userVars, treeVars, faults, ghosts>>

Kinds == {"stage", "deploy", "store", "aci"}
Inside == {"open", "branch", "write", "precommit", "commit", "prepush", "push",
           "pin", "read", "restore", "release"}

\* The branch a caller means to work on.
BranchOf(u) == IF kind[u] \in {"stage", "deploy"} THEN u ELSE Main

TypeOK ==
  /\ key \in Users \cup {NoUser}
  /\ ttl \in 0 .. TTL
  /\ redis \in {"up", "down"}
  /\ kind \in [Users -> Kinds \cup {"none"}]
  /\ pc \in [Users -> {"idle", "wait", "dead"} \cup Inside]
  /\ lease \in [Users -> {"none", "held", "lost"}]
  /\ due \in [Users -> 0 .. 1]
  /\ proc \in [Users -> {"up", "stalled"}]
  /\ head \in Users \cup {Main}
  /\ dirty \in SUBSET Users
  /\ faults \in 0 .. MaxFaults
  /\ disturbed \in SUBSET Users
  /\ away \in [Users -> 0 .. 2]
  /\ late \in {"no", "yes"}
  /\ intruded \in {"no", "yes"}
  /\ stray \in {"no", "yes"}

Init ==
  /\ key = NoUser
  /\ ttl = 0
  /\ redis = "up"
  /\ kind = [u \in Users |-> "none"]
  /\ pc = [u \in Users |-> "idle"]
  /\ lease = [u \in Users |-> "none"]
  /\ due = [u \in Users |-> 0]
  /\ proc = [u \in Users |-> "up"]
  /\ head = Main
  /\ dirty = {}
  /\ faults = 0
  /\ disturbed = {}
  /\ away = [u \in Users |-> 0]
  /\ late = "no"
  /\ intruded = "no"
  /\ stray = "no"

------------------------------------------------------------------------------
(***************************************************************************)
(* Taking and giving back the lease (repo_lock.py).                        *)
(***************************************************************************)

\* The caller's code is at p and its process is scheduled.
At(u, p) == pc[u] = p /\ proc[u] = "up"

Goto(u, p) == pc' = [pc EXCEPT ![u] = p]

\* The bracket is left: the caller's lease object and its history are gone.
End(u) ==
  /\ Goto(u, "idle")
  /\ kind' = [kind EXCEPT ![u] = "none"]
  /\ lease' = [lease EXCEPT ![u] = "none"]
  /\ due' = [due EXCEPT ![u] = 0]
  /\ away' = [away EXCEPT ![u] = 0]
  /\ disturbed' = disturbed \ {u}
  /\ UNCHANGED <<proc, late, intruded, stray>>

\* A step execution starts and polls for the lock.
Begin(u) ==
  /\ At(u, "idle")
  /\ Goto(u, "wait")
  /\ UNCHANGED <<kind, lease, due, proc>>
  /\ UNCHANGED <<lockVars, treeVars, faults, ghosts>>

\* set_if_absent succeeds within the acquire timeout; the renewing thread runs.
Acquire(u) ==
  /\ At(u, "wait")
  /\ redis = "up"
  /\ key = NoUser
  /\ key' = u
  /\ ttl' = TTL
  /\ Goto(u, "open")
  /\ lease' = [lease EXCEPT ![u] = "held"]
  /\ \E k \in Kinds : kind' = [kind EXCEPT ![u] = k]
  /\ UNCHANGED <<redis, due, proc>>
  /\ UNCHANGED <<treeVars, faults, ghosts>>

\* Redis cannot be used: the caller is refused (GIT_REPO_LOCK_REQUIRED).
NoCache(u) ==
  /\ At(u, "wait")
  /\ redis = "down"
  /\ End(u)
  /\ UNCHANGED <<lockVars, treeVars, faults>>

\* Somebody else kept the lock past the acquire timeout.
GiveUp(u) ==
  /\ At(u, "wait")
  /\ End(u)
  /\ UNCHANGED <<lockVars, treeVars, faults>>

\* The thread renews until the lease is released or lost.
Renewing(u) == pc[u] \in Inside /\ lease[u] = "held" /\ proc[u] = "up"

\* Mutant: the result of the renewal is not looked at.
RenewedLeaseIgnored(u) == "held"

\* expire_if_equals: False when the key is somebody else's, gone, or Redis fails.
RenewedLease(u) == IF redis = "up" /\ key = u THEN "held" ELSE "lost"

\* Mutant: a renewal adds to the time that is left.
RenewedTTLAdded == ttl + TTL

\* EXPIRE sets the lifetime anew.
RenewedTTL == TTL

Renew(u) ==
  /\ Renewing(u)
  /\ due[u] = 1
  /\ due' = [due EXCEPT ![u] = 0]
  /\ lease' = [lease EXCEPT ![u] = RenewedLease(u)]
  /\ ttl' = IF redis = "up" /\ key = u THEN RenewedTTL ELSE ttl
  /\ UNCHANGED <<key, redis, kind, pc, proc>>
  /\ UNCHANGED <<treeVars, faults, ghosts>>

\* Mutant: the key is deleted whoever owns it.
KeyAfterReleaseUnconditional(u) == NoUser

\* delete_if_equals: only the caller's own token is removed.
KeyAfterRelease(u) == IF key = u THEN NoUser ELSE key

Release(u) ==
  /\ At(u, "release")
  /\ End(u)
  /\ key' = IF redis = "up" THEN KeyAfterRelease(u) ELSE key
  /\ ttl' = IF key' = NoUser THEN 0 ELSE ttl
  /\ UNCHANGED <<redis, treeVars, faults>>

------------------------------------------------------------------------------
(***************************************************************************)
(* The work inside the bracket (service.py, tree_scope.py, the steps).     *)
(***************************************************************************)

\* Every step on the tree records whether its caller owned the key.
Touch(u) == intruded' = IF key = u THEN intruded ELSE "yes"

\* A commit or a read records the branch it finds.
Use(u) == stray' = IF intruded' = "yes" \/ head = BranchOf(u) THEN stray ELSE "yes"

\* ensure_held: the lease's flag, not the key, is looked at; records how late.
EnsureHeld(u) ==
  /\ lease[u] # "lost"
  /\ late' = IF away[u] > 1 THEN "yes" ELSE late

\* Whether ensure_branch(Main) succeeds: a dirty tree is never switched.
MayReturnToMain == head = Main \/ dirty = {}

\* Mutant: the tree is opened on whatever branch it was left.
OpenedHeadAsFound == head

\* The branch after ensure_branch(Main) succeeded.
OpenedHead == Main

\* open_or_clone of an existing tree; ensure_branch may refuse.
OpenTree(u) ==
  /\ At(u, "open")
  /\ IF MayReturnToMain
       THEN /\ head' = OpenedHead
            /\ Goto(u, IF kind[u] \in {"stage", "deploy"} THEN "branch" ELSE "write")
       ELSE /\ Goto(u, "release")
            /\ UNCHANGED head
  /\ Touch(u)
  /\ UNCHANGED <<lockVars, kind, lease, due, proc, dirty, faults>>
  /\ UNCHANGED <<disturbed, away, late, stray>>

\* git_branch_scope: fetch, then checkout -B of the change-request branch.
Checkout(u) ==
  /\ At(u, "branch")
  /\ head' = u
  /\ Goto(u, IF kind[u] = "stage" THEN "write" ELSE "pin")
  /\ Touch(u)
  /\ UNCHANGED <<lockVars, kind, lease, due, proc, dirty, faults>>
  /\ UNCHANGED <<disturbed, away, late, stray>>

\* backup-aci-config goes on to its commit without a check.
Write(u) ==
  /\ At(u, "write")
  /\ dirty' = dirty \cup {u}
  /\ Goto(u, IF kind[u] = "aci" THEN "commit" ELSE "precommit")
  /\ Touch(u)
  /\ UNCHANGED <<lockVars, kind, lease, due, proc, head, faults>>
  /\ UNCHANGED <<disturbed, away, late, stray>>

\* The check before a commit: of GitService.commit for a stage, whose lease is
\* the context's, of _finalize_git_sink for store-artifact, which then hands
\* commit and push to a thread.
CheckBeforeCommit(u) ==
  /\ At(u, "precommit")
  /\ EnsureHeld(u)
  /\ Goto(u, "commit")
  /\ UNCHANGED <<lockVars, kind, lease, due, proc, treeVars, faults>>
  /\ UNCHANGED <<disturbed, away, intruded, stray>>

\* commit: the caller's own files, with what callers that failed between the
\* index and their commit left staged, on the branch the tree is on.
Commit(u) ==
  /\ At(u, "commit")
  /\ Touch(u)
  /\ Use(u)
  /\ \E staged \in SUBSET dirty : dirty' = dirty \ (staged \cup {u})
  /\ Goto(u, IF kind[u] = "stage" THEN "prepush" ELSE "push")
  /\ UNCHANGED <<lockVars, kind, lease, due, proc, head, faults>>
  /\ UNCHANGED <<disturbed, away, late>>

\* The check before a push, which only a stage has.
CheckBeforePush(u) ==
  /\ At(u, "prepush")
  /\ EnsureHeld(u)
  /\ Goto(u, "push")
  /\ UNCHANGED <<lockVars, kind, lease, due, proc, treeVars, faults>>
  /\ UNCHANGED <<disturbed, away, intruded, stray>>

\* push names its branch, so the tree's branch does not matter.
Push(u) ==
  /\ At(u, "push")
  /\ Goto(u, IF kind[u] = "stage" THEN "restore" ELSE "release")
  /\ Touch(u)
  /\ UNCHANGED <<lockVars, kind, lease, due, proc, treeVars, faults>>
  /\ UNCHANGED <<disturbed, away, late, stray>>

\* _cr_tree: HEAD is the reviewed commit and the lease is held, once.
PinReviewed(u) ==
  /\ At(u, "pin")
  /\ head = u
  /\ EnsureHeld(u)
  /\ Touch(u)
  /\ Goto(u, "read")
  /\ UNCHANGED <<lockVars, kind, lease, due, proc, treeVars, faults>>
  /\ UNCHANGED <<disturbed, away, stray>>

\* The deploy reads the configuration of the next device, in a thread, and
\* stores it; no check any more.
ReadConfig(u) ==
  /\ At(u, "read")
  /\ Touch(u)
  /\ Use(u)
  /\ Goto(u, "read") \/ Goto(u, "restore")
  /\ UNCHANGED <<lockVars, kind, lease, due, proc, treeVars, faults>>
  /\ UNCHANGED <<disturbed, away, late>>

\* Where an exception leads: out of a branch scope through its restore.
Unwound(u) ==
  IF kind[u] \in {"stage", "deploy"} /\ pc[u] \notin {"open", "branch"}
    THEN "restore" ELSE "release"

\* ensure_held raises before a commit or a push.
Refused(u) ==
  /\ At(u, "precommit") \/ At(u, "prepush")
  /\ lease[u] = "lost"
  /\ Goto(u, Unwound(u))
  /\ UNCHANGED <<lockVars, kind, lease, due, proc, treeVars, faults, ghosts>>

\* A git operation or a file access raises, or the deploy is refused:
\* backup-aci-config undoes its writes, store-artifact leaves them.
GitFails(u) ==
  /\ \E p \in {"open", "branch", "write", "commit", "push", "pin", "read"} : At(u, p)
  /\ Goto(u, Unwound(u))
  /\ dirty' \in IF kind[u] = "aci" THEN {dirty, dirty \ {u}} ELSE {dirty}
  /\ Touch(u)
  /\ UNCHANGED <<lockVars, kind, lease, due, proc, head, faults>>
  /\ UNCHANGED <<disturbed, away, late, stray>>

\* The end of git_branch_scope: ensure_branch(Main), which may be refused or
\* fail; the caller's step fails then, and the tree stays where it is.
Restore(u) ==
  /\ At(u, "restore")
  /\ head' \in IF MayReturnToMain THEN {head, Main} ELSE {head}
  /\ Goto(u, "release")
  /\ Touch(u)
  /\ UNCHANGED <<lockVars, kind, lease, due, proc, dirty, faults>>
  /\ UNCHANGED <<disturbed, away, late, stray>>

------------------------------------------------------------------------------
(***************************************************************************)
(* Time and failures.                                                      *)
(***************************************************************************)

\* Mutant: SET NX without EX.
AgedForever == ttl

\* The key's lifetime after one tick.
Aged == IF key = NoUser THEN 0 ELSE ttl - 1

\* One renewal period passes; a thread that has to renew and can, renews first.
Tick ==
  /\ \A u \in Users : Renewing(u) => due[u] = 0
  /\ ttl' = Aged
  /\ key' = IF ttl' = 0 THEN NoUser ELSE key
  /\ due' = [u \in Users |->
               IF pc[u] \in Inside /\ lease[u] = "held" THEN 1 ELSE due[u]]
  /\ away' = [u \in Users |->
               IF pc[u] \in Inside /\ proc[u] = "up" /\ key # u /\ away[u] < 2
                 THEN away[u] + 1 ELSE away[u]]
  /\ UNCHANGED <<redis, kind, pc, lease, proc, treeVars, faults>>
  /\ UNCHANGED <<disturbed, late, intruded, stray>>

Fault ==
  /\ faults < MaxFaults
  /\ faults' = faults + 1

\* The process is not scheduled for a while, its renewing thread neither.
Stall(u) ==
  /\ pc[u] \in Inside
  /\ proc[u] = "up"
  /\ Fault
  /\ proc' = [proc EXCEPT ![u] = "stalled"]
  /\ disturbed' = disturbed \cup {u}
  /\ UNCHANGED <<lockVars, kind, pc, lease, due, treeVars>>
  /\ UNCHANGED <<away, late, intruded, stray>>

Resume(u) ==
  /\ proc[u] = "stalled"
  /\ proc' = [proc EXCEPT ![u] = "up"]
  /\ away' = [away EXCEPT ![u] = 0]
  /\ UNCHANGED <<lockVars, kind, pc, lease, due, treeVars, faults>>
  /\ UNCHANGED <<disturbed, late, intruded, stray>>

\* The worker process dies with the lease, the tree stays as it is.
Crash(u) ==
  /\ pc[u] \in Inside
  /\ proc[u] = "up"
  /\ Fault
  /\ Goto(u, "dead")
  /\ lease' = [lease EXCEPT ![u] = "none"]
  /\ due' = [due EXCEPT ![u] = 0]
  /\ kind' = [kind EXCEPT ![u] = "none"]
  /\ UNCHANGED <<lockVars, proc, treeVars, ghosts>>

RedisFails ==
  /\ redis = "up"
  /\ Fault
  /\ redis' = "down"
  /\ disturbed' = disturbed \cup {u \in Users : pc[u] \in Inside}
  /\ UNCHANGED <<key, ttl, userVars, treeVars>>
  /\ UNCHANGED <<away, late, intruded, stray>>

RedisReturns ==
  /\ redis = "down"
  /\ redis' = "up"
  /\ UNCHANGED <<key, ttl, userVars, treeVars, faults, ghosts>>

\* clear_all: an operator's "clear cache" deletes the lock keys as well.
ClearCache ==
  /\ key # NoUser
  /\ redis = "up"
  /\ Fault
  /\ key' = NoUser
  /\ ttl' = 0
  /\ disturbed' = disturbed \cup {key}
  /\ UNCHANGED <<redis, userVars, treeVars>>
  /\ UNCHANGED <<away, late, intruded, stray>>

------------------------------------------------------------------------------
UserStep(u) ==
  \/ Acquire(u) \/ NoCache(u) \/ GiveUp(u) \/ Release(u)
  \/ OpenTree(u) \/ Checkout(u) \/ Write(u)
  \/ CheckBeforeCommit(u) \/ Commit(u) \/ CheckBeforePush(u) \/ Push(u)
  \/ PinReviewed(u) \/ ReadConfig(u) \/ Refused(u) \/ GitFails(u) \/ Restore(u)

Next ==
  \/ \E u \in Users :
       Begin(u) \/ UserStep(u) \/ Renew(u) \/ Stall(u) \/ Resume(u) \/ Crash(u)
  \/ Tick \/ RedisFails \/ RedisReturns \/ ClearCache

\* Time passes, and a process that is scheduled goes on with its work: every
\* git call of the bracket returns or raises.
Fairness ==
  /\ WF_vars(Tick)
  /\ \A u \in Users : WF_vars(Renew(u)) /\ WF_vars(UserStep(u))

Spec == Init /\ [][Next]_vars /\ Fairness

------------------------------------------------------------------------------
(***************************************************************************)
(* Properties.                                                             *)
(***************************************************************************)

\* A holder that was scheduled all the time, with Redis at hand, owns the key
\* for as long as it works, however long that is, although holders that lost
\* the lock release theirs late (repo_lock.py, compare-and-delete, C1-07).
PunctualHolderIsProtected ==
  \A u \in Users \ disturbed :
    pc[u] \in Inside => lease[u] = "held" /\ key = u

\* Who asks for its lease more than one renewal period of its own running time
\* after it lost the key is refused: a stage commits and pushes no more, a
\* store-artifact does not start to commit, a deploy does not start to read
\* (repo_lock.py, ensure_held). What comes after a check that passed, and the
\* steps without one (checkouts, writes, the push of a store-artifact, all of
\* backup-aci-config), the loss does not stop; see DeployIsPinned.
LossStopsTheWork == late = "no"

\* "The deploy is pinned: HEAD must be the reviewed commit"
\* (from_change_request/executor.py, _cr_tree): every configuration that a deploy
\* reads is read from the reviewed branch. It is violated: the pin and the lease
\* are looked at once, before the first of the reads.
DeployIsPinned == [][\A u \in Users : ReadConfig(u) => head = u]_vars

\* As long as nobody touches the tree without the key, every commit and every
\* deploy is on its own branch, whatever crashed or failed halfway before it
\* (tree_scope.py and service.py, C5-01).
EveryoneOnTheirBranch == stray = "no"

\* Nobody keeps the lock for good: it is released, or it expires.
LockIsFreed == \A u \in Users : key = u ~> key # u
==============================================================================
