---------------------------- MODULE ScheduleProofs ----------------------------
(***************************************************************************)
(* Proofs about Schedule, for every number of requests, triggers, entries  *)
(* and faults.                                                             *)
(***************************************************************************)
EXTENDS Schedule, TLAPS

\* The steps of the specification, one by one.
LEMMA Steps ==
  ASSUME [Next]_vars
  PROVE  \/ \E u \in Users :
              \/ Insert(u) \/ RegisterNew(u) \/ StoreNew(u) \/ RegisterNewFails(u)
              \/ UndoInsert(u) \/ EditReads(u) \/ EditPublishes(u) \/ EditStores(u)
              \/ Reregister(u) \/ StoreEntry(u) \/ ReregisterFails(u) \/ SwitchOff(u)
              \/ DropOld(u) \/ RemovalReads(u) \/ RemoveEntry(u) \/ RemoveEntryFails(u)
              \/ Erase(u) \/ Disable(u) \/ Deactivate(u) \/ Crash(u)
         \/ \E f \in Fires :
              \/ EntryIsDue(f) \/ FireReads(f) \/ FireChecks(f) \/ FireMarks(f)
              \/ FireStarts(f) \/ FireDies(f)
         \/ Revoke \/ Reactivate \/ UNCHANGED vars
BY DEF Next, RequestStep, Trigger

------------------------------------------------------------------------------
(***************************************************************************)
(* Types.                                                                  *)
(***************************************************************************)

LEMMA TypeInit == Init => TypeOK
BY ScheduleBounds DEF Init, TypeOK, Rows, Wishes, NoRow, NoWish, Kinds, Flags,
  RequestSteps, FireSteps

LEMMA UpdateType ==
  ASSUME TypeOK, NEW loaded \in Rows(made), NEW on \in Flags, NEW k \in Kinds,
         Update(loaded, on, k)
  PROVE  enabled' \in Flags /\ kind' \in Kinds /\ entry' \in 0 .. made
BY ScheduleBounds DEF TypeOK, Rows, Update, Written

LEMMA RegisterType ==
  ASSUME TypeOK, NEW k \in Kinds, Register(k)
  PROVE  /\ made' \in 0 .. MaxEntries
         /\ made' = made + 1
         /\ crons' \in SUBSET (1 .. made')
         /\ onces' \in SUBSET (1 .. made')
         /\ crons' \cap onces' = {}
         /\ 0 .. made \subseteq 0 .. made'
BY ScheduleBounds DEF TypeOK, Register, Kinds

LEMMA UnregisterType ==
  ASSUME TypeOK, NEW e, Unregister(e)
  PROVE  /\ crons' \in SUBSET (1 .. made) /\ onces' \in SUBSET (1 .. made)
         /\ crons' \cap onces' = {}
         /\ made' = made
BY DEF TypeOK, Unregister

LEMMA PublishedWish ==
  ASSUME NEW w \in Wishes
  PROVE  [w EXCEPT !.tier = "published"] \in Wishes
BY DEF Wishes

LEMMA TypeStep ==
  ASSUME TypeOK, [Next]_vars
  PROVE  TypeOK'
<1> USE ScheduleBounds DEF TypeOK, Rows, Wishes, NoRow, NoWish, Kinds, Flags,
      RequestSteps, FireSteps, dbVars, engineVars, requestVars, fireVars, history
<1>1. ASSUME NEW u \in Users, Insert(u) PROVE TypeOK'
  <2>1. PICK on \in Flags, k \in Kinds :
            /\ enabled' = InsertedFlag(on)
            /\ kind' = k
            /\ IF on = "on"
                 THEN /\ Goto(u, "register")
                      /\ mem' = [mem EXCEPT ![u] = [enabled |-> on, kind |-> k, entry |-> 0]]
                 ELSE UNCHANGED <<pc, mem>>
    BY <1>1 DEF Insert
  <2>2. /\ Request /\ row' = "live" /\ entry' = 0
        /\ UNCHANGED <<owner, engineVars, want, old, fireVars, faults, history>>
    BY <1>1 DEF Insert
  <2>3. pc' \in [Users -> RequestSteps] /\ mem' \in [Users -> Rows(made)]
    <3>1. CASE on = "on"
      <4>1. /\ Goto(u, "register")
            /\ mem' = [mem EXCEPT ![u] = [enabled |-> on, kind |-> k, entry |-> 0]]
        BY <2>1, <3>1
      <4>2. [enabled |-> on, kind |-> k, entry |-> 0] \in Rows(made)
        OBVIOUS
      <4> QED
        BY <4>1, <4>2 DEF Goto
    <3>2. CASE on # "on"
      BY <2>1, <3>2
    <3> QED
      BY <3>1, <3>2
  <2> QED
    BY <2>1, <2>2, <2>3 DEF Request, InsertedFlag
<1>2. ASSUME NEW u \in Users, RegisterNew(u) PROVE TypeOK'
  BY <1>2 DEF RegisterNew, Register, NewEntry, Goto
<1>3. ASSUME NEW u \in Users, StoreNew(u) PROVE TypeOK'
  <2>1. CASE row = "live"
    <3>1. /\ enabled' = "on"
          /\ entry' = mem[u].entry
          /\ armed' = "yes"
          /\ crossed' \in {crossed, "yes"}
          /\ Answer(u)
          /\ UNCHANGED <<row, kind, owner, engineVars, requests, fireVars, faults,
                        rash, lost, revoked, abused>>
      BY <1>3, <2>1 DEF StoreNew
    <3> QED
      BY <3>1 DEF Answer
  <2>2. CASE row # "live"
    <3>1. /\ Answer(u)
          /\ UNCHANGED <<dbVars, owner, engineVars, requests, fireVars, faults, history>>
      BY <1>3, <2>2 DEF StoreNew
    <3> QED
      BY <3>1 DEF Answer
  <2> QED
    BY <1>3, <2>1, <2>2 DEF StoreNew
<1>4. ASSUME NEW u \in Users, RegisterNewFails(u) PROVE TypeOK'
  <2>1. CASE Register(mem[u].kind)
    <3>1. /\ Register(mem[u].kind)
          /\ mem[u].kind \in Kinds
          /\ Fault
          /\ Goto(u, "undo")
          /\ UNCHANGED <<dbVars, owner, mem, want, old, requests, fireVars, history>>
      BY <1>4, <2>1 DEF RegisterNewFails
    <3>2. /\ made' \in 0 .. MaxEntries /\ made' = made + 1
          /\ crons' \in SUBSET (1 .. made') /\ onces' \in SUBSET (1 .. made')
          /\ crons' \cap onces' = {}
      BY <3>1, RegisterType
    <3> QED
      BY <3>1, <3>2 DEF Fault, Goto
  <2>2. CASE UNCHANGED engineVars
    <3>1. /\ Fault
          /\ Goto(u, "undo")
          /\ UNCHANGED <<dbVars, owner, engineVars, mem, want, old, requests, fireVars, history>>
      BY <1>4, <2>2 DEF RegisterNewFails
    <3> QED
      BY <3>1 DEF Fault, Goto
  <2> QED
    BY <1>4, <2>1, <2>2 DEF RegisterNewFails
<1>5. ASSUME NEW u \in Users, UndoInsert(u) PROVE TypeOK'
  BY <1>5 DEF UndoInsert, DeleteRow, Answer
<1>6. ASSUME NEW u \in Users, EditReads(u) PROVE TypeOK'
  BY <1>6 DEF EditReads, Request, TheRow, Goto
<1>7. ASSUME NEW u \in Users, EditPublishes(u) PROVE TypeOK'
  <2>1. CASE row = "live"
    <3>1. /\ want' = [want EXCEPT ![u].tier = "published"]
          /\ mem' = [mem EXCEPT ![u] = TheRow]
          /\ old' = [old EXCEPT ![u] = entry]
          /\ UNCHANGED <<dbVars, owner, engineVars, pc, requests, fireVars, faults, history>>
      BY <1>7, <2>1 DEF EditPublishes
    <3>2. want' \in [Users -> Wishes]
      <4>1. want' = [want EXCEPT ![u] = [want[u] EXCEPT !.tier = "published"]]
        BY <3>1
      <4>2. want[u] \in Wishes
        OBVIOUS
      <4>3. [want[u] EXCEPT !.tier = "published"] \in Wishes
        BY <4>2, PublishedWish
      <4> QED
        BY <4>1, <4>3
    <3>3. mem' \in [Users -> Rows(made)] /\ old' \in [Users -> 0 .. made]
      BY <3>1 DEF TheRow
    <3> QED
      BY <3>1, <3>2, <3>3
  <2>2. CASE row # "live"
    <3>1. /\ Answer(u)
          /\ UNCHANGED <<dbVars, owner, engineVars, requests, fireVars, faults, history>>
      BY <1>7, <2>2 DEF EditPublishes
    <3> QED
      BY <3>1 DEF Answer
  <2> QED
    BY <1>7, <2>1, <2>2 DEF EditPublishes
<1>8. ASSUME NEW u \in Users, EditStores(u) PROVE TypeOK'
  <2>1. CASE row = "live"
    <3>1. /\ Update(mem[u], want[u].enabled, want[u].kind)
          /\ armed' = IF enabled' = "on" THEN "yes" ELSE armed
          /\ IF enabled' = "on"
               THEN /\ Goto(u, "reregister")
                    /\ mem' = [mem EXCEPT ![u] = [enabled |-> "on", kind |-> kind',
                                                  entry |-> entry']]
               ELSE Forget(u, "drop")
          /\ want' = [want EXCEPT ![u] = NoWish]
          /\ UNCHANGED <<row, old, owner, engineVars, requests, fireVars, faults,
                        rash, lost, crossed, revoked, abused>>
      BY <1>8, <2>1 DEF EditStores
    <3>2. enabled' \in Flags /\ kind' \in Kinds /\ entry' \in 0 .. made
      BY <3>1, UpdateType
    <3>3. pc' \in [Users -> RequestSteps] /\ mem' \in [Users -> Rows(made)]
      <4>1. CASE enabled' = "on"
        <5>1. /\ Goto(u, "reregister")
              /\ mem' = [mem EXCEPT ![u] = [enabled |-> "on", kind |-> kind',
                                            entry |-> entry']]
          BY <3>1, <4>1
        <5>2. [enabled |-> "on", kind |-> kind', entry |-> entry'] \in Rows(made)
          BY <3>2
        <5> QED
          BY <5>1, <5>2 DEF Goto
      <4>2. CASE enabled' # "on"
        <5>1. Forget(u, "drop")
          BY <3>1, <4>2
        <5> QED
          BY <5>1 DEF Forget, Goto
      <4> QED
        BY <4>1, <4>2
    <3>4. armed' \in {"no", "yes"}
      BY <3>1
    <3> QED
      BY <3>1, <3>2, <3>3, <3>4
  <2>2. CASE row # "live"
    <3>1. /\ Answer(u)
          /\ UNCHANGED <<dbVars, owner, engineVars, requests, fireVars, faults, history>>
      BY <1>8, <2>2 DEF EditStores
    <3> QED
      BY <3>1 DEF Answer
  <2> QED
    BY <2>1, <2>2
<1>9. ASSUME NEW u \in Users, Reregister(u) PROVE TypeOK'
  BY <1>9 DEF Reregister, Register, NewEntry, Goto
<1>10. ASSUME NEW u \in Users, StoreEntry(u) PROVE TypeOK'
  <2>1. CASE row = "live"
    <3>1. /\ entry' = mem[u].entry
          /\ Forget(u, "drop")
          /\ UNCHANGED <<row, enabled, kind, owner, engineVars, want, old, requests, fireVars,
                        faults, history>>
      BY <1>10, <2>1 DEF StoreEntry
    <3> QED
      BY <3>1 DEF Forget, Goto
  <2>2. CASE row # "live"
    <3>1. /\ Answer(u)
          /\ UNCHANGED <<dbVars, owner, engineVars, requests, fireVars, faults, history>>
      BY <1>10, <2>2 DEF StoreEntry
    <3> QED
      BY <3>1 DEF Answer
  <2> QED
    BY <1>10, <2>1, <2>2 DEF StoreEntry
<1>11. ASSUME NEW u \in Users, ReregisterFails(u) PROVE TypeOK'
  <2>1. CASE Register(mem[u].kind)
    <3>1. /\ Register(mem[u].kind)
          /\ mem[u].kind \in Kinds
          /\ Fault
          /\ Goto(u, "off")
          /\ UNCHANGED <<dbVars, owner, mem, want, old, requests, fireVars, history>>
      BY <1>11, <2>1 DEF ReregisterFails
    <3>2. /\ made' \in 0 .. MaxEntries /\ made' = made + 1
          /\ crons' \in SUBSET (1 .. made') /\ onces' \in SUBSET (1 .. made')
          /\ crons' \cap onces' = {}
      BY <3>1, RegisterType
    <3> QED
      BY <3>1, <3>2 DEF Fault, Goto
  <2>2. CASE UNCHANGED engineVars
    <3>1. /\ Fault
          /\ Goto(u, "off")
          /\ UNCHANGED <<dbVars, owner, engineVars, mem, want, old, requests, fireVars, history>>
      BY <1>11, <2>2 DEF ReregisterFails
    <3> QED
      BY <3>1 DEF Fault, Goto
  <2> QED
    BY <1>11, <2>1, <2>2 DEF ReregisterFails
<1>12. ASSUME NEW u \in Users, SwitchOff(u) PROVE TypeOK'
  <2>1. CASE row = "live"
    <3>1. /\ Update(mem[u], "off", mem[u].kind)
          /\ mem[u] \in Rows(made) /\ mem[u].kind \in Kinds
          /\ Forget(u, "drop")
          /\ UNCHANGED <<row, owner, engineVars, want, old, requests, fireVars, faults, history>>
      BY <1>12, <2>1 DEF SwitchOff
    <3>2. enabled' \in Flags /\ kind' \in Kinds /\ entry' \in 0 .. made
      BY <3>1, UpdateType
    <3> QED
      BY <3>1, <3>2 DEF Forget, Goto
  <2>2. CASE row # "live"
    <3>1. /\ Answer(u)
          /\ UNCHANGED <<dbVars, owner, engineVars, requests, fireVars, faults, history>>
      BY <1>12, <2>2 DEF SwitchOff
    <3> QED
      BY <3>1 DEF Answer
  <2> QED
    BY <1>12, <2>1, <2>2 DEF SwitchOff
<1>13. ASSUME NEW u \in Users, DropOld(u) PROVE TypeOK'
  <2>1. CASE Unregister(Obsolete(u)) /\ UNCHANGED faults
    <3>1. /\ Unregister(Obsolete(u))
          /\ Answer(u)
          /\ UNCHANGED <<dbVars, owner, requests, fireVars, faults, history>>
      BY <1>13, <2>1 DEF DropOld
    <3>2. /\ crons' \in SUBSET (1 .. made) /\ onces' \in SUBSET (1 .. made)
          /\ crons' \cap onces' = {} /\ made' = made
      BY <3>1, UnregisterType
    <3> QED
      BY <3>1, <3>2 DEF Answer
  <2>2. CASE Fault /\ UNCHANGED engineVars
    <3>1. /\ Fault
          /\ Answer(u)
          /\ UNCHANGED <<dbVars, owner, engineVars, requests, fireVars, history>>
      BY <1>13, <2>2 DEF DropOld
    <3> QED
      BY <3>1 DEF Fault, Answer
  <2> QED
    BY <1>13, <2>1, <2>2 DEF DropOld
<1>14. ASSUME NEW u \in Users, RemovalReads(u) PROVE TypeOK'
  BY <1>14 DEF RemovalReads, Request, TheRow, Goto
<1>15. ASSUME NEW u \in Users, RemoveEntry(u) PROVE TypeOK'
  BY <1>15 DEF RemoveEntry, Unregister, Goto
<1>16. ASSUME NEW u \in Users, RemoveEntryFails(u) PROVE TypeOK'
  <2>1. CASE Unregister(mem[u].entry) /\ lost' = "yes"
    <3>1. /\ Unregister(mem[u].entry)
          /\ lost' = "yes"
          /\ Fault
          /\ Answer(u)
          /\ UNCHANGED <<dbVars, owner, requests, fireVars, armed, rash, crossed, revoked, abused>>
      BY <1>16, <2>1 DEF RemoveEntryFails
    <3>2. /\ crons' \in SUBSET (1 .. made) /\ onces' \in SUBSET (1 .. made)
          /\ crons' \cap onces' = {} /\ made' = made
      BY <3>1, UnregisterType
    <3> QED
      BY <3>1, <3>2 DEF Answer, Fault
  <2>2. CASE UNCHANGED <<engineVars, lost>>
    <3>1. /\ Fault
          /\ Answer(u)
          /\ UNCHANGED <<dbVars, owner, engineVars, requests, fireVars, history>>
      BY <1>16, <2>2 DEF RemoveEntryFails
    <3> QED
      BY <3>1 DEF Fault, Answer
  <2> QED
    BY <1>16, <2>1, <2>2 DEF RemoveEntryFails
<1>17. ASSUME NEW u \in Users, Erase(u) PROVE TypeOK'
  BY <1>17 DEF Erase, DeleteRow, Answer
<1>18. ASSUME NEW u \in Users, Disable(u) PROVE TypeOK'
  <2>1. CASE row = "live"
    <3>1. /\ Update(mem[u], "off", mem[u].kind)
          /\ mem[u] \in Rows(made) /\ mem[u].kind \in Kinds
          /\ Forget(u, "deactivate")
          /\ UNCHANGED <<row, owner, engineVars, want, old, requests, fireVars, faults, history>>
      BY <1>18, <2>1 DEF Disable
    <3>2. enabled' \in Flags /\ kind' \in Kinds /\ entry' \in 0 .. made
      BY <3>1, UpdateType
    <3> QED
      BY <3>1, <3>2 DEF Forget, Goto
  <2>2. CASE row # "live"
    <3>1. /\ Answer(u)
          /\ UNCHANGED <<dbVars, owner, engineVars, requests, fireVars, faults, history>>
      BY <1>18, <2>2 DEF Disable
    <3> QED
      BY <3>1 DEF Answer
  <2> QED
    BY <1>18, <2>1, <2>2 DEF Disable
<1>19. ASSUME NEW u \in Users, Deactivate(u) PROVE TypeOK'
  BY <1>19 DEF Deactivate, Answer
<1>20. ASSUME NEW u \in Users, Crash(u) PROVE TypeOK'
  BY <1>20 DEF Crash, Answer, Fault
<1>21. ASSUME NEW f \in Fires, EntryIsDue(f) PROVE TypeOK'
  BY <1>21 DEF EntryIsDue
<1>22. ASSUME NEW f \in Fires, FireReads(f) PROVE TypeOK'
  <2>1. CASE row = "live" /\ enabled = "on"
    <3>1. /\ fire' = [fire EXCEPT ![f] = "read"]
          /\ fmem' = [fmem EXCEPT ![f] = TheRow]
          /\ revoked' \in SUBSET Fires
          /\ UNCHANGED <<dbVars, owner, engineVars, requestVars, faults, armed, rash, lost,
                        crossed, abused>>
      BY <1>22, <2>1 DEF FireReads
    <3> QED
      BY <3>1 DEF TheRow
  <2>2. CASE ~(row = "live" /\ enabled = "on")
    <3>1. /\ FireEnds(f)
          /\ UNCHANGED <<dbVars, owner, engineVars, requestVars, faults, armed, rash, lost,
                        crossed, abused>>
      BY <1>22, <2>2 DEF FireReads
    <3> QED
      BY <3>1 DEF FireEnds
  <2> QED
    BY <1>22, <2>1, <2>2 DEF FireReads
<1>23. ASSUME NEW f \in Fires, FireChecks(f) PROVE TypeOK'
  <2>1. CASE Authorised
    <3>1. /\ fire' = [fire EXCEPT ![f] = "mark"]
          /\ UNCHANGED <<dbVars, owner, engineVars, requestVars, fmem, faults, history>>
      BY <1>23, <2>1 DEF FireChecks
    <3> QED
      BY <3>1
  <2>2. CASE ~Authorised /\ row = "live"
    <3>1. /\ Update(fmem[f], "off", fmem[f].kind)
          /\ fmem[f] \in Rows(made) /\ fmem[f].kind \in Kinds
          /\ FireEnds(f)
          /\ UNCHANGED <<row, owner, engineVars, requestVars, faults, armed, rash, lost,
                        crossed, abused>>
      BY <1>23, <2>2 DEF FireChecks
    <3>2. enabled' \in Flags /\ kind' \in Kinds /\ entry' \in 0 .. made
      BY <3>1, UpdateType
    <3> QED
      BY <3>1, <3>2 DEF FireEnds
  <2>3. CASE ~Authorised /\ row # "live"
    <3>1. /\ FireEnds(f)
          /\ UNCHANGED <<dbVars, owner, engineVars, requestVars, faults, armed, rash, lost,
                        crossed, abused>>
      BY <1>23, <2>3 DEF FireChecks
    <3> QED
      BY <3>1 DEF FireEnds
  <2> QED
    BY <1>23, <2>1, <2>2, <2>3 DEF FireChecks
<1>24. ASSUME NEW f \in Fires, FireMarks(f) PROVE TypeOK'
  <2>1. CASE row = "live" /\ fmem[f].kind = "once"
    <3>1. /\ Update(fmem[f], "off", fmem[f].kind)
          /\ fmem[f] \in Rows(made) /\ fmem[f].kind \in Kinds
          /\ fire' = [fire EXCEPT ![f] = "start"]
          /\ fmem' = [fmem EXCEPT ![f] = NoRow]
          /\ UNCHANGED <<row, owner, engineVars, requestVars, faults, history>>
      BY <1>24, <2>1 DEF FireMarks
    <3>2. enabled' \in Flags /\ kind' \in Kinds /\ entry' \in 0 .. made
      BY <3>1, UpdateType
    <3> QED
      BY <3>1, <3>2
  <2>2. CASE row = "live" /\ fmem[f].kind # "once"
    <3>1. /\ fire' = [fire EXCEPT ![f] = "start"]
          /\ fmem' = [fmem EXCEPT ![f] = NoRow]
          /\ UNCHANGED <<dbVars, owner, engineVars, requestVars, faults, history>>
      BY <1>24, <2>2 DEF FireMarks
    <3> QED
      BY <3>1
  <2>3. CASE row # "live"
    <3>1. /\ FireEnds(f)
          /\ UNCHANGED <<dbVars, owner, engineVars, requestVars, faults, armed, rash, lost,
                        crossed, abused>>
      BY <1>24, <2>3 DEF FireMarks
    <3> QED
      BY <3>1 DEF FireEnds
  <2> QED
    BY <1>24, <2>1, <2>2, <2>3 DEF FireMarks
<1>25. ASSUME NEW f \in Fires, FireStarts(f) PROVE TypeOK'
  BY <1>25 DEF FireStarts, FireEnds
<1>26. ASSUME NEW f \in Fires, FireDies(f) PROVE TypeOK'
  BY <1>26 DEF FireDies, FireEnds, Fault
<1>27. CASE Revoke
  BY <1>27 DEF Revoke
<1>28. CASE Reactivate
  BY <1>28 DEF Reactivate
<1>29. CASE UNCHANGED vars
  BY <1>29 DEF vars
<1> QED
  BY Steps,
    <1>1, <1>2, <1>3, <1>4, <1>5, <1>6, <1>7, <1>8, <1>9, <1>10,
    <1>11, <1>12, <1>13, <1>14, <1>15, <1>16, <1>17, <1>18, <1>19, <1>20,
    <1>21, <1>22, <1>23, <1>24, <1>25, <1>26, <1>27, <1>28, <1>29

\* Every state of the row, the engine, the requests and the triggers is of its
\* type; in particular no session and no column holds an id the engine has not
\* given, and no entry is both a cron and a one-time entry (TypeOK).
THEOREM TypeCorrect == Spec => []TypeOK
<1>1. Init => TypeOK
  BY TypeInit
<1>2. TypeOK /\ [Next]_vars => TypeOK'
  BY TypeStep
<1> QED
  BY <1>1, <1>2, PTL DEF Spec

------------------------------------------------------------------------------
(***************************************************************************)
(* Triggers and the rights of the owner.                                   *)
(***************************************************************************)

\* A trigger that began without rights is still before its check, and the
\* rights are still missing.
Rights ==
  /\ \A f \in revoked : fire[f] = "read" /\ owner = "inactive"
  /\ abused = "no"

LEMMA RightsStep ==
  ASSUME TypeOK, Rights, [Next]_vars
  PROVE  Rights'
<1> USE DEF TypeOK, Rights, dbVars, engineVars, requestVars, fireVars, history, FireEnds
<1>1. ASSUME NEW u \in Users, Insert(u) PROVE Rights'
  BY <1>1 DEF Insert
<1>2. ASSUME NEW u \in Users, RegisterNew(u) PROVE Rights'
  BY <1>2 DEF RegisterNew
<1>3. ASSUME NEW u \in Users, StoreNew(u) PROVE Rights'
  BY <1>3 DEF StoreNew
<1>4. ASSUME NEW u \in Users, RegisterNewFails(u) PROVE Rights'
  BY <1>4 DEF RegisterNewFails
<1>5. ASSUME NEW u \in Users, UndoInsert(u) PROVE Rights'
  BY <1>5 DEF UndoInsert
<1>6. ASSUME NEW u \in Users, EditReads(u) PROVE Rights'
  BY <1>6 DEF EditReads
<1>7. ASSUME NEW u \in Users, EditPublishes(u) PROVE Rights'
  BY <1>7 DEF EditPublishes
<1>8. ASSUME NEW u \in Users, EditStores(u) PROVE Rights'
  BY <1>8 DEF EditStores
<1>9. ASSUME NEW u \in Users, Reregister(u) PROVE Rights'
  BY <1>9 DEF Reregister
<1>10. ASSUME NEW u \in Users, StoreEntry(u) PROVE Rights'
  BY <1>10 DEF StoreEntry
<1>11. ASSUME NEW u \in Users, ReregisterFails(u) PROVE Rights'
  BY <1>11 DEF ReregisterFails
<1>12. ASSUME NEW u \in Users, SwitchOff(u) PROVE Rights'
  BY <1>12 DEF SwitchOff
<1>13. ASSUME NEW u \in Users, DropOld(u) PROVE Rights'
  BY <1>13 DEF DropOld
<1>14. ASSUME NEW u \in Users, RemovalReads(u) PROVE Rights'
  BY <1>14 DEF RemovalReads
<1>15. ASSUME NEW u \in Users, RemoveEntry(u) PROVE Rights'
  BY <1>15 DEF RemoveEntry
<1>16. ASSUME NEW u \in Users, RemoveEntryFails(u) PROVE Rights'
  BY <1>16 DEF RemoveEntryFails
<1>17. ASSUME NEW u \in Users, Erase(u) PROVE Rights'
  BY <1>17 DEF Erase
<1>18. ASSUME NEW u \in Users, Disable(u) PROVE Rights'
  BY <1>18 DEF Disable
<1>19. ASSUME NEW u \in Users, Deactivate(u) PROVE Rights'
  BY <1>19 DEF Deactivate
<1>20. ASSUME NEW u \in Users, Crash(u) PROVE Rights'
  BY <1>20 DEF Crash
<1>21. ASSUME NEW f \in Fires, EntryIsDue(f) PROVE Rights'
  BY <1>21 DEF EntryIsDue
<1>22. ASSUME NEW f \in Fires, FireReads(f) PROVE Rights'
  BY <1>22 DEF FireReads
<1>23. ASSUME NEW f \in Fires, FireChecks(f) PROVE Rights'
  BY <1>23 DEF FireChecks, Authorised
<1>24. ASSUME NEW f \in Fires, FireMarks(f) PROVE Rights'
  BY <1>24 DEF FireMarks
<1>25. ASSUME NEW f \in Fires, FireStarts(f) PROVE Rights'
  BY <1>25 DEF FireStarts
<1>26. ASSUME NEW f \in Fires, FireDies(f) PROVE Rights'
  BY <1>26 DEF FireDies
<1>27. CASE Revoke
  BY <1>27 DEF Revoke
<1>28. CASE Reactivate
  BY <1>28 DEF Reactivate
<1>29. CASE UNCHANGED vars
  BY <1>29 DEF vars
<1> QED
  BY Steps,
    <1>1, <1>2, <1>3, <1>4, <1>5, <1>6, <1>7, <1>8, <1>9, <1>10,
    <1>11, <1>12, <1>13, <1>14, <1>15, <1>16, <1>17, <1>18, <1>19, <1>20,
    <1>21, <1>22, <1>23, <1>24, <1>25, <1>26, <1>27, <1>28, <1>29

\* A trigger that began after the owner lost the right to run the workflow
\* starts no run (scheduled_trigger.py, S2-04), however many requests race.
THEOREM RightsHold == Spec => []NoRunWithoutRights
<1>1. Init => Rights
  BY DEF Init, Rights
<1>2. TypeOK /\ Rights /\ [Next]_vars => Rights'
  BY RightsStep
<1>3. Rights => NoRunWithoutRights
  BY DEF Rights, NoRunWithoutRights
<1> QED
  BY <1>1, <1>2, <1>3, TypeCorrect, PTL DEF Spec

------------------------------------------------------------------------------
(***************************************************************************)
(* Nothing runs before a request has switched the schedule on.             *)
(***************************************************************************)

\* Until then the row is off, and no trigger has got past reading it.
Unarmed ==
  /\ rash = "no"
  /\ armed = "no" => enabled = "off" /\ \A f \in Fires : fire[f] \in {"idle", "due"}

\* Writing "off" never switches on.
LEMMA UpdateOff ==
  ASSUME NEW loaded, NEW k, Update(loaded, "off", k)
  PROVE  enabled' \in {"off", enabled}
BY DEF Update, Written

LEMMA UnarmedStep ==
  ASSUME TypeOK, Unarmed, [Next]_vars
  PROVE  Unarmed'
<1> USE DEF TypeOK, Unarmed, dbVars, engineVars, requestVars, fireVars, history, FireEnds
<1>1. ASSUME NEW u \in Users, Insert(u) PROVE Unarmed'
  BY <1>1 DEF Insert, InsertedFlag
<1>2. ASSUME NEW u \in Users, RegisterNew(u) PROVE Unarmed'
  BY <1>2 DEF RegisterNew
<1>3. ASSUME NEW u \in Users, StoreNew(u) PROVE Unarmed'
  BY <1>3 DEF StoreNew
<1>4. ASSUME NEW u \in Users, RegisterNewFails(u) PROVE Unarmed'
  BY <1>4 DEF RegisterNewFails
<1>5. ASSUME NEW u \in Users, UndoInsert(u) PROVE Unarmed'
  BY <1>5 DEF UndoInsert, DeleteRow
<1>6. ASSUME NEW u \in Users, EditReads(u) PROVE Unarmed'
  BY <1>6 DEF EditReads
<1>7. ASSUME NEW u \in Users, EditPublishes(u) PROVE Unarmed'
  BY <1>7 DEF EditPublishes
<1>8. ASSUME NEW u \in Users, EditStores(u) PROVE Unarmed'
  <2>1. UNCHANGED <<fire, rash>>
    BY <1>8 DEF EditStores
  <2>2. CASE row = "live"
    <3>1. /\ armed' = IF enabled' = "on" THEN "yes" ELSE armed
          /\ Update(mem[u], want[u].enabled, want[u].kind)
      BY <1>8, <2>2 DEF EditStores
    <3>2. enabled' \in Flags
      BY <3>1 DEF Update, Written, Rows, Wishes
    <3> QED
      BY <2>1, <3>1, <3>2 DEF Flags
  <2>3. CASE row # "live"
    BY <1>8, <2>1, <2>3 DEF EditStores
  <2> QED
    BY <2>2, <2>3
<1>9. ASSUME NEW u \in Users, Reregister(u) PROVE Unarmed'
  BY <1>9 DEF Reregister
<1>10. ASSUME NEW u \in Users, StoreEntry(u) PROVE Unarmed'
  BY <1>10 DEF StoreEntry
<1>11. ASSUME NEW u \in Users, ReregisterFails(u) PROVE Unarmed'
  BY <1>11 DEF ReregisterFails
<1>12. ASSUME NEW u \in Users, SwitchOff(u) PROVE Unarmed'
  <2>1. enabled' \in {"off", enabled} /\ UNCHANGED <<fire, rash, armed>>
    BY <1>12, UpdateOff DEF SwitchOff
  <2> QED
    BY <2>1
<1>13. ASSUME NEW u \in Users, DropOld(u) PROVE Unarmed'
  BY <1>13 DEF DropOld
<1>14. ASSUME NEW u \in Users, RemovalReads(u) PROVE Unarmed'
  BY <1>14 DEF RemovalReads
<1>15. ASSUME NEW u \in Users, RemoveEntry(u) PROVE Unarmed'
  BY <1>15 DEF RemoveEntry
<1>16. ASSUME NEW u \in Users, RemoveEntryFails(u) PROVE Unarmed'
  BY <1>16 DEF RemoveEntryFails
<1>17. ASSUME NEW u \in Users, Erase(u) PROVE Unarmed'
  BY <1>17 DEF Erase, DeleteRow
<1>18. ASSUME NEW u \in Users, Disable(u) PROVE Unarmed'
  <2>1. enabled' \in {"off", enabled} /\ UNCHANGED <<fire, rash, armed>>
    BY <1>18, UpdateOff DEF Disable
  <2> QED
    BY <2>1
<1>19. ASSUME NEW u \in Users, Deactivate(u) PROVE Unarmed'
  BY <1>19 DEF Deactivate
<1>20. ASSUME NEW u \in Users, Crash(u) PROVE Unarmed'
  BY <1>20 DEF Crash
<1>21. ASSUME NEW f \in Fires, EntryIsDue(f) PROVE Unarmed'
  BY <1>21 DEF EntryIsDue
<1>22. ASSUME NEW f \in Fires, FireReads(f) PROVE Unarmed'
  BY <1>22 DEF FireReads
<1>23. ASSUME NEW f \in Fires, FireChecks(f) PROVE Unarmed'
  <2>1. enabled' \in {"off", enabled} /\ UNCHANGED <<rash, armed>>
    BY <1>23, UpdateOff DEF FireChecks
  <2>2. armed = "yes"
    BY <1>23 DEF FireChecks
  <2> QED
    BY <2>1, <2>2
<1>24. ASSUME NEW f \in Fires, FireMarks(f) PROVE Unarmed'
  <2>1. enabled' \in {"off", enabled} /\ UNCHANGED <<rash, armed>>
    BY <1>24, UpdateOff DEF FireMarks
  <2>2. armed = "yes"
    BY <1>24 DEF FireMarks
  <2> QED
    BY <2>1, <2>2
<1>25. ASSUME NEW f \in Fires, FireStarts(f) PROVE Unarmed'
  BY <1>25 DEF FireStarts
<1>26. ASSUME NEW f \in Fires, FireDies(f) PROVE Unarmed'
  BY <1>26 DEF FireDies
<1>27. CASE Revoke
  BY <1>27 DEF Revoke
<1>28. CASE Reactivate
  BY <1>28 DEF Reactivate
<1>29. CASE UNCHANGED vars
  BY <1>29 DEF vars
<1> QED
  BY Steps,
    <1>1, <1>2, <1>3, <1>4, <1>5, <1>6, <1>7, <1>8, <1>9, <1>10,
    <1>11, <1>12, <1>13, <1>14, <1>15, <1>16, <1>17, <1>18, <1>19, <1>20,
    <1>21, <1>22, <1>23, <1>24, <1>25, <1>26, <1>27, <1>28, <1>29

\* No run is started before a creation has stored its id or an edit has switched
\* the schedule on, whatever entries failed requests leave in the engine
\* (create_schedule stores the row disabled).
THEOREM UnarmedHolds == Spec => []NothingRunsUnarmed
<1>1. Init => Unarmed
  BY DEF Init, Unarmed
<1>2. TypeOK /\ Unarmed /\ [Next]_vars => Unarmed'
  BY UnarmedStep
<1>3. Unarmed => NothingRunsUnarmed
  BY DEF Unarmed, NothingRunsUnarmed
<1> QED
  BY <1>1, <1>2, <1>3, TypeCorrect, PTL DEF Spec

------------------------------------------------------------------------------
(***************************************************************************)
(* Switching on.                                                           *)
(***************************************************************************)

\* What an edit stores is what it was asked for, or what it has read.
Intents ==
  \A u \in Users : pc[u] = "update" =>
    \/ want[u].asked = "on" \/ want[u].tier = "published"
    \/ want[u].enabled = "off" \/ want[u].enabled = mem[u].enabled

LEMMA IntentsStep ==
  ASSUME TypeOK, Intents, [Next]_vars
  PROVE  Intents'
<1> USE DEF TypeOK, Intents, dbVars, engineVars, requestVars, fireVars, history,
      Goto, Answer, Forget
<1>1. ASSUME NEW u \in Users, Insert(u) PROVE Intents'
  BY <1>1 DEF Insert
<1>2. ASSUME NEW u \in Users, RegisterNew(u) PROVE Intents'
  BY <1>2 DEF RegisterNew
<1>3. ASSUME NEW u \in Users, StoreNew(u) PROVE Intents'
  BY <1>3 DEF StoreNew
<1>4. ASSUME NEW u \in Users, RegisterNewFails(u) PROVE Intents'
  BY <1>4 DEF RegisterNewFails
<1>5. ASSUME NEW u \in Users, UndoInsert(u) PROVE Intents'
  BY <1>5 DEF UndoInsert
<1>6. ASSUME NEW u \in Users, EditReads(u) PROVE Intents'
  BY <1>6 DEF EditReads, TheRow, Flags
<1>7. ASSUME NEW u \in Users, EditPublishes(u) PROVE Intents'
  <2>1. CASE row = "live"
    <3>1. want' = [want EXCEPT ![u].tier = "published"] /\ UNCHANGED pc
          /\ mem' = [mem EXCEPT ![u] = TheRow]
      BY <1>7, <2>1 DEF EditPublishes
    <3>2. want'[u].tier = "published"
      BY <3>1 DEF Wishes
    <3>3. \A v \in Users \ {u} : want'[v] = want[v] /\ mem'[v] = mem[v]
      BY <3>1
    <3> QED
      BY <3>1, <3>2, <3>3
  <2>2. CASE row # "live"
    BY <1>7, <2>2 DEF EditPublishes
  <2> QED
    BY <2>1, <2>2
<1>8. ASSUME NEW u \in Users, EditStores(u) PROVE Intents'
  BY <1>8 DEF EditStores
<1>9. ASSUME NEW u \in Users, Reregister(u) PROVE Intents'
  BY <1>9 DEF Reregister
<1>10. ASSUME NEW u \in Users, StoreEntry(u) PROVE Intents'
  BY <1>10 DEF StoreEntry
<1>11. ASSUME NEW u \in Users, ReregisterFails(u) PROVE Intents'
  BY <1>11 DEF ReregisterFails
<1>12. ASSUME NEW u \in Users, SwitchOff(u) PROVE Intents'
  BY <1>12 DEF SwitchOff
<1>13. ASSUME NEW u \in Users, DropOld(u) PROVE Intents'
  BY <1>13 DEF DropOld
<1>14. ASSUME NEW u \in Users, RemovalReads(u) PROVE Intents'
  BY <1>14 DEF RemovalReads
<1>15. ASSUME NEW u \in Users, RemoveEntry(u) PROVE Intents'
  BY <1>15 DEF RemoveEntry
<1>16. ASSUME NEW u \in Users, RemoveEntryFails(u) PROVE Intents'
  BY <1>16 DEF RemoveEntryFails
<1>17. ASSUME NEW u \in Users, Erase(u) PROVE Intents'
  BY <1>17 DEF Erase
<1>18. ASSUME NEW u \in Users, Disable(u) PROVE Intents'
  BY <1>18 DEF Disable
<1>19. ASSUME NEW u \in Users, Deactivate(u) PROVE Intents'
  BY <1>19 DEF Deactivate
<1>20. ASSUME NEW u \in Users, Crash(u) PROVE Intents'
  BY <1>20 DEF Crash
<1>21. ASSUME NEW f \in Fires, EntryIsDue(f) PROVE Intents'
  BY <1>21 DEF EntryIsDue
<1>22. ASSUME NEW f \in Fires, FireReads(f) PROVE Intents'
  BY <1>22 DEF FireReads
<1>23. ASSUME NEW f \in Fires, FireChecks(f) PROVE Intents'
  BY <1>23 DEF FireChecks
<1>24. ASSUME NEW f \in Fires, FireMarks(f) PROVE Intents'
  BY <1>24 DEF FireMarks
<1>25. ASSUME NEW f \in Fires, FireStarts(f) PROVE Intents'
  BY <1>25 DEF FireStarts
<1>26. ASSUME NEW f \in Fires, FireDies(f) PROVE Intents'
  BY <1>26 DEF FireDies
<1>27. CASE Revoke
  BY <1>27 DEF Revoke
<1>28. CASE Reactivate
  BY <1>28 DEF Reactivate
<1>29. CASE UNCHANGED vars
  BY <1>29 DEF vars
<1> QED
  BY Steps,
    <1>1, <1>2, <1>3, <1>4, <1>5, <1>6, <1>7, <1>8, <1>9, <1>10,
    <1>11, <1>12, <1>13, <1>14, <1>15, <1>16, <1>17, <1>18, <1>19, <1>20,
    <1>21, <1>22, <1>23, <1>24, <1>25, <1>26, <1>27, <1>28, <1>29

\* A step that switches the schedule on is a step of the creation or of an edit
\* that asks for it or publishes in between.
LEMMA SwitchingOn ==
  ASSUME TypeOK, Intents, [Next]_vars, enabled = "off", enabled' = "on"
  PROVE  \E u \in Users :
           /\ pc'[u] # pc[u]
           /\ \/ pc[u] = "store"
              \/ pc[u] = "update" /\ want[u].asked = "on"
              \/ pc[u] = "update" /\ want[u].tier = "published"
<1> DEFINE G == \E u \in Users :
                  /\ pc'[u] # pc[u]
                  /\ \/ pc[u] = "store"
                     \/ pc[u] = "update" /\ want[u].asked = "on"
                     \/ pc[u] = "update" /\ want[u].tier = "published"
<1> SUFFICES G
  OBVIOUS
<1> HIDE DEF G
<1> USE DEF dbVars
<1>1. ASSUME NEW u \in Users, Insert(u) PROVE G
  BY <1>1 DEF Insert, InsertedFlag
<1>2. ASSUME NEW u \in Users, RegisterNew(u) PROVE G
  BY <1>2 DEF RegisterNew
<1>3. ASSUME NEW u \in Users, StoreNew(u) PROVE G
  <2>1. pc[u] = "store" /\ pc'[u] = "idle"
    BY <1>3 DEF StoreNew, Answer, TypeOK
  <2> QED
    BY <2>1 DEF G
<1>4. ASSUME NEW u \in Users, RegisterNewFails(u) PROVE G
  BY <1>4 DEF RegisterNewFails
<1>5. ASSUME NEW u \in Users, UndoInsert(u) PROVE G
  BY <1>5 DEF UndoInsert, DeleteRow
<1>6. ASSUME NEW u \in Users, EditReads(u) PROVE G
  BY <1>6 DEF EditReads
<1>7. ASSUME NEW u \in Users, EditPublishes(u) PROVE G
  BY <1>7 DEF EditPublishes
<1>8. ASSUME NEW u \in Users, EditStores(u) PROVE G
  <2>1. pc[u] = "update" /\ row = "live"
    BY <1>8 DEF EditStores
  <2>2. Update(mem[u], want[u].enabled, want[u].kind)
    BY <1>8, <2>1 DEF EditStores
  <2>3. want[u].enabled = "on" /\ mem[u].enabled # "on"
    BY <2>2 DEF Update, Written
  <2>4. want[u].asked = "on" \/ want[u].tier = "published"
    BY <2>1, <2>3 DEF Intents
  <2>5. pc'[u] = "reregister"
    BY <1>8, <2>1 DEF EditStores, Goto, TypeOK
  <2> QED
    BY <2>1, <2>4, <2>5 DEF G
<1>9. ASSUME NEW u \in Users, Reregister(u) PROVE G
  BY <1>9 DEF Reregister
<1>10. ASSUME NEW u \in Users, StoreEntry(u) PROVE G
  BY <1>10 DEF StoreEntry
<1>11. ASSUME NEW u \in Users, ReregisterFails(u) PROVE G
  BY <1>11 DEF ReregisterFails
<1>12. ASSUME NEW u \in Users, SwitchOff(u) PROVE G
  BY <1>12, UpdateOff DEF SwitchOff
<1>13. ASSUME NEW u \in Users, DropOld(u) PROVE G
  BY <1>13 DEF DropOld
<1>14. ASSUME NEW u \in Users, RemovalReads(u) PROVE G
  BY <1>14 DEF RemovalReads
<1>15. ASSUME NEW u \in Users, RemoveEntry(u) PROVE G
  BY <1>15 DEF RemoveEntry
<1>16. ASSUME NEW u \in Users, RemoveEntryFails(u) PROVE G
  BY <1>16 DEF RemoveEntryFails
<1>17. ASSUME NEW u \in Users, Erase(u) PROVE G
  BY <1>17 DEF Erase, DeleteRow
<1>18. ASSUME NEW u \in Users, Disable(u) PROVE G
  BY <1>18, UpdateOff DEF Disable
<1>19. ASSUME NEW u \in Users, Deactivate(u) PROVE G
  BY <1>19 DEF Deactivate
<1>20. ASSUME NEW u \in Users, Crash(u) PROVE G
  BY <1>20 DEF Crash
<1>21. ASSUME NEW f \in Fires, EntryIsDue(f) PROVE G
  BY <1>21 DEF EntryIsDue
<1>22. ASSUME NEW f \in Fires, FireReads(f) PROVE G
  BY <1>22 DEF FireReads
<1>23. ASSUME NEW f \in Fires, FireChecks(f) PROVE G
  BY <1>23, UpdateOff DEF FireChecks
<1>24. ASSUME NEW f \in Fires, FireMarks(f) PROVE G
  BY <1>24, UpdateOff DEF FireMarks
<1>25. ASSUME NEW f \in Fires, FireStarts(f) PROVE G
  BY <1>25 DEF FireStarts
<1>26. ASSUME NEW f \in Fires, FireDies(f) PROVE G
  BY <1>26 DEF FireDies
<1>27. CASE Revoke
  BY <1>27 DEF Revoke
<1>28. CASE Reactivate
  BY <1>28 DEF Reactivate
<1>29. CASE UNCHANGED vars
  BY <1>29 DEF vars
<1> QED
  BY Steps,
    <1>1, <1>2, <1>3, <1>4, <1>5, <1>6, <1>7, <1>8, <1>9, <1>10,
    <1>11, <1>12, <1>13, <1>14, <1>15, <1>16, <1>17, <1>18, <1>19, <1>20,
    <1>21, <1>22, <1>23, <1>24, <1>25, <1>26, <1>27, <1>28, <1>29

\* A switched-off schedule is switched on only by the creation, by an edit that
\* asks for it, or by one that publishes the workflow between reading the row
\* and writing it: a stale edit writes only the columns it has changed.
THEOREM SwitchingOnHolds == Spec => OnlyRequestsSwitchOn
<1>1. Init => Intents
  BY DEF Init, Intents
<1>2. TypeOK /\ Intents /\ [Next]_vars => Intents'
  BY IntentsStep
<1>3. TypeOK /\ Intents /\ [Next]_vars =>
        [ enabled = "off" /\ enabled' = "on" =>
            \E u \in Users :
              /\ pc'[u] # pc[u]
              /\ \/ pc[u] = "store"
                 \/ pc[u] = "update" /\ want[u].asked = "on"
                 \/ pc[u] = "update" /\ want[u].tier = "published" ]_vars
  BY SwitchingOn
<1> QED
  BY <1>1, <1>2, <1>3, TypeCorrect, PTL DEF Spec, OnlyRequestsSwitchOn

------------------------------------------------------------------------------
(***************************************************************************)
(* An enabled cron schedule has its entry.                                 *)
(***************************************************************************)

\* An edit that has stored "on" still has it in its session.
Lasting ==
  \A u \in Users : pc[u] \in {"reregister", "restore", "off"} => mem[u].enabled = "on"

\* An entry that was made and not yet stored is known to its request alone:
\* nobody else can remove it.
Private(u) ==
  /\ mem[u].entry \in 1 .. made
  /\ mem[u].kind = "cron" => mem[u].entry \in crons
  /\ mem[u].entry # entry
  /\ \A v \in Users : old[v] # mem[u].entry /\ (v # u => mem[v].entry # mem[u].entry)

Fresh == \A u \in Users : pc[u] \in {"store", "restore"} => Private(u)

\* Request u removes entry e and leaves an enabled cron schedule without
\* having made a cron entry of its own.
Harms(u, e) ==
  \/ pc[u] = "drop" /\ old[u] = e
  \/ pc[u] \in {"reregister", "restore"} /\ mem[u].kind = "once" /\ old[u] = e
  \/ pc[u] = "disarm" /\ mem[u].enabled = "off" /\ mem[u].entry = e

Safe(e) == e \in crons /\ \A u \in Users : ~ Harms(u, e)

\* Request u will make a cron entry, switch the schedule off or delete it.
Answerable(u) ==
  \/ pc[u] = "reregister" /\ mem[u].kind = "cron"
  \/ pc[u] \in {"off", "erase", "undo"}
  \/ pc[u] = "disable" /\ mem[u].enabled = "on"

OnCron ==
  /\ row = "live" /\ enabled = "on" /\ kind = "cron"
  /\ lost = "no" /\ crossed = "no"

Provided ==
  OnCron => (\E u \in Users : Answerable(u)) \/ (\E e \in crons : Safe(e))

LEMMA LastingStep ==
  ASSUME TypeOK, Lasting, [Next]_vars
  PROVE  Lasting'
<1> USE DEF TypeOK, Rows, Lasting, dbVars, engineVars, requestVars, fireVars, history, Goto, Answer, Forget
<1>1. ASSUME NEW u \in Users, Insert(u) PROVE Lasting'
  BY <1>1 DEF Insert
<1>2. ASSUME NEW u \in Users, RegisterNew(u) PROVE Lasting'
  BY <1>2 DEF RegisterNew
<1>3. ASSUME NEW u \in Users, StoreNew(u) PROVE Lasting'
  BY <1>3 DEF StoreNew
<1>4. ASSUME NEW u \in Users, RegisterNewFails(u) PROVE Lasting'
  BY <1>4 DEF RegisterNewFails
<1>5. ASSUME NEW u \in Users, UndoInsert(u) PROVE Lasting'
  BY <1>5 DEF UndoInsert
<1>6. ASSUME NEW u \in Users, EditReads(u) PROVE Lasting'
  BY <1>6 DEF EditReads
<1>7. ASSUME NEW u \in Users, EditPublishes(u) PROVE Lasting'
  BY <1>7 DEF EditPublishes
<1>8. ASSUME NEW u \in Users, EditStores(u) PROVE Lasting'
  BY <1>8 DEF EditStores
<1>9. ASSUME NEW u \in Users, Reregister(u) PROVE Lasting'
  BY <1>9 DEF Reregister
<1>10. ASSUME NEW u \in Users, StoreEntry(u) PROVE Lasting'
  BY <1>10 DEF StoreEntry
<1>11. ASSUME NEW u \in Users, ReregisterFails(u) PROVE Lasting'
  BY <1>11 DEF ReregisterFails
<1>12. ASSUME NEW u \in Users, SwitchOff(u) PROVE Lasting'
  BY <1>12 DEF SwitchOff
<1>13. ASSUME NEW u \in Users, DropOld(u) PROVE Lasting'
  BY <1>13 DEF DropOld
<1>14. ASSUME NEW u \in Users, RemovalReads(u) PROVE Lasting'
  BY <1>14 DEF RemovalReads
<1>15. ASSUME NEW u \in Users, RemoveEntry(u) PROVE Lasting'
  BY <1>15 DEF RemoveEntry
<1>16. ASSUME NEW u \in Users, RemoveEntryFails(u) PROVE Lasting'
  BY <1>16 DEF RemoveEntryFails
<1>17. ASSUME NEW u \in Users, Erase(u) PROVE Lasting'
  BY <1>17 DEF Erase
<1>18. ASSUME NEW u \in Users, Disable(u) PROVE Lasting'
  BY <1>18 DEF Disable
<1>19. ASSUME NEW u \in Users, Deactivate(u) PROVE Lasting'
  BY <1>19 DEF Deactivate
<1>20. ASSUME NEW u \in Users, Crash(u) PROVE Lasting'
  BY <1>20 DEF Crash
<1>21. ASSUME NEW f \in Fires, EntryIsDue(f) PROVE Lasting'
  BY <1>21 DEF EntryIsDue
<1>22. ASSUME NEW f \in Fires, FireReads(f) PROVE Lasting'
  BY <1>22 DEF FireReads
<1>23. ASSUME NEW f \in Fires, FireChecks(f) PROVE Lasting'
  BY <1>23 DEF FireChecks
<1>24. ASSUME NEW f \in Fires, FireMarks(f) PROVE Lasting'
  BY <1>24 DEF FireMarks
<1>25. ASSUME NEW f \in Fires, FireStarts(f) PROVE Lasting'
  BY <1>25 DEF FireStarts
<1>26. ASSUME NEW f \in Fires, FireDies(f) PROVE Lasting'
  BY <1>26 DEF FireDies
<1>27. CASE Revoke
  BY <1>27 DEF Revoke
<1>28. CASE Reactivate
  BY <1>28 DEF Reactivate
<1>29. CASE UNCHANGED vars
  BY <1>29 DEF vars
<1> QED
  BY Steps,
    <1>1, <1>2, <1>3, <1>4, <1>5, <1>6, <1>7, <1>8, <1>9, <1>10,
    <1>11, <1>12, <1>13, <1>14, <1>15, <1>16, <1>17, <1>18, <1>19, <1>20,
    <1>21, <1>22, <1>23, <1>24, <1>25, <1>26, <1>27, <1>28, <1>29

\* A request that makes no entry and takes its numbers from the row leaves the
\* private entries of the others alone.
LEMMA FreshOthers ==
  ASSUME TypeOK, Fresh, NEW u \in Users,
         UNCHANGED <<made, crons>>,
         pc'[u] \notin {"store", "restore"},
         \A v \in Users \ {u} : pc'[v] = pc[v] /\ mem'[v] = mem[v] /\ old'[v] = old[v],
         mem'[u].entry \in {0, entry, mem[u].entry},
         old'[u] \in {0, entry, old[u]},
         entry' \in {0, entry, mem[u].entry}
  PROVE  Fresh'
<1> SUFFICES ASSUME NEW v \in Users, pc'[v] \in {"store", "restore"}
             PROVE  Private(v)'
  BY DEF Fresh
<1>1. v # u /\ Private(v) /\ mem'[v] = mem[v]
  BY DEF Fresh
<1>2. mem[v].entry # 0 /\ mem[v].entry # entry /\ mem[v].entry # mem[u].entry
  BY <1>1 DEF Private, TypeOK
<1>3. \A w \in Users : old'[w] # mem[v].entry /\ (w # v => mem'[w].entry # mem[v].entry)
  BY <1>1, <1>2 DEF Private
<1> QED
  BY <1>1, <1>2, <1>3 DEF Private

LEMMA FreshStep ==
  ASSUME TypeOK, Fresh, [Next]_vars
  PROVE  Fresh'
<1> USE DEF TypeOK, Rows, Fresh, Private, dbVars, engineVars, requestVars, fireVars, history, Goto, Answer, Forget
<1>1. ASSUME NEW u \in Users, Insert(u) PROVE Fresh'
  <2>1. UNCHANGED <<made, crons>> /\ pc'[u] \notin {"store", "restore"}
    BY <1>1 DEF Insert, TheRow
  <2>2. mem'[u].entry \in {0, entry, mem[u].entry} /\ old'[u] \in {0, entry, old[u]}
    BY <1>1 DEF Insert, TheRow
  <2>3. entry' \in {0, entry, mem[u].entry}
    BY <1>1 DEF Insert, TheRow
  <2>4. \A v \in Users \ {u} : pc'[v] = pc[v] /\ mem'[v] = mem[v] /\ old'[v] = old[v]
    BY <1>1 DEF Insert, TheRow
  <2> QED
    BY <2>1, <2>2, <2>3, <2>4, FreshOthers
<1>2. ASSUME NEW u \in Users, RegisterNew(u) PROVE Fresh'
  BY <1>2 DEF RegisterNew, Register, NewEntry, Kinds
<1>3. ASSUME NEW u \in Users, StoreNew(u) PROVE Fresh'
  BY <1>3 DEF StoreNew, NoRow
<1>4. ASSUME NEW u \in Users, RegisterNewFails(u) PROVE Fresh'
  BY <1>4 DEF RegisterNewFails, Register, NewEntry, Kinds
<1>5. ASSUME NEW u \in Users, UndoInsert(u) PROVE Fresh'
  <2>1. UNCHANGED <<made, crons>> /\ pc'[u] \notin {"store", "restore"}
    BY <1>5 DEF UndoInsert, DeleteRow, NoRow
  <2>2. mem'[u].entry \in {0, entry, mem[u].entry} /\ old'[u] \in {0, entry, old[u]}
    BY <1>5 DEF UndoInsert, DeleteRow, NoRow
  <2>3. entry' \in {0, entry, mem[u].entry}
    BY <1>5 DEF UndoInsert, DeleteRow, NoRow
  <2>4. \A v \in Users \ {u} : pc'[v] = pc[v] /\ mem'[v] = mem[v] /\ old'[v] = old[v]
    BY <1>5 DEF UndoInsert, DeleteRow, NoRow
  <2> QED
    BY <2>1, <2>2, <2>3, <2>4, FreshOthers
<1>6. ASSUME NEW u \in Users, EditReads(u) PROVE Fresh'
  BY <1>6 DEF EditReads, TheRow
<1>7. ASSUME NEW u \in Users, EditPublishes(u) PROVE Fresh'
  <2>1. UNCHANGED <<made, crons>> /\ pc'[u] \notin {"store", "restore"}
    BY <1>7 DEF EditPublishes, TheRow, NoRow
  <2>2. mem'[u].entry \in {0, entry, mem[u].entry} /\ old'[u] \in {0, entry, old[u]}
    BY <1>7 DEF EditPublishes, TheRow, NoRow
  <2>3. entry' \in {0, entry, mem[u].entry}
    BY <1>7 DEF EditPublishes, TheRow, NoRow
  <2>4. \A v \in Users \ {u} : pc'[v] = pc[v] /\ mem'[v] = mem[v] /\ old'[v] = old[v]
    BY <1>7 DEF EditPublishes, TheRow, NoRow
  <2> QED
    BY <2>1, <2>2, <2>3, <2>4, FreshOthers
<1>8. ASSUME NEW u \in Users, EditStores(u) PROVE Fresh'
  <2>1. UNCHANGED <<made, crons>> /\ pc'[u] \notin {"store", "restore"}
    BY <1>8 DEF EditStores, Update, Written, NoRow
  <2>2. mem'[u].entry \in {0, entry, mem[u].entry} /\ old'[u] \in {0, entry, old[u]}
    BY <1>8 DEF EditStores, Update, Written, NoRow
  <2>3. entry' \in {0, entry, mem[u].entry}
    BY <1>8 DEF EditStores, Update, Written, NoRow
  <2>4. \A v \in Users \ {u} : pc'[v] = pc[v] /\ mem'[v] = mem[v] /\ old'[v] = old[v]
    BY <1>8 DEF EditStores, Update, Written, NoRow
  <2> QED
    BY <2>1, <2>2, <2>3, <2>4, FreshOthers
<1>9. ASSUME NEW u \in Users, Reregister(u) PROVE Fresh'
  BY <1>9 DEF Reregister, Register, NewEntry, Kinds
<1>10. ASSUME NEW u \in Users, StoreEntry(u) PROVE Fresh'
  <2>1. UNCHANGED <<made, crons>> /\ pc'[u] \notin {"store", "restore"}
    BY <1>10 DEF StoreEntry, NoRow
  <2>2. mem'[u].entry \in {0, entry, mem[u].entry} /\ old'[u] \in {0, entry, old[u]}
    BY <1>10 DEF StoreEntry, NoRow
  <2>3. entry' \in {0, entry, mem[u].entry}
    BY <1>10 DEF StoreEntry, NoRow
  <2>4. \A v \in Users \ {u} : pc'[v] = pc[v] /\ mem'[v] = mem[v] /\ old'[v] = old[v]
    BY <1>10 DEF StoreEntry, NoRow
  <2> QED
    BY <2>1, <2>2, <2>3, <2>4, FreshOthers
<1>11. ASSUME NEW u \in Users, ReregisterFails(u) PROVE Fresh'
  BY <1>11 DEF ReregisterFails, Register, NewEntry, Kinds
<1>12. ASSUME NEW u \in Users, SwitchOff(u) PROVE Fresh'
  <2>1. UNCHANGED <<made, crons>> /\ pc'[u] \notin {"store", "restore"}
    BY <1>12 DEF SwitchOff, Update, Written, NoRow
  <2>2. mem'[u].entry \in {0, entry, mem[u].entry} /\ old'[u] \in {0, entry, old[u]}
    BY <1>12 DEF SwitchOff, Update, Written, NoRow
  <2>3. entry' \in {0, entry, mem[u].entry}
    BY <1>12 DEF SwitchOff, Update, Written, NoRow
  <2>4. \A v \in Users \ {u} : pc'[v] = pc[v] /\ mem'[v] = mem[v] /\ old'[v] = old[v]
    BY <1>12 DEF SwitchOff, Update, Written, NoRow
  <2> QED
    BY <2>1, <2>2, <2>3, <2>4, FreshOthers
<1>13. ASSUME NEW u \in Users, DropOld(u) PROVE Fresh'
  BY <1>13 DEF DropOld, Unregister, Obsolete, NoRow
<1>14. ASSUME NEW u \in Users, RemovalReads(u) PROVE Fresh'
  BY <1>14 DEF RemovalReads, TheRow
<1>15. ASSUME NEW u \in Users, RemoveEntry(u) PROVE Fresh'
  BY <1>15 DEF RemoveEntry, Unregister
<1>16. ASSUME NEW u \in Users, RemoveEntryFails(u) PROVE Fresh'
  BY <1>16 DEF RemoveEntryFails, Unregister, NoRow
<1>17. ASSUME NEW u \in Users, Erase(u) PROVE Fresh'
  <2>1. UNCHANGED <<made, crons>> /\ pc'[u] \notin {"store", "restore"}
    BY <1>17 DEF Erase, DeleteRow, NoRow
  <2>2. mem'[u].entry \in {0, entry, mem[u].entry} /\ old'[u] \in {0, entry, old[u]}
    BY <1>17 DEF Erase, DeleteRow, NoRow
  <2>3. entry' \in {0, entry, mem[u].entry}
    BY <1>17 DEF Erase, DeleteRow, NoRow
  <2>4. \A v \in Users \ {u} : pc'[v] = pc[v] /\ mem'[v] = mem[v] /\ old'[v] = old[v]
    BY <1>17 DEF Erase, DeleteRow, NoRow
  <2> QED
    BY <2>1, <2>2, <2>3, <2>4, FreshOthers
<1>18. ASSUME NEW u \in Users, Disable(u) PROVE Fresh'
  <2>1. UNCHANGED <<made, crons>> /\ pc'[u] \notin {"store", "restore"}
    BY <1>18 DEF Disable, Update, Written, NoRow
  <2>2. mem'[u].entry \in {0, entry, mem[u].entry} /\ old'[u] \in {0, entry, old[u]}
    BY <1>18 DEF Disable, Update, Written, NoRow
  <2>3. entry' \in {0, entry, mem[u].entry}
    BY <1>18 DEF Disable, Update, Written, NoRow
  <2>4. \A v \in Users \ {u} : pc'[v] = pc[v] /\ mem'[v] = mem[v] /\ old'[v] = old[v]
    BY <1>18 DEF Disable, Update, Written, NoRow
  <2> QED
    BY <2>1, <2>2, <2>3, <2>4, FreshOthers
<1>19. ASSUME NEW u \in Users, Deactivate(u) PROVE Fresh'
  BY <1>19 DEF Deactivate, NoRow
<1>20. ASSUME NEW u \in Users, Crash(u) PROVE Fresh'
  BY <1>20 DEF Crash, NoRow
<1>21. ASSUME NEW f \in Fires, EntryIsDue(f) PROVE Fresh'
  BY <1>21 DEF EntryIsDue
<1>22. ASSUME NEW f \in Fires, FireReads(f) PROVE Fresh'
  BY <1>22 DEF FireReads
<1>23. ASSUME NEW f \in Fires, FireChecks(f) PROVE Fresh'
  BY <1>23 DEF FireChecks, Update, Written
<1>24. ASSUME NEW f \in Fires, FireMarks(f) PROVE Fresh'
  BY <1>24 DEF FireMarks, Update, Written
<1>25. ASSUME NEW f \in Fires, FireStarts(f) PROVE Fresh'
  BY <1>25 DEF FireStarts
<1>26. ASSUME NEW f \in Fires, FireDies(f) PROVE Fresh'
  BY <1>26 DEF FireDies
<1>27. CASE Revoke
  BY <1>27 DEF Revoke
<1>28. CASE Reactivate
  BY <1>28 DEF Reactivate
<1>29. CASE UNCHANGED vars
  BY <1>29 DEF vars
<1> QED
  BY Steps,
    <1>1, <1>2, <1>3, <1>4, <1>5, <1>6, <1>7, <1>8, <1>9, <1>10,
    <1>11, <1>12, <1>13, <1>14, <1>15, <1>16, <1>17, <1>18, <1>19, <1>20,
    <1>21, <1>22, <1>23, <1>24, <1>25, <1>26, <1>27, <1>28, <1>29

\* A request that removes no safe entry, makes no safe entry unsafe and does
\* not go back on what it owes leaves the schedule provided for.
LEMMA ProvidedKept ==
  ASSUME Provided, OnCron, NEW u \in Users,
         \A v \in Users \ {u} : pc'[v] = pc[v] /\ mem'[v] = mem[v] /\ old'[v] = old[v],
         Answerable(u) => Answerable(u)',
         \A e \in crons : Safe(e) => e \in crons' /\ ~ Harms(u, e)'
  PROVE  Provided'
<1>1. ASSUME NEW v \in Users, Answerable(v) PROVE Answerable(v)'
  BY <1>1 DEF Answerable
<1>2. ASSUME NEW e \in crons, Safe(e) PROVE e \in crons' /\ Safe(e)'
  <2>1. \A v \in Users \ {u} : Harms(v, e)' => Harms(v, e)
    BY DEF Harms
  <2> QED
    BY <1>2, <2>1 DEF Safe
<1> QED
  BY <1>1, <1>2 DEF Provided

\* A step that changes no request and no cron entry, and switches nothing on.
LEMMA ProvidedElsewhere ==
  ASSUME Provided, OnCron' => OnCron, UNCHANGED <<pc, mem, old, crons>>
  PROVE  Provided'
<1>1. \A u \in Users : Answerable(u)' <=> Answerable(u)
  BY DEF Answerable
<1>2. \A e \in crons : Safe(e)' <=> Safe(e)
  BY DEF Safe, Harms
<1> QED
  BY <1>1, <1>2 DEF Provided

\* A private entry becomes a safe one when its request has stored it.
LEMMA PrivateIsSafe ==
  ASSUME TypeOK, Fresh, NEW u \in Users, pc[u] \in {"store", "restore"},
         mem[u].kind = "cron", UNCHANGED crons,
         \A v \in Users \ {u} : pc'[v] = pc[v] /\ mem'[v] = mem[v] /\ old'[v] = old[v],
         old'[u] \in {0, old[u]}, pc'[u] \in {"idle", "drop"}
  PROVE  Provided'
<1>0. PICK e \in 1 .. made : e = mem[u].entry
  BY DEF Fresh, Private
<1>1. Private(u)
  BY DEF Fresh
<1>2. e \in crons' /\ e # 0
  BY <1>0, <1>1 DEF Private, TypeOK
<1>3. ASSUME NEW v \in Users PROVE ~ Harms(v, e)'
  <2>1. old'[v] # e
    BY <1>0, <1>1, <1>2 DEF Private
  <2>2. v # u => mem'[v].entry # e
    BY <1>0, <1>1 DEF Private
  <2> QED
    BY <2>1, <2>2 DEF Harms
<1> QED
  BY <1>2, <1>3 DEF Provided, Safe

LEMMA ProvidedStep ==
  ASSUME TypeOK, Lasting, Fresh, Provided, [Next]_vars
  PROVE  Provided'
<1> USE DEF TypeOK, Rows, dbVars, engineVars, requestVars, fireVars, history, Goto, Answer, Forget
<1>1. ASSUME NEW u \in Users, Insert(u) PROVE Provided'
  BY <1>1 DEF Insert, Provided, OnCron, InsertedFlag
<1>2. ASSUME NEW u \in Users, RegisterNew(u) PROVE Provided'
  <2> SUFFICES ASSUME OnCron' PROVE Provided'
    BY DEF Provided
  <2>1. OnCron
    BY <1>2 DEF RegisterNew, OnCron, Register
  <2>2. \A v \in Users \ {u} : pc'[v] = pc[v] /\ mem'[v] = mem[v] /\ old'[v] = old[v]
    BY <1>2 DEF RegisterNew, Register
  <2>3. Answerable(u) => Answerable(u)'
    BY <1>2 DEF RegisterNew, Answerable, Register
  <2>4. \A e \in crons : Safe(e) => e \in crons' /\ ~ Harms(u, e)'
    BY <1>2, <2>1 DEF RegisterNew, Safe, Harms, OnCron, Register
  <2> QED
    BY <2>1, <2>2, <2>3, <2>4, ProvidedKept
<1>3. ASSUME NEW u \in Users, StoreNew(u) PROVE Provided'
  <2> SUFFICES ASSUME OnCron' PROVE Provided'
    BY DEF Provided
  <2>1. mem[u].kind = "cron" /\ pc[u] = "store" /\ UNCHANGED crons
    BY <1>3 DEF StoreNew, OnCron
  <2>2. /\ \A v \in Users \ {u} : pc'[v] = pc[v] /\ mem'[v] = mem[v] /\ old'[v] = old[v]
        /\ old'[u] = 0 /\ pc'[u] = "idle"
    BY <1>3 DEF StoreNew
  <2> QED
    BY <2>1, <2>2, PrivateIsSafe
<1>4. ASSUME NEW u \in Users, RegisterNewFails(u) PROVE Provided'
  <2> SUFFICES ASSUME OnCron' PROVE Provided'
    BY DEF Provided
  <2>1. OnCron
    BY <1>4 DEF RegisterNewFails, OnCron, Register
  <2>2. \A v \in Users \ {u} : pc'[v] = pc[v] /\ mem'[v] = mem[v] /\ old'[v] = old[v]
    BY <1>4 DEF RegisterNewFails, Register
  <2>3. Answerable(u) => Answerable(u)'
    BY <1>4 DEF RegisterNewFails, Answerable, Register
  <2>4. \A e \in crons : Safe(e) => e \in crons' /\ ~ Harms(u, e)'
    BY <1>4, <2>1 DEF RegisterNewFails, Safe, Harms, OnCron, Register
  <2> QED
    BY <2>1, <2>2, <2>3, <2>4, ProvidedKept
<1>5. ASSUME NEW u \in Users, UndoInsert(u) PROVE Provided'
  BY <1>5 DEF UndoInsert, Provided, OnCron, DeleteRow
<1>6. ASSUME NEW u \in Users, EditReads(u) PROVE Provided'
  <2> SUFFICES ASSUME OnCron' PROVE Provided'
    BY DEF Provided
  <2>1. OnCron
    BY <1>6 DEF EditReads, OnCron
  <2>2. \A v \in Users \ {u} : pc'[v] = pc[v] /\ mem'[v] = mem[v] /\ old'[v] = old[v]
    BY <1>6 DEF EditReads
  <2>3. Answerable(u) => Answerable(u)'
    BY <1>6 DEF EditReads, Answerable
  <2>4. \A e \in crons : Safe(e) => e \in crons' /\ ~ Harms(u, e)'
    BY <1>6, <2>1 DEF EditReads, Safe, Harms, OnCron
  <2> QED
    BY <2>1, <2>2, <2>3, <2>4, ProvidedKept
<1>7. ASSUME NEW u \in Users, EditPublishes(u) PROVE Provided'
  <2> SUFFICES ASSUME OnCron' PROVE Provided'
    BY DEF Provided
  <2>1. OnCron
    BY <1>7 DEF EditPublishes, OnCron
  <2>2. \A v \in Users \ {u} : pc'[v] = pc[v] /\ mem'[v] = mem[v] /\ old'[v] = old[v]
    BY <1>7 DEF EditPublishes
  <2>3. Answerable(u) => Answerable(u)'
    BY <1>7 DEF EditPublishes, Answerable
  <2>4. \A e \in crons : Safe(e) => e \in crons' /\ ~ Harms(u, e)'
    BY <1>7, <2>1 DEF EditPublishes, Safe, Harms, OnCron
  <2> QED
    BY <2>1, <2>2, <2>3, <2>4, ProvidedKept
<1>8. ASSUME NEW u \in Users, EditStores(u) PROVE Provided'
  <2> SUFFICES ASSUME OnCron' PROVE Provided'
    BY DEF Provided
  <2>1. Answerable(u)'
    BY <1>8 DEF EditStores, OnCron, Answerable
  <2> QED
    BY <2>1 DEF Provided
<1>9. ASSUME NEW u \in Users, Reregister(u) PROVE Provided'
  <2>1. CASE mem[u].kind = "cron"
    <3>0. PICK e \in Nat : e = made + 1
      OBVIOUS
    <3>1. e \in crons'
      BY <1>9, <2>1, <3>0 DEF Reregister, Register
    <3>2. ASSUME NEW v \in Users PROVE ~ Harms(v, e)'
      <4>1. old'[v] # e
        BY <1>9, <3>0 DEF Reregister
      <4>2. v # u => mem'[v] = mem[v] /\ mem[v].entry # e
        BY <1>9, <3>0 DEF Reregister
      <4>3. pc'[u] = "restore"
        BY <1>9 DEF Reregister
      <4> QED
        BY <4>1, <4>2, <4>3 DEF Harms
    <3> QED
      BY <3>1, <3>2 DEF Provided, Safe
  <2>2. CASE mem[u].kind # "cron"
    <3> SUFFICES ASSUME OnCron' PROVE Provided'
      BY DEF Provided
      <3>1. OnCron
      BY <1>9, <2>2 DEF Reregister, OnCron, Register, Kinds
      <3>2. \A v \in Users \ {u} : pc'[v] = pc[v] /\ mem'[v] = mem[v] /\ old'[v] = old[v]
      BY <1>9, <2>2 DEF Reregister, Register, Kinds
      <3>3. Answerable(u) => Answerable(u)'
      BY <1>9, <2>2 DEF Reregister, Answerable, Register, Kinds
      <3>4. \A e \in crons : Safe(e) => e \in crons' /\ ~ Harms(u, e)'
      BY <1>9, <2>2, <3>1 DEF Reregister, Safe, Harms, OnCron, Register, Kinds
      <3> QED
      BY <3>1, <3>2, <3>3, <3>4, ProvidedKept
  <2> QED
    BY <2>1, <2>2
<1>10. ASSUME NEW u \in Users, StoreEntry(u) PROVE Provided'
  <2>1. CASE row = "live" /\ mem[u].kind = "cron"
    <3>1. pc[u] = "restore" /\ UNCHANGED crons
      BY <1>10 DEF StoreEntry
    <3>2. /\ \A v \in Users \ {u} : pc'[v] = pc[v] /\ mem'[v] = mem[v] /\ old'[v] = old[v]
          /\ old'[u] = old[u] /\ pc'[u] = "drop"
      BY <1>10, <2>1 DEF StoreEntry
    <3> QED
      BY <2>1, <3>1, <3>2, PrivateIsSafe
  <2>2. CASE row = "live" /\ mem[u].kind # "cron"
    <3> SUFFICES ASSUME OnCron' PROVE Provided'
      BY DEF Provided
      <3>1. OnCron
      BY <1>10, <2>2 DEF StoreEntry, OnCron, Kinds
      <3>2. \A v \in Users \ {u} : pc'[v] = pc[v] /\ mem'[v] = mem[v] /\ old'[v] = old[v]
      BY <1>10, <2>2 DEF StoreEntry, Kinds
      <3>3. Answerable(u) => Answerable(u)'
      BY <1>10, <2>2 DEF StoreEntry, Answerable, Kinds
      <3>4. \A e \in crons : Safe(e) => e \in crons' /\ ~ Harms(u, e)'
      BY <1>10, <2>2, <3>1 DEF StoreEntry, Safe, Harms, OnCron, Kinds
      <3> QED
      BY <3>1, <3>2, <3>3, <3>4, ProvidedKept
  <2>3. CASE row # "live"
    BY <1>10, <2>3 DEF StoreEntry, Provided, OnCron
  <2> QED
    BY <2>1, <2>2, <2>3
<1>11. ASSUME NEW u \in Users, ReregisterFails(u) PROVE Provided'
  <2>1. Answerable(u)'
    BY <1>11 DEF ReregisterFails, Answerable
  <2> QED
    BY <2>1 DEF Provided
<1>12. ASSUME NEW u \in Users, SwitchOff(u) PROVE Provided'
  BY <1>12 DEF SwitchOff, Provided, OnCron, Update, Written, Lasting
<1>13. ASSUME NEW u \in Users, DropOld(u) PROVE Provided'
  <2> SUFFICES ASSUME OnCron' PROVE Provided'
    BY DEF Provided
  <2>1. OnCron
    BY <1>13 DEF DropOld, OnCron, Unregister, Obsolete
  <2>2. \A v \in Users \ {u} : pc'[v] = pc[v] /\ mem'[v] = mem[v] /\ old'[v] = old[v]
    BY <1>13 DEF DropOld, Unregister, Obsolete
  <2>3. Answerable(u) => Answerable(u)'
    BY <1>13 DEF DropOld, Answerable, Unregister, Obsolete
  <2>4. \A e \in crons : Safe(e) => e \in crons' /\ ~ Harms(u, e)'
    BY <1>13, <2>1 DEF DropOld, Safe, Harms, OnCron, Unregister, Obsolete
  <2> QED
    BY <2>1, <2>2, <2>3, <2>4, ProvidedKept
<1>14. ASSUME NEW u \in Users, RemovalReads(u) PROVE Provided'
  <2> SUFFICES ASSUME OnCron' PROVE Provided'
    BY DEF Provided
  <2>1. OnCron
    BY <1>14 DEF RemovalReads, OnCron, TheRow
  <2>2. \A v \in Users \ {u} : pc'[v] = pc[v] /\ mem'[v] = mem[v] /\ old'[v] = old[v]
    BY <1>14 DEF RemovalReads, TheRow
  <2>3. Answerable(u) => Answerable(u)'
    BY <1>14 DEF RemovalReads, Answerable, TheRow
  <2>4. \A e \in crons : Safe(e) => e \in crons' /\ ~ Harms(u, e)'
    BY <1>14, <2>1 DEF RemovalReads, Safe, Harms, OnCron, TheRow
  <2> QED
    BY <2>1, <2>2, <2>3, <2>4, ProvidedKept
<1>15. ASSUME NEW u \in Users, RemoveEntry(u) PROVE Provided'
  <2>1. CASE pc[u] = "remove" \/ mem[u].enabled = "on"
    <3>1. Answerable(u)'
      BY <1>15, <2>1 DEF RemoveEntry, Answerable
    <3> QED
      BY <3>1 DEF Provided
  <2>2. CASE pc[u] = "disarm" /\ mem[u].enabled # "on"
    <3> SUFFICES ASSUME OnCron' PROVE Provided'
      BY DEF Provided
      <3>1. OnCron
      BY <1>15, <2>2 DEF RemoveEntry, OnCron, Unregister, Flags
      <3>2. \A v \in Users \ {u} : pc'[v] = pc[v] /\ mem'[v] = mem[v] /\ old'[v] = old[v]
      BY <1>15, <2>2 DEF RemoveEntry, Unregister, Flags
      <3>3. Answerable(u) => Answerable(u)'
      BY <1>15, <2>2 DEF RemoveEntry, Answerable, Unregister, Flags
      <3>4. \A e \in crons : Safe(e) => e \in crons' /\ ~ Harms(u, e)'
      BY <1>15, <2>2, <3>1 DEF RemoveEntry, Safe, Harms, OnCron, Unregister, Flags
      <3> QED
      BY <3>1, <3>2, <3>3, <3>4, ProvidedKept
  <2> QED
    BY <1>15, <2>1, <2>2 DEF RemoveEntry
<1>16. ASSUME NEW u \in Users, RemoveEntryFails(u) PROVE Provided'
  <2> SUFFICES ASSUME OnCron' PROVE Provided'
    BY DEF Provided
  <2>1. OnCron
    BY <1>16 DEF RemoveEntryFails, OnCron, Unregister
  <2>2. \A v \in Users \ {u} : pc'[v] = pc[v] /\ mem'[v] = mem[v] /\ old'[v] = old[v]
    BY <1>16 DEF RemoveEntryFails, Unregister
  <2>3. Answerable(u) => Answerable(u)'
    BY <1>16 DEF RemoveEntryFails, Answerable, Unregister
  <2>4. \A e \in crons : Safe(e) => e \in crons' /\ ~ Harms(u, e)'
    BY <1>16, <2>1 DEF RemoveEntryFails, Safe, Harms, OnCron, Unregister
  <2> QED
    BY <2>1, <2>2, <2>3, <2>4, ProvidedKept
<1>17. ASSUME NEW u \in Users, Erase(u) PROVE Provided'
  BY <1>17 DEF Erase, Provided, OnCron, DeleteRow
<1>18. ASSUME NEW u \in Users, Disable(u) PROVE Provided'
  <2>1. CASE row # "live" \/ mem[u].enabled = "on"
    BY <1>18, <2>1 DEF Disable, Update, Written, Provided, OnCron
  <2>2. CASE row = "live" /\ mem[u].enabled # "on"
    <3> SUFFICES ASSUME OnCron' PROVE Provided'
      BY DEF Provided
      <3>1. OnCron
      BY <1>18, <2>2 DEF Disable, OnCron, Update, Written
      <3>2. \A v \in Users \ {u} : pc'[v] = pc[v] /\ mem'[v] = mem[v] /\ old'[v] = old[v]
      BY <1>18, <2>2 DEF Disable, Update, Written
      <3>3. Answerable(u) => Answerable(u)'
      BY <1>18, <2>2 DEF Disable, Answerable, Update, Written
      <3>4. \A e \in crons : Safe(e) => e \in crons' /\ ~ Harms(u, e)'
      BY <1>18, <2>2, <3>1 DEF Disable, Safe, Harms, OnCron, Update, Written
      <3> QED
      BY <3>1, <3>2, <3>3, <3>4, ProvidedKept
  <2> QED
    BY <2>1, <2>2
<1>19. ASSUME NEW u \in Users, Deactivate(u) PROVE Provided'
  <2> SUFFICES ASSUME OnCron' PROVE Provided'
    BY DEF Provided
  <2>1. OnCron
    BY <1>19 DEF Deactivate, OnCron
  <2>2. \A v \in Users \ {u} : pc'[v] = pc[v] /\ mem'[v] = mem[v] /\ old'[v] = old[v]
    BY <1>19 DEF Deactivate
  <2>3. Answerable(u) => Answerable(u)'
    BY <1>19 DEF Deactivate, Answerable
  <2>4. \A e \in crons : Safe(e) => e \in crons' /\ ~ Harms(u, e)'
    BY <1>19, <2>1 DEF Deactivate, Safe, Harms, OnCron
  <2> QED
    BY <2>1, <2>2, <2>3, <2>4, ProvidedKept
<1>20. ASSUME NEW u \in Users, Crash(u) PROVE Provided'
  BY <1>20 DEF Crash, Provided, OnCron
<1>21. ASSUME NEW f \in Fires, EntryIsDue(f) PROVE Provided'
  <2>1. OnCron' => OnCron
    BY <1>21 DEF EntryIsDue, OnCron
  <2>2. UNCHANGED <<pc, mem, old, crons>>
    BY <1>21 DEF EntryIsDue
  <2> QED
    BY <2>1, <2>2, ProvidedElsewhere
<1>22. ASSUME NEW f \in Fires, FireReads(f) PROVE Provided'
  <2>1. OnCron' => OnCron
    BY <1>22 DEF FireReads, OnCron
  <2>2. UNCHANGED <<pc, mem, old, crons>>
    BY <1>22 DEF FireReads
  <2> QED
    BY <2>1, <2>2, ProvidedElsewhere
<1>23. ASSUME NEW f \in Fires, FireChecks(f) PROVE Provided'
  <2>1. OnCron' => OnCron
    BY <1>23 DEF FireChecks, OnCron, Update, Written
  <2>2. UNCHANGED <<pc, mem, old, crons>>
    BY <1>23 DEF FireChecks
  <2> QED
    BY <2>1, <2>2, ProvidedElsewhere
<1>24. ASSUME NEW f \in Fires, FireMarks(f) PROVE Provided'
  <2>1. OnCron' => OnCron
    BY <1>24 DEF FireMarks, OnCron, Update, Written
  <2>2. UNCHANGED <<pc, mem, old, crons>>
    BY <1>24 DEF FireMarks
  <2> QED
    BY <2>1, <2>2, ProvidedElsewhere
<1>25. ASSUME NEW f \in Fires, FireStarts(f) PROVE Provided'
  <2>1. OnCron' => OnCron
    BY <1>25 DEF FireStarts, OnCron
  <2>2. UNCHANGED <<pc, mem, old, crons>>
    BY <1>25 DEF FireStarts
  <2> QED
    BY <2>1, <2>2, ProvidedElsewhere
<1>26. ASSUME NEW f \in Fires, FireDies(f) PROVE Provided'
  <2>1. OnCron' => OnCron
    BY <1>26 DEF FireDies, OnCron
  <2>2. UNCHANGED <<pc, mem, old, crons>>
    BY <1>26 DEF FireDies
  <2> QED
    BY <2>1, <2>2, ProvidedElsewhere
<1>27. CASE Revoke
  <2>1. OnCron' => OnCron
    BY <1>27 DEF Revoke, OnCron
  <2>2. UNCHANGED <<pc, mem, old, crons>>
    BY <1>27 DEF Revoke
  <2> QED
    BY <2>1, <2>2, ProvidedElsewhere
<1>28. CASE Reactivate
  <2>1. OnCron' => OnCron
    BY <1>28 DEF Reactivate, OnCron
  <2>2. UNCHANGED <<pc, mem, old, crons>>
    BY <1>28 DEF Reactivate
  <2> QED
    BY <2>1, <2>2, ProvidedElsewhere
<1>29. CASE UNCHANGED vars
  <2>1. OnCron' => OnCron
    BY <1>29 DEF vars, OnCron
  <2>2. UNCHANGED <<pc, mem, old, crons>>
    BY <1>29 DEF vars
  <2> QED
    BY <2>1, <2>2, ProvidedElsewhere
<1> QED
  BY Steps,
    <1>1, <1>2, <1>3, <1>4, <1>5, <1>6, <1>7, <1>8, <1>9, <1>10,
    <1>11, <1>12, <1>13, <1>14, <1>15, <1>16, <1>17, <1>18, <1>19, <1>20,
    <1>21, <1>22, <1>23, <1>24, <1>25, <1>26, <1>27, <1>28, <1>29

\* Edits, deletions, deactivations and triggers that overlap in any number never
\* leave an enabled cron schedule without an entry once they are through
\* (update_schedule, _delete_entry_ids), unless one of them died, the answer of a
\* deletion was lost, or a creation was overlapped by an edit of the type, which
\* needs no failure and does leave it without one (StoreNew). Each of these holds
\* only until an edit registers the schedule again.
THEOREM RegisteredHolds == Spec => []EnabledCronIsRegistered
<1>1. Init => Lasting /\ Fresh /\ Provided
  BY DEF Init, Lasting, Fresh, Provided, OnCron
<1>2. TypeOK /\ Lasting /\ Fresh /\ Provided /\ [Next]_vars =>
        Lasting' /\ Fresh' /\ Provided'
  BY LastingStep, FreshStep, ProvidedStep
<1>3. Provided => EnabledCronIsRegistered
  BY DEF Provided, OnCron, Answerable, EnabledCronIsRegistered
<1> QED
  BY <1>1, <1>2, <1>3, TypeCorrect, PTL DEF Spec
==============================================================================
