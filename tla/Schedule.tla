------------------------------ MODULE Schedule -------------------------------
(***************************************************************************)
(* One schedule of a workflow: its row in workflow_schedules, the entries  *)
(* the engine keeps for it, the requests that create, edit and delete it   *)
(* or deactivate its owner (schedule_service.py, user_service.py), and the *)
(* trigger tasks the engine starts when an entry is due                    *)
(* (scheduled_trigger.py, schedule_fire.py).                               *)
(*                                                                         *)
(* Nothing locks the row: a request or a trigger reads it, calls the       *)
(* engine, and writes the columns it has changed in memory. Every commit   *)
(* and every call of the engine is an action of its own. An entry may be   *)
(* due at any time after it was registered.                                *)
(***************************************************************************)
EXTENDS Naturals

CONSTANTS
  Users,        \* requests that can be under way at the same time
  Fires,        \* trigger tasks that can be under way at the same time
  MaxEntries,   \* bound on the engine's entries, numbered as registered
  MaxRequests,  \* bound on the requests
  MaxFaults     \* bound on engine failures and crashes

Entries == 1 .. MaxEntries

ASSUME ScheduleBounds ==
  MaxEntries \in Nat /\ MaxRequests \in Nat /\ MaxFaults \in Nat

VARIABLES
  row,        \* "none", "live" or "gone"
  enabled,    \* workflow_schedules.enabled
  kind,       \* workflow_schedules.schedule_type
  entry,      \* hatchet_cron_id / hatchet_scheduled_id, 0 for NULL
  owner,      \* whether the creator may run the workflow
  made,       \* the number of entries the engine has made
  crons,      \* the cron entries it has
  onces,      \* the one-time entries it has
  pc,         \* request -> its next step
  mem,        \* request -> the row in its session
  want,       \* request -> the values it was asked to store
  old,        \* request -> the entry it removes
  fire,       \* trigger -> its next step
  fmem,       \* trigger -> the row in its session
  requests,   \* the number of requests so far
  faults,
  armed,      \* history: whether a request has switched the schedule on
  rash,       \* history: whether a run was started before that
  lost,       \* history: whether a request died or a deletion's answer was lost
              \* since a cron entry was last registered by an edit
  crossed,    \* history: whether, since then, a creation stored its entry after
              \* an edit had changed the type
  revoked,    \* history: triggers whose owner had no rights since they began
  abused      \* history: whether one of those has started a run

dbVars == <<row, enabled, kind, entry>>
engineVars == <<made, crons, onces>>
requestVars == <<pc, mem, want, old, requests>>
fireVars == <<fire, fmem>>
history == <<armed, rash, lost, crossed, revoked, abused>>
vars == <<dbVars, owner, engineVars, requestVars, fireVars, faults, history>>

Kinds == {"cron", "once"}
Flags == {"on", "off"}
Rows(n) == [enabled : Flags, kind : Kinds, entry : 0 .. n]
Wishes == [enabled : Flags, kind : Kinds, asked : {"on", "off", "keep"},
           tier : {"kept", "published"}]

RequestSteps == {"idle", "register", "store", "undo", "update", "reregister",
                 "restore", "off", "drop", "remove", "erase", "disarm", "disable",
                 "deactivate"}
FireSteps == {"idle", "due", "read", "mark", "start"}

NoRow == [enabled |-> "off", kind |-> "cron", entry |-> 0]
NoWish == [enabled |-> "off", kind |-> "cron", asked |-> "keep", tier |-> "kept"]

TypeOK ==
  /\ row \in {"none", "live", "gone"}
  /\ enabled \in Flags
  /\ kind \in Kinds
  /\ made \in 0 .. MaxEntries
  /\ entry \in 0 .. made
  /\ owner \in {"active", "inactive"}
  /\ crons \in SUBSET (1 .. made)
  /\ onces \in SUBSET (1 .. made)
  /\ crons \cap onces = {}
  /\ pc \in [Users -> RequestSteps]
  /\ mem \in [Users -> Rows(made)]
  /\ want \in [Users -> Wishes]
  /\ old \in [Users -> 0 .. made]
  /\ fire \in [Fires -> FireSteps]
  /\ fmem \in [Fires -> Rows(made)]
  /\ requests \in 0 .. MaxRequests
  /\ faults \in 0 .. MaxFaults
  /\ armed \in {"no", "yes"}
  /\ rash \in {"no", "yes"}
  /\ lost \in {"no", "yes"}
  /\ crossed \in {"no", "yes"}
  /\ revoked \in SUBSET Fires
  /\ abused \in {"no", "yes"}

Init ==
  /\ row = "none"
  /\ enabled = "off"
  /\ kind = "cron"
  /\ entry = 0
  /\ owner = "active"
  /\ made = 0
  /\ crons = {}
  /\ onces = {}
  /\ pc = [u \in Users |-> "idle"]
  /\ mem = [u \in Users |-> NoRow]
  /\ want = [u \in Users |-> NoWish]
  /\ old = [u \in Users |-> 0]
  /\ fire = [f \in Fires |-> "idle"]
  /\ fmem = [f \in Fires |-> NoRow]
  /\ requests = 0
  /\ faults = 0
  /\ armed = "no"
  /\ rash = "no"
  /\ lost = "no"
  /\ crossed = "no"
  /\ revoked = {}
  /\ abused = "no"

------------------------------------------------------------------------------
(***************************************************************************)
(* The session and the engine, as the requests use them.                   *)
(***************************************************************************)

TheRow == [enabled |-> enabled, kind |-> kind, entry |-> entry]

\* Mutant: every column is written.
WrittenAlways(new, loaded, stored) == new

\* A column is written only if the session has changed it since it loaded it.
Written(new, loaded, stored) == IF new = loaded THEN stored ELSE new

\* schedule_repository.update: the fields, and the ids cleared.
Update(loaded, on, k) ==
  /\ enabled' = Written(on, loaded.enabled, enabled)
  /\ kind' = Written(k, loaded.kind, kind)
  /\ entry' = Written(0, loaded.entry, entry)

\* schedule_repository.delete: no column is left.
DeleteRow ==
  /\ row' = "gone"
  /\ enabled' = "off"
  /\ kind' = "cron"
  /\ entry' = 0

Goto(u, s) == pc' = [pc EXCEPT ![u] = s]

\* A request begins, one of at most MaxRequests.
Request ==
  /\ requests < MaxRequests
  /\ requests' = requests + 1

\* The request goes on without the row it has loaded.
Forget(u, s) ==
  /\ Goto(u, s)
  /\ mem' = [mem EXCEPT ![u] = NoRow]

\* The request is over, answered or not.
Answer(u) ==
  /\ pc' = [pc EXCEPT ![u] = "idle"]
  /\ mem' = [mem EXCEPT ![u] = NoRow]
  /\ want' = [want EXCEPT ![u] = NoWish]
  /\ old' = [old EXCEPT ![u] = 0]

Fault ==
  /\ faults < MaxFaults
  /\ faults' = faults + 1

\* Mutant: the id of another entry is taken.
NewEntryUnknown == made + 2

\* The id of the next entry.
NewEntry == made + 1

\* The engine takes an entry for the row the request has in memory.
Register(k) ==
  /\ made < MaxEntries
  /\ made' = made + 1
  /\ crons' = IF k = "cron" THEN crons \cup {made + 1} ELSE crons
  /\ onces' = IF k = "once" THEN onces \cup {made + 1} ELSE onces

\* The engine drops entry e; one it does not have is as good.
Unregister(e) ==
  /\ crons' = crons \ {e}
  /\ onces' = onces \ {e}
  /\ UNCHANGED made

------------------------------------------------------------------------------
(***************************************************************************)
(* create_schedule.                                                        *)
(***************************************************************************)

\* Mutant: stored as it was asked for.
InsertedFlagAsAsked(on) == on

\* Stored disabled, whatever was asked for.
InsertedFlag(on) == "off"

\* repo.create; a schedule that is wanted disabled is not registered.
Insert(u) ==
  /\ pc[u] = "idle"
  /\ Request
  /\ row = "none"
  /\ row' = "live"
  /\ entry' = 0
  /\ \E on \in Flags, k \in Kinds :
       /\ enabled' = InsertedFlag(on)
       /\ kind' = k
       /\ IF on = "on"
            THEN /\ Goto(u, "register")
                 /\ mem' = [mem EXCEPT ![u] = [enabled |-> on, kind |-> k, entry |-> 0]]
            ELSE UNCHANGED <<pc, mem>>
  /\ UNCHANGED <<owner, engineVars, want, old, fireVars, faults, history>>

\* _register_hatchet_entry: the engine makes the entry.
RegisterNew(u) ==
  /\ pc[u] = "register"
  /\ Register(mem[u].kind)
  /\ mem' = [mem EXCEPT ![u].entry = NewEntry]
  /\ Goto(u, "store")
  /\ UNCHANGED <<dbVars, owner, want, old, requests, fireVars, faults, history>>

\* set_hatchet_ids commits the flag with the id; without the row it raises.
StoreNew(u) ==
  /\ pc[u] = "store"
  /\ IF row = "live"
       THEN /\ enabled' = "on"
            /\ entry' = mem[u].entry
            /\ armed' = "yes"
            /\ crossed' = IF kind = mem[u].kind THEN crossed ELSE "yes"
       ELSE UNCHANGED <<enabled, entry, armed, crossed>>
  /\ Answer(u)
  /\ UNCHANGED <<row, kind, owner, engineVars, requests, fireVars, faults>>
  /\ UNCHANGED <<rash, lost, revoked, abused>>

\* The engine refuses, or it makes the entry and its answer is lost.
RegisterNewFails(u) ==
  /\ pc[u] = "register"
  /\ Fault
  /\ Register(mem[u].kind) \/ UNCHANGED engineVars
  /\ Goto(u, "undo")
  /\ UNCHANGED <<dbVars, owner, mem, want, old, requests, fireVars, history>>

\* The compensation: no half-created schedule remains.
UndoInsert(u) ==
  /\ pc[u] = "undo"
  /\ DeleteRow
  /\ Answer(u)
  /\ UNCHANGED <<owner, engineVars, requests, fireVars, faults, history>>

------------------------------------------------------------------------------
(***************************************************************************)
(* update_schedule.                                                        *)
(***************************************************************************)

\* The request loads the row, and decides what it stores.
EditReads(u) ==
  /\ pc[u] = "idle"
  /\ Request
  /\ row = "live"
  /\ mem' = [mem EXCEPT ![u] = TheRow]
  /\ \E a \in {"on", "off", "keep"}, k \in Kinds :
       want' = [want EXCEPT ![u] =
                  [enabled |-> IF a = "keep" THEN enabled ELSE a,
                   kind |-> k, asked |-> a, tier |-> "kept"]]
  /\ old' = [old EXCEPT ![u] = entry]
  /\ Goto(u, "update")
  /\ UNCHANGED <<dbVars, owner, engineVars, fireVars, faults, history>>

\* A request with a concurrency limit publishes the workflow. That commit
\* expires the row in memory: it is loaded again, what was decided stays.
EditPublishes(u) ==
  /\ pc[u] = "update"
  /\ want[u].tier = "kept"
  /\ IF row = "live"
       THEN /\ want' = [want EXCEPT ![u].tier = "published"]
            /\ mem' = [mem EXCEPT ![u] = TheRow]
            /\ old' = [old EXCEPT ![u] = entry]
            /\ UNCHANGED pc
       ELSE Answer(u)
  /\ UNCHANGED <<dbVars, owner, engineVars, requests, fireVars, faults, history>>

\* repo.update and its refresh; without the row it raises.
EditStores(u) ==
  /\ pc[u] = "update"
  /\ IF row = "live"
       THEN /\ Update(mem[u], want[u].enabled, want[u].kind)
            /\ armed' = IF enabled' = "on" THEN "yes" ELSE armed
            /\ IF enabled' = "on"
                 THEN /\ Goto(u, "reregister")
                      /\ mem' = [mem EXCEPT ![u] = [enabled |-> "on", kind |-> kind',
                                                    entry |-> entry']]
                 ELSE Forget(u, "drop")
            /\ want' = [want EXCEPT ![u] = NoWish]
            /\ UNCHANGED old
       ELSE /\ Answer(u)
            /\ UNCHANGED <<enabled, kind, entry, armed>>
  /\ UNCHANGED <<row, owner, engineVars, requests, fireVars, faults>>
  /\ UNCHANGED <<rash, lost, crossed, revoked, abused>>

\* The new entry first.
Reregister(u) ==
  /\ pc[u] = "reregister"
  /\ Register(mem[u].kind)
  /\ mem' = [mem EXCEPT ![u].entry = NewEntry]
  /\ Goto(u, "restore")
  /\ IF mem[u].kind = "cron" THEN lost' = "no" /\ crossed' = "no"
                             ELSE UNCHANGED <<lost, crossed>>
  /\ UNCHANGED <<dbVars, owner, want, old, requests, fireVars, faults>>
  /\ UNCHANGED <<armed, rash, revoked, abused>>

\* set_hatchet_ids. Without the row it raises, and so does the handler's
\* update in the failed transaction: both entries stay.
StoreEntry(u) ==
  /\ pc[u] = "restore"
  /\ IF row = "live"
       THEN entry' = mem[u].entry /\ Forget(u, "drop") /\ UNCHANGED <<want, old>>
       ELSE Answer(u) /\ UNCHANGED entry
  /\ UNCHANGED <<row, enabled, kind, owner, engineVars, requests, fireVars, faults, history>>

\* The registration fails, with or without an entry made.
ReregisterFails(u) ==
  /\ pc[u] = "reregister"
  /\ Fault
  /\ Register(mem[u].kind) \/ UNCHANGED engineVars
  /\ Goto(u, "off")
  /\ UNCHANGED <<dbVars, owner, mem, want, old, requests, fireVars, history>>

\* "It cannot fire without an entry, and the list says so."
SwitchOff(u) ==
  /\ pc[u] = "off"
  /\ IF row = "live"
       THEN /\ Update(mem[u], "off", mem[u].kind)
            /\ Forget(u, "drop")
            /\ UNCHANGED <<want, old>>
       ELSE Answer(u) /\ UNCHANGED <<enabled, kind, entry>>
  /\ UNCHANGED <<row, owner, engineVars, requests, fireVars, faults, history>>

\* Mutant: the entry the row points to now.
ObsoleteCurrent(u) == entry

\* The entry the row had before the edit.
Obsolete(u) == old[u]

\* _delete_entry_ids, best effort: the entry stays if the engine fails.
DropOld(u) ==
  /\ pc[u] = "drop"
  /\ \/ Unregister(Obsolete(u)) /\ UNCHANGED faults
     \/ Fault /\ UNCHANGED engineVars
  /\ Answer(u)
  /\ UNCHANGED <<dbVars, owner, requests, fireVars, history>>

------------------------------------------------------------------------------
(***************************************************************************)
(* delete_schedule (delete_for_user and the deletion of the workflow do    *)
(* the same), and the deactivation of the owner, which disables first.     *)
(***************************************************************************)

\* The row and its ids are loaded.
RemovalReads(u) ==
  /\ pc[u] = "idle"
  /\ Request
  /\ row = "live"
  /\ mem' = [mem EXCEPT ![u] = TheRow]
  /\ \E s \in {"remove", "disarm"} : Goto(u, s)
  /\ UNCHANGED <<dbVars, owner, engineVars, want, old, fireVars, faults, history>>

\* _delete_hatchet_entry.
RemoveEntry(u) ==
  /\ pc[u] \in {"remove", "disarm"}
  /\ Unregister(mem[u].entry)
  /\ Goto(u, IF pc[u] = "remove" THEN "erase" ELSE "disable")
  /\ UNCHANGED <<dbVars, owner, mem, want, old, requests, fireVars, faults, history>>

\* It raises; the entry may be gone all the same.
RemoveEntryFails(u) ==
  /\ pc[u] \in {"remove", "disarm"}
  /\ Fault
  /\ \/ Unregister(mem[u].entry) /\ lost' = "yes"
     \/ UNCHANGED <<engineVars, lost>>
  /\ Answer(u)
  /\ UNCHANGED <<dbVars, owner, requests, fireVars>>
  /\ UNCHANGED <<armed, rash, crossed, revoked, abused>>

\* repo.delete.
Erase(u) ==
  /\ pc[u] = "erase"
  /\ DeleteRow
  /\ Answer(u)
  /\ UNCHANGED <<owner, engineVars, requests, fireVars, faults, history>>

\* disable_for_user; without the row it raises and the owner stays active.
Disable(u) ==
  /\ pc[u] = "disable"
  /\ IF row = "live"
       THEN /\ Update(mem[u], "off", mem[u].kind)
            /\ Forget(u, "deactivate")
            /\ UNCHANGED <<want, old>>
       ELSE Answer(u) /\ UNCHANGED <<enabled, kind, entry>>
  /\ UNCHANGED <<row, owner, engineVars, requests, fireVars, faults, history>>

\* Only then the owner is inactive.
Deactivate(u) ==
  /\ pc[u] = "deactivate"
  /\ owner' = "inactive"
  /\ Answer(u)
  /\ UNCHANGED <<dbVars, engineVars, requests, fireVars, faults, history>>

\* A role, a permission or the sight of the workflow is taken away at once.
Revoke ==
  /\ owner = "active"
  /\ owner' = "inactive"
  /\ UNCHANGED <<dbVars, engineVars, requestVars, fireVars, faults, history>>

\* Rights are given back; the schedules stay as they are.
Reactivate ==
  /\ owner = "inactive"
  /\ owner' = "active"
  /\ revoked' = {}
  /\ UNCHANGED <<dbVars, engineVars, requestVars, fireVars, faults>>
  /\ UNCHANGED <<armed, rash, lost, crossed, abused>>

\* The process of a request dies.
Crash(u) ==
  /\ pc[u] # "idle"
  /\ Fault
  /\ lost' = "yes"
  /\ Answer(u)
  /\ UNCHANGED <<dbVars, owner, engineVars, requests, fireVars>>
  /\ UNCHANGED <<armed, rash, crossed, revoked, abused>>

------------------------------------------------------------------------------
(***************************************************************************)
(* The trigger task.                                                       *)
(***************************************************************************)

FireEnds(f) ==
  /\ fire' = [fire EXCEPT ![f] = "idle"]
  /\ fmem' = [fmem EXCEPT ![f] = NoRow]
  /\ revoked' = revoked \ {f}

\* An entry is due; a one-time entry is consumed.
EntryIsDue(f) ==
  /\ fire[f] = "idle"
  /\ \E e \in crons \cup onces : onces' = onces \ {e}
  /\ fire' = [fire EXCEPT ![f] = "due"]
  /\ UNCHANGED <<dbVars, owner, made, crons, requestVars, fmem, faults, history>>

\* The row is read: skipped if it is gone or disabled.
FireReads(f) ==
  /\ fire[f] = "due"
  /\ IF row = "live" /\ enabled = "on"
       THEN /\ fire' = [fire EXCEPT ![f] = "read"]
            /\ fmem' = [fmem EXCEPT ![f] = TheRow]
            /\ revoked' = IF owner = "active" THEN revoked ELSE revoked \cup {f}
       ELSE FireEnds(f)
  /\ UNCHANGED <<dbVars, owner, engineVars, requestVars, faults>>
  /\ UNCHANGED <<armed, rash, lost, crossed, abused>>

\* Mutant: the row's flag is taken for the owner's right.
AuthorisedByRow == TRUE

\* The creator is active, may execute and sees the workflow.
Authorised == owner = "active"

\* The creator is looked at: the schedule goes on, or is switched off.
FireChecks(f) ==
  /\ fire[f] = "read"
  /\ IF Authorised
       THEN /\ fire' = [fire EXCEPT ![f] = "mark"]
            /\ UNCHANGED <<enabled, kind, entry, fmem, revoked>>
       ELSE /\ FireEnds(f)
            /\ IF row = "live" THEN Update(fmem[f], "off", fmem[f].kind)
                               ELSE UNCHANGED <<enabled, kind, entry>>
  /\ UNCHANGED <<row, owner, engineVars, requestVars, faults>>
  /\ UNCHANGED <<armed, rash, lost, crossed, abused>>

\* mark_triggered: a one-time schedule is consumed; without the row it raises.
FireMarks(f) ==
  /\ fire[f] = "mark"
  /\ IF row = "live"
       THEN /\ fire' = [fire EXCEPT ![f] = "start"]
            /\ fmem' = [fmem EXCEPT ![f] = NoRow]
            /\ IF fmem[f].kind = "once" THEN Update(fmem[f], "off", fmem[f].kind)
                                        ELSE UNCHANGED <<enabled, kind, entry>>
            /\ UNCHANGED revoked
       ELSE FireEnds(f) /\ UNCHANGED <<enabled, kind, entry>>
  /\ UNCHANGED <<row, owner, engineVars, requestVars, faults>>
  /\ UNCHANGED <<armed, rash, lost, crossed, abused>>

\* start_scheduled_run: the run's row is created (RunLifecycle has the rest).
FireStarts(f) ==
  /\ fire[f] = "start"
  /\ FireEnds(f)
  /\ rash' = IF armed = "no" THEN "yes" ELSE rash
  /\ abused' = IF f \in revoked THEN "yes" ELSE abused
  /\ UNCHANGED <<dbVars, owner, engineVars, requestVars, faults>>
  /\ UNCHANGED <<armed, lost, crossed>>

\* The task dies or exceeds its execution timeout.
FireDies(f) ==
  /\ fire[f] # "idle"
  /\ Fault
  /\ FireEnds(f)
  /\ UNCHANGED <<dbVars, owner, engineVars, requestVars>>
  /\ UNCHANGED <<armed, rash, lost, crossed, abused>>

------------------------------------------------------------------------------
RequestStep(u) ==
  \/ Insert(u) \/ RegisterNew(u) \/ StoreNew(u) \/ RegisterNewFails(u) \/ UndoInsert(u)
  \/ EditReads(u) \/ EditPublishes(u) \/ EditStores(u)
  \/ Reregister(u) \/ StoreEntry(u) \/ ReregisterFails(u) \/ SwitchOff(u) \/ DropOld(u)
  \/ RemovalReads(u) \/ RemoveEntry(u) \/ RemoveEntryFails(u) \/ Erase(u)
  \/ Disable(u) \/ Deactivate(u) \/ Crash(u)

Trigger(f) ==
  \/ EntryIsDue(f) \/ FireReads(f) \/ FireChecks(f) \/ FireMarks(f)
  \/ FireStarts(f) \/ FireDies(f)

Next ==
  \/ \E u \in Users : RequestStep(u)
  \/ \E f \in Fires : Trigger(f)
  \/ Revoke
  \/ Reactivate

Spec == Init /\ [][Next]_vars

------------------------------------------------------------------------------
(***************************************************************************)
(* Properties.                                                             *)
(***************************************************************************)

\* No run is started before a request has switched the schedule on: an entry
\* that is due while create_schedule has not stored its id yet, or that a failed
\* creation has left in the engine, is skipped ("a disabled row can never fire").
NothingRunsUnarmed == rash = "no"

\* An enabled cron schedule has a cron entry in the engine whenever no request
\* is under way, however many requests and triggers have overlapped before
\* (update_schedule: "The new entry first; the old one is removed only after the
\* new one exists"). There are three exceptions, each until an edit registers
\* the schedule again: a request died; the engine removed an entry and its answer
\* was lost; and, without any failure, a creation was overlapped by an edit of
\* the type. Then create_schedule stores the id of the one-time entry it was
\* asked for, switches the schedule on, and a schedule that is shown as an
\* enabled cron schedule never fires (set_hatchet_ids does not look at the type).
EnabledCronIsRegistered ==
  /\ row = "live" /\ enabled = "on" /\ kind = "cron"
  /\ lost = "no" /\ crossed = "no"
  /\ \A u \in Users : pc[u] = "idle"
  => crons # {}

\* A trigger that began after the owner had lost the right to run the workflow
\* starts no run, although the disabling of the owner's schedules races with
\* edits that switch them on again (scheduled_trigger.py, S2-04).
NoRunWithoutRights == abused = "no"

\* A schedule that was switched off, a consumed one-time schedule above all, is
\* switched on only by the creation, by an edit that asks for it, or by an edit
\* that publishes the workflow between reading the row and writing it.
OnlyRequestsSwitchOn ==
  [][ enabled = "off" /\ enabled' = "on" =>
        \E u \in Users :
          /\ pc'[u] # pc[u]
          /\ \/ pc[u] = "store"
             \/ pc[u] = "update" /\ want[u].asked = "on"
             \/ pc[u] = "update" /\ want[u].tier = "published" ]_vars
==============================================================================
