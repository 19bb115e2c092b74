----------------------------- MODULE Scheduler -----------------------------
(***************************************************************************)
(* sched/fc_scheduler.c: the job table, its file, the scheduler thread and *)
(* the tools and commands that change the table, with the file written by  *)
(* fc_write_text_file_atomic (core/fc_config.c).                           *)
(*                                                                         *)
(* g_sched_lock covers the table only.  The thread gives it up to emit an  *)
(* event and to save, and a save takes its image under the lock but writes *)
(* it after.  Most scheduler tools and commands hold the execution guard   *)
(* and so run one at a time, but a scheduled "tool: scheduler.add" (its    *)
(* context says guarded, fc_agent.c) and the self-test hold none: any      *)
(* number of Tools may overlap.  The thread, "sched", takes no guard.      *)
(*                                                                         *)
(* Time is counted in units that are at once the interval, the minute of a *)
(* cron expression that always matches, and the grain of at_epoch.         *)
(***************************************************************************)
EXTENDS Integers, Sequences, FiniteSets, FiniteSetsExt

CONSTANTS
    Tools,       \* tools and commands that change the table
    Ids,         \* job names
    Kinds,       \* which of "interval", "once", "cron", "boot" are used
    SlotCount,   \* FC_MAX_SCHEDULES
    MaxTime,     \* bound on the time of a behaviour
    MaxAdds,     \* bound on the number of add calls
    MaxResets,   \* bound on the number of resets
    IoErrors,    \* TRUE when open and write may fail
    Free,        \* an unused slot
    NoFile, Torn \* no file; a file cut off in the middle

Slots == 1 .. SlotCount
Gens == 1 .. MaxAdds
Times == 1 .. MaxTime

(* A job: gen tells incarnations of one name apart; when is next_ms,       *)
(* at_epoch or last_minute_key.                                            *)
Jobs == [id : Ids, kind : Kinds, enabled : BOOLEAN, when : Int, gen : Gens]

ASSUME SchedulerAssumption ==
    /\ "sched" \notin Tools
    /\ Kinds \subseteq {"interval", "once", "cron", "boot"}
    /\ SlotCount \in Nat \ {0} /\ MaxTime \in Nat \ {0} /\ MaxAdds \in Nat
    /\ MaxResets \in Nat /\ IoErrors \in BOOLEAN
    /\ Free \notin Jobs
    /\ NoFile \notin Seq(Jobs) /\ Torn \notin Seq(Jobs) /\ NoFile # Torn

VARIABLES
    now,      \* fc_time_ms
    table,    \* g_jobs
    sched,    \* scheduler thread, see SchedStates
    slot,     \* the slot its loop has reached
    tick,     \* now_ms of its iteration
    snap,     \* the snapshot it emits
    loaded,   \* the file as read by fc_scheduler_load
    step,     \* step[w]: how far w is in fc_scheduler_save
    image,    \* image[w]: the text w is about to write
    opened,   \* opened[w]: what w's descriptor refers to
    disk,     \* schedules.json
    tmp,      \* schedules.json.tmp
    cut,      \* a save that was writing schedules.json itself was interrupted
    gens,     \* add calls so far
    fires,    \* fires[g]: times at which incarnation g was emitted this boot
    resets

tableVars == <<table, gens>>
threadVars == <<sched, slot, tick, snap, loaded, fires>>
fileVars == <<step, image, opened, disk, tmp, cut>>
vars == <<now, tableVars, threadVars, fileVars, resets>>

Writers == Tools \cup {"sched"}
SchedStates == {"off", "ready", "install", "failed", "boot", "bootEmit", "top",
                "scan", "emit"}
Used(i) == table[i] # Free

RamInit ==
    /\ table = [i \in Slots |-> Free]
    /\ sched = "off" /\ slot = 1 /\ tick = 0 /\ snap = Free /\ loaded = NoFile
    /\ fires = [g \in Gens |-> {}]
    /\ step = [w \in Writers |-> "idle"]
    /\ image = [w \in Writers |-> << >>]
    /\ opened = [w \in Writers |-> "none"]

Init ==
    /\ now = 1 /\ disk = NoFile /\ tmp = NoFile /\ cut = FALSE
    /\ gens = 0 /\ resets = 0
    /\ RamInit
-----------------------------------------------------------------------------
(* What fc_scheduler_save writes: the used slots in order, without the     *)
(* next fire time of an interval and the last minute of a cron job.        *)
UsedSlots == {i \in Slots : Used(i)}
NthUsed(k) ==
    CHOOSE i \in UsedSlots : Cardinality({j \in UsedSlots : j <= i}) = k

Image ==
    [k \in 1 .. Cardinality(UsedSlots) |->
        LET j == table[NthUsed(k)] IN
            IF j.kind = "once" THEN j ELSE [j EXCEPT !.when = 0]]

(* fc_scheduler_load of a parsed file: slots in order; an interval starts  *)
(* anew and a cron job has fired in no minute yet.                         *)
Restored(file) ==
    [i \in Slots |->
        IF i > Len(file) THEN Free
        ELSE LET j == file[i] IN
             CASE j.kind = "interval" -> [j EXCEPT !.when = now + 1]
               [] j.kind = "cron" -> [j EXCEPT !.when = -1]
               [] OTHER -> j]

(* fc_bootstrap loads; the result is not looked at.  It does so again in   *)
(* the next command when web or MCP handlers could not be registered.      *)
Bootstrap ==
    /\ sched \in {"off", "ready"}
    /\ sched' = "ready"
    /\ table' = IF disk \in {NoFile, Torn} THEN table ELSE Restored(disk)
    /\ UNCHANGED <<now, gens, slot, tick, snap, loaded, fires, fileVars,
                   resets>>

(* fc_scheduler_worker_start loads again: it reads the file; after a       *)
(* failure the next start of the runtime tries again ...                   *)
WorkerRead ==
    /\ sched \in {"ready", "failed"}
    /\ loaded' = disk
    /\ sched' = CASE disk = Torn -> "failed"
                  [] disk = NoFile -> "boot"
                  [] OTHER -> "install"
    /\ UNCHANGED <<now, tableVars, slot, tick, snap, fires, fileVars, resets>>

(* ... and later, under the lock, replaces the table by what it read.      *)
WorkerInstall ==
    /\ sched = "install"
    /\ table' = Restored(loaded)
    /\ loaded' = NoFile
    /\ sched' = "boot"
    /\ UNCHANGED <<now, gens, slot, tick, snap, fires, fileVars, resets>>
-----------------------------------------------------------------------------
(* Mutant of SlotFor: a new slot is taken although the name is in use.     *)
SlotFor_AlwaysNew(id) == {i \in Slots : ~Used(i)}

(* fc_alloc_job: the slot of that name, otherwise the first unused one.    *)
SlotFor(id) ==
    LET same == {i \in Slots : Used(i) /\ table[i].id = id}
        free == {i \in Slots : ~Used(i)}
    IN  IF same # {} THEN same ELSE IF free # {} THEN {Min(free)} ELSE {}

(* fc_scheduler_add_interval_ctx, _cron_ctx, _once_ctx and _boot_ctx up to *)
(* the unlock; the save follows.  Without a slot they return -ENOSPC.      *)
Add(t, id, kind, at) ==
    /\ step[t] = "idle" /\ sched # "off"
    /\ gens < MaxAdds
    /\ \E i \in SlotFor(id) :
        table' = [table EXCEPT ![i] =
            [id |-> id, kind |-> kind, enabled |-> TRUE, gen |-> gens + 1,
             when |-> CASE kind = "interval" -> now + 1
                        [] kind = "once" -> at
                        [] kind = "cron" -> -1
                        [] kind = "boot" -> 0]]
    /\ gens' = gens + 1
    /\ step' = [step EXCEPT ![t] = "snapshot"]
    /\ UNCHANGED <<now, threadVars, image, opened, disk, tmp, cut, resets>>

(* fc_scheduler_remove.                                                    *)
RemoveJob(t, id) ==
    /\ step[t] = "idle" /\ sched # "off"
    /\ \E i \in Slots :
        /\ Used(i) /\ table[i].id = id
        /\ table' = [table EXCEPT ![i] = Free]
    /\ step' = [step EXCEPT ![t] = "snapshot"]
    /\ UNCHANGED <<now, gens, threadVars, image, opened, disk, tmp, cut,
                   resets>>
-----------------------------------------------------------------------------
(* fc_scheduler_save by w: the image is taken under the lock.              *)
Snapshot(w) ==
    /\ step[w] = "snapshot"
    /\ image' = [image EXCEPT ![w] = Image]
    /\ step' = [step EXCEPT ![w] = "open"]
    /\ UNCHANGED <<now, tableVars, threadVars, opened, disk, tmp, cut, resets>>

(* fc_write_text_file_atomic: all writers open the same temporary file.    *)
OpenTmp(w) ==
    /\ step[w] = "open"
    /\ \/ /\ tmp' = Torn
          /\ opened' = [opened EXCEPT ![w] = "tmp"]
          /\ step' = [step EXCEPT ![w] = "write"]
          /\ UNCHANGED image
       \/ /\ IoErrors
          /\ image' = [image EXCEPT ![w] = << >>]
          /\ step' = [step EXCEPT ![w] = "idle"]
          /\ UNCHANGED <<tmp, opened>>
    /\ UNCHANGED <<now, tableVars, threadVars, disk, cut, resets>>

(* The text goes where the descriptor points: since the open, another      *)
(* writer may have renamed or removed the file.  A failed write removes    *)
(* the temporary file.                                                     *)
WriteTmp(w) ==
    /\ step[w] = "write"
    /\ \/ /\ tmp' = IF opened[w] = "tmp" THEN image[w] ELSE tmp
          /\ disk' = IF opened[w] = "disk" THEN image[w] ELSE disk
          /\ cut' = (cut /\ opened[w] # "disk")
          /\ image' = [image EXCEPT ![w] = << >>]
          /\ opened' = [opened EXCEPT ![w] = "none"]
          /\ step' = [step EXCEPT ![w] = "rename"]
       \/ /\ IoErrors
          /\ tmp' = NoFile
          /\ opened' = [v \in Writers |->
                           IF v = w \/ opened[v] = "tmp" THEN "none"
                           ELSE opened[v]]
          /\ step' = [step EXCEPT ![w] = "idle"]
          /\ image' = [image EXCEPT ![w] = << >>]
          /\ cut' = (cut \/ opened[w] = "disk")
          /\ UNCHANGED disk
    /\ UNCHANGED <<now, tableVars, threadVars, resets>>

(* Mutant of RenameTmp: the text is copied, not renamed, so that a reset   *)
(* can cut it off.                                                         *)
RenameTmp_Copies(w) ==
    /\ step[w] = "rename"
    /\ disk' \in {Torn, tmp}
    /\ cut' = FALSE
    /\ tmp' = NoFile
    /\ opened' = [v \in Writers |-> "none"]
    /\ step' = [step EXCEPT ![w] = "idle"]
    /\ UNCHANGED <<now, tableVars, threadVars, image, resets>>

(* rename: another writer's descriptor follows the file.  A rename that    *)
(* fails, as it does when the file is gone, removes the temporary file.    *)
RenameTmp(w) ==
    /\ step[w] = "rename"
    /\ \/ /\ tmp # NoFile
          /\ disk' = tmp /\ cut' = FALSE
          /\ opened' = [v \in Writers |->
                           IF opened[v] = "tmp" THEN "disk" ELSE "none"]
       \/ /\ IoErrors \/ tmp = NoFile
          /\ opened' = [v \in Writers |->
                           IF opened[v] = "tmp" THEN "none" ELSE opened[v]]
          /\ UNCHANGED <<disk, cut>>
    /\ tmp' = NoFile
    /\ step' = [step EXCEPT ![w] = "idle"]
    /\ UNCHANGED <<now, tableVars, threadVars, image, resets>>

SaveStep(w) == Snapshot(w) \/ OpenTmp(w) \/ WriteTmp(w) \/ RenameTmp(w)
-----------------------------------------------------------------------------
(* fc_scheduler_emit_boot_jobs: the next boot job from slot on; the lock   *)
(* is given up while it is emitted.                                        *)
BootJobs == {i \in slot .. SlotCount :
                Used(i) /\ table[i].enabled /\ table[i].kind = "boot"}

BootScan ==
    /\ sched = "boot"
    /\ IF BootJobs = {}
       THEN sched' = "top" /\ slot' = 1 /\ UNCHANGED snap
       ELSE /\ sched' = "bootEmit"
            /\ snap' = table[Min(BootJobs)]
            /\ slot' = Min(BootJobs) + 1
    /\ UNCHANGED <<now, tableVars, tick, loaded, fires, fileVars, resets>>

(* The top of fc_scheduler_thread_main's loop: the time is read before the *)
(* lock is taken.                                                          *)
TopOfLoop ==
    /\ sched = "top"
    /\ tick' = now
    /\ sched' = "scan"
    /\ UNCHANGED <<now, tableVars, slot, snap, loaded, fires, fileVars,
                   resets>>

(* The conditions under which fc_scheduler_thread_main fires a slot.       *)
Due(i) ==
    /\ Used(i) /\ table[i].enabled
    /\ \/ table[i].kind \in {"interval", "once"} /\ tick >= table[i].when
       \/ table[i].kind = "cron" /\ tick # table[i].when

DueSlots == {i \in slot .. SlotCount : Due(i)}

(* Mutant of Fired: a one-shot job stays enabled until it was emitted.     *)
Fired_StaysEnabled(j) ==
    CASE j.kind = "interval" -> [j EXCEPT !.when = now + 1]
      [] j.kind = "cron" -> [j EXCEPT !.when = tick]
      [] OTHER -> j

(* The entry of a job that fires, before the lock is given up.             *)
Fired(j) ==
    CASE j.kind = "interval" -> [j EXCEPT !.when = now + 1]
      [] j.kind = "once" -> [j EXCEPT !.enabled = FALSE]
      [] j.kind = "cron" -> [j EXCEPT !.when = tick]

(* One pass over the table, up to the next job that is due, once the save  *)
(* after the last one has ended.                                           *)
Scan ==
    /\ sched = "scan" /\ step["sched"] = "idle"
    /\ IF DueSlots = {}
       THEN /\ sched' = "top" /\ slot' = 1 /\ tick' = 0
            /\ UNCHANGED <<table, snap>>
       ELSE LET i == Min(DueSlots) IN
            /\ snap' = table[i]
            /\ table' = [table EXCEPT ![i] = Fired(table[i])]
            /\ slot' = i + 1
            /\ sched' = "emit"
            /\ UNCHANGED tick
    /\ UNCHANGED <<now, gens, loaded, fires, fileVars, resets>>

(* Mutant of Emit: the entry is looked at again, and no longer enabled.    *)
Emit_IfEnabled ==
    /\ sched \in {"emit", "bootEmit"}
    /\ fires' = IF \E i \in Slots : /\ Used(i) /\ table[i].gen = snap.gen
                                    /\ table[i].enabled
                THEN [fires EXCEPT ![snap.gen] = @ \cup {tick}] ELSE fires
    /\ snap' = Free
    /\ IF sched = "emit" /\ snap.kind = "once"
       THEN sched' = "scan" /\ step' = [step EXCEPT !["sched"] = "snapshot"]
       ELSE /\ sched' = IF sched = "emit" THEN "scan" ELSE "boot"
            /\ UNCHANGED step
    /\ UNCHANGED <<now, tableVars, slot, tick, loaded, image, opened, disk,
                   tmp, cut, resets>>

(* fc_emit_schedule; a full main queue loses the event.  A one-shot job is *)
(* saved as disabled before the pass goes on.                              *)
Emit ==
    /\ sched \in {"emit", "bootEmit"}
    /\ fires' = [fires EXCEPT ![snap.gen] = @ \cup {tick}]
    /\ snap' = Free
    /\ IF sched = "emit" /\ snap.kind = "once"
       THEN sched' = "scan" /\ step' = [step EXCEPT !["sched"] = "snapshot"]
       ELSE /\ sched' = IF sched = "emit" THEN "scan" ELSE "boot"
            /\ UNCHANGED step
    /\ UNCHANGED <<now, tableVars, slot, tick, loaded, image, opened, disk,
                   tmp, cut, resets>>

Tick ==
    /\ now < MaxTime
    /\ now' = now + 1
    /\ UNCHANGED <<tableVars, threadVars, fileVars, resets>>

(* The board is reset; schedules.json survives.  A temporary file that is  *)
(* left over is truncated before anything is read or renamed from it: it   *)
(* counts as absent.                                                       *)
Reset ==
    /\ resets < MaxResets
    /\ resets' = resets + 1
    /\ table' = [i \in Slots |-> Free]
    /\ sched' = "off" /\ slot' = 1 /\ tick' = 0 /\ snap' = Free
    /\ loaded' = NoFile
    /\ fires' = [g \in Gens |-> {}]
    /\ step' = [w \in Writers |-> "idle"]
    /\ image' = [w \in Writers |-> << >>]
    /\ opened' = [w \in Writers |-> "none"]
    /\ cut' = (cut \/ \E w \in Writers : opened[w] = "disk")
    /\ tmp' = NoFile
    /\ UNCHANGED <<now, gens, disk>>

ThreadStep ==
    \/ Bootstrap \/ WorkerRead \/ WorkerInstall \/ BootScan \/ TopOfLoop
    \/ Scan \/ Emit \/ SaveStep("sched")

Next ==
    \/ \E t \in Tools :
          \/ \E id \in Ids, kind \in Kinds, at \in Times : Add(t, id, kind, at)
          \/ \E id \in Ids : RemoveJob(t, id)
          \/ SaveStep(t)
    \/ ThreadStep
    \/ Tick \/ Reset

Spec == Init /\ [][Next]_vars

(* The scheduler thread runs and time passes.  Nothing is asked of the     *)
(* tools: one that never ends its save holds no lock while it writes.      *)
FairSpec == Spec /\ WF_vars(ThreadStep) /\ WF_vars(Tick)
-----------------------------------------------------------------------------
(* Type invariant.  A file holds a list of jobs, each with its own name.   *)
IsFile(f) ==
    \/ f \in {NoFile, Torn}
    \/ /\ f \in Seq(Jobs) /\ Len(f) <= SlotCount
       /\ \A k, l \in 1 .. Len(f) : f[k].id = f[l].id => k = l

TypeOK ==
    /\ now \in Times /\ gens \in 0 .. MaxAdds /\ resets \in 0 .. MaxResets
    /\ table \in [Slots -> Jobs \cup {Free}]
    /\ sched \in SchedStates /\ slot \in 1 .. (SlotCount + 1)
    /\ tick \in 0 .. MaxTime /\ snap \in Jobs \cup {Free}
    /\ step \in [Writers -> {"idle", "snapshot", "open", "write", "rename"}]
    /\ cut \in BOOLEAN /\ opened \in [Writers -> {"none", "tmp", "disk"}]
    /\ fires \in [Gens -> SUBSET (0 .. MaxTime)]
    /\ IsFile(disk) /\ IsFile(tmp) /\ IsFile(loaded)
    /\ image \in [Writers -> Seq(Jobs)]
    /\ \A w \in Writers : IsFile(image[w])

(* No name is in the table twice, whatever is loaded, added and removed    *)
(* while the thread is in the middle of a pass.                            *)
UniqueNames ==
    \A i, j \in Slots :
        Used(i) /\ Used(j) /\ table[i].id = table[j].id => i = j

(* Between two resets a one-shot or boot job is emitted once and a cron    *)
(* job once a minute, although the thread emits without the lock and works *)
(* on an older clock reading.                                              *)
NoDoubleFire ==
    sched \in {"emit", "bootEmit"} =>
        /\ tick \notin fires[snap.gen]
        /\ snap.kind \in {"once", "boot"} => fires[snap.gen] = {}

(* schedules.json is cut off only while the save that cut it off is about  *)
(* to write it, or because that save was interrupted there by a reset or   *)
(* an I/O error: no other order of several saves leaves it unreadable.     *)
TornOnlyDuringSave ==
    disk = Torn =>
        \/ cut
        \/ \E w \in Writers : step[w] = "write" /\ opened[w] = "disk"

(* A one-shot job that is due or still to come in the table of a running   *)
(* scheduler is emitted: the pass that disables it does not lose it, and   *)
(* no save or reload stands between, unless it is removed or replaced.     *)
InTable(g) == \E i \in Slots : Used(i) /\ table[i].gen = g
OnceWaits(g) ==
    \E i \in Slots : /\ Used(i) /\ table[i].gen = g
                     /\ table[i].kind = "once" /\ table[i].enabled
OnceJobFires ==
    \A g \in Gens :
        OnceWaits(g) /\ sched = "top"
            ~> fires[g] # {} \/ ~InTable(g) \/ sched = "off"

(* README.md, "both scheduler.add and script.schedule can persist          *)
(* boot/autostart jobs": when the thread saves the table because a         *)
(* one-shot job has fired, a job that is in the table and in               *)
(* schedules.json stays in schedules.json (a file cut off by two saves at  *)
(* once is the subject of TornOnlyDuringSave).                             *)
InFile(file, id) ==
    file \notin {NoFile, Torn} /\ \E k \in 1 .. Len(file) : file[k].id = id

ThreadSaveKeepsJobs ==
    [][step'["sched"] # step["sched"] /\ disk' # Torn =>
          \A i \in Slots : Used(i) /\ InFile(disk, table[i].id)
                              => InFile(disk', table[i].id)]_vars
=============================================================================
