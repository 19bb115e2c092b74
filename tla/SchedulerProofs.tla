-------------------------- MODULE SchedulerProofs --------------------------
(***************************************************************************)
(* Proofs about Scheduler, for every set of tools and job names, every     *)
(* number of slots, adds and resets, all four kinds of jobs, with and      *)
(* without I/O errors.                                                     *)
(***************************************************************************)
EXTENDS Scheduler, FiniteSetTheorems, TLAPS

(* Every set of natural numbers that is not empty has a least element.     *)
LEMMA LeastElement ==
    ASSUME NEW S \in SUBSET Nat, S # {}
    PROVE  \E x \in S : \A y \in S : x <= y
<1>1. IsWellFoundedOn(OpToRel(<, Nat), Nat)
    BY NatLessThanWellFounded
<1>2. PICK x \in S : \A y \in S : ~ (<<y, x>> \in OpToRel(<, Nat))
    BY <1>1, WFMin
<1>3. ASSUME NEW y \in S, ~(x <= y)
      PROVE  <<y, x>> \in OpToRel(<, Nat)
    BY <1>3 DEF OpToRel
<1> QED
    BY <1>2, <1>3

(* Min, of the library, is that element.                                   *)
LEMMA MinIsLeast ==
    ASSUME NEW S \in SUBSET Nat, S # {}
    PROVE  Min(S) \in S /\ \A y \in S : Min(S) <= y
BY LeastElement DEF Min

(* The k-th used slot: the ranks of the used slots are exactly the numbers *)
(* 1 .. Cardinality(UsedSlots), and no two used slots have the same rank.  *)
LEMMA NthUsedSlot ==
    /\ Cardinality(UsedSlots) \in 0 .. SlotCount
    /\ \A k \in 1 .. Cardinality(UsedSlots) :
          /\ NthUsed(k) \in UsedSlots
          /\ \A l \in 1 .. Cardinality(UsedSlots) :
                NthUsed(k) = NthUsed(l) => k = l
<1> DEFINE n == Cardinality(UsedSlots)
           below(i) == {j \in UsedSlots : j <= i}
           rank == [i \in UsedSlots |-> Cardinality(below(i))]
<1>1. /\ IsFiniteSet(UsedSlots) /\ UsedSlots \subseteq Nat
      /\ n \in Nat /\ n <= SlotCount
  <2>1. IsFiniteSet(Slots) /\ Cardinality(Slots) = SlotCount
    BY FS_Interval, SchedulerAssumption DEF Slots
  <2> QED
    BY <2>1, FS_Subset, FS_CardinalityType DEF UsedSlots, Slots
<1>2. ASSUME NEW i \in UsedSlots
      PROVE  /\ IsFiniteSet(below(i))
             /\ rank[i] \in 1 .. n
  <2>1. IsFiniteSet(below(i)) /\ Cardinality(below(i)) \in Nat
        /\ Cardinality(below(i)) <= n
    BY <1>1, FS_Subset, FS_CardinalityType
  <2>2. i \in below(i)
    BY <1>1
  <2>3. Cardinality(below(i)) # 0
    BY <2>1, <2>2, FS_EmptySet
  <2> QED
    BY <2>1, <2>3, <1>1
<1>3. ASSUME NEW i \in UsedSlots, NEW j \in UsedSlots, i < j
      PROVE  rank[i] # rank[j]
  <2>0. i \in Nat /\ j \in Nat
    BY <1>1
  <2>1. below(i) \in SUBSET below(j) /\ j \in below(j) /\ j \notin below(i)
    <3>1. ASSUME NEW u \in below(i) PROVE u \in below(j)
      BY <1>1, <1>3, <2>0
    <3>2. j \in below(j) /\ j \notin below(i)
      BY <2>0, <1>3
    <3> HIDE DEF below
    <3> QED
      BY <3>1, <3>2
  <2>2. IsFiniteSet(below(j))
    BY <1>2
  <2>3. Cardinality(below(i)) # Cardinality(below(j))
    BY <2>1, <2>2, FS_Subset
  <2> QED
    BY <2>3
<1>4. ASSUME NEW k \in 1 .. n PROVE \E i \in UsedSlots : rank[i] = k
  <2>1. rank \in Injection(UsedSlots, 1 .. n)
    <3>1. rank \in [UsedSlots -> 1 .. n]
      BY <1>2
    <3>2. \A i, j \in UsedSlots : rank[i] = rank[j] => i = j
      BY <1>1, <1>3
    <3> QED
      BY <3>1, <3>2 DEF Injection, IsInjective
  <2>2. IsFiniteSet(1 .. n) /\ Cardinality(1 .. n) = n
    BY <1>1, FS_Interval
  <2>3. rank \in Surjection(UsedSlots, 1 .. n)
    BY <2>1, <2>2, FS_Injection
  <2> QED
    BY <2>3 DEF Surjection
<1>5. ASSUME NEW k \in 1 .. n
      PROVE  NthUsed(k) \in UsedSlots /\ rank[NthUsed(k)] = k
    BY <1>4 DEF NthUsed
<1>6. \A k, l \in 1 .. n : NthUsed(k) = NthUsed(l) => k = l
    BY <1>5
<1>7. n \in 0 .. SlotCount
    BY <1>1, SchedulerAssumption
<1> QED
    BY <1>5, <1>6, <1>7, Zenon
-----------------------------------------------------------------------------
(* The inductive invariants.                                               *)

(* Types, names, and what the worker is about to install.                  *)
NameInv ==
    /\ TypeOK
    /\ UniqueNames
    /\ sched = "install" => loaded \notin {NoFile, Torn}

(* Two saves at work: a descriptor is open only between open and write,    *)
(* a file is cut off only while the descriptor that cut it off still       *)
(* refers to it, and the thread saves only in the middle of a pass.        *)
SaveInv ==
    /\ \A w \in Writers : opened[w] # "none" => step[w] = "write"
    /\ tmp = Torn => \E w \in Writers : step[w] = "write" /\ opened[w] = "tmp"
    /\ sched # "scan" => step["sched"] = "idle"
    /\ TornOnlyDuringSave

(* Incarnations are numbered by the adds: no two jobs of a file or of the  *)
(* table have the same number, and none has a number still to come.        *)
Numbered(f, last) ==
    f \notin {NoFile, Torn} =>
        \A k \in 1 .. Len(f) :
            /\ f[k].gen <= last
            /\ \A l \in 1 .. Len(f) : f[k].gen = f[l].gen => k = l

FilesNumbered ==
    /\ Numbered(disk, gens) /\ Numbered(tmp, gens) /\ Numbered(loaded, gens)
    /\ \A w \in Writers : Numbered(image[w], gens)

TableNumbered ==
    \A i \in Slots : Used(i) =>
        /\ table[i].gen <= gens
        /\ \A j \in Slots : Used(j) /\ table[i].gen = table[j].gen => i = j

(* Nothing was emitted before the worker's load; afterwards the clock      *)
(* reading of a pass is not ahead of the clock.                            *)
Loading == {"off", "ready", "install", "failed"}

ClockInv ==
    /\ tick <= now
    /\ sched \in Loading \cup {"boot", "bootEmit"} => tick = 0
    /\ sched \in Loading => slot = 1 /\ \A g \in Gens : fires[g] = {}
    /\ \A g \in Gens : fires[g] # {} => g <= gens

(* What the table knows about the past of its jobs.                        *)
JobInv ==
    \A i \in Slots : Used(i) =>
        LET j == table[i]  past == fires[j.gen] IN
            /\ j.kind = "once" /\ j.enabled => past = {}
            /\ j.kind = "interval" => \A t \in past : t < j.when
            /\ j.kind = "cron" => /\ \A t \in past : t <= j.when
                                  /\ j.when <= now
                                  /\ sched \in {"scan", "emit"} => j.when <= tick
            /\ sched \in {"boot", "bootEmit"} /\ i >= slot => past = {}

(* The job that is emitted without the lock: it is an incarnation that was *)
(* not emitted in this pass, and the table entry it was copied from, if it *)
(* is still there, is marked as fired and behind the loop.                 *)
SnapInv ==
    sched \in {"emit", "bootEmit"} =>
        /\ snap \in Jobs /\ snap.gen <= gens
        /\ snap.kind = "boot" <=> sched = "bootEmit"
        /\ NoDoubleFire
        /\ \A i \in Slots : Used(i) /\ table[i].gen = snap.gen =>
              /\ table[i].kind = snap.kind /\ i < slot
              /\ snap.kind = "once" => ~table[i].enabled
              /\ snap.kind = "cron" => table[i].when = tick
              /\ snap.kind = "interval" => table[i].when > tick

FireInv == FilesNumbered /\ TableNumbered /\ ClockInv /\ JobInv /\ SnapInv
-----------------------------------------------------------------------------
(* The table as a save writes it: names and incarnations are those of      *)
(* distinct slots, and a file of distinct names results.                   *)
LEMMA ImageOfTable ==
    ASSUME TypeOK, UniqueNames
    PROVE  /\ Image \in Seq(Jobs) /\ IsFile(Image)
           /\ \A k \in 1 .. Len(Image) :
                 \E i \in Slots : Used(i) /\ Image[k].gen = table[i].gen
           /\ TableNumbered => Numbered(Image, gens)
<1> DEFINE n == Cardinality(UsedSlots)
<1>0. n \in Nat /\ n <= SlotCount
    BY NthUsedSlot, SchedulerAssumption
<1>1. ASSUME NEW k \in 1 .. n
      PROVE  /\ NthUsed(k) \in Slots /\ Used(NthUsed(k))
             /\ table[NthUsed(k)] \in Jobs
    BY NthUsedSlot DEF UsedSlots, Used, TypeOK
<1>2. ASSUME NEW k \in 1 .. n
      PROVE  /\ Image[k] \in Jobs
             /\ Image[k].id = table[NthUsed(k)].id
             /\ Image[k].gen = table[NthUsed(k)].gen
    BY <1>1 DEF Image, Jobs
<1>3. Image \in [1 .. n -> Jobs]
    BY <1>2 DEF Image
<1>4. Image \in Seq(Jobs) /\ Len(Image) = n
    BY <1>0, <1>3
<1>5. \A k, l \in 1 .. n : Image[k].id = Image[l].id => k = l
    BY <1>1, <1>2, NthUsedSlot DEF UniqueNames
<1>6. ASSUME TableNumbered PROVE Numbered(Image, gens)
    BY <1>1, <1>2, <1>4, <1>6, NthUsedSlot DEF TableNumbered, Numbered
<1> QED
    BY <1>0, <1>1, <1>2, <1>4, <1>5, <1>6 DEF IsFile

(* A loaded file: slot i holds the i-th job of the file.                   *)
LEMMA RestoredTable ==
    ASSUME TypeOK, NEW f, IsFile(f), f \notin {NoFile, Torn}
    PROVE  /\ Restored(f) \in [Slots -> Jobs \cup {Free}]
           /\ \A i \in Slots : Restored(f)[i] # Free =>
                 /\ i \in 1 .. Len(f)
                 /\ Restored(f)[i].id = f[i].id
                 /\ Restored(f)[i].gen = f[i].gen
                 /\ Restored(f)[i].kind = "cron" => Restored(f)[i].when = -1
<1>1. f \in Seq(Jobs)
    BY DEF IsFile
<1>2. ASSUME NEW i \in Slots
      PROVE  /\ Restored(f)[i] \in Jobs \cup {Free}
             /\ Restored(f)[i] # Free =>
                 /\ i \in 1 .. Len(f)
                 /\ Restored(f)[i].id = f[i].id
                 /\ Restored(f)[i].gen = f[i].gen
                 /\ Restored(f)[i].kind = "cron" => Restored(f)[i].when = -1
  <2>1. CASE i > Len(f)
    BY <2>1 DEF Restored
  <2>2. CASE ~(i > Len(f))
    <3>1. i \in 1 .. Len(f) /\ f[i] \in Jobs
      BY <1>1, <2>2, SchedulerAssumption DEF Slots
    <3>2. Restored(f)[i] = CASE f[i].kind = "interval" -> [f[i] EXCEPT !.when = now + 1]
                             [] f[i].kind = "cron" -> [f[i] EXCEPT !.when = -1]
                             [] OTHER -> f[i]
      BY <2>2 DEF Restored
    <3>3. now + 1 \in Int /\ -1 \in Int
      BY DEF TypeOK, Times
    <3>4. \/ /\ f[i].kind = "interval"
             /\ Restored(f)[i] = [f[i] EXCEPT !.when = now + 1]
          \/ /\ f[i].kind = "cron"
             /\ Restored(f)[i] = [f[i] EXCEPT !.when = -1]
          \/ f[i].kind # "cron" /\ Restored(f)[i] = f[i]
      BY <3>2
    <3> QED
      BY <3>1, <3>3, <3>4 DEF Jobs
  <2> QED
    BY <2>1, <2>2
<1> QED
    BY <1>2 DEF Restored
-----------------------------------------------------------------------------
(* Types and unique names.  They need each other: the names of a file are  *)
(* unique because those of the table were, and the other way round.        *)
LEMMA NamesInit == Init => TypeOK /\ UniqueNames
<1> SUFFICES ASSUME Init PROVE TypeOK /\ UniqueNames
    OBVIOUS
<1> USE SchedulerAssumption DEF Init, RamInit
<1>1. \A i \in Slots : ~Used(i)
    BY DEF Used
<1>2. UniqueNames
    BY <1>1 DEF UniqueNames
<1>3. << >> \in Seq(Jobs) /\ IsFile(<< >>)
    BY DEF IsFile
<1>4. /\ image \in [Writers -> Seq(Jobs)]
      /\ \A w \in Writers : IsFile(image[w])
    BY <1>3
<1>5. IsFile(disk) /\ IsFile(tmp) /\ IsFile(loaded)
    BY DEF IsFile
<1>6. /\ now \in Times /\ gens \in 0 .. MaxAdds /\ resets \in 0 .. MaxResets
      /\ slot \in 1 .. (SlotCount + 1) /\ tick \in 0 .. MaxTime
      /\ fires \in [Gens -> SUBSET (0 .. MaxTime)]
    BY DEF Times
<1>7. table \in [Slots -> Jobs \cup {Free}] /\ snap \in Jobs \cup {Free}
    OBVIOUS
<1>8. /\ sched \in SchedStates /\ cut \in BOOLEAN
      /\ step \in [Writers -> {"idle", "snapshot", "open", "write", "rename"}]
      /\ opened \in [Writers -> {"none", "tmp", "disk"}]
    BY DEF SchedStates
<1> QED
    BY <1>2, <1>4, <1>5, <1>6, <1>7, <1>8 DEF TypeOK

(* A boot job or a due job that a scan finds is in the table.              *)
LEMMA FoundSlot ==
    ASSUME TypeOK, NEW S, S \in {BootJobs, DueSlots}, S # {}
    PROVE  /\ Min(S) \in S /\ Min(S) \in Slots /\ Min(S) >= slot
           /\ Used(Min(S)) /\ table[Min(S)] \in Jobs
<1>1. S \in SUBSET Slots /\ \A i \in S : i >= slot /\ Used(i)
    BY SchedulerAssumption DEF TypeOK, BootJobs, DueSlots, Due, Slots
<1>2. Min(S) \in S
    BY <1>1, MinIsLeast DEF Slots
<1> QED
    BY <1>1, <1>2 DEF TypeOK, Used

(* fc_alloc_job returns a slot of the table.                               *)
LEMMA AllocatedSlot ==
    ASSUME NEW id, NEW i \in SlotFor(id)
    PROVE  /\ i \in Slots
           /\ \/ Used(i) /\ table[i].id = id
              \/ \A j \in Slots : Used(j) => table[j].id # id
<1> DEFINE free == {j \in Slots : ~Used(j)}
<1>1. free # {} => Min(free) \in free
    BY MinIsLeast DEF Slots
<1> QED
    BY <1>1 DEF SlotFor

(* The entry of a fired job is the same job.                               *)
LEMMA FiredJob ==
    ASSUME TypeOK, NEW i \in Slots, Due(i)
    PROVE  LET j == table[i]  f == Fired(table[i]) IN
           /\ j \in Jobs /\ f \in Jobs
           /\ j.kind \in {"interval", "once", "cron"}
           /\ f.id = j.id /\ f.gen = j.gen /\ f.kind = j.kind
           /\ j.kind = "interval" => f.when = now + 1
           /\ j.kind = "once" => ~f.enabled
           /\ j.kind = "cron" => f.when = tick
<1> DEFINE j == table[i]
<1>1. j \in Jobs /\ j.kind \in {"interval", "once", "cron"}
    BY DEF TypeOK, Due, Used
<1>2. now + 1 \in Int /\ tick \in Int
    BY DEF TypeOK, Times
<1>3. CASE j.kind = "interval"
  <2>1. Fired(j) = [j EXCEPT !.when = now + 1]
    BY <1>3 DEF Fired
  <2> QED
    BY <1>1, <1>2, <1>3, <2>1 DEF Jobs
<1>4. CASE j.kind = "once"
  <2>1. Fired(j) = [j EXCEPT !.enabled = FALSE]
    BY <1>4 DEF Fired
  <2> QED
    BY <1>1, <1>4, <2>1 DEF Jobs
<1>5. CASE j.kind = "cron"
  <2>1. Fired(j) = [j EXCEPT !.when = tick]
    BY <1>5 DEF Fired
  <2> QED
    BY <1>1, <1>2, <1>5, <2>1 DEF Jobs
<1> QED
    BY <1>1, <1>3, <1>4, <1>5

(* The job that an add puts into its slot.                                 *)
LEMMA AddedJob ==
    ASSUME TypeOK, NEW t \in Tools, NEW id \in Ids, NEW kind \in Kinds,
           NEW at \in Times,
           Add(t, id, kind, at)
    PROVE  \E i \in SlotFor(id), job \in Jobs :
              /\ table' = [table EXCEPT ![i] = job]
              /\ job.id = id /\ job.kind = kind /\ job.gen = gens + 1
              /\ job.kind = "cron" => job.when = -1
<1> DEFINE when == CASE kind = "interval" -> now + 1
                     [] kind = "once" -> at
                     [] kind = "cron" -> -1
                     [] kind = "boot" -> 0
           job == [id |-> id, kind |-> kind, enabled |-> TRUE,
                   gen |-> gens + 1, when |-> when]
<1>1. PICK i \in SlotFor(id) : table' = [table EXCEPT ![i] = job]
    BY DEF Add
<1>2. when \in Int
    BY SchedulerAssumption DEF TypeOK, Times
<1>3. gens + 1 \in Gens
    BY SchedulerAssumption DEF TypeOK, Add, Gens
<1>4. job \in Jobs
    BY <1>2, <1>3 DEF Jobs
<1>5. kind = "cron" => when = -1
    OBVIOUS
<1> HIDE DEF when
<1> QED
    BY <1>1, <1>4, <1>5

(* The table keeps its type and its names stay unique.                     *)
LEMMA TableStep ==
    ASSUME NameInv, [Next]_vars
    PROVE  table' \in [Slots -> Jobs \cup {Free}] /\ UniqueNames'
<1> DEFINE Good(t) ==
        /\ t \in [Slots -> Jobs \cup {Free}]
        /\ \A i, j \in Slots :
              t[i] # Free /\ t[j] # Free /\ t[i].id = t[j].id => i = j
<1>0. TypeOK /\ Good(table)
    BY DEF NameInv, TypeOK, UniqueNames, Used
<1>1. SUFFICES Good(table')
    BY DEF UniqueNames, Used
<1>2. CASE UNCHANGED table
    BY <1>0, <1>2
<1>3. ASSUME NEW f, IsFile(f), f \notin {NoFile, Torn}, table' = Restored(f)
      PROVE  Good(table')
    BY <1>0, <1>3, RestoredTable DEF IsFile
<1>4. ASSUME NEW t \in Tools, NEW id \in Ids, NEW kind \in Kinds,
           NEW at \in Times,
             Add(t, id, kind, at)
      PROVE  Good(table')
  <2>1. PICK i \in SlotFor(id), job \in Jobs :
            table' = [table EXCEPT ![i] = job] /\ job.id = id
    BY <1>0, <1>4, AddedJob
  <2>2. /\ i \in Slots
        /\ \A j \in Slots \ {i} : table[j] # Free => table[j].id # id
    BY <1>0, AllocatedSlot DEF Used
  <2> QED
    BY <1>0, <2>1, <2>2
<1>5. ASSUME NEW t \in Tools, NEW id \in Ids, RemoveJob(t, id) PROVE Good(table')
    BY <1>0, <1>5 DEF RemoveJob
<1>6. CASE Scan
  <2>1. CASE DueSlots = {}
    BY <1>2, <1>6, <2>1 DEF Scan
  <2>2. CASE DueSlots # {}
    <3> DEFINE i == Min(DueSlots)
    <3>1. i \in Slots /\ Due(i) /\ table[i] # Free
      BY <1>0, <2>2, FoundSlot DEF DueSlots, Used
    <3>2. table' = [table EXCEPT ![i] = Fired(table[i])]
      BY <1>6, <2>2 DEF Scan
    <3>3. Fired(table[i]) \in Jobs /\ Fired(table[i]).id = table[i].id
      BY <1>0, <3>1, FiredJob
    <3> HIDE DEF i
    <3> QED
      BY <1>0, <3>1, <3>2, <3>3
  <2> QED
    BY <2>1, <2>2
<1>7. CASE Bootstrap
    BY <1>0, <1>7, <1>2, <1>3 DEF Bootstrap, TypeOK
<1>8. CASE WorkerInstall
    BY <1>0, <1>8, <1>3 DEF WorkerInstall, TypeOK, NameInv
<1>9. CASE Reset
    BY <1>9 DEF Reset
<1> QED
    BY <1>2, <1>4, <1>5, <1>6, <1>7, <1>8, <1>9
    DEF Next, ThreadStep, SaveStep, Snapshot, OpenTmp, WriteTmp, RenameTmp,
        WorkerRead, BootScan, TopOfLoop, Emit, Tick, vars, tableVars

(* The thread's variables keep their types.                                *)
LEMMA ThreadTypes ==
    ASSUME NameInv, [Next]_vars
    PROVE  /\ sched' \in SchedStates /\ slot' \in 1 .. (SlotCount + 1)
           /\ tick' \in 0 .. MaxTime /\ snap' \in Jobs \cup {Free}
           /\ fires' \in [Gens -> SUBSET (0 .. MaxTime)]
           /\ IsFile(loaded)'
           /\ (sched = "install" => loaded \notin {NoFile, Torn})'
<1> DEFINE Loop == /\ slot \in 1 .. (SlotCount + 1) /\ tick \in 0 .. MaxTime
                   /\ snap \in Jobs \cup {Free}
           Past == fires \in [Gens -> SUBSET (0 .. MaxTime)]
           Load == /\ sched \in SchedStates /\ IsFile(loaded)
                   /\ sched = "install" => loaded \notin {NoFile, Torn}
<1> USE DEF threadVars, tableVars, fileVars
<1>0. Loop /\ Past /\ Load /\ TypeOK /\ now \in Times /\ IsFile(disk)
    BY DEF NameInv, TypeOK
<1>1. Loop'
  <2>1. CASE UNCHANGED <<slot, tick, snap>>
    BY <1>0, <2>1
  <2>2. CASE BootScan
    <3>1. BootJobs # {} => Min(BootJobs) \in Slots /\ table[Min(BootJobs)] \in Jobs
      BY <1>0, FoundSlot
    <3> QED
      BY <1>0, <2>2, <3>1, SchedulerAssumption DEF BootScan, Slots
  <2>3. CASE TopOfLoop
    BY <1>0, <2>3 DEF TopOfLoop, Times
  <2>4. CASE Scan
    <3>1. DueSlots # {} => Min(DueSlots) \in Slots /\ table[Min(DueSlots)] \in Jobs
      BY <1>0, FoundSlot
    <3> QED
      BY <1>0, <2>4, <3>1, SchedulerAssumption DEF Scan, Slots
  <2>5. CASE Emit
    BY <1>0, <2>5 DEF Emit
  <2>6. CASE Reset
    BY <1>0, <2>6, SchedulerAssumption DEF Reset
  <2> QED
    BY <2>1, <2>2, <2>3, <2>4, <2>5, <2>6
    DEF Next, ThreadStep, SaveStep, Snapshot, OpenTmp, WriteTmp, RenameTmp,
        Add, RemoveJob, Bootstrap, WorkerRead, WorkerInstall, Tick, vars
<1>2. Past'
  <2>1. CASE UNCHANGED fires
    BY <1>0, <2>1
  <2>2. CASE Emit
    BY <1>0, <2>2 DEF Emit
  <2>3. CASE Reset
    BY <2>3 DEF Reset
  <2> QED
    BY <2>1, <2>2, <2>3
    DEF Next, ThreadStep, SaveStep, Snapshot, OpenTmp, WriteTmp, RenameTmp,
        Add, RemoveJob, Bootstrap, WorkerRead, WorkerInstall, BootScan,
        TopOfLoop, Scan, Tick, vars
<1>3. Load'
  <2>1. CASE UNCHANGED <<sched, loaded>>
    BY <1>0, <2>1
  <2>2. CASE WorkerRead
    BY <1>0, <2>2, SchedulerAssumption DEF WorkerRead, SchedStates
  <2>3. CASE Bootstrap \/ BootScan \/ TopOfLoop \/ Scan \/ Emit
    BY <1>0, <2>3 DEF Bootstrap, BootScan, TopOfLoop, Scan, Emit, SchedStates
  <2>4. CASE WorkerInstall \/ Reset
    BY <2>4 DEF WorkerInstall, Reset, SchedStates, IsFile
  <2> QED
    BY <2>1, <2>2, <2>3, <2>4
    DEF Next, ThreadStep, SaveStep, Snapshot, OpenTmp, WriteTmp, RenameTmp,
        Add, RemoveJob, Tick, vars
<1> QED
    BY <1>1, <1>2, <1>3

(* The files and the saves keep their types.                               *)
LEMMA FileTypes ==
    ASSUME NameInv, [Next]_vars
    PROVE  /\ step' \in [Writers -> {"idle", "snapshot", "open", "write",
                                     "rename"}]
           /\ cut' \in BOOLEAN
           /\ opened' \in [Writers -> {"none", "tmp", "disk"}]
           /\ IsFile(disk)' /\ IsFile(tmp)'
           /\ image' \in [Writers -> Seq(Jobs)]
           /\ \A w \in Writers : IsFile(image[w])'
<1> DEFINE Steps == /\ step \in [Writers -> {"idle", "snapshot", "open", "write",
                                             "rename"}]
                    /\ opened \in [Writers -> {"none", "tmp", "disk"}]
           Files == IsFile(disk) /\ IsFile(tmp)
           Images == /\ image \in [Writers -> Seq(Jobs)]
                     /\ \A w \in Writers : IsFile(image[w])
<1> USE DEF threadVars, tableVars, fileVars
<1>0. Steps /\ cut \in BOOLEAN /\ Files /\ Images /\ TypeOK /\ UniqueNames
    BY DEF NameInv, TypeOK
<1>1. << >> \in Seq(Jobs) /\ IsFile(<< >>)
    BY SchedulerAssumption DEF IsFile
<1>2. ASSUME NEW w \in Writers, SaveStep(w)
      PROVE  (Steps /\ cut \in BOOLEAN /\ Files /\ Images)'
  <2>1. CASE Snapshot(w)
    <3>1. Image \in Seq(Jobs) /\ IsFile(Image)
      BY <1>0, ImageOfTable
    <3>2. Images'
      BY <1>0, <2>1, <3>1 DEF Snapshot, IsFile
    <3> QED
      BY <1>0, <2>1, <3>2 DEF Snapshot, IsFile
  <2>2. CASE OpenTmp(w)
    <3>1. Images'
      BY <1>0, <1>1, <2>2 DEF OpenTmp, IsFile
    <3> QED
      BY <1>0, <2>2, <3>1 DEF OpenTmp, IsFile
  <2>3. CASE WriteTmp(w)
    <3>1. Images'
      <4>1. image' = [image EXCEPT ![w] = << >>]
        BY <2>3 DEF WriteTmp
      <4> QED
        BY <1>0, <1>1, <4>1 DEF IsFile
    <3>2. Files'
      BY <1>0, <2>3 DEF WriteTmp, IsFile
    <3>3. Steps'
      BY <1>0, <2>3 DEF WriteTmp
    <3>4. cut' \in BOOLEAN
      BY <1>0, <2>3, Zenon DEF WriteTmp
    <3> QED
      BY <3>1, <3>2, <3>3, <3>4
  <2>4. CASE RenameTmp(w)
    <3>1. Files' /\ Images'
      BY <1>0, <2>4 DEF RenameTmp, IsFile
    <3>2. Steps' /\ cut' \in BOOLEAN
      BY <1>0, <2>4 DEF RenameTmp
    <3> QED
      BY <3>1, <3>2
  <2> QED
    BY <1>2, <2>1, <2>2, <2>3, <2>4 DEF SaveStep
<1>3. CASE \/ Emit
           \/ \E t \in Tools, id \in Ids : RemoveJob(t, id)
           \/ \E t \in Tools, id \in Ids, kind \in Kinds, at \in Times :
                 Add(t, id, kind, at)
  <2>1. /\ \/ UNCHANGED step
           \/ step' = [step EXCEPT !["sched"] = "snapshot"]
           \/ \E t \in Tools : step' = [step EXCEPT ![t] = "snapshot"]
        /\ UNCHANGED <<opened, cut, disk, tmp, image>>
    BY <1>3 DEF Emit, RemoveJob, Add
  <2> QED
    BY <1>0, <2>1 DEF IsFile
<1>4. CASE Reset
  <2>1. (Steps /\ Files)'
    BY <1>0, <1>4 DEF Reset, IsFile
  <2>2. Images'
    BY <1>1, <1>4 DEF Reset, IsFile
  <2>3. cut' \in BOOLEAN
    BY <1>0, <1>4, Zenon DEF Reset
  <2> QED
    BY <2>1, <2>2, <2>3
<1>5. CASE UNCHANGED fileVars
    BY <1>0, <1>5 DEF IsFile
<1> QED
    BY <1>2, <1>3, <1>4, <1>5
    DEF Next, ThreadStep, Bootstrap, WorkerRead, WorkerInstall, BootScan,
        TopOfLoop, Scan, Tick, vars, Writers

(* The invariant is kept by every step.                                    *)
LEMMA NamesStep == NameInv /\ [Next]_vars => NameInv'
<1> SUFFICES ASSUME NameInv, [Next]_vars PROVE NameInv'
    OBVIOUS
<1> USE DEF threadVars, tableVars, fileVars
<1>1. now' \in Times /\ gens' \in 0 .. MaxAdds /\ resets' \in 0 .. MaxResets
  <2>0. now \in Times /\ gens \in 0 .. MaxAdds /\ resets \in 0 .. MaxResets
    BY DEF NameInv, TypeOK
  <2>1. CASE UNCHANGED <<now, gens, resets>>
    BY <2>0, <2>1
  <2>2. CASE Tick
    BY <2>0, <2>2, SchedulerAssumption DEF Tick, Times
  <2>3. CASE Reset
    BY <2>0, <2>3, SchedulerAssumption DEF Reset
  <2>4. ASSUME NEW t \in Tools, NEW id \in Ids, NEW kind \in Kinds,
           NEW at \in Times,
               Add(t, id, kind, at)
        PROVE  now' \in Times /\ gens' \in 0 .. MaxAdds
                   /\ resets' \in 0 .. MaxResets
    BY <2>0, <2>4, SchedulerAssumption DEF Add
  <2> QED
    BY <2>1, <2>2, <2>3, <2>4
    DEF Next, ThreadStep, SaveStep, Snapshot, OpenTmp, WriteTmp, RenameTmp,
        RemoveJob, Bootstrap, WorkerRead, WorkerInstall, BootScan, TopOfLoop,
        Scan, Emit, vars
<1> QED
    BY <1>1, TableStep, ThreadTypes, FileTypes DEF NameInv, TypeOK

(* The invariant behind types and names holds in every state.              *)
LEMMA NamesHold == Spec => []NameInv
<1>1. Init => NameInv
    BY NamesInit DEF NameInv, Init, RamInit
<1> QED
    BY <1>1, NamesStep, PTL DEF Spec

(* Every type is kept: no slot, clock reading or generation out of range,  *)
(* and each file is absent, cut off, or a list of jobs with distinct names *)
(* that fits the table.                                                    *)
THEOREM SchedulerTypes == Spec => []TypeOK
<1>1. NameInv => TypeOK
    BY DEF NameInv
<1> QED
    BY <1>1, NamesHold, PTL

(* fc_alloc_job, fc_scheduler_load and fc_scheduler_remove keep the names  *)
(* of the table unique, whatever the thread does at the same time.         *)
THEOREM NamesStayUnique == Spec => []UniqueNames
<1>1. NameInv => UniqueNames
    BY DEF NameInv
<1> QED
    BY <1>1, NamesHold, PTL
-----------------------------------------------------------------------------
(* Several saves write through one temporary file.                         *)
LEMMA SaveStepKeeps ==
    ASSUME TypeOK, SaveInv, NEW w \in Writers, SaveStep(w)
    PROVE  SaveInv'
<1> DEFINE A == \A v \in Writers : opened[v] # "none" => step[v] = "write"
           B == tmp = Torn =>
                   \E v \in Writers : step[v] = "write" /\ opened[v] = "tmp"
           C == sched # "scan" => step["sched"] = "idle"
<1>0. /\ A /\ B /\ C /\ TornOnlyDuringSave
      /\ step \in [Writers -> {"idle", "snapshot", "open", "write", "rename"}]
      /\ opened \in [Writers -> {"none", "tmp", "disk"}]
      /\ image[w] # Torn /\ NoFile # Torn
    BY SchedulerAssumption DEF SaveInv, TypeOK
<1>1. C'
  <2>1. step[w] # "idle" /\ UNCHANGED sched
    BY <1>0 DEF SaveStep, Snapshot, OpenTmp, WriteTmp, RenameTmp, threadVars
  <2>2. \A v \in Writers \ {w} : step'[v] = step[v]
    BY <1>0 DEF SaveStep, Snapshot, OpenTmp, WriteTmp, RenameTmp
  <2> QED
    BY <1>0, <2>1, <2>2 DEF Writers
<1>2. CASE Snapshot(w)
    BY <1>0, <1>1, <1>2 DEF Snapshot, SaveInv, TornOnlyDuringSave
<1>3. CASE OpenTmp(w)
    BY <1>0, <1>1, <1>3 DEF OpenTmp, SaveInv, TornOnlyDuringSave
<1>4. CASE WriteTmp(w)
  <2>1. CASE step'[w] = "rename"
    <3>1. /\ step' = [step EXCEPT ![w] = "rename"]
          /\ opened' = [opened EXCEPT ![w] = "none"]
          /\ tmp' = IF opened[w] = "tmp" THEN image[w] ELSE tmp
          /\ disk' = IF opened[w] = "disk" THEN image[w] ELSE disk
          /\ cut' = (cut /\ opened[w] # "disk")
      BY <1>0, <1>4, <2>1 DEF WriteTmp
    <3>2. A'
      BY <1>0, <3>1
    <3>3. B'
      BY <1>0, <3>1
    <3>4. TornOnlyDuringSave'
      BY <1>0, <3>1 DEF TornOnlyDuringSave
    <3> QED
      BY <1>1, <3>2, <3>3, <3>4 DEF SaveInv
  <2>2. CASE step'[w] # "rename"
    <3>1. /\ step' = [step EXCEPT ![w] = "idle"]
          /\ opened' = [v \in Writers |->
                           IF v = w \/ opened[v] = "tmp" THEN "none"
                           ELSE opened[v]]
          /\ tmp' = NoFile /\ disk' = disk
          /\ cut' = (cut \/ opened[w] = "disk")
      BY <1>0, <1>4, <2>2 DEF WriteTmp
    <3>2. A'
      BY <1>0, <3>1
    <3>3. TornOnlyDuringSave'
      BY <1>0, <3>1 DEF TornOnlyDuringSave
    <3> QED
      BY <1>0, <1>1, <3>1, <3>2, <3>3 DEF SaveInv
  <2> QED
    BY <2>1, <2>2
<1>5. CASE RenameTmp(w)
  <2>1. /\ step[w] = "rename"
        /\ step' = [step EXCEPT ![w] = "idle"]
        /\ tmp' = NoFile
        /\ \/ /\ disk' = tmp /\ cut' = FALSE
              /\ opened' = [v \in Writers |->
                               IF opened[v] = "tmp" THEN "disk" ELSE "none"]
           \/ /\ opened' = [v \in Writers |->
                               IF opened[v] = "tmp" THEN "none" ELSE opened[v]]
              /\ UNCHANGED <<disk, cut>>
    BY <1>5 DEF RenameTmp
  <2>2. A'
    BY <1>0, <2>1
  <2>3. TornOnlyDuringSave'
    BY <1>0, <2>1 DEF TornOnlyDuringSave
  <2> QED
    BY <1>0, <1>1, <2>1, <2>2, <2>3 DEF SaveInv
<1> QED
    BY <1>2, <1>3, <1>4, <1>5 DEF SaveStep

LEMMA SaveInvStep == TypeOK /\ SaveInv /\ [Next]_vars => SaveInv'
<1> SUFFICES ASSUME TypeOK, SaveInv, [Next]_vars PROVE SaveInv'
    OBVIOUS
<1> USE DEF threadVars, tableVars, fileVars
<1>0. step \in [Writers -> {"idle", "snapshot", "open", "write", "rename"}]
    BY DEF TypeOK
<1>1. CASE \E w \in Writers : SaveStep(w)
    BY <1>1, SaveStepKeeps
<1>2. CASE \/ Emit
           \/ \E t \in Tools, id \in Ids : RemoveJob(t, id)
           \/ \E t \in Tools, id \in Ids, kind \in Kinds, at \in Times :
                 Add(t, id, kind, at)
  <2>1. /\ \/ UNCHANGED step
           \/ /\ step["sched"] # "write"
              /\ step' = [step EXCEPT !["sched"] = "snapshot"]
           \/ \E t \in Tools : /\ step[t] # "write"
                              /\ step' = [step EXCEPT ![t] = "snapshot"]
        /\ sched' # "scan" => step'["sched"] = "idle"
        /\ UNCHANGED <<opened, cut, disk, tmp>>
    BY <1>0, <1>2, SchedulerAssumption
       DEF Emit, RemoveJob, Add, SaveInv, Writers
  <2> QED
    BY <1>0, <2>1 DEF SaveInv, TornOnlyDuringSave
<1>3. CASE Reset
    BY <1>3, SchedulerAssumption DEF Reset, SaveInv, TornOnlyDuringSave, Writers
<1>4. CASE UNCHANGED fileVars /\ (sched' = sched \/ sched' = "scan" \/ step["sched"] = "idle")
    BY <1>4 DEF SaveInv, TornOnlyDuringSave
<1> QED
    BY <1>1, <1>2, <1>3, <1>4
    DEF Next, ThreadStep, Bootstrap, WorkerRead, WorkerInstall, BootScan,
        TopOfLoop, Scan, Tick, vars, Writers, SaveInv

(* fc_write_text_file_atomic: however the saves of any number of tools and *)
(* of the thread interleave, schedules.json is left cut off only by a save *)
(* that was interrupted while its descriptor referred to schedules.json    *)
(* itself.                                                                 *)
THEOREM FileIsNotLeftTorn == Spec => []TornOnlyDuringSave
<1>1. Init => SaveInv
    BY SchedulerAssumption
    DEF Init, RamInit, SaveInv, TornOnlyDuringSave, Writers
<1>2. SaveInv => TornOnlyDuringSave
    BY DEF SaveInv
<1> QED
    BY <1>1, <1>2, SaveInvStep, SchedulerTypes, PTL DEF Spec
-----------------------------------------------------------------------------
(* Incarnations are numbered in the files.                                 *)
LEMMA FilesNumberedStep ==
    ASSUME NameInv, FilesNumbered, TableNumbered, [Next]_vars
    PROVE  FilesNumbered'
<1> USE DEF threadVars, tableVars, fileVars
<1>0. /\ gens \in Nat /\ gens' \in Nat /\ gens <= gens'
  <2>1. gens \in Nat /\ gens' \in Nat
    BY NamesStep, SchedulerAssumption DEF NameInv, TypeOK
  <2>2. gens' = gens \/ gens' = gens + 1
    BY DEF Next, ThreadStep, SaveStep, Snapshot, OpenTmp, WriteTmp, RenameTmp,
           Add, RemoveJob, Bootstrap, WorkerRead, WorkerInstall, BootScan,
           TopOfLoop, Scan, Emit, Tick, Reset, vars
  <2> QED
    BY <2>1, <2>2
<1>1. ASSUME NEW f, IsFile(f), Numbered(f, gens) PROVE Numbered(f, gens')
  <2>1. CASE f \in {NoFile, Torn}
    BY <2>1 DEF Numbered
  <2>2. CASE f \notin {NoFile, Torn}
    <3>1. \A k \in 1 .. Len(f) : f[k].gen \in Int
      <4>1. f \in Seq(Jobs)
        BY <1>1, <2>2 DEF IsFile
      <4>2. \A k \in 1 .. Len(f) : f[k] \in Jobs
        BY <4>1
      <4> QED
        BY <4>2 DEF Jobs, Gens
    <3> QED
      BY <1>0, <1>1, <2>2, <3>1 DEF Numbered
  <2> QED
    BY <2>1, <2>2
<1>2. /\ IsFile(disk) /\ IsFile(tmp) /\ IsFile(loaded)
      /\ \A w \in Writers : IsFile(image[w])
      /\ image \in [Writers -> Seq(Jobs)]
      /\ TypeOK /\ UniqueNames
    BY DEF NameInv, TypeOK
<1>3. /\ Numbered(disk, gens') /\ Numbered(tmp, gens')
      /\ Numbered(loaded, gens')
      /\ \A w \in Writers : Numbered(image[w], gens')
    BY <1>1, <1>2 DEF FilesNumbered
<1>4. /\ Numbered(NoFile, gens') /\ Numbered(Torn, gens')
      /\ Numbered(<< >>, gens')
    BY DEF Numbered
<1>5. CASE UNCHANGED <<disk, tmp, image>> /\ loaded' \in {loaded, disk, NoFile}
    BY <1>3, <1>4, <1>5 DEF FilesNumbered
<1>6. ASSUME NEW w \in Writers, SaveStep(w) PROVE FilesNumbered'
  <2>1. loaded' = loaded
    BY <1>6 DEF SaveStep, Snapshot, OpenTmp, WriteTmp, RenameTmp
  <2>2. disk' \in {disk, tmp, image[w]} /\ tmp' \in {tmp, Torn, NoFile, image[w]}
    BY <1>6 DEF SaveStep, Snapshot, OpenTmp, WriteTmp, RenameTmp
  <2>3. \/ UNCHANGED image
        \/ image' = [image EXCEPT ![w] = << >>]
        \/ Snapshot(w)
    BY <1>6 DEF SaveStep, OpenTmp, WriteTmp, RenameTmp
  <2>4. \A v \in Writers : Numbered(image'[v], gens')
    <3>1. CASE Snapshot(w)
      <4>1. image' = [image EXCEPT ![w] = Image] /\ gens' = gens
        BY <3>1 DEF Snapshot
      <4>2. Numbered(Image, gens)
        BY <1>2, ImageOfTable
      <4> QED
        BY <1>2, <1>3, <4>1, <4>2
    <3> QED
      BY <1>2, <1>3, <1>4, <2>3, <3>1
  <2> QED
    BY <1>3, <1>4, <2>1, <2>2, <2>4 DEF FilesNumbered
<1>7. CASE Reset
    BY <1>3, <1>4, <1>7 DEF Reset, FilesNumbered
<1> QED
    BY <1>5, <1>6, <1>7
    DEF Next, ThreadStep, Add, RemoveJob, Bootstrap, WorkerRead, WorkerInstall,
        BootScan, TopOfLoop, Scan, Emit, Tick, vars, Writers

(* ... and in the table.                                                   *)
LEMMA TableNumberedStep ==
    ASSUME NameInv, FilesNumbered, TableNumbered, [Next]_vars
    PROVE  TableNumbered'
<1> USE DEF threadVars, tableVars, fileVars
<1> DEFINE Good(t, n) ==
        \A i \in Slots : t[i] # Free =>
            /\ t[i].gen <= n
            /\ \A j \in Slots : t[j] # Free /\ t[i].gen = t[j].gen => i = j
<1>0. /\ TypeOK /\ Good(table, gens) /\ gens \in Nat
      /\ table \in [Slots -> Jobs \cup {Free}]
    BY SchedulerAssumption DEF NameInv, TypeOK, TableNumbered, Used
<1>1. SUFFICES Good(table', gens')
    BY DEF TableNumbered, Used
<1>2. CASE UNCHANGED <<table, gens>>
    BY <1>0, <1>2
<1>3. ASSUME NEW f, IsFile(f), f \notin {NoFile, Torn}, Numbered(f, gens),
             table' = Restored(f), gens' = gens
      PROVE  Good(table', gens')
    BY <1>0, <1>3, RestoredTable DEF Numbered
<1>4. ASSUME NEW t \in Tools, NEW id \in Ids, NEW kind \in Kinds,
           NEW at \in Times,
             Add(t, id, kind, at)
      PROVE  Good(table', gens')
  <2>1. PICK i \in SlotFor(id), job \in Jobs :
            table' = [table EXCEPT ![i] = job] /\ job.gen = gens + 1
    BY <1>0, <1>4, AddedJob
  <2>2. i \in Slots /\ gens' = gens + 1
    BY <1>4, AllocatedSlot DEF Add
  <2>3. \A j \in Slots : table[j] # Free => table[j].gen \in Int
    BY <1>0 DEF Jobs, Gens
  <2> QED
    BY <1>0, <2>1, <2>2, <2>3
<1>5. ASSUME NEW t \in Tools, NEW id \in Ids, RemoveJob(t, id) PROVE Good(table', gens')
    BY <1>0, <1>5 DEF RemoveJob
<1>6. CASE Scan /\ DueSlots # {}
  <2> DEFINE i == Min(DueSlots)
  <2>1. i \in Slots /\ Due(i) /\ table[i] # Free
    BY <1>0, <1>6, FoundSlot DEF DueSlots, Used
  <2>2. table' = [table EXCEPT ![i] = Fired(table[i])] /\ gens' = gens
    BY <1>6 DEF Scan
  <2>3. Fired(table[i]).gen = table[i].gen
    BY <1>0, <2>1, FiredJob
  <2> HIDE DEF i
  <2> QED
    BY <1>0, <2>1, <2>2, <2>3
<1>7. CASE Bootstrap
    BY <1>0, <1>7, <1>2, <1>3 DEF Bootstrap, TypeOK, FilesNumbered
<1>8. CASE WorkerInstall
    BY <1>0, <1>8, <1>3 DEF WorkerInstall, TypeOK, NameInv, FilesNumbered
<1>9. CASE Reset
    BY <1>9 DEF Reset
<1> QED
    BY <1>2, <1>4, <1>5, <1>6, <1>7, <1>8, <1>9
    DEF Next, ThreadStep, SaveStep, Snapshot, OpenTmp, WriteTmp, RenameTmp,
        WorkerRead, BootScan, TopOfLoop, Scan, Emit, Tick, vars
-----------------------------------------------------------------------------
(* The clock readings, the table's knowledge of the past and the job in    *)
(* flight, one lemma per group of steps.                                   *)
Fire == ClockInv /\ JobInv /\ SnapInv

(* What the steps below need to know about the types.                      *)
LEMMA FireTypes ==
    ASSUME TypeOK
    PROVE  /\ now \in Nat /\ tick \in Nat /\ gens \in Nat /\ slot \in Nat
           /\ table \in [Slots -> Jobs \cup {Free}]
           /\ fires \in [Gens -> SUBSET Nat]
           /\ \A i \in Slots : Used(i) => table[i] \in Jobs
           /\ \A j \in Jobs : j.gen \in Gens /\ j.gen \in Nat /\ j.when \in Int
    BY SchedulerAssumption DEF TypeOK, Times, Gens, Used, Jobs

(* The worker loads a file: nothing was emitted yet.                       *)
LEMMA LoadFires ==
    ASSUME NameInv, Fire, Bootstrap \/ WorkerRead \/ WorkerInstall
    PROVE  Fire'
<1> USE DEF tableVars, fileVars, Loading
<1>0. TypeOK
    BY DEF NameInv
<1>1. /\ sched \in Loading
      /\ sched' \in {"ready", "failed", "install", "boot"}
      /\ UNCHANGED <<now, gens, slot, tick, snap, fires>>
    BY SchedulerAssumption DEF Bootstrap, WorkerRead, WorkerInstall
<1>2. slot = 1 /\ tick = 0 /\ \A g \in Gens : fires[g] = {}
    BY <1>1 DEF Fire, ClockInv
<1>3. ClockInv'
    BY <1>1, <1>2 DEF Fire, ClockInv
<1>4. SnapInv'
    BY <1>1 DEF SnapInv
<1>5. JobInv'
  <2>1. \/ UNCHANGED table
        \/ \E f : /\ IsFile(f) /\ f \notin {NoFile, Torn}
                  /\ table' = Restored(f)
    BY DEF Bootstrap, WorkerRead, WorkerInstall, NameInv, TypeOK
  <2>2. ASSUME NEW i \in Slots, table'[i] # Free
        PROVE  /\ table'[i].gen \in Gens
               /\ table'[i].kind = "cron" => table'[i].when <= now
    <3>1. CASE UNCHANGED table
      BY <1>0, <2>2, <3>1, FireTypes DEF Fire, JobInv, Used
    <3>2. ASSUME NEW f, IsFile(f), f \notin {NoFile, Torn}, table' = Restored(f)
          PROVE  /\ table'[i].gen \in Gens
                 /\ table'[i].kind = "cron" => table'[i].when <= now
      <4>1. /\ table'[i] \in Jobs
            /\ table'[i].kind = "cron" => table'[i].when = -1
        BY <1>0, <2>2, <3>2, RestoredTable
      <4> QED
        BY <1>0, <4>1, FireTypes
    <3> QED
      BY <2>1, <3>1, <3>2
  <2> QED
    BY <1>1, <1>2, <2>2 DEF JobInv, Used
<1> QED
    BY <1>3, <1>4, <1>5 DEF Fire

(* A tool adds a job: its incarnation is new.                              *)
LEMMA AddFires ==
    ASSUME NameInv, TableNumbered, Fire,
           NEW t \in Tools, NEW id \in Ids, NEW kind \in Kinds,
           NEW at \in Times,
           Add(t, id, kind, at)
    PROVE  Fire'
<1>0. TypeOK
    BY DEF NameInv
<1>1. PICK i \in SlotFor(id), job \in Jobs :
          /\ table' = [table EXCEPT ![i] = job] /\ job.gen = gens + 1
          /\ job.kind = "cron" => job.when = -1
    BY <1>0, AddedJob
<1>2. /\ i \in Slots /\ gens' = gens + 1
      /\ UNCHANGED <<now, sched, slot, tick, snap, fires>>
    BY AllocatedSlot DEF Add, threadVars
<1>3. job.gen \in Gens /\ fires[job.gen] = {}
    BY <1>0, <1>1, FireTypes DEF Fire, ClockInv
<1>4. ClockInv'
    BY <1>0, <1>2, FireTypes DEF Fire, ClockInv, Gens
<1>5. JobInv'
  <2>1. ASSUME NEW k \in Slots, table'[k] # Free, k # i
        PROVE  table'[k] = table[k] /\ Used(k)
    BY <1>0, <1>1, <1>2, <2>1, FireTypes DEF Used
  <2>2. table'[i] = job
    BY <1>0, <1>1, <1>2, FireTypes
  <2>3. -1 <= now
    BY <1>0, FireTypes
  <2>4. job.kind = "cron" => job.when <= now /\ job.when <= tick
    BY <1>0, <1>1, FireTypes
  <2> QED
    BY <1>2, <1>3, <2>1, <2>2, <2>4 DEF Fire, JobInv, Used
<1>6. SnapInv'
  <2>1. SUFFICES ASSUME sched \in {"emit", "bootEmit"} PROVE SnapInv'
    BY <1>2 DEF SnapInv
  <2>2. snap \in Jobs /\ snap.gen <= gens /\ snap.gen # job.gen
    BY <1>0, <1>1, <2>1, FireTypes DEF Fire, SnapInv
  <2>3. ASSUME NEW k \in Slots, table'[k] # Free, table'[k].gen = snap.gen
        PROVE  table'[k] = table[k] /\ Used(k)
    BY <1>0, <1>1, <1>2, <2>2, <2>3, FireTypes DEF Used
  <2>4. snap.gen <= gens + 1
    BY <1>0, <2>2, FireTypes
  <2> QED
    BY <1>2, <2>1, <2>2, <2>3, <2>4 DEF Fire, SnapInv, NoDoubleFire, Used
<1> QED
    BY <1>4, <1>5, <1>6 DEF Fire

(* A job leaves the table, or nothing the invariant speaks of changes.     *)
LEMMA RemoveFires ==
    ASSUME TypeOK, Fire, NEW t \in Tools, NEW id \in Ids, RemoveJob(t, id)
    PROVE  Fire'
<1>1. PICK i \in Slots : table' = [table EXCEPT ![i] = Free]
    BY DEF RemoveJob
<1>2. UNCHANGED <<now, gens, sched, slot, tick, snap, fires>>
    BY DEF RemoveJob, threadVars
<1>3. ASSUME NEW k \in Slots, table'[k] # Free
      PROVE  table'[k] = table[k] /\ Used(k)
    BY <1>1, <1>3, FireTypes DEF Used
<1>4. ClockInv'
    BY <1>2 DEF Fire, ClockInv
<1>5. JobInv'
    BY <1>2, <1>3 DEF Fire, JobInv, Used
<1>6. SnapInv'
    BY <1>2, <1>3 DEF Fire, SnapInv, NoDoubleFire, Used
<1> QED
    BY <1>4, <1>5, <1>6 DEF Fire

LEMMA OtherFires ==
    ASSUME Fire, UNCHANGED <<now, table, gens, sched, slot, tick, snap, fires>>
    PROVE  Fire'
BY DEF Fire, ClockInv, JobInv, SnapInv, NoDoubleFire, Used

(* Time passes.                                                            *)
LEMMA TickFires ==
    ASSUME TypeOK, Fire, Tick
    PROVE  Fire'
<1>1. /\ now' = now + 1
      /\ UNCHANGED <<table, gens, sched, slot, tick, snap, fires>>
    BY DEF Tick, tableVars, threadVars
<1>2. ClockInv'
    BY <1>1, FireTypes DEF Fire, ClockInv
<1>3. JobInv'
    BY <1>1, FireTypes DEF Fire, JobInv, Used
<1>4. SnapInv'
    BY <1>1 DEF Fire, SnapInv, NoDoubleFire, Used
<1> QED
    BY <1>2, <1>3, <1>4 DEF Fire

(* The boot jobs: each slot is looked at once.                             *)
LEMMA BootFires ==
    ASSUME TypeOK, TableNumbered, Fire, BootScan
    PROVE  Fire'
<1>1. sched = "boot" /\ UNCHANGED <<now, table, gens, tick, fires>>
    BY DEF BootScan, tableVars
<1>2. CASE BootJobs = {}
  <2>1. sched' = "top" /\ slot' = 1
    BY <1>2 DEF BootScan
  <2> QED
    BY <1>1, <2>1 DEF Fire, ClockInv, JobInv, SnapInv, Used, Loading
<1>3. CASE BootJobs # {}
  <2> DEFINE i == Min(BootJobs)
  <2>1. /\ i \in Slots /\ i >= slot /\ Used(i) /\ table[i] \in Jobs
        /\ table[i].kind = "boot"
    BY <1>3, FoundSlot DEF BootJobs
  <2>2. sched' = "bootEmit" /\ snap' = table[i] /\ slot' = i + 1
    BY <1>3 DEF BootScan
  <2> HIDE DEF i
  <2>3. ClockInv'
    BY <1>1, <2>2 DEF Fire, ClockInv, Loading
  <2>4. JobInv'
    BY <1>1, <2>1, <2>2, FireTypes DEF Fire, JobInv, Used, Slots
  <2>5. fires[table[i].gen] = {} /\ table[i].gen <= gens
    BY <1>1, <2>1 DEF Fire, JobInv, TableNumbered
  <2>6. \A k \in Slots : Used(k) /\ table[k].gen = table[i].gen => k = i
    BY <2>1 DEF TableNumbered
  <2>7. SnapInv'
    BY <1>1, <2>1, <2>2, <2>5, <2>6, FireTypes
    DEF SnapInv, NoDoubleFire, Used, Slots
  <2> QED
    BY <2>3, <2>4, <2>7 DEF Fire
<1> QED
    BY <1>2, <1>3

(* A new pass starts with a new clock reading.                             *)
LEMMA TopFires ==
    ASSUME TypeOK, Fire, TopOfLoop
    PROVE  Fire'
<1>1. /\ sched = "top" /\ sched' = "scan" /\ tick' = now
      /\ UNCHANGED <<now, table, gens, slot, fires>>
    BY DEF TopOfLoop, tableVars
<1>2. ClockInv'
    BY <1>1, FireTypes DEF Fire, ClockInv, Loading
<1>3. JobInv'
    BY <1>1 DEF Fire, JobInv, Used
<1>4. SnapInv'
    BY <1>1 DEF SnapInv
<1> QED
    BY <1>2, <1>3, <1>4 DEF Fire

(* A due job is marked as fired before the lock is given up.               *)
LEMMA ScanFires ==
    ASSUME TypeOK, TableNumbered, Fire, Scan
    PROVE  Fire'
<1>1. sched = "scan" /\ UNCHANGED <<now, gens, fires>>
    BY DEF Scan
<1>2. CASE DueSlots = {}
  <2>1. sched' = "top" /\ tick' = 0 /\ UNCHANGED table
    BY <1>2 DEF Scan
  <2>2. ClockInv'
    BY <1>1, <2>1, FireTypes DEF Fire, ClockInv, Loading
  <2>3. JobInv' /\ SnapInv'
    BY <1>1, <2>1 DEF Fire, JobInv, SnapInv, Used
  <2> QED
    BY <2>2, <2>3 DEF Fire
<1>3. CASE DueSlots # {}
  <2> DEFINE i == Min(DueSlots)
             j == table[i]
             f == Fired(j)
  <2>1. i \in Slots /\ Due(i) /\ Used(i)
    BY <1>3, FoundSlot DEF DueSlots
  <2>2. /\ sched' = "emit" /\ snap' = j /\ slot' = i + 1 /\ tick' = tick
        /\ table' = [table EXCEPT ![i] = f]
    BY <1>3 DEF Scan
  <2>3. /\ j \in Jobs /\ f \in Jobs /\ j.kind \in {"interval", "once", "cron"}
        /\ f.gen = j.gen /\ f.kind = j.kind
        /\ j.kind = "interval" => f.when = now + 1
        /\ j.kind = "once" => ~f.enabled
        /\ j.kind = "cron" => f.when = tick
    BY <2>1, FiredJob
  <2>4. /\ j.kind = "once" => fires[j.gen] = {}
        /\ j.kind = "interval" => \A t \in fires[j.gen] : t < j.when
        /\ j.kind = "cron" => (\A t \in fires[j.gen] : t <= j.when) /\ j.when <= tick
    BY <1>1, <2>1 DEF Fire, JobInv, Due
  <2>5. /\ j.kind = "interval" => tick >= j.when
        /\ j.kind = "cron" => tick # j.when
    BY <2>1, <2>3 DEF Due
  <2>6. \A k \in Slots : Used(k) /\ table[k].gen = j.gen => k = i
    BY <2>1 DEF TableNumbered
  <2>7. /\ table'[i] = f
        /\ \A k \in Slots \ {i} : table'[k] = table[k]
    BY <2>1, <2>2, FireTypes
  <2>8. j.gen <= gens /\ tick <= now
    BY <2>1 DEF TableNumbered, Fire, ClockInv
  <2>9. /\ j.gen \in Gens /\ j.when \in Int /\ tick \in Nat /\ now \in Nat
        /\ fires[j.gen] \subseteq Nat /\ i \in Nat
    BY <2>1, <2>3, FireTypes DEF Slots
  <2> HIDE DEF i, j, f
  <2>10. ClockInv'
    BY <1>1, <2>2 DEF Fire, ClockInv, Loading
  <2>11. tick \notin fires[j.gen]
    BY <2>3, <2>4, <2>5, <2>9
  <2>12. JobInv'
    <3>1. ASSUME NEW k \in Slots \ {i}, table'[k] # Free
          PROVE  table'[k] = table[k] /\ Used(k)
      BY <2>7, <3>1 DEF Used
    <3>2. /\ f.kind = "interval" => \A t \in fires[f.gen] : t < f.when
          /\ f.kind = "cron" => /\ \A t \in fires[f.gen] : t <= f.when
                                /\ f.when <= now /\ f.when <= tick
          /\ f.kind = "once" => ~f.enabled
      BY <2>3, <2>4, <2>5, <2>8, <2>9
    <3> QED
      BY <1>1, <2>2, <2>7, <3>1, <3>2 DEF Fire, JobInv, Used
  <2>13. SnapInv'
    <3>1. ASSUME NEW k \in Slots, table'[k] # Free, table'[k].gen = j.gen
          PROVE  k = i
      BY <2>6, <2>7, <3>1 DEF Used
    <3>2. now + 1 > tick /\ i < i + 1
      BY <2>8, <2>9
    <3> QED
      BY <1>1, <2>2, <2>3, <2>4, <2>7, <2>8, <2>11, <3>1, <3>2
      DEF SnapInv, NoDoubleFire, Used
  <2> QED
    BY <2>10, <2>12, <2>13 DEF Fire
<1> QED
    BY <1>2, <1>3

(* The job is emitted.                                                     *)
LEMMA EmitFires ==
    ASSUME TypeOK, TableNumbered, Fire, Emit
    PROVE  Fire'
<1>1. /\ sched \in {"emit", "bootEmit"}
      /\ sched' = IF sched = "emit" THEN "scan" ELSE "boot"
      /\ fires' = [fires EXCEPT ![snap.gen] = @ \cup {tick}]
      /\ UNCHANGED <<now, table, gens, slot, tick>>
    BY DEF Emit, tableVars
<1>2. /\ snap \in Jobs /\ snap.gen <= gens /\ snap.gen \in Gens
      /\ snap.kind = "boot" <=> sched = "bootEmit"
      /\ \A i \in Slots : Used(i) /\ table[i].gen = snap.gen =>
            /\ table[i].kind = snap.kind /\ i < slot
            /\ snap.kind = "once" => ~table[i].enabled
            /\ snap.kind = "cron" => table[i].when = tick
            /\ snap.kind = "interval" => table[i].when > tick
    BY <1>1, FireTypes DEF Fire, SnapInv
<1>3. ClockInv'
  <2>1. \A g \in Gens : fires'[g] # {} => fires[g] # {} \/ g = snap.gen
    BY <1>1, <1>2, FireTypes
  <2> QED
    BY <1>1, <1>2, <2>1 DEF Fire, ClockInv, Loading
<1>4. JobInv'
  <2>1. ASSUME NEW i \in Slots, Used(i), table[i].gen # snap.gen
        PROVE  fires'[table[i].gen] = fires[table[i].gen]
    BY <1>1, <2>1, FireTypes
  <2>2. fires'[snap.gen] = fires[snap.gen] \cup {tick}
    BY <1>1, <1>2, FireTypes
  <2>3. ASSUME NEW i \in Slots, Used(i), table[i].gen = snap.gen
        PROVE  /\ ~(table[i].kind = "once" /\ table[i].enabled)
               /\ table[i].kind = "interval" =>
                     \A t \in fires'[snap.gen] : t < table[i].when
               /\ table[i].kind = "cron" =>
                     \A t \in fires'[snap.gen] : t <= table[i].when
               /\ ~(i >= slot)
    <3>1. i \in Nat /\ slot \in Nat /\ tick \in Int /\ table[i].when \in Int
      BY <2>3, FireTypes DEF Slots
    <3> QED
      BY <1>2, <2>2, <2>3, <3>1 DEF Fire, JobInv
  <2> QED
    BY <1>1, <2>1, <2>3 DEF Fire, JobInv, Used
<1>5. SnapInv'
    BY <1>1 DEF SnapInv
<1> QED
    BY <1>3, <1>4, <1>5 DEF Fire

(* After a reset nothing was emitted.                                      *)
LEMMA ResetFires ==
    ASSUME TypeOK, Fire, Reset
    PROVE  Fire'
<1>1. /\ sched' = "off" /\ slot' = 1 /\ tick' = 0 /\ now' = now
      /\ table' = [i \in Slots |-> Free] /\ fires' = [g \in Gens |-> {}]
    BY DEF Reset
<1>2. ClockInv'
    BY <1>1, FireTypes DEF ClockInv
<1>3. JobInv' /\ SnapInv'
    BY <1>1 DEF JobInv, SnapInv, Used
<1> QED
    BY <1>2, <1>3 DEF Fire

LEMMA FireStep == NameInv /\ FireInv /\ [Next]_vars => FireInv'
<1> SUFFICES ASSUME NameInv, FireInv, [Next]_vars PROVE FireInv'
    OBVIOUS
<1>1. TypeOK /\ TableNumbered /\ FilesNumbered /\ Fire
    BY DEF NameInv, FireInv, Fire
<1>2. Fire'
  <2>1. CASE UNCHANGED <<now, table, gens, sched, slot, tick, snap, fires>>
    BY <1>1, <2>1, OtherFires
  <2>2. CASE \/ \E t \in Tools, id \in Ids, kind \in Kinds, at \in Times :
                 Add(t, id, kind, at)
             \/ \E t \in Tools, id \in Ids : RemoveJob(t, id)
             \/ Bootstrap \/ WorkerRead \/ WorkerInstall
    BY <1>1, <2>2, AddFires, RemoveFires, LoadFires
  <2>3. CASE BootScan \/ TopOfLoop \/ Scan \/ Emit \/ Tick \/ Reset
    BY <1>1, <2>3, BootFires, TopFires, ScanFires, EmitFires, TickFires,
       ResetFires
  <2> QED
    BY <2>1, <2>2, <2>3
    DEF Next, ThreadStep, SaveStep, Snapshot, OpenTmp, WriteTmp, RenameTmp,
        vars, tableVars, threadVars
<1> QED
    BY <1>1, <1>2, FilesNumberedStep, TableNumberedStep DEF FireInv, Fire

(* Between two resets a one-shot or boot job is emitted once and a cron or *)
(* interval job at most once per clock reading: the mark set under the     *)
(* lock is enough although the thread emits after it gave the lock up.     *)
THEOREM NeverFiresTwice == Spec => []NoDoubleFire
<1>1. Init => FireInv
  <2> SUFFICES ASSUME Init PROVE FireInv
    OBVIOUS
  <2> USE DEF Init, RamInit
  <2>1. FilesNumbered
    BY DEF FilesNumbered, Numbered
  <2>2. TableNumbered /\ JobInv /\ SnapInv
    BY DEF TableNumbered, JobInv, SnapInv, Used
  <2>3. ClockInv
    BY DEF ClockInv
  <2> QED
    BY <2>1, <2>2, <2>3 DEF FireInv
<1>2. FireInv => NoDoubleFire
    BY DEF FireInv, SnapInv, NoDoubleFire
<1> QED
    BY <1>1, <1>2, FireStep, NamesHold, PTL DEF Spec
=============================================================================
