---------------------- MODULE LayerStoreRefinementProofs ----------------------
(***************************************************************************)
(* Theorems about LayerStore for one invocation at a time that nothing     *)
(* interrupts: it implements ImageStore, deletes no source before it is    *)
(* copied, and leaves no layer without a user.                             *)
(***************************************************************************)
EXTENDS LayerStoreProofs, LayerStoreRefinement

\* One invocation at a time.
Alone == \A p, q \in Procs : p = q

\* The buffer of a pull is not the boot volume of a VM.
OwnBuffers == \A d \in Layer : ImportVol[d] \notin VM

-----------------------------------------------------------------------------
(* The invariant of the refinement.                                        *)

\* What p relies on from one call to the next.
StoreAt(p) ==
  /\ pc[p] \in {"dyn_create", "dyn_upload"} => src[p] \notin VM \/ top[p] = None
  /\ pc[p] = "dyn_upload" /\ src[p] \in pool => backing[src[p]] = top[p]
  /\ pc[p] = "conv_clone" => dig[p] \notin pool
  /\ pc[p] = "conv_fill" =>
       /\ dig[p] \in pool /\ content[dig[p]] = None
       /\ \A v \in pool : backing[v] # dig[p]
  /\ pc[p] \in {"spawn_define", "spawn_create"} =>
       img[p] \in Tag \cap pool /\ top[p] = backing[img[p]]

\* A layer volume is empty only while ToVolumeLayer is filling it.
FilledAt(p) ==
  \A d \in pool \cap Layer : content[d] = d \/ (pc[p] = "conv_fill" /\ d = dig[p])

StoreInv == \A p \in Procs : StoreAt(p) /\ FilledAt(p)

\* The calls of an import up to the upload keep it.
LEMMA ImportStore ==
  ASSUME OwnBuffers, Faults \subseteq {"lookup"}, TypeOK, ControlOK, SerialInv, StoreInv,
         NEW p \in Procs, ImportStep(p)
  PROVE  StoreAt(p)' /\ FilledAt(p)'
<1> StoreType /\ LocalType /\ ControlAt(p) /\ NoDangling /\ LayersSound
    /\ SerialAt(p) /\ SourceAt(p) /\ StoreAt(p) /\ FilledAt(p)
  BY DEF TypeOK, ControlOK, SerialInv, StoreInv
<1> USE NamesAssumption
    DEF Goto, store, cmd, work, walk, Volume, DelLabels, ImportOps,
        BufferLabels, MakeLabels, VMLabels
<1>1. CASE PullFind(p)
  <2>0. \A d \in Anc[goal[p]] : d \in Layer /\ ImportVol[d] \in Work \ VM
    BY <1>1, ParentAssumption, BufferAssumption DEF PullFind, ControlAt, OwnBuffers
  <2>1. StoreAt(p)'
    BY <1>1, <2>0 DEF StoreAt, PullFind, ControlAt, LocalType, StoreType
  <2>2. FilledAt(p)'
    BY <1>1 DEF FilledAt, StoreAt, PullFind, ControlAt, LocalType, StoreType
  <2> QED BY <2>1, <2>2
<1>2. CASE DynCreate(p)
  <2>1. StoreAt(p)'
    BY <1>2
       DEF StoreAt, DynCreate, ControlAt, LocalType, StoreType, CanCreate,
           CreateVol, Continue, Finish, locals
  <2>2. FilledAt(p)'
    BY <1>2
       DEF FilledAt, StoreAt, DynCreate, ControlAt, LocalType, StoreType, CanCreate,
           CreateVol, Continue, Finish, locals
  <2> QED BY <2>1, <2>2
<1>3. CASE DynUpload(p)
  <2>1. StoreAt(p)'
    BY <1>3
       DEF StoreAt, DynUpload, ControlAt, LocalType, StoreType, UploadVol, Continue,
           Finish, OnError, locals, Fault
  <2>2. FilledAt(p)'
    BY <1>3
       DEF FilledAt, StoreAt, DynUpload, ControlAt, LocalType, StoreType, UploadVol,
           Continue, Finish, OnError, locals, Fault
  <2> QED BY <2>1, <2>2
<1>4. CASE Drop(p)
  <2>1. StoreAt(p)'
    BY <1>4 DEF StoreAt, Drop, ControlAt, LocalType, StoreType, DeleteVol, Finish
  <2>2. FilledAt(p)'
    BY <1>4 DEF FilledAt, StoreAt, Drop, ControlAt, LocalType, StoreType, DeleteVol, Finish
  <2> QED BY <2>1, <2>2
<1> QED BY <1>1, <1>2, <1>3, <1>4 DEF ImportStep

\* The calls of ToVolumeLayer keep it.
LEMMA ConvStore ==
  ASSUME OwnBuffers, Faults \subseteq {"lookup"}, TypeOK, ControlOK, SerialInv, StoreInv,
         NEW p \in Procs, ConvStep(p)
  PROVE  StoreAt(p)' /\ FilledAt(p)'
<1> StoreType /\ LocalType /\ ControlAt(p) /\ NoDangling /\ LayersSound
    /\ SerialAt(p) /\ SourceAt(p) /\ StoreAt(p) /\ FilledAt(p)
  BY DEF TypeOK, ControlOK, SerialInv, StoreInv
<1> USE NamesAssumption
    DEF Goto, store, cmd, work, walk, Volume, DelLabels, ImportOps,
        BufferLabels, MakeLabels, VMLabels
<1>1. CASE ConvFind(p)
  <2>1. StoreAt(p)'
    BY <1>1
       DEF StoreAt, ConvFind, ControlAt, LocalType, StoreType, Continue, DiffID, Finish,
           OnError, locals, Fault
  <2>2. FilledAt(p)'
    BY <1>1
       DEF FilledAt, StoreAt, ConvFind, ControlAt, LocalType, StoreType, Continue, DiffID,
           Finish, OnError, locals, Fault
  <2> QED BY <2>1, <2>2
<1>2. CASE ConvClone(p)
  <2>1. StoreAt(p)'
    BY <1>2
       DEF StoreAt, NoDangling, ConvClone, ControlAt, LocalType, StoreType, CanCreate,
           CreateVol, Continue, Finish, OnError, locals
  <2>2. FilledAt(p)'
    BY <1>2
       DEF FilledAt, StoreAt, ConvClone, ControlAt, LocalType, StoreType, CanCreate,
           CreateVol, Continue, Finish, OnError, locals
  <2> QED BY <2>1, <2>2
<1>3. CASE ConvFill(p)
  <2>1. StoreAt(p)'
    BY <1>3
       DEF StoreAt, ConvFill, ControlAt, LocalType, StoreType, Continue, Finish, OnError,
           locals, Fault
  <2>2. FilledAt(p)'
    BY <1>3
       DEF FilledAt, StoreAt, SourceAt, ConvFill, ControlAt, LocalType, StoreType, Continue,
           Finish, OnError, locals, Fault
  <2> QED BY <2>1, <2>2
<1>4. CASE ConvDelete(p)
  <2>1. StoreAt(p)'
    BY <1>4
       DEF StoreAt, ConvDelete, ControlAt, LocalType, StoreType, DeleteVol, Continue,
           Finish, locals, Fault
  <2>2. FilledAt(p)'
    BY <1>4
       DEF FilledAt, StoreAt, ConvDelete, ControlAt, LocalType, StoreType, DeleteVol,
           Continue, Finish, locals, Fault
  <2> QED BY <2>1, <2>2
<1>5. CASE ConvUndo(p)
  BY <1>5 DEF ConvUndo, ControlAt
<1> QED BY <1>1, <1>2, <1>3, <1>4, <1>5 DEF ConvStep

\* The calls of MakeImage keep it.
LEMMA MakeStore ==
  ASSUME OwnBuffers, Faults \subseteq {"lookup"}, TypeOK, ControlOK, SerialInv, StoreInv,
         NEW p \in Procs, MakeStep(p)
  PROVE  StoreAt(p)' /\ FilledAt(p)'
<1> StoreType /\ LocalType /\ ControlAt(p) /\ NoDangling /\ LayersSound
    /\ SerialAt(p) /\ SourceAt(p) /\ StoreAt(p) /\ FilledAt(p)
  BY DEF TypeOK, ControlOK, SerialInv, StoreInv
<1> USE NamesAssumption
    DEF Goto, store, cmd, work, walk, Volume, DelLabels, ImportOps,
        BufferLabels, MakeLabels, VMLabels
<1>1. CASE MakeFind(p)
  <2>1. StoreAt(p)'
    BY <1>1 DEF StoreAt, MakeFind, ControlAt, LocalType, StoreType, Continue, locals
  <2>2. FilledAt(p)'
    BY <1>1
       DEF FilledAt, StoreAt, MakeFind, ControlAt, LocalType, StoreType, Continue, locals
  <2> QED BY <2>1, <2>2
<1>2. CASE MakeDep(p)
  <2>1. StoreAt(p)'
    BY <1>2 DEF StoreAt, MakeDep, ControlAt, LocalType, StoreType, DeleteAllIfUnused, Finish
  <2>2. FilledAt(p)'
    BY <1>2
       DEF FilledAt, StoreAt, MakeDep, ControlAt, LocalType, StoreType, DeleteAllIfUnused,
           Finish
  <2> QED BY <2>1, <2>2
<1>3. CASE MakeCreate(p)
  <2>1. StoreAt(p)'
    BY <1>3
       DEF StoreAt, MakeCreate, ControlAt, LocalType, StoreType, CanCreate,
           CreateVol, Finish
  <2>2. FilledAt(p)'
    BY <1>3
       DEF FilledAt, StoreAt, MakeCreate, ControlAt, LocalType, StoreType, CanCreate,
           CreateVol, Finish
  <2> QED BY <2>1, <2>2
<1> QED BY <1>1, <1>2, <1>3 DEF MakeStep

\* The calls of DeleteAllIfUnused keep it.
LEMMA DelStore ==
  ASSUME OwnBuffers, Faults \subseteq {"lookup"}, TypeOK, ControlOK, SerialInv, StoreInv,
         NEW p \in Procs, DelStep(p)
  PROVE  StoreAt(p)' /\ FilledAt(p)'
<1> StoreType /\ LocalType /\ ControlAt(p) /\ NoDangling /\ LayersSound
    /\ SerialAt(p) /\ SourceAt(p) /\ StoreAt(p) /\ FilledAt(p)
  BY DEF TypeOK, ControlOK, SerialInv, StoreInv
<1> USE NamesAssumption
    DEF Goto, store, cmd, work, walk, Volume, DelLabels, ImportOps,
        BufferLabels, MakeLabels, VMLabels
<1>1. CASE DelDep(p)
  <2>1. StoreAt(p)'
    BY <1>1
       DEF StoreAt, DelDep, ControlAt, LocalType, StoreType, AfterWalk, DelError,
           DelReturn, Finish
  <2>2. FilledAt(p)'
    BY <1>1
       DEF FilledAt, StoreAt, DelDep, ControlAt, LocalType, StoreType, AfterWalk,
           DelError, DelReturn, Finish
  <2> QED BY <2>1, <2>2
<1>2. CASE DelList(p)
  <2>1. StoreAt(p)'
    BY <1>2 DEF StoreAt, DelList, ControlAt, LocalType, StoreType
  <2>2. FilledAt(p)'
    BY <1>2 DEF FilledAt, StoreAt, DelList, ControlAt, LocalType, StoreType
  <2> QED BY <2>1, <2>2
<1>3. CASE DelScan(p)
  <2>1. StoreAt(p)'
    BY <1>3
       DEF StoreAt, DelScan, ControlAt, LocalType, StoreType, AfterWalk, Continue,
           DelReturn, Finish, locals
  <2>2. FilledAt(p)'
    BY <1>3
       DEF FilledAt, StoreAt, DelScan, ControlAt, LocalType, StoreType, AfterWalk,
           Continue, DelReturn, Finish, locals
  <2> QED BY <2>1, <2>2
<1>4. CASE DelDelete(p)
  <2>1. StoreAt(p)'
    BY <1>4
       DEF StoreAt, DelDelete, ControlAt, LocalType, StoreType, DeleteVol, AfterWalk,
           DelError, DelReturn, Finish, Fault
  <2>2. FilledAt(p)'
    BY <1>4
       DEF FilledAt, StoreAt, DelDelete, ControlAt, LocalType, StoreType, DeleteVol,
           AfterWalk, DelError, DelReturn, Finish, Fault
  <2> QED BY <2>1, <2>2
<1> QED BY <1>1, <1>2, <1>3, <1>4 DEF DelStep

\* The calls of image rm and image prune keep it.
LEMMA RmStore ==
  ASSUME OwnBuffers, Faults \subseteq {"lookup"}, TypeOK, ControlOK, SerialInv, StoreInv,
         NEW p \in Procs, RmStep(p)
  PROVE  StoreAt(p)' /\ FilledAt(p)'
<1> StoreType /\ LocalType /\ ControlAt(p) /\ NoDangling /\ LayersSound
    /\ SerialAt(p) /\ SourceAt(p) /\ StoreAt(p) /\ FilledAt(p)
  BY DEF TypeOK, ControlOK, SerialInv, StoreInv
<1> USE NamesAssumption
    DEF Goto, store, cmd, work, walk, Volume, DelLabels, ImportOps,
        BufferLabels, MakeLabels, VMLabels
<1>1. CASE RmFind(p)
  <2>1. StoreAt(p)'
    BY <1>1 DEF StoreAt, RmFind, ControlAt, LocalType, StoreType, DeleteAllIfUnused, Finish
  <2>2. FilledAt(p)'
    BY <1>1
       DEF FilledAt, StoreAt, RmFind, ControlAt, LocalType, StoreType, DeleteAllIfUnused,
           Finish
  <2> QED BY <2>1, <2>2
<1>2. CASE PruneTags(p)
  <2>1. StoreAt(p)'
    BY <1>2
       DEF StoreAt, PruneTags, ControlAt, LocalType, StoreType, DeleteAllIfUnused, Finish
  <2>2. FilledAt(p)'
    BY <1>2
       DEF FilledAt, StoreAt, PruneTags, ControlAt, LocalType, StoreType,
           DeleteAllIfUnused, Finish
  <2> QED BY <2>1, <2>2
<1>3. CASE PruneList(p)
  <2>1. StoreAt(p)'
    BY <1>3 DEF StoreAt, PruneList, ControlAt, LocalType, StoreType
  <2>2. FilledAt(p)'
    BY <1>3 DEF FilledAt, StoreAt, PruneList, ControlAt, LocalType, StoreType
  <2> QED BY <2>1, <2>2
<1>4. CASE PruneNext(p)
  <2>1. StoreAt(p)'
    BY <1>4
       DEF StoreAt, PruneNext, ControlAt, LocalType, StoreType, DeleteAllIfUnused, Finish
  <2>2. FilledAt(p)'
    BY <1>4
       DEF FilledAt, StoreAt, PruneNext, ControlAt, LocalType, StoreType,
           DeleteAllIfUnused, Finish
  <2> QED BY <2>1, <2>2
<1> QED BY <1>1, <1>2, <1>3, <1>4 DEF RmStep

\* The calls of vm run, vm rm and vm commit keep it.
LEMMA VMStore ==
  ASSUME OwnBuffers, Faults \subseteq {"lookup"}, TypeOK, ControlOK, SerialInv, StoreInv,
         NEW p \in Procs, VMStep(p)
  PROVE  StoreAt(p)' /\ FilledAt(p)'
<1> StoreType /\ LocalType /\ ControlAt(p) /\ NoDangling /\ LayersSound
    /\ SerialAt(p) /\ SourceAt(p) /\ StoreAt(p) /\ FilledAt(p)
  BY DEF TypeOK, ControlOK, SerialInv, StoreInv
<1> USE NamesAssumption
    DEF Goto, store, cmd, work, walk, Volume, DelLabels, ImportOps,
        BufferLabels, MakeLabels, VMLabels
<1>1. CASE SpawnFind(p)
  <2>1. StoreAt(p)'
    BY <1>1 DEF StoreAt, SpawnFind, ControlAt, LocalType, StoreType, Finish
  <2>2. FilledAt(p)'
    BY <1>1 DEF FilledAt, StoreAt, SpawnFind, ControlAt, LocalType, StoreType, Finish
  <2> QED BY <2>1, <2>2
<1>2. CASE SpawnDefine(p)
  <2>1. StoreAt(p)'
    BY <1>2
       DEF StoreAt, SpawnDefine, ControlAt, LocalType, StoreType, Continue, Finish, locals
  <2>2. FilledAt(p)'
    BY <1>2
       DEF FilledAt, StoreAt, SpawnDefine, ControlAt, LocalType, StoreType, Continue,
           Finish, locals
  <2> QED BY <2>1, <2>2
<1>3. CASE SpawnCreate(p)
  <2>1. StoreAt(p)'
    BY <1>3
       DEF StoreAt, SpawnCreate, ControlAt, LocalType, StoreType, CanCreate,
           CreateVol, Finish
  <2>2. FilledAt(p)'
    BY <1>3
       DEF FilledAt, StoreAt, SpawnCreate, ControlAt, LocalType, StoreType, CanCreate,
           CreateVol, Finish
  <2> QED BY <2>1, <2>2
<1>4. CASE VMRmFind(p)
  <2>1. StoreAt(p)'
    BY <1>4
       DEF StoreAt, VMRmFind, ControlAt, LocalType, StoreType, Continue,
           DeleteAllIfUnused, locals
  <2>2. FilledAt(p)'
    BY <1>4
       DEF FilledAt, StoreAt, VMRmFind, ControlAt, LocalType, StoreType, Continue,
           DeleteAllIfUnused, locals
  <2> QED BY <2>1, <2>2
<1>5. CASE Undefine(p)
  <2>1. StoreAt(p)'
    BY <1>5 DEF StoreAt, Undefine, ControlAt, LocalType, StoreType, Finish
  <2>2. FilledAt(p)'
    BY <1>5 DEF FilledAt, StoreAt, Undefine, ControlAt, LocalType, StoreType, Finish
  <2> QED BY <2>1, <2>2
<1>6. CASE CommitRm(p)
  <2>1. StoreAt(p)'
    BY <1>6 DEF StoreAt, CommitRm, ControlAt, LocalType, StoreType, Continue, Finish, locals
  <2>2. FilledAt(p)'
    BY <1>6
       DEF FilledAt, StoreAt, CommitRm, ControlAt, LocalType, StoreType, Continue,
           Finish, locals
  <2> QED BY <2>1, <2>2
<1>7. CASE CommitFind(p)
  <2>1. StoreAt(p)'
    BY <1>7
       DEF StoreAt, CommitFind, ControlAt, LocalType, StoreType, Continue, Finish, locals
  <2>2. FilledAt(p)'
    BY <1>7
       DEF FilledAt, StoreAt, CommitFind, ControlAt, LocalType, StoreType, Continue,
           Finish, locals
  <2> QED BY <2>1, <2>2
<1> QED BY <1>1, <1>2, <1>3, <1>4, <1>5, <1>6, <1>7 DEF VMStep

\* The invariant holds when invocations do not overlap and no fault but a failed
\* lookup happens.
LEMMA StoreInvariant ==
  ASSUME Alone, OwnBuffers, Faults \subseteq {"lookup"}
  PROVE  Spec => []StoreInv
<1>1. Init => StoreInv
  BY DEF Init, StoreInv, StoreAt, FilledAt
<1>2. ASSUME TypeOK, ControlOK, SerialInv, StoreInv, [Next]_vars PROVE StoreInv'
  <2>1. CASE UNCHANGED vars
    BY <1>2, <2>1
       DEF StoreInv, StoreAt, FilledAt, vars, store, locals, cmd, work, walk
  <2>2. ASSUME NEW p \in Procs, Command(p) PROVE StoreAt(p)' /\ FilledAt(p)'
    <3>1. LocalType /\ StoreAt(p) /\ FilledAt(p)
      BY <1>2 DEF TypeOK, StoreInv
    <3>2. UNCHANGED store /\ (pc'[p] = "dyn_create" => top'[p] = None)
      BY <1>2, <2>2
         DEF Command, Pull, Load, Fetch, Rm, Prune, Run, VMRm, Commit, Begin, Goto, walk,
             ControlOK, ControlAt, TypeOK, LocalType
    <3>3. pc[p] # "conv_fill"
          /\ pc'[p] \notin {"dyn_upload", "conv_clone", "conv_fill", "spawn_define",
                          "spawn_create"}
      BY <2>2, <3>1
         DEF Command, Pull, Load, Fetch, Rm, Prune, Run, VMRm, Commit, Begin, Goto,
             LocalType, Ended
    <3> QED BY <3>1, <3>2, <3>3 DEF StoreAt, FilledAt, store
  <2>3. ASSUME NEW p \in Procs, Step(p) PROVE StoreAt(p)' /\ FilledAt(p)'
    BY <1>2, <2>3, ImportStore, ConvStore, MakeStore, DelStore, RmStore, VMStore DEF Step
  <2>4. ASSUME NEW p \in Procs, Crash(p) PROVE FALSE
    BY <2>4 DEF Crash, Fault
  <2>5. ASSUME NEW p \in Procs, StoreAt(p)' /\ FilledAt(p)' PROVE StoreInv'
    BY <2>5 DEF StoreInv, Alone
  <2> QED BY <1>2, <2>1, <2>2, <2>3, <2>4, <2>5 DEF Next
<1>3. Spec => []SerialInv
  <2>1. "delete" \notin Faults
    OBVIOUS
  <2> QED BY <2>1, SerialInvariant DEF Alone
<1> QED BY <1>1, <1>2, <1>3, TypeCorrect, PTL DEF Spec

-----------------------------------------------------------------------------
(* The refinement.                                                         *)

\* The layers that count.
Filled == {d \in pool \cap Layer : content[d] = d}

\* The mapping changes only with what images, boot disks and layers stand on.
LEMMA Hidden ==
  ASSUME \A v \in Tag \cup VM : StandsOn(v)' = StandsOn(v), Filled' = Filled
  PROVE  UNCHANGED Abstract!vars
BY DEF Abstract!vars, Filled

\* A volume is deleted: an image, a boot disk or a layer that nothing stands on
\* goes, or a volume that does not count.
LEMMA Deleted ==
  ASSUME StoreType, LayersSound, NEW v \in Volume, DeleteVol(v),
         v \in Layer => \A u \in pool : backing[u] # v
  PROVE  [Abstract!Next]_Abstract!vars
<1> USE NamesAssumption DEF Volume
<1>1. \A u \in (Tag \cup VM) \ {v} : StandsOn(u)' = StandsOn(u)
  BY DEF StandsOn, DeleteVol, StoreType
<1>2. StandsOn(v)' = None
  BY DEF StandsOn, DeleteVol
<1>3. Filled' = Filled \ {v}
  BY DEF Filled, DeleteVol, StoreType
<1>4. CASE v \notin Layer /\ (v \in Tag \cup VM => StandsOn(v) = None)
  <2>1. Filled' = Filled
    BY <1>3, <1>4 DEF Filled
  <2> QED BY <1>1, <1>2, <1>4, <2>1, Hidden
<1>5. CASE v \in Tag /\ StandsOn(v) # None
  <2>1. Filled' = Filled /\ \A u \in VM : StandsOn(u)' = StandsOn(u)
    BY <1>1, <1>3, <1>5 DEF Filled
  <2>2. [t \in Tag |-> StandsOn(t)]' = [[t \in Tag |-> StandsOn(t)] EXCEPT ![v] = None]
    BY <1>1, <1>2, <1>5 DEF StandsOn
  <2>3. Abstract!Unname(v)
    BY <1>5, <2>1, <2>2 DEF Abstract!Unname, Filled
  <2> QED BY <1>5, <2>3 DEF Abstract!Next
<1>6. CASE v \in VM /\ StandsOn(v) # None
  <2>1. Filled' = Filled /\ \A u \in Tag : StandsOn(u)' = StandsOn(u)
    BY <1>1, <1>3, <1>6 DEF Filled
  <2>2. [u \in VM |-> StandsOn(u)]' = [[u \in VM |-> StandsOn(u)] EXCEPT ![v] = None]
    BY <1>1, <1>2, <1>6 DEF StandsOn
  <2>3. Abstract!Discard(v)
    BY <1>6, <2>1, <2>2 DEF Abstract!Discard, Filled
  <2> QED BY <1>6, <2>3 DEF Abstract!Next
<1>7. CASE v \in Layer /\ v \notin Filled
  <2>1. Filled' = Filled
    BY <1>3, <1>7
  <2> QED BY <1>1, <1>7, <2>1, Hidden
<1>8. CASE v \in Filled
  <2>1. ~Abstract!Used(v)
    BY <1>8 DEF Abstract!Used, StandsOn, Filled, LayersSound
  <2>2. Abstract!DropLayer(v)
    BY <1>1, <1>3, <1>8, <2>1 DEF Abstract!DropLayer, Filled
  <2> QED BY <1>8, <2>2 DEF Abstract!Next, Filled
<1> QED BY <1>4, <1>5, <1>6, <1>7, <1>8 DEF Filled

\* A volume is created on nothing, or is none that counts.
LEMMA Created ==
  ASSUME StoreType, NEW v \in Volume, NEW b, v \notin pool, CreateVol(v, b),
         v \in Tag \cup VM => b = None
  PROVE  UNCHANGED Abstract!vars
<1> USE NamesAssumption DEF Volume
<1>1. \A u \in Tag \cup VM : StandsOn(u)' = StandsOn(u)
  BY DEF StandsOn, CreateVol, StoreType
<1>2. Filled' = Filled
  BY DEF Filled, CreateVol, StoreType
<1> QED BY <1>1, <1>2, Hidden

\* A step that leaves the volumes alone does not show.
LEMMA Same ==
  ASSUME UNCHANGED store
  PROVE  UNCHANGED Abstract!vars
<1>1. \A v \in Tag \cup VM : StandsOn(v)' = StandsOn(v)
  BY DEF StandsOn, store
<1>2. Filled' = Filled
  BY DEF Filled, store
<1> QED BY <1>1, <1>2, Hidden

\* Every call is a step of the abstract store or does not show.
LEMMA CallRefines ==
  ASSUME Faults \subseteq {"lookup"}, TypeOK, ControlOK, SerialInv, StoreInv,
         NEW p \in Procs, Step(p)
  PROVE  [Abstract!Next]_Abstract!vars
<1> StoreType /\ LocalType /\ ControlAt(p) /\ NoDangling /\ LayersSound
    /\ SerialAt(p) /\ SourceAt(p) /\ StoreAt(p) /\ FilledAt(p)
  BY DEF TypeOK, ControlOK, SerialInv, StoreInv
<1> USE NamesAssumption DEF Volume
<1>1. CASE UNCHANGED store
  BY <1>1, Same
<1>2. CASE DynCreate(p) /\ ~UNCHANGED store
  <2>1. src[p] \in Volume /\ src[p] \notin pool /\ CreateVol(src[p], top[p])
    BY <1>2 DEF DynCreate, ControlAt, BufferLabels, CanCreate
  <2>2. src[p] \in Tag \cup VM => top[p] = None
    BY <1>2 DEF DynCreate, ControlAt, BufferLabels, StoreAt
  <2> QED BY <2>1, <2>2, Created
<1>3. CASE DynUpload(p) /\ ~UNCHANGED store
  <2>1. src[p] \in Work /\ src[p] \in pool /\ UploadVol(src[p], dig[p])
    BY <1>3 DEF DynUpload, ControlAt, BufferLabels
  <2>2. backing[src[p]] = top[p] /\ Parent[dig[p]] = top[p]
    BY <1>3, <2>1 DEF DynUpload, ControlAt, StoreAt
  <2>3. pool' = pool /\ backing' = backing
    BY <2>1, <2>2 DEF UploadVol, StoreType
  <2>4. Filled' = Filled
    BY <2>1, <2>3 DEF Filled, UploadVol, StoreType
  <2> QED BY <2>3, <2>4, Hidden DEF StandsOn
<1>4. CASE Drop(p) \/ (ConvDelete(p) /\ ~UNCHANGED store)
  <2>1. src[p] \in Work /\ DeleteVol(src[p])
    BY <1>4 DEF Drop, ConvDelete, ControlAt, BufferLabels
  <2> QED BY <2>1, Deleted
<1>5. CASE ConvClone(p) /\ ~UNCHANGED store
  <2>1. dig[p] \in Layer /\ dig[p] \notin pool /\ CreateVol(dig[p], backing[src[p]])
    BY <1>5 DEF ConvClone, ControlAt, CanCreate
  <2> QED BY <2>1, Created
<1>6. CASE ConvFill(p) /\ ~UNCHANGED store
  <2>0. PICK d \in Layer : d = dig[p]
    BY <1>6 DEF ConvFill, ControlAt, store
  <2>1. /\ d \in pool
        /\ content' = [content EXCEPT ![d] = content[src[p]]]
        /\ pool' = pool /\ backing' = backing
    BY <1>6, <2>0 DEF ConvFill, store
  <2>2. /\ content[src[p]] = d /\ content[d] = None /\ backing[d] = Parent[d]
        /\ \A v \in pool : backing[v] # d
    BY <1>6, <2>0, <2>1 DEF ConvFill, SourceAt, StoreAt, LayersSound
  <2>3. Filled' = Filled \cup {d} /\ d \notin Filled
    BY <2>1, <2>2 DEF Filled, StoreType
  <2>4. Parent[d] \in Filled \cup {None}
    BY <2>0, <2>1, <2>2, ParentAssumption DEF Filled, FilledAt, NoDangling
  <2>5. \A v \in Tag \cup VM : StandsOn(v)' = StandsOn(v)
    BY <2>1 DEF StandsOn
  <2>6. Abstract!AddLayer(d)
    BY <2>3, <2>4, <2>5 DEF Abstract!AddLayer, Filled
  <2> QED BY <2>6 DEF Abstract!Next
<1>7. CASE MakeCreate(p) /\ ~UNCHANGED store
  <2> DEFINE t == img[p]
             d == top[p]
  <2>1. t \in Tag /\ t \notin pool /\ (d # None => d \in pool) /\ CreateVol(t, d)
    BY <1>7 DEF MakeCreate, ControlAt, MakeLabels, CanCreate
  <2>2. CASE d = None
    BY <2>1, <2>2, Created
  <2>3. CASE d # None
    <3>1. d \in Layer
      BY <2>3 DEF LocalType
    <3>2. d \in Filled
      BY <1>7, <2>1, <2>3, <3>1 DEF MakeCreate, Filled, FilledAt
    <3>3. Filled' = Filled /\ \A v \in VM : StandsOn(v)' = StandsOn(v)
      BY <2>1 DEF Filled, CreateVol, StoreType, StandsOn
    <3>4. [u \in Tag |-> StandsOn(u)]' = [[u \in Tag |-> StandsOn(u)] EXCEPT ![t] = d]
      BY <2>1 DEF CreateVol, StoreType, StandsOn
    <3>5. StandsOn(t) = None
      BY <2>1 DEF StandsOn
    <3>6. Abstract!Name(t, d)
      BY <2>1, <3>2, <3>3, <3>4, <3>5 DEF Abstract!Name, Filled
    <3> QED BY <2>1, <3>1, <3>6 DEF Abstract!Next
  <2> QED BY <2>2, <2>3
<1>8. CASE DelDelete(p) /\ ~UNCHANGED store
  <2>1. cur[p] \in Volume /\ DeleteVol(cur[p]) /\ \A v \in pool : backing[v] # cur[p]
    BY <1>8 DEF DelDelete, ControlAt, DelLabels, SerialAt
  <2> QED BY <2>1, Deleted
<1>9. CASE SpawnCreate(p) /\ ~UNCHANGED store
  <2> DEFINE v == src[p]
             t == img[p]
  <2>1. v \in VM /\ v \notin pool /\ CreateVol(v, top[p]) /\ t \in Tag \cap pool
        /\ top[p] = backing[t]
    BY <1>9 DEF SpawnCreate, ControlAt, VMLabels, CanCreate, StoreAt
  <2>2. CASE top[p] = None
    BY <2>1, <2>2, Created
  <2>3. CASE top[p] # None
    <3>1. Filled' = Filled /\ \A u \in Tag : StandsOn(u)' = StandsOn(u)
      BY <2>1 DEF Filled, CreateVol, StoreType, StandsOn
    <3>2. [u \in VM |-> StandsOn(u)]' =
            [[u \in VM |-> StandsOn(u)] EXCEPT ![v] = StandsOn(t)]
      BY <2>1 DEF CreateVol, StoreType, StandsOn
    <3>3. StandsOn(v) = None /\ StandsOn(t) # None
      BY <2>1, <2>3 DEF StandsOn
    <3>4. Abstract!Boot(v, t)
      BY <2>1, <3>1, <3>2, <3>3 DEF Abstract!Boot, Filled
    <3> QED BY <2>1, <3>4 DEF Abstract!Next
  <2> QED BY <2>2, <2>3
<1>10. CASE CommitRm(p) /\ ~UNCHANGED store
  <2>1. src[p] \in Work /\ pool' = pool /\ backing' = backing
        /\ \E d \in Layer : content' = [content EXCEPT ![src[p]] = d]
    BY <1>10 DEF CommitRm, ControlAt, VMLabels, store
  <2>2. Filled' = Filled
    BY <2>1 DEF Filled, StoreType
  <2> QED BY <2>1, <2>2, Hidden DEF StandsOn
<1>11. ~ConvUndo(p)
  BY DEF ConvUndo, ControlAt
<1> QED
  BY <1>1, <1>2, <1>3, <1>4, <1>5, <1>6, <1>7, <1>8, <1>9, <1>10, <1>11
     DEF Step, ImportStep, ConvStep, MakeStep, DelStep, RmStep, VMStep, PullFind, ConvFind,
         MakeFind, MakeDep, DelDep, DelList, DelScan, RmFind, PruneTags, PruneList,
         PruneNext, SpawnFind, SpawnDefine, VMRmFind, Undefine, CommitFind

\* The image store keeps the promises of ImageStore at every single libvirt call of
\* pull, load, rm, prune, vm run, vm rm and vm commit, for any images, VMs and
\* layers: images and boot disks stand on complete layers, and no layer goes that
\* anything stands on.  Invocations do not overlap and nothing interrupts them; a
\* lookup that fails does no harm.
THEOREM Refinement ==
  ASSUME Alone, OwnBuffers, Faults \subseteq {"lookup"}
  PROVE  Spec => ImplementsImageStore
<1>1. Init => Abstract!Init
  BY DEF Init, Abstract!Init, StandsOn
<1>2. ASSUME TypeOK, ControlOK, SerialInv, StoreInv, [Next]_vars
      PROVE  [Abstract!Next]_Abstract!vars
  <2>1. CASE UNCHANGED vars
    BY <2>1, Same DEF vars
  <2>2. ASSUME NEW p \in Procs, Command(p) PROVE UNCHANGED store
    BY <2>2 DEF Command, Pull, Load, Fetch, Rm, Prune, Run, VMRm, Commit, Begin
  <2>3. ASSUME NEW p \in Procs, Crash(p) PROVE FALSE
    BY <2>3 DEF Crash, Fault
  <2> QED BY <1>2, <2>1, <2>2, <2>3, Same, CallRefines DEF Next
<1>3. Spec => []SerialInv
  <2>1. "delete" \notin Faults
    OBVIOUS
  <2> QED BY <2>1, SerialInvariant DEF Alone
<1> QED
  BY <1>1, <1>2, <1>3, StoreInvariant, TypeCorrect, PTL
     DEF Spec, ImplementsImageStore, Abstract!Spec

-----------------------------------------------------------------------------
(* What the refinement says about whole chains of layers.                  *)

\* What images and disks stand on is there down to the last layer.
Whole ==
  /\ Abstract!Complete
  /\ \A d \in Filled : Anc[d] \subseteq Filled

\* The actions of ImageStore keep it; the guards of AddLayer and DropLayer are what
\* that takes.
LEMMA WholeKept ==
  ASSUME Whole, [Abstract!Next]_Abstract!vars
  PROVE  Whole'
<1> DEFINE images == [t \in Tag |-> StandsOn(t)]
           disks  == [v \in VM |-> StandsOn(v)]
           layers == Filled
<1>1. /\ layers \subseteq Layer /\ layers' \subseteq Layer
      /\ images = [t \in Tag |-> images[t]] /\ disks = [v \in VM |-> disks[v]]
      /\ images' = [t \in Tag |-> images'[t]] /\ disks' = [v \in VM |-> disks'[v]]
  BY DEF Filled
<1>2. /\ \A t \in Tag : images[t] \in layers \cup {None}
      /\ \A v \in VM : disks[v] \in layers \cup {None}
      /\ \A d \in layers : Parent[d] \in layers \cup {None}
      /\ \A d \in layers : Anc[d] \subseteq layers
  BY DEF Whole, Filled, Abstract!Complete
<1>3. SUFFICES /\ \A t \in Tag : images'[t] \in layers' \cup {None}
               /\ \A v \in VM : disks'[v] \in layers' \cup {None}
               /\ \A d \in layers' : Parent[d] \in layers' \cup {None}
               /\ \A d \in layers' : Anc[d] \subseteq layers'
  BY DEF Whole, Filled, Abstract!Complete
<1>4. CASE UNCHANGED <<images, disks, layers>>
  <2> HIDE DEF images, disks, layers
  <2> QED BY <1>2, <1>4
<1>5. CASE \E d \in Layer : Abstract!AddLayer(d)
  <2>1. PICK d \in Layer : /\ Parent[d] \in layers \cup {None}
                           /\ layers' = layers \cup {d}
                           /\ images' = images /\ disks' = disks
    BY <1>5 DEF Abstract!AddLayer, Filled
  <2> HIDE DEF images, disks, layers
  <2>2. Anc[d] \subseteq layers'
    BY <1>1, <1>2, <2>1, ParentAssumption
  <2> QED BY <1>1, <1>2, <2>1, <2>2
<1>6. CASE \E d \in Layer : Abstract!DropLayer(d)
  <2>1. PICK d \in Layer : /\ \A t \in Tag : images[t] # d
                           /\ \A v \in VM : disks[v] # d
                           /\ \A e \in layers : Parent[e] # d
                           /\ layers' = layers \ {d}
                           /\ images' = images /\ disks' = disks
    BY <1>6 DEF Filled, Abstract!DropLayer, Abstract!Used
  <2> HIDE DEF images, disks, layers
  <2>2. \A e \in layers' : d \notin Anc[e]
    BY <1>1, <1>2, <2>1, ParentAssumption
  <2> QED BY <1>1, <1>2, <2>1, <2>2
<1>7. CASE \E t \in Tag, d \in Layer : Abstract!Name(t, d)
  <2>1. PICK t \in Tag, d \in Layer : /\ d \in layers
                                      /\ images' = [images EXCEPT ![t] = d]
                                      /\ disks' = disks /\ layers' = layers
    BY <1>7 DEF Abstract!Name, Filled
  <2> HIDE DEF images, disks, layers
  <2> QED BY <1>1, <1>2, <2>1
<1>8. CASE \E t \in Tag : Abstract!Unname(t)
  <2>1. PICK t \in Tag : /\ images' = [images EXCEPT ![t] = None]
                         /\ disks' = disks /\ layers' = layers
    BY <1>8 DEF Abstract!Unname, Filled
  <2> HIDE DEF images, disks, layers
  <2> QED BY <1>1, <1>2, <2>1
<1>9. CASE \E v \in VM, t \in Tag : Abstract!Boot(v, t)
  <2>1. PICK v \in VM, t \in Tag : /\ disks' = [disks EXCEPT ![v] = images[t]]
                                   /\ images' = images /\ layers' = layers
    BY <1>9 DEF Abstract!Boot, Filled
  <2> HIDE DEF images, disks, layers
  <2> QED BY <1>1, <1>2, <2>1
<1>10. CASE \E v \in VM : Abstract!Discard(v)
  <2>1. PICK v \in VM : /\ disks' = [disks EXCEPT ![v] = None]
                        /\ images' = images /\ layers' = layers
    BY <1>10 DEF Abstract!Discard, Filled
  <2> HIDE DEF images, disks, layers
  <2> QED BY <1>1, <1>2, <2>1
<1> QED
  BY <1>4, <1>5, <1>6, <1>7, <1>8, <1>9, <1>10 DEF Abstract!Next, Abstract!vars, Filled

\* An image and a boot volume have all layers of their chain, however long, each
\* holding what its name says, at every single call; LayerStoreInterrupted shows what
\* becomes of that when a pull is interrupted.
THEOREM ImagesAreComplete ==
  ASSUME Alone, OwnBuffers, Faults \subseteq {"lookup"}
  PROVE  Spec => []ImageComplete
<1>1. Abstract!Init => Whole
  BY DEF Abstract!Init, Whole, Filled, Abstract!Complete
<1>2. Whole /\ [Abstract!Next]_Abstract!vars => Whole'
  BY WholeKept
<1>3. TypeOK /\ SerialInv /\ Whole => ImageComplete
  <2> SUFFICES ASSUME TypeOK, SerialInv, Whole, NEW v \in pool \cap (Tag \cup VM),
                      backing[v] # None, NEW d \in Anc[backing[v]]
               PROVE  d \in pool /\ content[d] = d /\ backing[d] = Parent[d]
    BY DEF ImageComplete
  <2>1. backing[v] \in Filled
    BY DEF Whole, Filled, Abstract!Complete, StandsOn
  <2>2. d \in Filled
    BY <2>1 DEF Whole
  <2> QED BY <2>2 DEF SerialInv, LayersSound, Filled
<1>4. "delete" \notin Faults
  OBVIOUS
<1>5. Spec => []SerialInv
  BY <1>4, SerialInvariant DEF Alone
<1> QED
  BY <1>1, <1>2, <1>3, <1>5, Refinement, TypeCorrect, PTL
     DEF ImplementsImageStore, Abstract!Spec

-----------------------------------------------------------------------------
(* Sources and layers of commands that nothing interrupts.                 *)

\* No working volume is left but the boot volumes and what p is importing.
WithSource == {"dyn_upload", "conv_find", "conv_clone", "conv_fill", "conv_delete"}
BuffersAt(p) ==
  \A w \in pool \cap Work : w \in VM \/ (pc[p] \in WithSource /\ w = src[p])

\* No call of an import fails once its buffer is there.
CleanAt(p) ==
  /\ pc[p] # "drop"
  /\ op[p] = "prune" => pc[p] \in {"prune_list", "prune_next"} \cup DelLabels
  /\ pc[p] \in {"rm_find", "vmrm_find", "undefine", "prune_tags", "prune_list",
               "prune_next"} => top[p] = None
  /\ pc[p] \in DelLabels /\ op[p] \notin ImportOps => top[p] = None
  /\ pc[p] \in {"dyn_create", "dyn_upload"} =>
       IF op[p] = "pull" THEN src[p] \notin VM ELSE top[p] = None
  /\ pc[p] \in {"pull_find", "dyn_create"} /\ top[p] # None => top[p] \in pool
  /\ pc[p] = "dyn_upload" => src[p] \in pool
  /\ pc[p] = "conv_delete" =>
       /\ src[p] \in pool /\ dig[p] \in pool \cap Layer
       /\ content[src[p]] = dig[p] /\ backing[src[p]] = Parent[dig[p]]
  /\ pc[p] \in DelLabels /\ op[p] # "prune" => cur[p] \in pool
  /\ pc[p] \in DelLabels /\ op[p] \in ImportOps => img[p] \notin pool \/ cur[p] = img[p]
  /\ pc[p] = "make_dep" => img[p] \in pool
  /\ pc[p] = "make_create" => img[p] \notin pool

\* The layers that may be without a user at the next call of p.
Spared(p) ==
  CASE pc[p] \in {"pull_find", "dyn_create"} \cup MakeLabels -> {top[p]}
    [] pc[p] \in {"conv_fill", "conv_delete"} -> {dig[p]}
    [] pc[p] \in DelLabels -> {cur[p], top[p]}
    [] OTHER -> {}

UsedAt(p) ==
  op[p] # "prune" => \A d \in pool \cap Layer : InUse(d) \/ d \in Spared(p)

CleanInv == \A p \in Procs : BuffersAt(p) /\ CleanAt(p) /\ UsedAt(p)

\* The calls of an import up to the upload keep it.
LEMMA ImportClean ==
  ASSUME OwnBuffers, Faults = {}, TypeOK, ControlOK, SerialInv, StoreInv, CleanInv,
         NEW p \in Procs, ImportStep(p)
  PROVE  BuffersAt(p)' /\ CleanAt(p)' /\ UsedAt(p)'
<1> StoreType /\ LocalType /\ ControlAt(p) /\ NoDangling /\ LayersSound
    /\ SerialAt(p) /\ SourceAt(p) /\ StoreAt(p) /\ FilledAt(p)
    /\ BuffersAt(p) /\ CleanAt(p) /\ UsedAt(p)
  BY DEF TypeOK, ControlOK, SerialInv, StoreInv, CleanInv
<1> USE NamesAssumption
    DEF Goto, store, cmd, work, walk, Volume, DelLabels, ImportOps,
        BufferLabels, MakeLabels, VMLabels, WithSource
<1>1. CASE PullFind(p)
  <2>0. \A d \in Anc[goal[p]] : d \in Layer /\ ImportVol[d] \in Work \ VM
    BY <1>1, ParentAssumption, BufferAssumption DEF PullFind, ControlAt, OwnBuffers
  <2>1. BuffersAt(p)'
    BY <1>1, <2>0 DEF BuffersAt, CleanAt, PullFind, ControlAt, LocalType, StoreType
  <2>2. CleanAt(p)'
    BY <1>1, <2>0 DEF CleanAt, StoreAt, BuffersAt, PullFind, ControlAt, LocalType, StoreType
  <2>3. UsedAt(p)'
    BY <1>1, <2>0
       DEF LayersSound, UsedAt, Spared, InUse, CleanAt, PullFind, ControlAt, LocalType,
           StoreType
  <2> QED BY <2>1, <2>2, <2>3
<1>2. CASE DynCreate(p)
  <2>1. BuffersAt(p)'
    BY <1>2
       DEF BuffersAt, CleanAt, DynCreate, ControlAt, LocalType, StoreType, CanCreate,
           CreateVol, Continue, Finish, locals
  <2>2. CleanAt(p)'
    BY <1>2
       DEF CleanAt, StoreAt, BuffersAt, DynCreate, ControlAt, LocalType, StoreType,
           CanCreate, CreateVol, Continue, Finish, locals
  <2>3. UsedAt(p)'
    BY <1>2
       DEF BuffersAt, LayersSound, UsedAt, Spared, InUse, CleanAt, DynCreate, ControlAt,
           LocalType, StoreType,
           CanCreate, CreateVol, Continue, Finish, locals
  <2> QED BY <2>1, <2>2, <2>3
<1>3. CASE DynUpload(p)
  <2>1. BuffersAt(p)'
    BY <1>3
       DEF BuffersAt, CleanAt, DynUpload, ControlAt, LocalType, StoreType, UploadVol,
           Continue, Finish, OnError, locals, Fault
  <2>2. CleanAt(p)'
    BY <1>3
       DEF CleanAt, StoreAt, BuffersAt, DynUpload, ControlAt, LocalType, StoreType,
           UploadVol, Continue, Finish, OnError, locals, Fault
  <2>3. UsedAt(p)'
    BY <1>3
       DEF StoreAt, LayersSound, UsedAt, Spared, InUse, CleanAt, DynUpload, ControlAt,
           LocalType, StoreType,
           UploadVol, Continue, Finish, OnError, locals, Fault
  <2> QED BY <2>1, <2>2, <2>3
<1>4. CASE Drop(p)
  BY <1>4 DEF Drop, CleanAt
<1> QED BY <1>1, <1>2, <1>3, <1>4 DEF ImportStep

\* The calls of ToVolumeLayer keep it.
LEMMA ConvClean ==
  ASSUME OwnBuffers, Faults = {}, TypeOK, ControlOK, SerialInv, StoreInv, CleanInv,
         NEW p \in Procs, ConvStep(p)
  PROVE  BuffersAt(p)' /\ CleanAt(p)' /\ UsedAt(p)'
<1> StoreType /\ LocalType /\ ControlAt(p) /\ NoDangling /\ LayersSound
    /\ SerialAt(p) /\ SourceAt(p) /\ StoreAt(p) /\ FilledAt(p)
    /\ BuffersAt(p) /\ CleanAt(p) /\ UsedAt(p)
  BY DEF TypeOK, ControlOK, SerialInv, StoreInv, CleanInv
<1> USE NamesAssumption
    DEF Goto, store, cmd, work, walk, Volume, DelLabels, ImportOps,
        BufferLabels, MakeLabels, VMLabels, WithSource
<1>1. CASE ConvFind(p)
  <2>1. BuffersAt(p)'
    BY <1>1
       DEF SourceAt, BuffersAt, CleanAt, ConvFind, ControlAt, LocalType, StoreType,
           Continue, DiffID, Finish, OnError, locals, Fault
  <2>2. CleanAt(p)'
    BY <1>1
       DEF SourceAt, CleanAt, StoreAt, BuffersAt, ConvFind, ControlAt, LocalType, StoreType,
           Continue, DiffID, Finish, OnError, locals, Fault
  <2>3. UsedAt(p)'
    BY <1>1
       DEF SourceAt, UsedAt, Spared, InUse, CleanAt, ConvFind, ControlAt, LocalType,
           StoreType, Continue, DiffID, Finish, OnError, locals, Fault
  <2> QED BY <2>1, <2>2, <2>3
<1>2. CASE ConvClone(p)
  <2>1. BuffersAt(p)'
    BY <1>2
       DEF SourceAt, NoDangling, StoreAt, BuffersAt, CleanAt, ConvClone, ControlAt,
           LocalType, StoreType, CanCreate,
           CreateVol, Continue, Finish, OnError, locals
  <2>2. CleanAt(p)'
    BY <1>2
       DEF SourceAt, NoDangling, CleanAt, StoreAt, BuffersAt, ConvClone, ControlAt,
           LocalType, StoreType,
           CanCreate, CreateVol, Continue, Finish, OnError, locals
  <2>3. UsedAt(p)'
    BY <1>2
       DEF SourceAt, NoDangling, StoreAt, UsedAt, Spared, InUse, CleanAt, ConvClone,
           ControlAt, LocalType, StoreType,
           CanCreate, CreateVol, Continue, Finish, OnError, locals
  <2> QED BY <2>1, <2>2, <2>3
<1>3. CASE ConvFill(p)
  <2>1. BuffersAt(p)'
    BY <1>3
       DEF SourceAt, StoreAt, BuffersAt, CleanAt, ConvFill, ControlAt, LocalType, StoreType,
           Continue, Finish, OnError, locals, Fault
  <2>2. CleanAt(p)'
    BY <1>3
       DEF SourceAt, CleanAt, StoreAt, BuffersAt, ConvFill, ControlAt, LocalType, StoreType,
           Continue, Finish, OnError, locals, Fault
  <2>3. UsedAt(p)'
    BY <1>3
       DEF SourceAt, UsedAt, Spared, InUse, CleanAt, ConvFill, ControlAt, LocalType,
           StoreType, Continue, Finish, OnError, locals, Fault
  <2> QED BY <2>1, <2>2, <2>3
<1>4. CASE ConvDelete(p)
  <2>1. BuffersAt(p)'
    BY <1>4
       DEF BuffersAt, CleanAt, ConvDelete, ControlAt, LocalType, StoreType, DeleteVol,
           Continue, Finish, locals, Fault
  <2>2. CleanAt(p)'
    BY <1>4
       DEF CleanAt, StoreAt, BuffersAt, ConvDelete, ControlAt, LocalType, StoreType,
           DeleteVol, Continue, Finish, locals, Fault
  <2>3. UsedAt(p)'
    BY <1>4
       DEF LayersSound, UsedAt, Spared, InUse, CleanAt, ConvDelete, ControlAt, LocalType,
           StoreType, DeleteVol, Continue, Finish, locals, Fault
  <2> QED BY <2>1, <2>2, <2>3
<1>5. CASE ConvUndo(p)
  BY <1>5 DEF ConvUndo, ControlAt
<1> QED BY <1>1, <1>2, <1>3, <1>4, <1>5 DEF ConvStep

\* The calls of MakeImage keep it.
LEMMA MakeClean ==
  ASSUME OwnBuffers, Faults = {}, TypeOK, ControlOK, SerialInv, StoreInv, CleanInv,
         NEW p \in Procs, MakeStep(p)
  PROVE  BuffersAt(p)' /\ CleanAt(p)' /\ UsedAt(p)'
<1> StoreType /\ LocalType /\ ControlAt(p) /\ NoDangling /\ LayersSound
    /\ SerialAt(p) /\ SourceAt(p) /\ StoreAt(p) /\ FilledAt(p)
    /\ BuffersAt(p) /\ CleanAt(p) /\ UsedAt(p)
  BY DEF TypeOK, ControlOK, SerialInv, StoreInv, CleanInv
<1> USE NamesAssumption
    DEF Goto, store, cmd, work, walk, Volume, DelLabels, ImportOps,
        BufferLabels, MakeLabels, VMLabels, WithSource
<1>1. CASE MakeFind(p)
  <2>1. BuffersAt(p)'
    BY <1>1
       DEF BuffersAt, CleanAt, MakeFind, ControlAt, LocalType, StoreType, Continue, locals
  <2>2. CleanAt(p)'
    BY <1>1
       DEF CleanAt, StoreAt, BuffersAt, MakeFind, ControlAt, LocalType, StoreType,
           Continue, locals
  <2>3. UsedAt(p)'
    BY <1>1
       DEF UsedAt, Spared, InUse, CleanAt, MakeFind, ControlAt, LocalType, StoreType,
           Continue, locals
  <2> QED BY <2>1, <2>2, <2>3
<1>2. CASE MakeDep(p)
  <2>1. BuffersAt(p)'
    BY <1>2
       DEF BuffersAt, CleanAt, MakeDep, ControlAt, LocalType, StoreType,
           DeleteAllIfUnused, Finish
  <2>2. CleanAt(p)'
    BY <1>2
       DEF CleanAt, StoreAt, BuffersAt, MakeDep, ControlAt, LocalType, StoreType,
           DeleteAllIfUnused, Finish
  <2>3. UsedAt(p)'
    BY <1>2
       DEF UsedAt, Spared, InUse, CleanAt, MakeDep, ControlAt, LocalType, StoreType,
           DeleteAllIfUnused, Finish
  <2> QED BY <2>1, <2>2, <2>3
<1>3. CASE MakeCreate(p)
  <2>1. BuffersAt(p)'
    BY <1>3
       DEF BuffersAt, CleanAt, MakeCreate, ControlAt, LocalType, StoreType, CanCreate,
           CreateVol, Finish
  <2>2. CleanAt(p)'
    BY <1>3
       DEF CleanAt, StoreAt, BuffersAt, MakeCreate, ControlAt, LocalType, StoreType,
           CanCreate, CreateVol, Finish
  <2>3. UsedAt(p)'
    BY <1>3
       DEF UsedAt, Spared, InUse, CleanAt, MakeCreate, ControlAt, LocalType, StoreType,
           CanCreate, CreateVol, Finish
  <2> QED BY <2>1, <2>2, <2>3
<1> QED BY <1>1, <1>2, <1>3 DEF MakeStep

\* The calls of DeleteAllIfUnused keep it.
LEMMA DelClean ==
  ASSUME OwnBuffers, Faults = {}, TypeOK, ControlOK, SerialInv, StoreInv, CleanInv,
         NEW p \in Procs, DelStep(p)
  PROVE  BuffersAt(p)' /\ CleanAt(p)' /\ UsedAt(p)'
<1> StoreType /\ LocalType /\ ControlAt(p) /\ NoDangling /\ LayersSound
    /\ SerialAt(p) /\ SourceAt(p) /\ StoreAt(p) /\ FilledAt(p)
    /\ BuffersAt(p) /\ CleanAt(p) /\ UsedAt(p)
  BY DEF TypeOK, ControlOK, SerialInv, StoreInv, CleanInv
<1> USE NamesAssumption
    DEF Goto, store, cmd, work, walk, Volume, DelLabels, ImportOps,
        BufferLabels, MakeLabels, VMLabels, WithSource
<1>1. CASE DelDep(p)
  <2>1. BuffersAt(p)'
    BY <1>1
       DEF BuffersAt, CleanAt, DelDep, ControlAt, LocalType, StoreType, AfterWalk,
           DelError, DelReturn, Finish
  <2>2. CleanAt(p)'
    BY <1>1
       DEF CleanAt, StoreAt, BuffersAt, DelDep, ControlAt, LocalType, StoreType,
           AfterWalk, DelError, DelReturn, Finish
  <2>3. UsedAt(p)'
    BY <1>1
       DEF UsedAt, Spared, InUse, CleanAt, DelDep, ControlAt, LocalType, StoreType,
           AfterWalk, DelError, DelReturn, Finish
  <2> QED BY <2>1, <2>2, <2>3
<1>2. CASE DelList(p)
  <2>1. BuffersAt(p)'
    BY <1>2 DEF BuffersAt, CleanAt, DelList, ControlAt, LocalType, StoreType
  <2>2. CleanAt(p)'
    BY <1>2 DEF CleanAt, StoreAt, BuffersAt, DelList, ControlAt, LocalType, StoreType
  <2>3. UsedAt(p)'
    BY <1>2 DEF UsedAt, Spared, InUse, CleanAt, DelList, ControlAt, LocalType, StoreType
  <2> QED BY <2>1, <2>2, <2>3
<1>3. CASE DelScan(p)
  <2>1. BuffersAt(p)'
    BY <1>3
       DEF BuffersAt, CleanAt, DelScan, ControlAt, LocalType, StoreType, AfterWalk,
           Continue, DelReturn, Finish, locals
  <2>2. CleanAt(p)'
    BY <1>3
       DEF CleanAt, StoreAt, BuffersAt, DelScan, ControlAt, LocalType, StoreType,
           AfterWalk, Continue, DelReturn, Finish, locals
  <2>3. UsedAt(p)'
    BY <1>3
       DEF UsedAt, Spared, InUse, CleanAt, DelScan, ControlAt, LocalType, StoreType,
           AfterWalk, Continue, DelReturn, Finish, locals
  <2> QED BY <2>1, <2>2, <2>3
<1>4. CASE DelDelete(p)
  <2>1. BuffersAt(p)'
    BY <1>4
       DEF BuffersAt, CleanAt, DelDelete, ControlAt, LocalType, StoreType, DeleteVol,
           AfterWalk, DelError, DelReturn, Finish, Fault
  <2>2. CleanAt(p)'
    BY <1>4
       DEF SerialAt, NoDangling, CleanAt, StoreAt, BuffersAt, DelDelete, ControlAt,
           LocalType, StoreType,
           DeleteVol, AfterWalk, DelError, DelReturn, Finish, Fault
  <2>3. UsedAt(p)'
    BY <1>4
       DEF SerialAt, UsedAt, Spared, InUse, CleanAt, DelDelete, ControlAt, LocalType,
           StoreType, DeleteVol, AfterWalk, DelError, DelReturn, Finish, Fault
  <2> QED BY <2>1, <2>2, <2>3
<1> QED BY <1>1, <1>2, <1>3, <1>4 DEF DelStep

\* The calls of image rm and image prune keep it.
LEMMA RmClean ==
  ASSUME OwnBuffers, Faults = {}, TypeOK, ControlOK, SerialInv, StoreInv, CleanInv,
         NEW p \in Procs, RmStep(p)
  PROVE  BuffersAt(p)' /\ CleanAt(p)' /\ UsedAt(p)'
<1> StoreType /\ LocalType /\ ControlAt(p) /\ NoDangling /\ LayersSound
    /\ SerialAt(p) /\ SourceAt(p) /\ StoreAt(p) /\ FilledAt(p)
    /\ BuffersAt(p) /\ CleanAt(p) /\ UsedAt(p)
  BY DEF TypeOK, ControlOK, SerialInv, StoreInv, CleanInv
<1> USE NamesAssumption
    DEF Goto, store, cmd, work, walk, Volume, DelLabels, ImportOps,
        BufferLabels, MakeLabels, VMLabels, WithSource
<1>1. CASE RmFind(p)
  <2>1. BuffersAt(p)'
    BY <1>1
       DEF BuffersAt, CleanAt, RmFind, ControlAt, LocalType, StoreType, DeleteAllIfUnused,
           Finish
  <2>2. CleanAt(p)'
    BY <1>1
       DEF CleanAt, StoreAt, BuffersAt, RmFind, ControlAt, LocalType, StoreType,
           DeleteAllIfUnused, Finish
  <2>3. UsedAt(p)'
    BY <1>1
       DEF UsedAt, Spared, InUse, CleanAt, RmFind, ControlAt, LocalType, StoreType,
           DeleteAllIfUnused, Finish
  <2> QED BY <2>1, <2>2, <2>3
<1>2. CASE PruneTags(p)
  <2>1. BuffersAt(p)'
    BY <1>2
       DEF BuffersAt, CleanAt, PruneTags, ControlAt, LocalType, StoreType,
           DeleteAllIfUnused, Finish
  <2>2. CleanAt(p)'
    BY <1>2
       DEF CleanAt, StoreAt, BuffersAt, PruneTags, ControlAt, LocalType, StoreType,
           DeleteAllIfUnused, Finish
  <2>3. UsedAt(p)'
    BY <1>2
       DEF UsedAt, Spared, InUse, CleanAt, PruneTags, ControlAt, LocalType, StoreType,
           DeleteAllIfUnused, Finish
  <2> QED BY <2>1, <2>2, <2>3
<1>3. CASE PruneList(p)
  <2>1. BuffersAt(p)'
    BY <1>3 DEF BuffersAt, CleanAt, PruneList, ControlAt, LocalType, StoreType
  <2>2. CleanAt(p)'
    BY <1>3 DEF CleanAt, StoreAt, BuffersAt, PruneList, ControlAt, LocalType, StoreType
  <2>3. UsedAt(p)'
    BY <1>3 DEF UsedAt, Spared, InUse, CleanAt, PruneList, ControlAt, LocalType, StoreType
  <2> QED BY <2>1, <2>2, <2>3
<1>4. CASE PruneNext(p)
  <2>1. BuffersAt(p)'
    BY <1>4
       DEF BuffersAt, CleanAt, PruneNext, ControlAt, LocalType, StoreType,
           DeleteAllIfUnused, Finish
  <2>2. CleanAt(p)'
    BY <1>4
       DEF CleanAt, StoreAt, BuffersAt, PruneNext, ControlAt, LocalType, StoreType,
           DeleteAllIfUnused, Finish
  <2>3. UsedAt(p)'
    BY <1>4
       DEF SerialAt, UsedAt, Spared, InUse, CleanAt, PruneNext, ControlAt, LocalType,
           StoreType, DeleteAllIfUnused, Finish
  <2> QED BY <2>1, <2>2, <2>3
<1> QED BY <1>1, <1>2, <1>3, <1>4 DEF RmStep

\* The calls of vm run, vm rm and vm commit keep it.
LEMMA VMClean ==
  ASSUME OwnBuffers, Faults = {}, TypeOK, ControlOK, SerialInv, StoreInv, CleanInv,
         NEW p \in Procs, VMStep(p)
  PROVE  BuffersAt(p)' /\ CleanAt(p)' /\ UsedAt(p)'
<1> StoreType /\ LocalType /\ ControlAt(p) /\ NoDangling /\ LayersSound
    /\ SerialAt(p) /\ SourceAt(p) /\ StoreAt(p) /\ FilledAt(p)
    /\ BuffersAt(p) /\ CleanAt(p) /\ UsedAt(p)
  BY DEF TypeOK, ControlOK, SerialInv, StoreInv, CleanInv
<1> USE NamesAssumption
    DEF Goto, store, cmd, work, walk, Volume, DelLabels, ImportOps,
        BufferLabels, MakeLabels, VMLabels, WithSource
<1>1. CASE SpawnFind(p)
  <2>1. BuffersAt(p)'
    BY <1>1 DEF BuffersAt, CleanAt, SpawnFind, ControlAt, LocalType, StoreType, Finish
  <2>2. CleanAt(p)'
    BY <1>1
       DEF CleanAt, StoreAt, BuffersAt, SpawnFind, ControlAt, LocalType, StoreType, Finish
  <2>3. UsedAt(p)'
    BY <1>1
       DEF UsedAt, Spared, InUse, CleanAt, SpawnFind, ControlAt, LocalType, StoreType,
           Finish
  <2> QED BY <2>1, <2>2, <2>3
<1>2. CASE SpawnDefine(p)
  <2>1. BuffersAt(p)'
    BY <1>2
       DEF BuffersAt, CleanAt, SpawnDefine, ControlAt, LocalType, StoreType, Continue,
           Finish, locals
  <2>2. CleanAt(p)'
    BY <1>2
       DEF CleanAt, StoreAt, BuffersAt, SpawnDefine, ControlAt, LocalType, StoreType,
           Continue, Finish, locals
  <2>3. UsedAt(p)'
    BY <1>2
       DEF UsedAt, Spared, InUse, CleanAt, SpawnDefine, ControlAt, LocalType, StoreType,
           Continue, Finish, locals
  <2> QED BY <2>1, <2>2, <2>3
<1>3. CASE SpawnCreate(p)
  <2>1. BuffersAt(p)'
    BY <1>3
       DEF BuffersAt, CleanAt, SpawnCreate, ControlAt, LocalType, StoreType, CanCreate,
           CreateVol, Finish
  <2>2. CleanAt(p)'
    BY <1>3
       DEF CleanAt, StoreAt, BuffersAt, SpawnCreate, ControlAt, LocalType, StoreType,
           CanCreate, CreateVol, Finish
  <2>3. UsedAt(p)'
    BY <1>3
       DEF UsedAt, Spared, InUse, CleanAt, SpawnCreate, ControlAt, LocalType, StoreType,
           CanCreate, CreateVol, Finish
  <2> QED BY <2>1, <2>2, <2>3
<1>4. CASE VMRmFind(p)
  <2>1. BuffersAt(p)'
    BY <1>4
       DEF BuffersAt, CleanAt, VMRmFind, ControlAt, LocalType, StoreType, Continue,
           DeleteAllIfUnused, locals
  <2>2. CleanAt(p)'
    BY <1>4
       DEF CleanAt, StoreAt, BuffersAt, VMRmFind, ControlAt, LocalType, StoreType,
           Continue, DeleteAllIfUnused, locals
  <2>3. UsedAt(p)'
    BY <1>4
       DEF UsedAt, Spared, InUse, CleanAt, VMRmFind, ControlAt, LocalType, StoreType,
           Continue, DeleteAllIfUnused, locals
  <2> QED BY <2>1, <2>2, <2>3
<1>5. CASE Undefine(p)
  <2>1. BuffersAt(p)'
    BY <1>5 DEF BuffersAt, CleanAt, Undefine, ControlAt, LocalType, StoreType, Finish
  <2>2. CleanAt(p)'
    BY <1>5
       DEF CleanAt, StoreAt, BuffersAt, Undefine, ControlAt, LocalType, StoreType, Finish
  <2>3. UsedAt(p)'
    BY <1>5
       DEF UsedAt, Spared, InUse, CleanAt, Undefine, ControlAt, LocalType, StoreType, Finish
  <2> QED BY <2>1, <2>2, <2>3
<1>6. CASE CommitRm(p)
  <2>1. BuffersAt(p)'
    BY <1>6
       DEF BuffersAt, CleanAt, CommitRm, ControlAt, LocalType, StoreType, Continue,
           Finish, locals
  <2>2. CleanAt(p)'
    BY <1>6
       DEF CleanAt, StoreAt, BuffersAt, CommitRm, ControlAt, LocalType, StoreType,
           Continue, Finish, locals
  <2>3. UsedAt(p)'
    BY <1>6
       DEF UsedAt, Spared, InUse, CleanAt, CommitRm, ControlAt, LocalType, StoreType,
           Continue, Finish, locals
  <2> QED BY <2>1, <2>2, <2>3
<1>7. CASE CommitFind(p)
  <2>1. BuffersAt(p)'
    BY <1>7
       DEF BuffersAt, CleanAt, CommitFind, ControlAt, LocalType, StoreType, Continue,
           Finish, locals
  <2>2. CleanAt(p)'
    BY <1>7
       DEF CleanAt, StoreAt, BuffersAt, CommitFind, ControlAt, LocalType, StoreType,
           Continue, Finish, locals
  <2>3. UsedAt(p)'
    BY <1>7
       DEF UsedAt, Spared, InUse, CleanAt, CommitFind, ControlAt, LocalType, StoreType,
           Continue, Finish, locals
  <2> QED BY <2>1, <2>2, <2>3
<1> QED BY <1>1, <1>2, <1>3, <1>4, <1>5, <1>6, <1>7 DEF VMStep

\* The invariant holds when invocations do not overlap and nothing interrupts them.
LEMMA CleanInvariant ==
  ASSUME Alone, OwnBuffers, Faults = {}
  PROVE  Spec => []CleanInv
<1>1. Init => CleanInv
  BY DEF Init, CleanInv, BuffersAt, CleanAt, UsedAt, DelLabels
<1>2. ASSUME TypeOK, ControlOK, SerialInv, StoreInv, CleanInv, [Next]_vars PROVE CleanInv'
  <2>1. CASE UNCHANGED vars
    BY <1>2, <2>1
       DEF CleanInv, BuffersAt, CleanAt, UsedAt, Spared, InUse, vars, store, locals, cmd,
           work, walk
  <2>2. ASSUME NEW p \in Procs, Command(p)
        PROVE  BuffersAt(p)' /\ CleanAt(p)' /\ UsedAt(p)'
    <3>1. /\ StoreType /\ LocalType /\ ControlAt(p)
          /\ BuffersAt(p) /\ CleanAt(p) /\ UsedAt(p)
      BY <1>2 DEF TypeOK, ControlOK, CleanInv
    <3>2. pc[p] \in Ended /\ top[p] = None /\ op[p] # "prune" /\ UNCHANGED <<store, top>>
      BY <2>2, <3>1
         DEF Command, Pull, Load, Fetch, Rm, Prune, Run, VMRm, Commit, Begin, Ended,
             ControlAt, CleanAt, DelLabels
    <3>3. /\ pc'[p] \in {"pull_find", "dyn_create", "rm_find", "prune_tags", "prune_list",
                         "spawn_find", "vmrm_find", "commit_rm"}
          /\ pc'[p] = "dyn_create" => op'[p] # "pull"
          /\ op'[p] = "prune" => pc'[p] = "prune_list"
      BY <2>2, <3>1
         DEF Command, Pull, Load, Fetch, Rm, Prune, Run, VMRm, Commit, Begin, Goto,
             LocalType
    <3>4. \A d \in pool \cap Layer : InUse(d)
      BY <3>1, <3>2, NamesAssumption DEF UsedAt, Spared, Ended, MakeLabels, DelLabels
    <3>5. BuffersAt(p)'
      BY <3>1, <3>2 DEF BuffersAt, WithSource, Ended, store
    <3>6. CleanAt(p)'
      BY <3>2, <3>3 DEF CleanAt, DelLabels, store
    <3>7. UsedAt(p)'
      BY <3>2, <3>4 DEF UsedAt, InUse, store
    <3> QED BY <3>5, <3>6, <3>7
  <2>3. ASSUME NEW p \in Procs, Step(p)
        PROVE  BuffersAt(p)' /\ CleanAt(p)' /\ UsedAt(p)'
    BY <1>2, <2>3, ImportClean, ConvClean, MakeClean, DelClean, RmClean, VMClean DEF Step
  <2>4. ASSUME NEW p \in Procs, Crash(p) PROVE FALSE
    BY <2>4 DEF Crash, Fault
  <2>5. ASSUME NEW p \in Procs, BuffersAt(p)' /\ CleanAt(p)' /\ UsedAt(p)' PROVE CleanInv'
    BY <2>5 DEF CleanInv, Alone
  <2> QED BY <1>2, <2>1, <2>2, <2>3, <2>4, <2>5 DEF Next
<1>3. "delete" \notin Faults /\ Faults \subseteq {"lookup"}
  OBVIOUS
<1>4. Spec => []SerialInv
  BY <1>3, SerialInvariant DEF Alone
<1>5. Spec => []StoreInv
  BY <1>3, StoreInvariant
<1> QED BY <1>1, <1>2, <1>4, <1>5, TypeCorrect, PTL DEF Spec

\* ToVolumeLayer deletes no working volume before the layer holds its content, be
\* the layer new or found, if invocations do not overlap and nothing fails.
THEOREM SourceIsCopied ==
  ASSUME Alone, OwnBuffers, Faults = {}
  PROVE  Spec => SourceCopied
<1>1. ASSUME TypeOK, ControlOK, StoreInv, CleanInv, [Next]_vars,
             NEW p \in Procs, pc[p] = "conv_delete" /\ src[p] \in pool \ pool'
      PROVE  \E d \in pool' \cap Layer : content'[d] = content[src[p]]
  <2>1. /\ StoreType /\ src[p] \in Work /\ dig[p] \in pool \cap Layer
        /\ content[src[p]] = dig[p] /\ content[dig[p]] = dig[p]
    BY <1>1
       DEF TypeOK, ControlOK, ControlAt, CleanInv, CleanAt, StoreInv, FilledAt,
           BufferLabels
  <2>2. Command(p) \/ Step(p) \/ Crash(p)
    BY <1>1 DEF Next, Alone, vars, store
  <2>3. ConvDelete(p)
    BY <1>1, <2>2
       DEF Step, ImportStep, ConvStep, MakeStep, DelStep, RmStep, VMStep, PullFind,
           DynCreate, DynUpload, Drop, ConvFind, ConvClone, ConvFill, ConvUndo, MakeFind,
           MakeDep, MakeCreate, DelDep, DelList, DelScan, DelDelete, RmFind, PruneTags,
           PruneList, PruneNext, SpawnFind, SpawnDefine, SpawnCreate, VMRmFind, Undefine,
           CommitRm, CommitFind, Command, Pull, Load, Fetch, Rm, Prune, Run, VMRm, Commit,
           Begin, Ended, Crash, Fault
  <2>4. DeleteVol(src[p])
    BY <1>1, <2>3 DEF ConvDelete, store
  <2>5. dig[p] \in pool' \cap Layer /\ content'[dig[p]] = dig[p]
    BY <2>1, <2>4, NamesAssumption DEF DeleteVol, StoreType
  <2> QED BY <2>1, <2>5
<1>2. Faults \subseteq {"lookup"}
  OBVIOUS
<1>3. Spec => []StoreInv
  BY <1>2, StoreInvariant
<1>4. TypeOK /\ ControlOK /\ StoreInv /\ CleanInv /\ [Next]_vars =>
        [\A p \in Procs :
           pc[p] = "conv_delete" /\ src[p] \in pool \ pool' =>
             \E d \in pool' \cap Layer : content'[d] = content[src[p]]]_vars
  BY <1>1
<1> QED
  BY <1>3, <1>4, CleanInvariant, TypeCorrect, PTL DEF Spec, SourceCopied

\* Between commands every layer has a user: whatever images, VMs and layers there
\* are, MakeImage, ImageRm and VMRm leave none behind that the image or VM that
\* goes was the last to use, and a pull none that its image does not need.
THEOREM NoGarbageLeft ==
  ASSUME Alone, OwnBuffers, Faults = {}
  PROVE  Spec => []NoGarbage
<1>1. ASSUME TypeOK, ControlOK, CleanInv, NEW p \in Procs PROVE NoGarbage
  <2> SUFFICES ASSUME \A q \in Procs : pc[q] \in Ended, NEW d \in pool \cap Layer
               PROVE  InUse(d)
    BY DEF NoGarbage
  <2> QED
    BY <1>1 DEF CleanInv, CleanAt, UsedAt, Spared, Ended, MakeLabels, DelLabels
<1>2. CASE Procs = {}
  <2> DEFINE Void == pool = {}
  <2>1. Init => Void
    BY DEF Init
  <2>2. Void /\ [Next]_vars => Void'
    BY <1>2 DEF Next, vars, store
  <2>3. Void => NoGarbage
    BY DEF NoGarbage
  <2> HIDE DEF Void
  <2> QED BY <2>1, <2>2, <2>3, PTL DEF Spec
<1>3. CASE Procs # {}
  <2>1. TypeOK /\ ControlOK /\ CleanInv => NoGarbage
    BY <1>1, <1>3
  <2> QED BY <2>1, CleanInvariant, TypeCorrect, PTL
<1> QED BY <1>2, <1>3

=============================================================================
