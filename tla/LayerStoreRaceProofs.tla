------------------------ MODULE LayerStoreRaceProofs ------------------------
(***************************************************************************)
(* Theorems about LayerStore for any number of concurrent invocations that *)
(* pull, remove and prune images and run and remove VMs, with faults of    *)
(* every kind at any point.                                                *)
(***************************************************************************)
EXTENDS LayerStoreProofs

\* The buffer of a layer's import belongs to that layer alone.
OwnBuffers ==
  /\ \A d, e \in Layer : ImportVol[d] = ImportVol[e] => d = e
  /\ \A d \in Layer : ImportVol[d] \notin VM

\* The buffer "import-<d>" stands on the parent of d and holds d or nothing,
\* whoever created and filled it.
BuffersSound ==
  \A d \in Layer :
    ImportVol[d] \in pool =>
      /\ content[ImportVol[d]] \in {d, None}
      /\ backing[ImportVol[d]] = Parent[d]

\* An import works on the buffer of the layer it wants to create.
PullAt(p) ==
  /\ op[p] \notin {"load", "fetch", "commit"}
  /\ pc[p] \in {"dyn_create", "dyn_upload", "conv_find", "conv_clone", "conv_fill"} =>
       dig[p] \in Layer /\ src[p] = ImportVol[dig[p]]

PullLocal == \A p \in Procs : PullAt(p)

PullInv == LayersSound /\ BuffersSound /\ PullLocal

-----------------------------------------------------------------------------
(* What happens to the volumes.                                            *)

\* A deletion leaves the remaining volumes alone.
LEMMA DeletePull ==
  ASSUME StoreType, LayersSound, BuffersSound, NEW v, DeleteVol(v)
  PROVE  LayersSound' /\ BuffersSound'
<1> USE NamesAssumption, BufferAssumption DEF Volume
<1>1. LayersSound'
  BY DEF StoreType, LayersSound, DeleteVol
<1>2. BuffersSound'
  BY DEF StoreType, BuffersSound, DeleteVol
<1> QED BY <1>1, <1>2

\* The creation of a tag or boot volume leaves layers and buffers alone.
LEMMA CreatePull ==
  ASSUME StoreType, LayersSound, BuffersSound, OwnBuffers,
         NEW v \in Tag \cup VM, NEW b, CreateVol(v, b)
  PROVE  LayersSound' /\ BuffersSound'
<1> USE NamesAssumption, BufferAssumption DEF Volume
<1>1. LayersSound'
  BY DEF StoreType, LayersSound, CreateVol
<1>2. BuffersSound'
  BY DEF StoreType, BuffersSound, OwnBuffers, CreateVol
<1> QED BY <1>1, <1>2

\* Nothing happens to the volumes.
LEMMA SamePull ==
  ASSUME LayersSound, BuffersSound, UNCHANGED store
  PROVE  LayersSound' /\ BuffersSound'
BY DEF store, LayersSound, BuffersSound

\* The end of a command suits every invocation.
LEMMA FinishPull ==
  ASSUME LocalType, PullLocal, NEW p \in Procs, NEW r \in Ended, Finish(p, r)
  PROVE  PullLocal'
BY DEF LocalType, PullLocal, PullAt, Finish, Goto, Ended

-----------------------------------------------------------------------------
(* One lemma per group of actions.                                         *)

\* The calls of an import up to the upload.
LEMMA ImportPull ==
  ASSUME TypeOK, ControlOK, PullInv, OwnBuffers, NEW p \in Procs, ImportStep(p)
  PROVE  PullInv'
<1> StoreType /\ LocalType /\ ControlAt(p) /\ LayersSound /\ BuffersSound
    /\ PullLocal /\ PullAt(p)
  BY DEF TypeOK, ControlOK, PullInv, PullLocal
<1> USE NamesAssumption, BufferAssumption
    DEF Goto, store, cmd, work, walk, Volume, ImportOps, BufferLabels, Ended
<1>1. CASE PullFind(p)
  <2>1. LayersSound' /\ BuffersSound'
    BY <1>1, SamePull DEF PullFind
  <2>2. \A d \in Anc[goal[p]] : d \in Layer
    BY <1>1, ParentAssumption DEF PullFind, ControlAt
  <2>3. PullLocal'
    BY <1>1, <2>2 DEF PullFind, LocalType, PullLocal, PullAt
  <2> QED BY <2>1, <2>3 DEF PullInv
<1>2. CASE DynCreate(p)
  <2>1. dig[p] \in Layer /\ src[p] = ImportVol[dig[p]] /\ top[p] = Parent[dig[p]]
    BY <1>2 DEF DynCreate, ControlAt, PullAt
  <2>2. LayersSound'
    BY <1>2, <2>1 DEF DynCreate, StoreType, LayersSound, CreateVol
  <2>3. BuffersSound'
    BY <1>2, <2>1 DEF DynCreate, StoreType, BuffersSound, OwnBuffers, CreateVol
  <2>4. PullLocal'
    BY <1>2, <2>1, FinishPull
       DEF DynCreate, LocalType, PullLocal, PullAt, Continue, locals
  <2> QED BY <2>2, <2>3, <2>4 DEF PullInv
<1>3. CASE DynUpload(p)
  <2>1. dig[p] \in Layer /\ src[p] = ImportVol[dig[p]]
    BY <1>3 DEF DynUpload, PullAt
  <2>2. LayersSound'
    BY <1>3, <2>1 DEF DynUpload, StoreType, LayersSound, UploadVol
  <2>3. BuffersSound'
    BY <1>3, <2>1 DEF DynUpload, StoreType, BuffersSound, OwnBuffers, UploadVol
  <2>4. PullLocal'
    BY <1>3, <2>1, FinishPull
       DEF DynUpload, OnError, LocalType, PullLocal, PullAt, Continue, locals
  <2> QED BY <2>2, <2>3, <2>4 DEF PullInv
<1>4. CASE Drop(p)
  <2>1. LayersSound' /\ BuffersSound'
    BY <1>4, DeletePull DEF Drop
  <2>2. PullLocal'
    BY <1>4, FinishPull DEF Drop
  <2> QED BY <2>1, <2>2 DEF PullInv
<1> QED BY <1>1, <1>2, <1>3, <1>4 DEF ImportStep

\* The calls of ToVolumeLayer.
LEMMA ConvPull ==
  ASSUME TypeOK, ControlOK, PullInv, OwnBuffers, NEW p \in Procs, ConvStep(p)
  PROVE  PullInv'
<1> StoreType /\ LocalType /\ ControlAt(p) /\ LayersSound /\ BuffersSound
    /\ PullLocal /\ PullAt(p)
  BY DEF TypeOK, ControlOK, PullInv, PullLocal
<1> USE NamesAssumption, BufferAssumption
    DEF Goto, store, cmd, work, walk, Volume, ImportOps, BufferLabels, Ended
<1>1. CASE ConvFind(p)
  <2>1. LayersSound' /\ BuffersSound'
    BY <1>1, SamePull DEF ConvFind
  <2>2. DiffID(p) = dig[p]
    BY <1>1 DEF ConvFind, DiffID, PullAt
  <2>3. PullLocal'
    BY <1>1, <2>2, FinishPull
       DEF ConvFind, OnError, LocalType, PullLocal, PullAt, Continue, locals
  <2> QED BY <2>1, <2>3 DEF PullInv
<1>2. CASE ConvClone(p)
  <2>1. dig[p] \in Layer /\ src[p] = ImportVol[dig[p]]
    BY <1>2 DEF ConvClone, PullAt
  <2>2. LayersSound'
    BY <1>2, <2>1 DEF ConvClone, StoreType, LayersSound, BuffersSound, CreateVol
  <2>3. BuffersSound'
    BY <1>2, <2>1 DEF ConvClone, StoreType, BuffersSound, CreateVol
  <2>4. PullLocal'
    BY <1>2, <2>1, FinishPull
       DEF ConvClone, OnError, LocalType, PullLocal, PullAt, Continue, locals
  <2> QED BY <2>2, <2>3, <2>4 DEF PullInv
<1>3. CASE ConvFill(p)
  <2>1. dig[p] \in Layer /\ src[p] = ImportVol[dig[p]]
    BY <1>3 DEF ConvFill, PullAt
  <2>2. LayersSound'
    BY <1>3, <2>1 DEF ConvFill, StoreType, LayersSound, BuffersSound
  <2>3. BuffersSound'
    BY <1>3, <2>1 DEF ConvFill, StoreType, BuffersSound
  <2>4. PullLocal'
    BY <1>3, FinishPull
       DEF ConvFill, OnError, LocalType, PullLocal, PullAt, Continue, locals
  <2> QED BY <2>2, <2>3, <2>4 DEF PullInv
<1>4. CASE ConvDelete(p)
  <2>1. LayersSound' /\ BuffersSound'
    BY <1>4, DeletePull, SamePull DEF ConvDelete
  <2>2. PullLocal'
    BY <1>4, FinishPull
       DEF ConvDelete, LocalType, PullLocal, PullAt, Continue, locals
  <2> QED BY <2>1, <2>2 DEF PullInv
<1>5. CASE ConvUndo(p)
  <2>1. LayersSound' /\ BuffersSound'
    BY <1>5, DeletePull, SamePull DEF ConvUndo
  <2>2. PullLocal'
    BY <1>5, FinishPull
       DEF ConvUndo, OnError, LocalType, PullLocal, PullAt, Continue, locals
  <2> QED BY <2>1, <2>2 DEF PullInv
<1> QED BY <1>1, <1>2, <1>3, <1>4, <1>5 DEF ConvStep

\* The calls of MakeImage.
LEMMA MakePull ==
  ASSUME TypeOK, ControlOK, PullInv, OwnBuffers, NEW p \in Procs, MakeStep(p)
  PROVE  PullInv'
<1> StoreType /\ LocalType /\ ControlAt(p) /\ LayersSound /\ BuffersSound
    /\ PullLocal /\ PullAt(p)
  BY DEF TypeOK, ControlOK, PullInv, PullLocal
<1> USE DEF Goto, cmd, work, walk, ImportOps, MakeLabels, Ended
<1>1. CASE MakeFind(p)
  <2>1. LayersSound' /\ BuffersSound'
    BY <1>1, SamePull DEF MakeFind
  <2>2. PullLocal'
    BY <1>1 DEF MakeFind, LocalType, PullLocal, PullAt, Continue, locals
  <2> QED BY <2>1, <2>2 DEF PullInv
<1>2. CASE MakeDep(p)
  <2>1. LayersSound' /\ BuffersSound'
    BY <1>2, SamePull DEF MakeDep
  <2>2. PullLocal'
    BY <1>2, FinishPull
       DEF MakeDep, DeleteAllIfUnused, LocalType, PullLocal, PullAt
  <2> QED BY <2>1, <2>2 DEF PullInv
<1>3. CASE MakeCreate(p)
  <2>1. img[p] \in Tag \cup VM
    BY <1>3 DEF MakeCreate, ControlAt
  <2>2. LayersSound' /\ BuffersSound'
    BY <1>3, <2>1, CreatePull, SamePull DEF MakeCreate
  <2>3. PullLocal'
    BY <1>3, FinishPull DEF MakeCreate
  <2> QED BY <2>2, <2>3 DEF PullInv
<1> QED BY <1>1, <1>2, <1>3 DEF MakeStep

\* The calls of DeleteAllIfUnused.
LEMMA DelPull ==
  ASSUME TypeOK, ControlOK, PullInv, NEW p \in Procs, DelStep(p)
  PROVE  PullInv'
<1> StoreType /\ LocalType /\ LayersSound /\ BuffersSound /\ PullLocal
  BY DEF TypeOK, PullInv
<1> USE DEF Goto, cmd, work, walk, Ended, AfterWalk
<1>1. ASSUME DelReturn(p) PROVE PullLocal'
  BY <1>1, FinishPull DEF DelReturn, LocalType, PullLocal, PullAt
<1>2. ASSUME DelError(p) PROVE PullLocal'
  BY <1>1, <1>2, FinishPull DEF DelError
<1>3. CASE DelDep(p)
  <2>1. LayersSound' /\ BuffersSound'
    BY <1>3, SamePull DEF DelDep
  <2>2. PullLocal'
    BY <1>2, <1>3 DEF DelDep, LocalType, PullLocal, PullAt
  <2> QED BY <2>1, <2>2 DEF PullInv
<1>4. CASE DelList(p)
  <2>1. LayersSound' /\ BuffersSound'
    BY <1>4, SamePull DEF DelList
  <2>2. PullLocal'
    BY <1>4 DEF DelList, LocalType, PullLocal, PullAt
  <2> QED BY <2>1, <2>2 DEF PullInv
<1>5. CASE DelScan(p)
  <2>1. LayersSound' /\ BuffersSound'
    BY <1>5, SamePull DEF DelScan
  <2>2. PullLocal'
    BY <1>1, <1>5 DEF DelScan, LocalType, PullLocal, PullAt, Continue, locals
  <2> QED BY <2>1, <2>2 DEF PullInv
<1>6. CASE DelDelete(p)
  <2>1. LayersSound' /\ BuffersSound'
    BY <1>6, DeletePull, SamePull DEF DelDelete
  <2>2. PullLocal'
    BY <1>1, <1>2, <1>6 DEF DelDelete, LocalType, PullLocal, PullAt
  <2> QED BY <2>1, <2>2 DEF PullInv
<1> QED BY <1>3, <1>4, <1>5, <1>6 DEF DelStep

\* The calls of image rm and image prune.
LEMMA RmPull ==
  ASSUME TypeOK, PullInv, NEW p \in Procs, RmStep(p)
  PROVE  PullInv'
<1> LocalType /\ LayersSound /\ BuffersSound /\ PullLocal
  BY DEF TypeOK, PullInv
<1> USE DEF Goto, cmd, work, walk, Ended, DeleteAllIfUnused
<1>1. LayersSound' /\ BuffersSound'
  BY SamePull DEF RmStep, RmFind, PruneTags, PruneList, PruneNext
<1>2. CASE RmFind(p)
  BY <1>1, <1>2, FinishPull DEF RmFind, LocalType, PullInv, PullLocal, PullAt
<1>3. CASE PruneTags(p)
  BY <1>1, <1>3, FinishPull DEF PruneTags, LocalType, PullInv, PullLocal, PullAt
<1>4. CASE PruneList(p)
  BY <1>1, <1>4 DEF PruneList, LocalType, PullInv, PullLocal, PullAt
<1>5. CASE PruneNext(p)
  BY <1>1, <1>5, FinishPull DEF PruneNext, LocalType, PullInv, PullLocal, PullAt
<1> QED BY <1>2, <1>3, <1>4, <1>5 DEF RmStep

\* The calls of vm run and vm rm.
LEMMA VMPull ==
  ASSUME TypeOK, ControlOK, PullInv, OwnBuffers, NEW p \in Procs, VMStep(p)
  PROVE  PullInv'
<1> StoreType /\ LocalType /\ ControlAt(p) /\ LayersSound /\ BuffersSound
    /\ PullLocal /\ PullAt(p)
  BY DEF TypeOK, ControlOK, PullInv, PullLocal
<1> USE DEF Goto, cmd, work, walk, Ended, VMLabels
<1>1. CASE SpawnFind(p)
  <2>1. LayersSound' /\ BuffersSound'
    BY <1>1, SamePull DEF SpawnFind
  <2>2. PullLocal'
    BY <1>1, FinishPull DEF SpawnFind, LocalType, PullLocal, PullAt
  <2> QED BY <2>1, <2>2 DEF PullInv
<1>2. CASE SpawnDefine(p)
  <2>1. LayersSound' /\ BuffersSound'
    BY <1>2, SamePull DEF SpawnDefine
  <2>2. PullLocal'
    BY <1>2, FinishPull
       DEF SpawnDefine, LocalType, PullLocal, PullAt, Continue, locals
  <2> QED BY <2>1, <2>2 DEF PullInv
<1>3. CASE SpawnCreate(p)
  <2>1. src[p] \in Tag \cup VM
    BY <1>3 DEF SpawnCreate, ControlAt
  <2>2. LayersSound' /\ BuffersSound'
    BY <1>3, <2>1, CreatePull, SamePull DEF SpawnCreate
  <2>3. PullLocal'
    BY <1>3, FinishPull DEF SpawnCreate
  <2> QED BY <2>2, <2>3 DEF PullInv
<1>4. CASE VMRmFind(p)
  <2>1. LayersSound' /\ BuffersSound'
    BY <1>4, SamePull DEF VMRmFind
  <2>2. PullLocal'
    BY <1>4 DEF VMRmFind, DeleteAllIfUnused, LocalType, PullLocal, PullAt,
                Continue, locals
  <2> QED BY <2>1, <2>2 DEF PullInv
<1>5. CASE Undefine(p)
  <2>1. LayersSound' /\ BuffersSound'
    BY <1>5, SamePull DEF Undefine
  <2>2. PullLocal'
    BY <1>5, FinishPull DEF Undefine
  <2> QED BY <2>1, <2>2 DEF PullInv
<1>6. ~CommitRm(p) /\ ~CommitFind(p)
  BY DEF CommitRm, CommitFind, ControlAt, PullAt
<1> QED BY <1>1, <1>2, <1>3, <1>4, <1>5, <1>6 DEF VMStep

\* The start of a command.
LEMMA BeginPull ==
  ASSUME Ops \cap {"load", "fetch", "commit"} = {},
         TypeOK, PullInv, NEW p \in Procs, Command(p)
  PROVE  PullInv'
<1> LocalType /\ LayersSound /\ BuffersSound /\ PullLocal
  BY DEF TypeOK, PullInv
<1>1. ~Load(p) /\ ~Fetch(p) /\ ~Commit(p)
  BY DEF Load, Fetch, Commit, Begin
<1>2. UNCHANGED store
  BY DEF Command, Pull, Load, Fetch, Rm, Prune, Run, VMRm, Commit, Begin
<1>3. \E l \in {"pull_find", "rm_find", "prune_tags", "prune_list", "spawn_find",
               "vmrm_find"}, o \in Ops :
        /\ pc' = [pc EXCEPT ![p] = l]
        /\ op' = [op EXCEPT ![p] = o]
        /\ \A q \in Procs : q # p => src'[q] = src[q] /\ dig'[q] = dig[q]
  BY <1>1 DEF Command, Pull, Rm, Prune, Run, VMRm, Begin, Goto, LocalType
<1>4. PullLocal'
  BY <1>3 DEF LocalType, PullLocal, PullAt
<1> QED BY <1>2, <1>4, SamePull DEF PullInv

-----------------------------------------------------------------------------
\* Every step of every invocation keeps the invariant.
LEMMA PullStep ==
  ASSUME OwnBuffers, Ops \cap {"load", "fetch", "commit"} = {},
         TypeOK, ControlOK, PullInv, [Next]_vars
  PROVE  PullInv'
<1>1. ASSUME NEW p \in Procs, Command(p) PROVE PullInv'
  BY <1>1, BeginPull
<1>2. ASSUME NEW p \in Procs, Step(p) PROVE PullInv'
  BY <1>2, ImportPull, ConvPull, MakePull, DelPull, RmPull, VMPull DEF Step
<1>3. ASSUME NEW p \in Procs, Crash(p) PROVE PullInv'
  BY <1>3, SamePull, FinishPull DEF TypeOK, PullInv, Crash, Ended
<1>4. CASE UNCHANGED vars
  BY <1>4, SamePull
     DEF vars, locals, cmd, work, PullInv, PullLocal, PullAt
<1> QED BY <1>1, <1>2, <1>3, <1>4 DEF Next

\* However many invocations pull, remove and prune images and run and remove
\* VMs at the same time, and wherever they fail or die, a layer volume stands
\* on the layer its digest implies and holds its content or nothing valid: two
\* pulls that fill the same buffer, or that find a layer the other has just
\* created, cannot mix up what they write.
THEOREM ConcurrentLayersSound ==
  ASSUME OwnBuffers, Ops \cap {"load", "fetch", "commit"} = {}
  PROVE  Spec => []LayersSound
<1>1. Init => PullInv
  BY DEF Init, PullInv, LayersSound, BuffersSound, PullLocal, PullAt
<1>2. TypeOK /\ ControlOK /\ PullInv /\ [Next]_vars => PullInv'
  BY PullStep
<1>3. PullInv => LayersSound
  BY DEF PullInv
<1> QED BY <1>1, <1>2, <1>3, TypeCorrect, PTL DEF Spec
=============================================================================
