-------------------------- MODULE LayerStoreProofs --------------------------
(***************************************************************************)
(* Theorems about LayerStore, for any sets of images, layers and VMs and   *)
(* any layer forest.                                                       *)
(***************************************************************************)
EXTENDS LayerStore, TLAPS

-----------------------------------------------------------------------------
(* The inductive invariant: what the local variables are at each label.    *)

ImportOps == {"pull", "load", "fetch", "commit"}
BufferLabels == {"dyn_create", "dyn_upload", "drop", "conv_find", "conv_clone",
                 "conv_fill", "conv_delete", "conv_undo"}
MakeLabels == {"make_find", "make_dep", "make_create"}
VMLabels == {"spawn_find", "spawn_define", "spawn_create", "vmrm_find",
             "undefine", "commit_rm", "commit_find"}
DelLabels == {"del_dep", "del_list", "del_scan", "del_delete"}

\* The local variables of p suit its command and its next call.
ControlAt(p) ==
  /\ op[p] \in ImportOps => img[p] \in Tag
  /\ op[p] = "pull" => goal[p] \in Layer
  /\ op[p] = "vmrm" => src[p] \in VM
  /\ pc[p] \in Ended => top[p] = None
  /\ pc[p] = "pull_find" => op[p] = "pull"
  /\ pc[p] \in BufferLabels => op[p] \in ImportOps /\ src[p] \in Work
  /\ pc[p] \in {"dyn_create", "dyn_upload", "conv_clone", "conv_fill"} =>
       dig[p] \in Layer
  /\ pc[p] \in {"dyn_create", "dyn_upload"} => Parent[dig[p]] = top[p]
  /\ pc[p] = "conv_undo" => "delete" \in Faults
  /\ pc[p] \in MakeLabels => op[p] \in ImportOps
  /\ pc[p] \in {"rm_find", "spawn_find"} => img[p] \in Tag
  /\ pc[p] = "rm_find" => op[p] = "rm"
  /\ pc[p] = "vmrm_find" => op[p] = "vmrm"
  /\ pc[p] = "prune_tags" => op[p] = "prune_unused"
  /\ pc[p] \in {"prune_list", "prune_next"} => op[p] = "prune"
  /\ pc[p] \in VMLabels => src[p] \in VM
  /\ pc[p] \in {"commit_rm", "commit_find"} => op[p] = "commit"
  /\ pc[p] \in DelLabels =>
       /\ cur[p] \in Volume
       /\ op[p] \in ImportOps \cup {"rm", "vmrm", "prune_unused", "prune"}

ControlOK == \A p \in Procs : ControlAt(p)

-----------------------------------------------------------------------------
(* Type correctness.                                                       *)

\* Ending a command resets the local variables.
LEMMA FinishType ==
  ASSUME LocalType, ControlOK, NEW p \in Procs, NEW r \in Ended, Finish(p, r)
  PROVE  LocalType' /\ ControlOK'
<1>1. LocalType'
  BY DEF LocalType, Finish, Goto, Labels, OpNames
<1>2. ControlOK'
  BY DEF ControlOK, ControlAt, LocalType, Finish, Goto, Ended, ImportOps,
         BufferLabels, MakeLabels, VMLabels, DelLabels
<1> QED BY <1>1, <1>2

\* Going on keeps the types of the local variables.
LEMMA ContinueType ==
  ASSUME LocalType, NEW p \in Procs, NEW l \in Labels, Continue(p, l)
  PROVE  LocalType'
BY DEF LocalType, Continue, Goto, locals, cmd, work, walk

\* The calls of an import up to the upload keep the types.
LEMMA ImportType ==
  ASSUME TypeOK, ControlOK, NEW p \in Procs, ImportStep(p)
  PROVE  TypeOK' /\ ControlOK'
<1> StoreType /\ LocalType
  BY DEF TypeOK
<1> USE DEF Goto, store, cmd, work, walk, Labels, Ended, OpNames, Volume,
            ImportOps, BufferLabels, MakeLabels, VMLabels, DelLabels
<1>1. CASE PullFind(p)
  <2>0. \A d \in Anc[goal[p]] : d \in Layer /\ ImportVol[d] \in Work
    BY <1>1, ParentAssumption, BufferAssumption
       DEF PullFind, ControlOK, ControlAt
  <2>1. StoreType'
    BY <1>1, <2>0 DEF StoreType, PullFind
  <2>2. LocalType'
    BY <1>1, <2>0 DEF PullFind, LocalType, StoreType, ControlOK, ControlAt
  <2>3. ControlOK'
    BY <1>1, <2>0 DEF PullFind, LocalType, ControlOK, ControlAt
  <2> QED BY <2>1, <2>2, <2>3 DEF TypeOK
<1>2. CASE DynCreate(p)
  <2>1. StoreType'
    BY <1>2, NamesAssumption, BoundAssumption
       DEF StoreType, DynCreate, LocalType, ControlOK, ControlAt, CanCreate,
          CreateVol
  <2>2. LocalType'
    BY <1>2, FinishType, ContinueType
       DEF DynCreate, LocalType, StoreType, ControlOK, ControlAt
  <2>3. ControlOK'
    BY <1>2, FinishType
       DEF DynCreate, LocalType, ControlOK, ControlAt, Continue, locals
  <2> QED BY <2>1, <2>2, <2>3 DEF TypeOK
<1>3. CASE DynUpload(p)
  <2>0. dig[p] \in Layer /\ Parent[dig[p]] \in Layer \cup {None}
    BY <1>3, ParentAssumption DEF DynUpload, ControlOK, ControlAt
  <2>1. StoreType'
    BY <1>3, <2>0, NamesAssumption, BoundAssumption
       DEF StoreType, DynUpload, LocalType, ControlOK, ControlAt, Fault,
          UploadVol
  <2>2. LocalType'
    BY <1>3, <2>0, FinishType, ContinueType
       DEF DynUpload, LocalType, StoreType, ControlOK, ControlAt, OnError
  <2>3. ControlOK'
    BY <1>3, <2>0, FinishType
       DEF DynUpload, LocalType, ControlOK, ControlAt, Continue, locals,
          OnError
  <2> QED BY <2>1, <2>2, <2>3 DEF TypeOK
<1>4. CASE Drop(p)
  <2>1. StoreType'
    BY <1>4, NamesAssumption, BoundAssumption
       DEF StoreType, Drop, LocalType, ControlOK, ControlAt, DeleteVol
  <2>2. LocalType'
    BY <1>4, FinishType DEF Drop, LocalType, StoreType, ControlOK, ControlAt
  <2>3. ControlOK'
    BY <1>4, FinishType DEF Drop, LocalType, ControlOK, ControlAt
  <2> QED BY <2>1, <2>2, <2>3 DEF TypeOK
<1> QED BY <1>1, <1>2, <1>3, <1>4 DEF ImportStep

\* The calls of ToVolumeLayer keep the types.
LEMMA ConvType ==
  ASSUME TypeOK, ControlOK, NEW p \in Procs, ConvStep(p)
  PROVE  TypeOK' /\ ControlOK'
<1> StoreType /\ LocalType
  BY DEF TypeOK
<1> USE DEF Goto, store, cmd, work, walk, Labels, Ended, OpNames, Volume,
            ImportOps, BufferLabels, MakeLabels, VMLabels, DelLabels
<1>1. CASE ConvFind(p)
  <2>0. DiffID(p) \in Layer \cup {None}
    BY <1>1 DEF ConvFind, DiffID, StoreType, LocalType, ControlOK, ControlAt
  <2>1. StoreType'
    BY <1>1, <2>0, NamesAssumption, BoundAssumption
       DEF StoreType, ConvFind, LocalType, ControlOK, ControlAt, Fault
  <2>2. LocalType'
    BY <1>1, <2>0, FinishType, ContinueType
       DEF ConvFind, LocalType, StoreType, ControlOK, ControlAt, OnError
  <2>3. ControlOK'
    BY <1>1, <2>0, FinishType
       DEF ConvFind, LocalType, ControlOK, ControlAt, Continue, locals,
          OnError
  <2> QED BY <2>1, <2>2, <2>3 DEF TypeOK
<1>2. CASE ConvClone(p)
  <2>1. StoreType'
    BY <1>2, NamesAssumption, BoundAssumption
       DEF StoreType, ConvClone, LocalType, ControlOK, ControlAt, CanCreate,
          CreateVol
  <2>2. LocalType'
    BY <1>2, FinishType, ContinueType
       DEF ConvClone, LocalType, StoreType, ControlOK, ControlAt, OnError
  <2>3. ControlOK'
    BY <1>2, FinishType
       DEF ConvClone, LocalType, ControlOK, ControlAt, Continue, locals,
          OnError
  <2> QED BY <2>1, <2>2, <2>3 DEF TypeOK
<1>3. CASE ConvFill(p)
  <2>1. StoreType'
    BY <1>3, NamesAssumption, BoundAssumption
       DEF StoreType, ConvFill, LocalType, ControlOK, ControlAt, Fault
  <2>2. LocalType'
    BY <1>3, FinishType, ContinueType
       DEF ConvFill, LocalType, StoreType, ControlOK, ControlAt, OnError
  <2>3. ControlOK'
    BY <1>3, FinishType
       DEF ConvFill, LocalType, ControlOK, ControlAt, Continue, locals,
          OnError
  <2> QED BY <2>1, <2>2, <2>3 DEF TypeOK
<1>4. CASE ConvDelete(p)
  <2>1. StoreType'
    BY <1>4, NamesAssumption, BoundAssumption
       DEF StoreType, ConvDelete, LocalType, ControlOK, ControlAt, DeleteVol,
          Fault
  <2>2. LocalType'
    BY <1>4, FinishType, ContinueType
       DEF ConvDelete, LocalType, StoreType, ControlOK, ControlAt
  <2>3. ControlOK'
    BY <1>4, FinishType
       DEF ConvDelete, LocalType, ControlOK, ControlAt, Continue, locals,
          Fault
  <2> QED BY <2>1, <2>2, <2>3 DEF TypeOK
<1>5. CASE ConvUndo(p)
  <2>1. StoreType'
    BY <1>5, NamesAssumption, BoundAssumption
       DEF StoreType, ConvUndo, LocalType, ControlOK, ControlAt, DeleteVol
  <2>2. LocalType'
    BY <1>5, FinishType, ContinueType
       DEF ConvUndo, LocalType, StoreType, ControlOK, ControlAt, OnError
  <2>3. ControlOK'
    BY <1>5, FinishType
       DEF ConvUndo, LocalType, ControlOK, ControlAt, Continue, locals,
          OnError
  <2> QED BY <2>1, <2>2, <2>3 DEF TypeOK
<1> QED BY <1>1, <1>2, <1>3, <1>4, <1>5 DEF ConvStep

\* The calls of MakeImage keep the types.
LEMMA MakeType ==
  ASSUME TypeOK, ControlOK, NEW p \in Procs, MakeStep(p)
  PROVE  TypeOK' /\ ControlOK'
<1> StoreType /\ LocalType
  BY DEF TypeOK
<1> USE DEF Goto, store, cmd, work, walk, Labels, Ended, OpNames, Volume,
            ImportOps, BufferLabels, MakeLabels, VMLabels, DelLabels
<1>1. CASE MakeFind(p)
  <2>1. StoreType'
    BY <1>1 DEF StoreType, MakeFind
  <2>2. LocalType'
    BY <1>1, ContinueType
       DEF MakeFind, LocalType, StoreType, ControlOK, ControlAt
  <2>3. ControlOK'
    BY <1>1 DEF MakeFind, LocalType, ControlOK, ControlAt, Continue, locals
  <2> QED BY <2>1, <2>2, <2>3 DEF TypeOK
<1>2. CASE MakeDep(p)
  <2>1. StoreType'
    BY <1>2 DEF StoreType, MakeDep
  <2>2. LocalType'
    BY <1>2, FinishType
       DEF MakeDep, LocalType, StoreType, ControlOK, ControlAt,
          DeleteAllIfUnused
  <2>3. ControlOK'
    BY <1>2, FinishType
       DEF MakeDep, LocalType, ControlOK, ControlAt, DeleteAllIfUnused
  <2> QED BY <2>1, <2>2, <2>3 DEF TypeOK
<1>3. CASE MakeCreate(p)
  <2>1. StoreType'
    BY <1>3, NamesAssumption, BoundAssumption
       DEF StoreType, MakeCreate, LocalType, ControlOK, ControlAt, CanCreate,
          CreateVol
  <2>2. LocalType'
    BY <1>3, FinishType
       DEF MakeCreate, LocalType, StoreType, ControlOK, ControlAt
  <2>3. ControlOK'
    BY <1>3, FinishType DEF MakeCreate, LocalType, ControlOK, ControlAt
  <2> QED BY <2>1, <2>2, <2>3 DEF TypeOK
<1> QED BY <1>1, <1>2, <1>3 DEF MakeStep

\* The calls of DeleteAllIfUnused keep the types.
LEMMA DelType ==
  ASSUME TypeOK, ControlOK, NEW p \in Procs, DelStep(p)
  PROVE  TypeOK' /\ ControlOK'
<1> StoreType /\ LocalType
  BY DEF TypeOK
<1> USE DEF Goto, store, cmd, work, walk, Labels, Ended, OpNames, Volume,
            ImportOps, BufferLabels, MakeLabels, VMLabels, DelLabels
<1>1. CASE DelDep(p)
  <2>1. StoreType'
    BY <1>1 DEF StoreType, DelDep
  <2>2. LocalType'
    BY <1>1, FinishType
       DEF DelDep, LocalType, StoreType, ControlOK, ControlAt, AfterWalk,
          DelError, DelReturn
  <2>3. ControlOK'
    BY <1>1, FinishType
       DEF DelDep, LocalType, ControlOK, ControlAt, AfterWalk, DelError,
          DelReturn
  <2> QED BY <2>1, <2>2, <2>3 DEF TypeOK
<1>2. CASE DelList(p)
  <2>1. StoreType'
    BY <1>2 DEF StoreType, DelList
  <2>2. LocalType'
    BY <1>2 DEF DelList, LocalType, StoreType, ControlOK, ControlAt
  <2>3. ControlOK'
    BY <1>2 DEF DelList, LocalType, ControlOK, ControlAt
  <2> QED BY <2>1, <2>2, <2>3 DEF TypeOK
<1>3. CASE DelScan(p)
  <2>1. StoreType'
    BY <1>3 DEF StoreType, DelScan
  <2>2. LocalType'
    BY <1>3, FinishType, ContinueType
       DEF DelScan, LocalType, StoreType, ControlOK, ControlAt, AfterWalk,
          DelReturn
  <2>3. ControlOK'
    BY <1>3, FinishType
       DEF DelScan, LocalType, ControlOK, ControlAt, Continue, locals,
          AfterWalk, DelReturn
  <2> QED BY <2>1, <2>2, <2>3 DEF TypeOK
<1>4. CASE DelDelete(p)
  <2>1. StoreType'
    BY <1>4, NamesAssumption, BoundAssumption
       DEF StoreType, DelDelete, LocalType, ControlOK, ControlAt, DeleteVol,
          Fault
  <2>2. LocalType'
    BY <1>4, FinishType
       DEF DelDelete, LocalType, StoreType, ControlOK, ControlAt, AfterWalk,
          DelError, DelReturn
  <2>3. ControlOK'
    BY <1>4, FinishType
       DEF DelDelete, LocalType, ControlOK, ControlAt, AfterWalk, DelError,
          DelReturn
  <2> QED BY <2>1, <2>2, <2>3 DEF TypeOK
<1> QED BY <1>1, <1>2, <1>3, <1>4 DEF DelStep

\* The calls of image rm and image prune keep the types.
LEMMA RmType ==
  ASSUME TypeOK, ControlOK, NEW p \in Procs, RmStep(p)
  PROVE  TypeOK' /\ ControlOK'
<1> StoreType /\ LocalType
  BY DEF TypeOK
<1> USE DEF Goto, store, cmd, work, walk, Labels, Ended, OpNames, Volume,
            ImportOps, BufferLabels, MakeLabels, VMLabels, DelLabels
<1>1. CASE RmFind(p)
  <2>1. StoreType'
    BY <1>1 DEF StoreType, RmFind
  <2>2. LocalType'
    BY <1>1, FinishType
       DEF RmFind, LocalType, StoreType, ControlOK, ControlAt,
          DeleteAllIfUnused
  <2>3. ControlOK'
    BY <1>1, FinishType
       DEF RmFind, LocalType, ControlOK, ControlAt, DeleteAllIfUnused
  <2> QED BY <2>1, <2>2, <2>3 DEF TypeOK
<1>2. CASE PruneTags(p)
  <2>1. StoreType'
    BY <1>2 DEF StoreType, PruneTags
  <2>2. LocalType'
    BY <1>2, FinishType
       DEF PruneTags, LocalType, StoreType, ControlOK, ControlAt,
          DeleteAllIfUnused
  <2>3. ControlOK'
    BY <1>2, FinishType
       DEF PruneTags, LocalType, ControlOK, ControlAt, DeleteAllIfUnused
  <2> QED BY <2>1, <2>2, <2>3 DEF TypeOK
<1>3. CASE PruneList(p)
  <2>1. StoreType'
    BY <1>3 DEF StoreType, PruneList
  <2>2. LocalType'
    BY <1>3 DEF PruneList, LocalType, StoreType, ControlOK, ControlAt
  <2>3. ControlOK'
    BY <1>3 DEF PruneList, LocalType, ControlOK, ControlAt
  <2> QED BY <2>1, <2>2, <2>3 DEF TypeOK
<1>4. CASE PruneNext(p)
  <2>1. StoreType'
    BY <1>4 DEF StoreType, PruneNext
  <2>2. LocalType'
    BY <1>4, FinishType
       DEF PruneNext, LocalType, StoreType, ControlOK, ControlAt,
          DeleteAllIfUnused
  <2>3. ControlOK'
    BY <1>4, FinishType
       DEF PruneNext, LocalType, ControlOK, ControlAt, DeleteAllIfUnused
  <2> QED BY <2>1, <2>2, <2>3 DEF TypeOK
<1> QED BY <1>1, <1>2, <1>3, <1>4 DEF RmStep

\* The calls of vm run, vm rm and vm commit keep the types.
LEMMA VMType ==
  ASSUME TypeOK, ControlOK, NEW p \in Procs, VMStep(p)
  PROVE  TypeOK' /\ ControlOK'
<1> StoreType /\ LocalType
  BY DEF TypeOK
<1> USE DEF Goto, store, cmd, work, walk, Labels, Ended, OpNames, Volume,
            ImportOps, BufferLabels, MakeLabels, VMLabels, DelLabels
<1>1. CASE SpawnFind(p)
  <2>1. StoreType'
    BY <1>1 DEF StoreType, SpawnFind
  <2>2. LocalType'
    BY <1>1, FinishType
       DEF SpawnFind, LocalType, StoreType, ControlOK, ControlAt
  <2>3. ControlOK'
    BY <1>1, FinishType DEF SpawnFind, LocalType, ControlOK, ControlAt
  <2> QED BY <2>1, <2>2, <2>3 DEF TypeOK
<1>2. CASE SpawnDefine(p)
  <2>1. StoreType'
    BY <1>2, NamesAssumption, BoundAssumption
       DEF StoreType, SpawnDefine, LocalType, ControlOK, ControlAt
  <2>2. LocalType'
    BY <1>2, FinishType, ContinueType
       DEF SpawnDefine, LocalType, StoreType, ControlOK, ControlAt
  <2>3. ControlOK'
    BY <1>2, FinishType
       DEF SpawnDefine, LocalType, ControlOK, ControlAt, Continue, locals
  <2> QED BY <2>1, <2>2, <2>3 DEF TypeOK
<1>3. CASE SpawnCreate(p)
  <2>1. StoreType'
    BY <1>3, NamesAssumption, BoundAssumption
       DEF StoreType, SpawnCreate, LocalType, ControlOK, ControlAt, CanCreate,
          CreateVol
  <2>2. LocalType'
    BY <1>3, FinishType
       DEF SpawnCreate, LocalType, StoreType, ControlOK, ControlAt
  <2>3. ControlOK'
    BY <1>3, FinishType DEF SpawnCreate, LocalType, ControlOK, ControlAt
  <2> QED BY <2>1, <2>2, <2>3 DEF TypeOK
<1>4. CASE VMRmFind(p)
  <2>0. src[p] \in Work
    BY <1>4, NamesAssumption DEF VMRmFind, ControlOK, ControlAt
  <2>1. StoreType'
    BY <1>4, <2>0 DEF StoreType, VMRmFind
  <2>2. LocalType'
    BY <1>4, <2>0, ContinueType
       DEF VMRmFind, LocalType, StoreType, ControlOK, ControlAt,
          DeleteAllIfUnused
  <2>3. ControlOK'
    BY <1>4, <2>0
       DEF VMRmFind, LocalType, ControlOK, ControlAt, Continue, locals,
          DeleteAllIfUnused
  <2> QED BY <2>1, <2>2, <2>3 DEF TypeOK
<1>5. CASE Undefine(p)
  <2>1. StoreType'
    BY <1>5, NamesAssumption, BoundAssumption
       DEF StoreType, Undefine, LocalType, ControlOK, ControlAt
  <2>2. LocalType'
    BY <1>5, FinishType
       DEF Undefine, LocalType, StoreType, ControlOK, ControlAt
  <2>3. ControlOK'
    BY <1>5, FinishType DEF Undefine, LocalType, ControlOK, ControlAt
  <2> QED BY <2>1, <2>2, <2>3 DEF TypeOK
<1>6. CASE CommitRm(p)
  <2>1. StoreType'
    BY <1>6, NamesAssumption, BoundAssumption
       DEF StoreType, CommitRm, LocalType, ControlOK, ControlAt
  <2>2. LocalType'
    BY <1>6, FinishType, ContinueType
       DEF CommitRm, LocalType, StoreType, ControlOK, ControlAt
  <2>3. ControlOK'
    BY <1>6, FinishType
       DEF CommitRm, LocalType, ControlOK, ControlAt, Continue, locals
  <2> QED BY <2>1, <2>2, <2>3 DEF TypeOK
<1>7. CASE CommitFind(p)
  <2>0. src[p] \in Work
    BY <1>7, NamesAssumption DEF CommitFind, ControlOK, ControlAt
  <2>1. StoreType'
    BY <1>7, <2>0 DEF StoreType, CommitFind
  <2>2. LocalType'
    BY <1>7, <2>0, FinishType, ContinueType
       DEF CommitFind, LocalType, StoreType, ControlOK, ControlAt
  <2>3. ControlOK'
    BY <1>7, <2>0, FinishType
       DEF CommitFind, LocalType, ControlOK, ControlAt, Continue, locals
  <2> QED BY <2>1, <2>2, <2>3 DEF TypeOK
<1> QED BY <1>1, <1>2, <1>3, <1>4, <1>5, <1>6, <1>7 DEF VMStep

\* Starting a command gives the local variables suitable values.
LEMMA BeginType ==
  ASSUME TypeOK, ControlOK, NEW p \in Procs, Command(p)
  PROVE  TypeOK' /\ ControlOK'
<1> StoreType /\ LocalType
  BY DEF TypeOK
<1> USE NamesAssumption, BufferAssumption
    DEF Begin, Goto, store, walk, Labels, Ended, OpNames, Volume,
        ImportOps, BufferLabels, MakeLabels, VMLabels, DelLabels
<1>1. CASE Pull(p)
  <2>1. StoreType'
    BY <1>1 DEF Pull, StoreType
  <2>2. LocalType'
    BY <1>1 DEF Pull, StoreType, LocalType
  <2>3. ControlOK'
    BY <1>1 DEF Pull, StoreType, LocalType, ControlOK, ControlAt
  <2> QED BY <2>1, <2>2, <2>3 DEF TypeOK
<1>2. CASE Load(p)
  <2>1. StoreType'
    BY <1>2 DEF Load, StoreType
  <2>2. LocalType'
    BY <1>2 DEF Load, StoreType, LocalType
  <2>3. ControlOK'
    BY <1>2 DEF Load, StoreType, LocalType, ControlOK, ControlAt
  <2> QED BY <2>1, <2>2, <2>3 DEF TypeOK
<1>3. CASE Fetch(p)
  <2>1. StoreType'
    BY <1>3 DEF Fetch, StoreType
  <2>2. LocalType'
    BY <1>3 DEF Fetch, StoreType, LocalType
  <2>3. ControlOK'
    BY <1>3 DEF Fetch, StoreType, LocalType, ControlOK, ControlAt
  <2> QED BY <2>1, <2>2, <2>3 DEF TypeOK
<1>4. CASE Rm(p)
  <2>1. StoreType'
    BY <1>4 DEF Rm, StoreType
  <2>2. LocalType'
    BY <1>4 DEF Rm, StoreType, LocalType
  <2>3. ControlOK'
    BY <1>4 DEF Rm, StoreType, LocalType, ControlOK, ControlAt
  <2> QED BY <2>1, <2>2, <2>3 DEF TypeOK
<1>5. CASE Prune(p)
  <2>0. pool \cap Tag \in SUBSET Volume /\ {} \in SUBSET Volume
    BY DEF StoreType
  <2>1. StoreType'
    BY <1>5 DEF Prune, StoreType
  <2>2. LocalType'
    <3>1. CASE Begin(p, "prune_list", "prune", None, None, None, None, {})
      BY <3>1, <2>0 DEF LocalType
    <3>2. CASE Begin(p, "prune_tags", "prune_unused", None, None, None, None,
                     pool \cap Tag)
      BY <3>2, <2>0 DEF LocalType
    <3> QED BY <1>5, <3>1, <3>2 DEF Prune
  <2>3. ControlOK'
    BY <1>5 DEF Prune, LocalType, ControlOK, ControlAt
  <2> QED BY <2>1, <2>2, <2>3 DEF TypeOK
<1>6. CASE Run(p)
  <2>1. StoreType'
    BY <1>6 DEF Run, StoreType
  <2>2. LocalType'
    BY <1>6 DEF Run, StoreType, LocalType
  <2>3. ControlOK'
    BY <1>6 DEF Run, StoreType, LocalType, ControlOK, ControlAt
  <2> QED BY <2>1, <2>2, <2>3 DEF TypeOK
<1>7. CASE VMRm(p)
  <2>1. StoreType'
    BY <1>7 DEF VMRm, StoreType
  <2>2. LocalType'
    BY <1>7 DEF VMRm, StoreType, LocalType
  <2>3. ControlOK'
    BY <1>7 DEF VMRm, StoreType, LocalType, ControlOK, ControlAt
  <2> QED BY <2>1, <2>2, <2>3 DEF TypeOK
<1>8. CASE Commit(p)
  <2>1. StoreType'
    BY <1>8 DEF Commit, StoreType
  <2>2. LocalType'
    BY <1>8 DEF Commit, StoreType, LocalType
  <2>3. ControlOK'
    BY <1>8 DEF Commit, StoreType, LocalType, ControlOK, ControlAt
  <2> QED BY <2>1, <2>2, <2>3 DEF TypeOK
<1> QED BY <1>1, <1>2, <1>3, <1>4, <1>5, <1>6, <1>7, <1>8 DEF Command

\* A crash leaves the pool alone and ends the command.
LEMMA CrashType ==
  ASSUME TypeOK, ControlOK, NEW p \in Procs, Crash(p)
  PROVE  TypeOK' /\ ControlOK'
<1>1. LocalType' /\ ControlOK'
  BY FinishType DEF TypeOK, Crash, Ended
<1>2. StoreType'
  BY BoundAssumption DEF TypeOK, StoreType, Crash, Fault, store
<1> QED BY <1>1, <1>2 DEF TypeOK

\* Every step keeps the types and the values at each label.
LEMMA TypeStep == TypeOK /\ ControlOK /\ [Next]_vars => TypeOK' /\ ControlOK'
<1> SUFFICES ASSUME TypeOK, ControlOK, [Next]_vars
             PROVE  TypeOK' /\ ControlOK'
  OBVIOUS
<1>1. ASSUME NEW p \in Procs, Command(p) PROVE TypeOK' /\ ControlOK'
  BY <1>1, BeginType
<1>2. ASSUME NEW p \in Procs, Step(p) PROVE TypeOK' /\ ControlOK'
  BY <1>2, ImportType, ConvType, MakeType, DelType, RmType, VMType DEF Step
<1>3. ASSUME NEW p \in Procs, Crash(p) PROVE TypeOK' /\ ControlOK'
  BY <1>3, CrashType
<1>4. CASE UNCHANGED vars
  BY <1>4 DEF vars, store, locals, cmd, work, walk, TypeOK, StoreType, LocalType,
              ControlOK, ControlAt
<1> QED BY <1>1, <1>2, <1>3, <1>4 DEF Next

\* The initial state is typed.
LEMMA TypeInit == Init => TypeOK /\ ControlOK
BY BoundAssumption
   DEF Init, TypeOK, StoreType, LocalType, ControlOK, ControlAt, Labels, Ended,
       OpNames, ImportOps, BufferLabels, MakeLabels, VMLabels, DelLabels

\* Whatever invocations run concurrently and wherever they fail or crash,
\* the pool holds only volumes of the three kinds, only layers are backing
\* files, and each invocation has the local values its next call needs.
THEOREM TypeCorrect == Spec => [](TypeOK /\ ControlOK)
BY TypeInit, TypeStep, PTL DEF Spec

-----------------------------------------------------------------------------
(* One invocation at a time.                                               *)

\* What is known of the pool while the only invocation p is at work.
SerialAt(p) ==
  /\ pc[p] = "dyn_upload" /\ top[p] # None => top[p] \in pool
  /\ pc[p] \in {"del_list", "del_scan", "del_delete"} =>
       dep[p] = backing[cur[p]]
  /\ pc[p] = "del_scan" => \A v \in pool \ seen[p] : backing[v] # cur[p]
  /\ pc[p] = "del_delete" => \A v \in pool : backing[v] # cur[p]
  /\ op[p] = "prune" /\ pc[p] \in DelLabels \cup {"prune_next"} =>
       \A d \in pool \cap Layer :
         \/ d \in todo[p]
         \/ InUse(d)
         \/ pc[p] \in DelLabels /\ d = cur[p]

\* src holds what dig says, on the layer that this content has below it.
SourceAt(p) ==
  /\ pc[p] = "commit_find" /\ src[p] \in pool =>
       content[src[p]] # None /\ backing[src[p]] = Parent[content[src[p]]]
  /\ pc[p] = "conv_find" =>
       /\ src[p] \in pool
       /\ content[src[p]] # None
       /\ backing[src[p]] = Parent[content[src[p]]]
       /\ op[p] \in {"pull", "fetch"} => content[src[p]] = dig[p]
  /\ pc[p] \in {"conv_clone", "conv_fill"} =>
       /\ src[p] \in pool
       /\ content[src[p]] = dig[p]
       /\ backing[src[p]] = Parent[dig[p]]

SerialInv ==
  NoDangling /\ LayersSound /\ \A p \in Procs : SerialAt(p) /\ SourceAt(p)

\* The calls of an import up to the upload, made by the only invocation.
LEMMA ImportSerial ==
  ASSUME TypeOK, ControlOK, SerialInv, "delete" \notin Faults,
         NEW p \in Procs, \A q \in Procs : q = p, ImportStep(p)
  PROVE  SerialInv'
<1> StoreType /\ LocalType /\ ControlAt(p) /\ NoDangling /\ LayersSound
    /\ SerialAt(p) /\ SourceAt(p)
  BY DEF TypeOK, ControlOK, SerialInv
<1> SUFFICES NoDangling' /\ LayersSound' /\ SerialAt(p)' /\ SourceAt(p)'
  BY DEF SerialInv
<1> USE NamesAssumption
    DEF Goto, store, cmd, work, walk, Volume, DelLabels, ImportOps,
        BufferLabels, MakeLabels, VMLabels
<1>1. CASE PullFind(p)
  <2>1. NoDangling'
    BY <1>1 DEF NoDangling, PullFind
  <2>2. SerialAt(p)'
    BY <1>1 DEF SerialAt, PullFind, ControlAt, LocalType, InUse
  <2>3. LayersSound'
    BY <1>1 DEF LayersSound, PullFind
  <2>4. SourceAt(p)'
    BY <1>1 DEF SourceAt, PullFind, ControlAt, LocalType
  <2> QED BY <2>1, <2>2, <2>3, <2>4
<1>2. CASE DynCreate(p)
  <2>1. NoDangling'
    BY <1>2
       DEF NoDangling, DynCreate, StoreType, LocalType, ControlAt, SerialAt,
          CanCreate, CreateVol
  <2>2. SerialAt(p)'
    BY <1>2
       DEF SerialAt, DynCreate, ControlAt, LocalType, StoreType, InUse,
          CanCreate, CreateVol, Continue, Finish, locals
  <2>3. LayersSound'
    BY <1>2
       DEF LayersSound, DynCreate, StoreType, LocalType, ControlAt, SourceAt,
          CanCreate, CreateVol
  <2>4. SourceAt(p)'
    BY <1>2
       DEF SourceAt, DynCreate, ControlAt, LocalType, StoreType, CanCreate,
          CreateVol, Continue, Finish, locals
  <2> QED BY <2>1, <2>2, <2>3, <2>4
<1>3. CASE DynUpload(p)
  <2>1. NoDangling'
    BY <1>3
       DEF NoDangling, DynUpload, StoreType, LocalType, ControlAt, SerialAt,
          UploadVol
  <2>2. SerialAt(p)'
    BY <1>3
       DEF SerialAt, DynUpload, ControlAt, LocalType, StoreType, InUse,
          UploadVol, Continue, Finish, OnError, locals, Fault
  <2>3. LayersSound'
    BY <1>3
       DEF LayersSound, DynUpload, StoreType, LocalType, ControlAt, SourceAt,
          UploadVol
  <2>4. SourceAt(p)'
    BY <1>3
       DEF SourceAt, DynUpload, ControlAt, LocalType, StoreType, UploadVol,
          Continue, Finish, OnError, locals
  <2> QED BY <2>1, <2>2, <2>3, <2>4
<1>4. CASE Drop(p)
  <2>1. NoDangling'
    BY <1>4
       DEF NoDangling, Drop, StoreType, LocalType, ControlAt, SerialAt,
          DeleteVol
  <2>2. SerialAt(p)'
    BY <1>4
       DEF SerialAt, Drop, ControlAt, LocalType, StoreType, InUse, DeleteVol,
          Finish
  <2>3. LayersSound'
    BY <1>4
       DEF LayersSound, Drop, StoreType, LocalType, ControlAt, SourceAt,
          DeleteVol
  <2>4. SourceAt(p)'
    BY <1>4
       DEF SourceAt, Drop, ControlAt, LocalType, StoreType, DeleteVol, Finish
  <2> QED BY <2>1, <2>2, <2>3, <2>4
<1> QED BY <1>1, <1>2, <1>3, <1>4 DEF ImportStep

\* The calls of ToVolumeLayer, made by the only invocation.
LEMMA ConvSerial ==
  ASSUME TypeOK, ControlOK, SerialInv, "delete" \notin Faults,
         NEW p \in Procs, \A q \in Procs : q = p, ConvStep(p)
  PROVE  SerialInv'
<1> StoreType /\ LocalType /\ ControlAt(p) /\ NoDangling /\ LayersSound
    /\ SerialAt(p) /\ SourceAt(p)
  BY DEF TypeOK, ControlOK, SerialInv
<1> SUFFICES NoDangling' /\ LayersSound' /\ SerialAt(p)' /\ SourceAt(p)'
  BY DEF SerialInv
<1> USE NamesAssumption
    DEF Goto, store, cmd, work, walk, Volume, DelLabels, ImportOps,
        BufferLabels, MakeLabels, VMLabels
<1>1. CASE ConvFind(p)
  <2>1. NoDangling'
    BY <1>1 DEF NoDangling, ConvFind
  <2>2. SerialAt(p)'
    BY <1>1
       DEF SerialAt, ConvFind, ControlAt, LocalType, InUse, Continue, DiffID,
          Finish, OnError, locals, Fault
  <2>3. LayersSound'
    BY <1>1 DEF LayersSound, ConvFind
  <2>4. SourceAt(p)'
    BY <1>1
       DEF SourceAt, ConvFind, ControlAt, LocalType, StoreType, Continue,
          DiffID, Finish, OnError, locals
  <2> QED BY <2>1, <2>2, <2>3, <2>4
<1>2. CASE ConvClone(p)
  <2>1. NoDangling'
    BY <1>2
       DEF NoDangling, ConvClone, StoreType, LocalType, ControlAt, SerialAt,
          CanCreate, CreateVol
  <2>2. SerialAt(p)'
    BY <1>2
       DEF SerialAt, ConvClone, ControlAt, LocalType, StoreType, InUse,
          CanCreate, CreateVol, Continue, Finish, OnError, locals
  <2>3. LayersSound'
    BY <1>2
       DEF LayersSound, ConvClone, StoreType, LocalType, ControlAt, SourceAt,
          CanCreate, CreateVol
  <2>4. SourceAt(p)'
    BY <1>2
       DEF SourceAt, ConvClone, ControlAt, LocalType, StoreType, CanCreate,
          CreateVol, Continue, Finish, OnError, locals
  <2> QED BY <2>1, <2>2, <2>3, <2>4
<1>3. CASE ConvFill(p)
  <2>1. NoDangling'
    BY <1>3
       DEF NoDangling, ConvFill, StoreType, LocalType, ControlAt, SerialAt
  <2>2. SerialAt(p)'
    BY <1>3
       DEF SerialAt, ConvFill, ControlAt, LocalType, StoreType, InUse,
          Continue, Finish, OnError, locals, Fault
  <2>3. LayersSound'
    BY <1>3
       DEF LayersSound, ConvFill, StoreType, LocalType, ControlAt, SourceAt
  <2>4. SourceAt(p)'
    BY <1>3
       DEF SourceAt, ConvFill, ControlAt, LocalType, StoreType, Continue,
          Finish, OnError, locals
  <2> QED BY <2>1, <2>2, <2>3, <2>4
<1>4. CASE ConvDelete(p)
  <2>1. NoDangling'
    BY <1>4
       DEF NoDangling, ConvDelete, StoreType, LocalType, ControlAt, SerialAt,
          DeleteVol
  <2>2. SerialAt(p)'
    BY <1>4
       DEF SerialAt, ConvDelete, ControlAt, LocalType, StoreType, InUse,
          DeleteVol, Continue, Finish, locals, Fault
  <2>3. LayersSound'
    BY <1>4
       DEF LayersSound, ConvDelete, StoreType, LocalType, ControlAt, SourceAt,
          DeleteVol
  <2>4. SourceAt(p)'
    BY <1>4
       DEF SourceAt, ConvDelete, ControlAt, LocalType, StoreType, DeleteVol,
          Continue, Finish, locals, Fault
  <2> QED BY <2>1, <2>2, <2>3, <2>4
<1>5. CASE ConvUndo(p)
  <2>1. NoDangling'
    BY <1>5
       DEF NoDangling, ConvUndo, StoreType, LocalType, ControlAt, SerialAt,
          DeleteVol
  <2>2. SerialAt(p)'
    BY <1>5
       DEF SerialAt, ConvUndo, ControlAt, LocalType, StoreType, InUse,
          DeleteVol, Continue, Finish, OnError, locals
  <2>3. LayersSound'
    BY <1>5
       DEF LayersSound, ConvUndo, StoreType, LocalType, ControlAt, SourceAt,
          DeleteVol
  <2>4. SourceAt(p)'
    BY <1>5
       DEF SourceAt, ConvUndo, ControlAt, LocalType, StoreType, DeleteVol,
          Continue, Finish, OnError, locals
  <2> QED BY <2>1, <2>2, <2>3, <2>4
<1> QED BY <1>1, <1>2, <1>3, <1>4, <1>5 DEF ConvStep

\* The calls of MakeImage, made by the only invocation.
LEMMA MakeSerial ==
  ASSUME TypeOK, ControlOK, SerialInv, "delete" \notin Faults,
         NEW p \in Procs, \A q \in Procs : q = p, MakeStep(p)
  PROVE  SerialInv'
<1> StoreType /\ LocalType /\ ControlAt(p) /\ NoDangling /\ LayersSound
    /\ SerialAt(p) /\ SourceAt(p)
  BY DEF TypeOK, ControlOK, SerialInv
<1> SUFFICES NoDangling' /\ LayersSound' /\ SerialAt(p)' /\ SourceAt(p)'
  BY DEF SerialInv
<1> USE NamesAssumption
    DEF Goto, store, cmd, work, walk, Volume, DelLabels, ImportOps,
        BufferLabels, MakeLabels, VMLabels
<1>1. CASE MakeFind(p)
  <2>1. NoDangling'
    BY <1>1 DEF NoDangling, MakeFind
  <2>2. SerialAt(p)'
    BY <1>1
       DEF SerialAt, MakeFind, ControlAt, LocalType, InUse, Continue, locals
  <2>3. LayersSound'
    BY <1>1 DEF LayersSound, MakeFind
  <2>4. SourceAt(p)'
    BY <1>1 DEF SourceAt, MakeFind, ControlAt, LocalType, Continue, locals
  <2> QED BY <2>1, <2>2, <2>3, <2>4
<1>2. CASE MakeDep(p)
  <2>1. NoDangling'
    BY <1>2 DEF NoDangling, MakeDep
  <2>2. SerialAt(p)'
    BY <1>2
       DEF SerialAt, MakeDep, ControlAt, LocalType, InUse, DeleteAllIfUnused,
          Finish
  <2>3. LayersSound'
    BY <1>2 DEF LayersSound, MakeDep
  <2>4. SourceAt(p)'
    BY <1>2
       DEF SourceAt, MakeDep, ControlAt, LocalType, DeleteAllIfUnused, Finish
  <2> QED BY <2>1, <2>2, <2>3, <2>4
<1>3. CASE MakeCreate(p)
  <2>1. NoDangling'
    BY <1>3
       DEF NoDangling, MakeCreate, StoreType, LocalType, ControlAt, SerialAt,
          CanCreate, CreateVol
  <2>2. SerialAt(p)'
    BY <1>3
       DEF SerialAt, MakeCreate, ControlAt, LocalType, StoreType, InUse,
          CanCreate, CreateVol, Finish
  <2>3. LayersSound'
    BY <1>3
       DEF LayersSound, MakeCreate, StoreType, LocalType, ControlAt, SourceAt,
          CanCreate, CreateVol
  <2>4. SourceAt(p)'
    BY <1>3
       DEF SourceAt, MakeCreate, ControlAt, LocalType, StoreType, CanCreate,
          CreateVol, Finish
  <2> QED BY <2>1, <2>2, <2>3, <2>4
<1> QED BY <1>1, <1>2, <1>3 DEF MakeStep

\* The calls of DeleteAllIfUnused, made by the only invocation.
LEMMA DelSerial ==
  ASSUME TypeOK, ControlOK, SerialInv, "delete" \notin Faults,
         NEW p \in Procs, \A q \in Procs : q = p, DelStep(p)
  PROVE  SerialInv'
<1> StoreType /\ LocalType /\ ControlAt(p) /\ NoDangling /\ LayersSound
    /\ SerialAt(p) /\ SourceAt(p)
  BY DEF TypeOK, ControlOK, SerialInv
<1> SUFFICES NoDangling' /\ LayersSound' /\ SerialAt(p)' /\ SourceAt(p)'
  BY DEF SerialInv
<1> USE NamesAssumption
    DEF Goto, store, cmd, work, walk, Volume, DelLabels, ImportOps,
        BufferLabels, MakeLabels, VMLabels
<1>1. CASE DelDep(p)
  <2>1. NoDangling'
    BY <1>1 DEF NoDangling, DelDep
  <2>2. SerialAt(p)'
    BY <1>1
       DEF SerialAt, DelDep, ControlAt, LocalType, InUse, AfterWalk, DelError,
          DelReturn, Finish
  <2>3. LayersSound'
    BY <1>1 DEF LayersSound, DelDep
  <2>4. SourceAt(p)'
    BY <1>1
       DEF SourceAt, DelDep, ControlAt, LocalType, AfterWalk, DelError,
          DelReturn, Finish
  <2> QED BY <2>1, <2>2, <2>3, <2>4
<1>2. CASE DelList(p)
  <2>1. NoDangling'
    BY <1>2 DEF NoDangling, DelList
  <2>2. SerialAt(p)'
    BY <1>2 DEF SerialAt, DelList, ControlAt, LocalType, InUse
  <2>3. LayersSound'
    BY <1>2 DEF LayersSound, DelList
  <2>4. SourceAt(p)'
    BY <1>2 DEF SourceAt, DelList, ControlAt, LocalType
  <2> QED BY <2>1, <2>2, <2>3, <2>4
<1>3. CASE DelScan(p)
  <2>1. NoDangling'
    BY <1>3 DEF NoDangling, DelScan
  <2>2. SerialAt(p)'
    BY <1>3
       DEF SerialAt, DelScan, ControlAt, LocalType, InUse, AfterWalk,
          Continue, DelReturn, Finish, locals
  <2>3. LayersSound'
    BY <1>3 DEF LayersSound, DelScan
  <2>4. SourceAt(p)'
    BY <1>3
       DEF SourceAt, DelScan, ControlAt, LocalType, AfterWalk, Continue,
          DelReturn, Finish, locals
  <2> QED BY <2>1, <2>2, <2>3, <2>4
<1>4. CASE DelDelete(p)
  <2>1. NoDangling'
    BY <1>4
       DEF NoDangling, DelDelete, StoreType, LocalType, ControlAt, SerialAt,
          DeleteVol
  <2>2. SerialAt(p)'
    BY <1>4
       DEF SerialAt, DelDelete, ControlAt, LocalType, StoreType, InUse,
          DeleteVol, AfterWalk, DelError, DelReturn, Finish, Fault
  <2>3. LayersSound'
    BY <1>4
       DEF LayersSound, DelDelete, StoreType, LocalType, ControlAt, SourceAt,
          DeleteVol
  <2>4. SourceAt(p)'
    BY <1>4
       DEF SourceAt, DelDelete, ControlAt, LocalType, StoreType, DeleteVol,
          AfterWalk, DelError, DelReturn, Finish
  <2> QED BY <2>1, <2>2, <2>3, <2>4
<1> QED BY <1>1, <1>2, <1>3, <1>4 DEF DelStep

\* The calls of image rm and image prune, made by the only invocation.
LEMMA RmSerial ==
  ASSUME TypeOK, ControlOK, SerialInv, "delete" \notin Faults,
         NEW p \in Procs, \A q \in Procs : q = p, RmStep(p)
  PROVE  SerialInv'
<1> StoreType /\ LocalType /\ ControlAt(p) /\ NoDangling /\ LayersSound
    /\ SerialAt(p) /\ SourceAt(p)
  BY DEF TypeOK, ControlOK, SerialInv
<1> SUFFICES NoDangling' /\ LayersSound' /\ SerialAt(p)' /\ SourceAt(p)'
  BY DEF SerialInv
<1> USE NamesAssumption
    DEF Goto, store, cmd, work, walk, Volume, DelLabels, ImportOps,
        BufferLabels, MakeLabels, VMLabels
<1>1. CASE RmFind(p)
  <2>1. NoDangling'
    BY <1>1 DEF NoDangling, RmFind
  <2>2. SerialAt(p)'
    BY <1>1
       DEF SerialAt, RmFind, ControlAt, LocalType, InUse, DeleteAllIfUnused,
          Finish
  <2>3. LayersSound'
    BY <1>1 DEF LayersSound, RmFind
  <2>4. SourceAt(p)'
    BY <1>1
       DEF SourceAt, RmFind, ControlAt, LocalType, DeleteAllIfUnused, Finish
  <2> QED BY <2>1, <2>2, <2>3, <2>4
<1>2. CASE PruneTags(p)
  <2>1. NoDangling'
    BY <1>2 DEF NoDangling, PruneTags
  <2>2. SerialAt(p)'
    BY <1>2
       DEF SerialAt, PruneTags, ControlAt, LocalType, InUse,
          DeleteAllIfUnused, Finish
  <2>3. LayersSound'
    BY <1>2 DEF LayersSound, PruneTags
  <2>4. SourceAt(p)'
    BY <1>2
       DEF SourceAt, PruneTags, ControlAt, LocalType, DeleteAllIfUnused,
          Finish
  <2> QED BY <2>1, <2>2, <2>3, <2>4
<1>3. CASE PruneList(p)
  <2>1. NoDangling'
    BY <1>3 DEF NoDangling, PruneList
  <2>2. SerialAt(p)'
    BY <1>3 DEF SerialAt, PruneList, ControlAt, LocalType, InUse
  <2>3. LayersSound'
    BY <1>3 DEF LayersSound, PruneList
  <2>4. SourceAt(p)'
    BY <1>3 DEF SourceAt, PruneList, ControlAt, LocalType
  <2> QED BY <2>1, <2>2, <2>3, <2>4
<1>4. CASE PruneNext(p)
  <2>1. NoDangling'
    BY <1>4 DEF NoDangling, PruneNext
  <2>2. SerialAt(p)'
    BY <1>4
       DEF SerialAt, PruneNext, ControlAt, LocalType, InUse,
          DeleteAllIfUnused, Finish
  <2>3. LayersSound'
    BY <1>4 DEF LayersSound, PruneNext
  <2>4. SourceAt(p)'
    BY <1>4
       DEF SourceAt, PruneNext, ControlAt, LocalType, DeleteAllIfUnused,
          Finish
  <2> QED BY <2>1, <2>2, <2>3, <2>4
<1> QED BY <1>1, <1>2, <1>3, <1>4 DEF RmStep

\* The calls of vm run, vm rm and vm commit, made by the only invocation.
LEMMA VMSerial ==
  ASSUME TypeOK, ControlOK, SerialInv, "delete" \notin Faults,
         NEW p \in Procs, \A q \in Procs : q = p, VMStep(p)
  PROVE  SerialInv'
<1> StoreType /\ LocalType /\ ControlAt(p) /\ NoDangling /\ LayersSound
    /\ SerialAt(p) /\ SourceAt(p)
  BY DEF TypeOK, ControlOK, SerialInv
<1> SUFFICES NoDangling' /\ LayersSound' /\ SerialAt(p)' /\ SourceAt(p)'
  BY DEF SerialInv
<1> USE NamesAssumption
    DEF Goto, store, cmd, work, walk, Volume, DelLabels, ImportOps,
        BufferLabels, MakeLabels, VMLabels
<1>1. CASE SpawnFind(p)
  <2>1. NoDangling'
    BY <1>1 DEF NoDangling, SpawnFind
  <2>2. SerialAt(p)'
    BY <1>1 DEF SerialAt, SpawnFind, ControlAt, LocalType, InUse, Finish
  <2>3. LayersSound'
    BY <1>1 DEF LayersSound, SpawnFind
  <2>4. SourceAt(p)'
    BY <1>1 DEF SourceAt, SpawnFind, ControlAt, LocalType, Finish
  <2> QED BY <2>1, <2>2, <2>3, <2>4
<1>2. CASE SpawnDefine(p)
  <2>1. NoDangling'
    BY <1>2 DEF NoDangling, SpawnDefine
  <2>2. SerialAt(p)'
    BY <1>2
       DEF SerialAt, SpawnDefine, ControlAt, LocalType, InUse, Continue,
          Finish, locals
  <2>3. LayersSound'
    BY <1>2 DEF LayersSound, SpawnDefine
  <2>4. SourceAt(p)'
    BY <1>2
       DEF SourceAt, SpawnDefine, ControlAt, LocalType, Continue, Finish,
          locals
  <2> QED BY <2>1, <2>2, <2>3, <2>4
<1>3. CASE SpawnCreate(p)
  <2>1. NoDangling'
    BY <1>3
       DEF NoDangling, SpawnCreate, StoreType, LocalType, ControlAt, SerialAt,
          CanCreate, CreateVol
  <2>2. SerialAt(p)'
    BY <1>3
       DEF SerialAt, SpawnCreate, ControlAt, LocalType, StoreType, InUse,
          CanCreate, CreateVol, Finish
  <2>3. LayersSound'
    BY <1>3
       DEF LayersSound, SpawnCreate, StoreType, LocalType, ControlAt,
          SourceAt, CanCreate, CreateVol
  <2>4. SourceAt(p)'
    BY <1>3
       DEF SourceAt, SpawnCreate, ControlAt, LocalType, StoreType, CanCreate,
          CreateVol, Finish
  <2> QED BY <2>1, <2>2, <2>3, <2>4
<1>4. CASE VMRmFind(p)
  <2>1. NoDangling'
    BY <1>4 DEF NoDangling, VMRmFind
  <2>2. SerialAt(p)'
    BY <1>4
       DEF SerialAt, VMRmFind, ControlAt, LocalType, InUse, Continue,
          DeleteAllIfUnused, locals
  <2>3. LayersSound'
    BY <1>4 DEF LayersSound, VMRmFind
  <2>4. SourceAt(p)'
    BY <1>4
       DEF SourceAt, VMRmFind, ControlAt, LocalType, Continue,
          DeleteAllIfUnused, locals
  <2> QED BY <2>1, <2>2, <2>3, <2>4
<1>5. CASE Undefine(p)
  <2>1. NoDangling'
    BY <1>5 DEF NoDangling, Undefine
  <2>2. SerialAt(p)'
    BY <1>5 DEF SerialAt, Undefine, ControlAt, LocalType, InUse, Finish
  <2>3. LayersSound'
    BY <1>5 DEF LayersSound, Undefine
  <2>4. SourceAt(p)'
    BY <1>5 DEF SourceAt, Undefine, ControlAt, LocalType, Finish
  <2> QED BY <2>1, <2>2, <2>3, <2>4
<1>6. CASE CommitRm(p)
  <2>1. NoDangling'
    BY <1>6
       DEF NoDangling, CommitRm, StoreType, LocalType, ControlAt, SerialAt
  <2>2. SerialAt(p)'
    BY <1>6
       DEF SerialAt, CommitRm, ControlAt, LocalType, StoreType, InUse,
          Continue, Finish, locals
  <2>3. LayersSound'
    BY <1>6
       DEF LayersSound, CommitRm, StoreType, LocalType, ControlAt, SourceAt
  <2>4. SourceAt(p)'
    BY <1>6
       DEF SourceAt, CommitRm, ControlAt, LocalType, StoreType, Continue,
          Finish, locals
  <2> QED BY <2>1, <2>2, <2>3, <2>4
<1>7. CASE CommitFind(p)
  <2>1. NoDangling'
    BY <1>7 DEF NoDangling, CommitFind
  <2>2. SerialAt(p)'
    BY <1>7
       DEF SerialAt, CommitFind, ControlAt, LocalType, InUse, Continue,
          Finish, locals
  <2>3. LayersSound'
    BY <1>7 DEF LayersSound, CommitFind
  <2>4. SourceAt(p)'
    BY <1>7
       DEF SourceAt, CommitFind, ControlAt, LocalType, Continue, Finish,
          locals
  <2> QED BY <2>1, <2>2, <2>3, <2>4
<1> QED BY <1>1, <1>2, <1>3, <1>4, <1>5, <1>6, <1>7 DEF VMStep

\* Starting a command, by the only invocation.
LEMMA BeginSerial ==
  ASSUME TypeOK, ControlOK, SerialInv, NEW p \in Procs, \A q \in Procs : q = p,
         Command(p)
  PROVE  SerialInv'
<1> LocalType /\ ControlAt(p) /\ NoDangling /\ LayersSound
    /\ SerialAt(p) /\ SourceAt(p)
  BY DEF TypeOK, ControlOK, SerialInv
<1>1. \E l \in {"pull_find", "dyn_create", "rm_find", "prune_tags", "prune_list",
               "spawn_find", "vmrm_find", "commit_rm"} :
        pc' = [pc EXCEPT ![p] = l] /\ UNCHANGED store
  BY DEF Command, Pull, Load, Fetch, Rm, Prune, Run, VMRm, Commit, Begin, Goto, store
<1>2. NoDangling' /\ LayersSound'
  BY <1>1 DEF NoDangling, LayersSound, store
<1>3. SerialAt(p)' /\ SourceAt(p)'
  BY <1>1 DEF SerialAt, SourceAt, LocalType, DelLabels
<1> QED BY <1>2, <1>3 DEF SerialInv

\* A crash of the only invocation.
LEMMA CrashSerial ==
  ASSUME TypeOK, SerialInv, NEW p \in Procs, \A q \in Procs : q = p, Crash(p)
  PROVE  SerialInv'
<1>1. NoDangling' /\ LayersSound'
  BY DEF SerialInv, NoDangling, LayersSound, Crash, store
<1>2. SerialAt(p)' /\ SourceAt(p)'
  BY DEF SerialAt, SourceAt, TypeOK, LocalType, Crash, Finish, Goto, DelLabels
<1> QED BY <1>1, <1>2 DEF SerialInv

\* Every step of a single invocation keeps the invariant.
LEMMA SerialStep ==
  ASSUME \A p, q \in Procs : p = q, "delete" \notin Faults,
         TypeOK, ControlOK, SerialInv, [Next]_vars
  PROVE  SerialInv'
<1>1. ASSUME NEW p \in Procs, Command(p) PROVE SerialInv'
  BY <1>1, BeginSerial
<1>2. ASSUME NEW p \in Procs, Step(p) PROVE SerialInv'
  BY <1>2, ImportSerial, ConvSerial, MakeSerial, DelSerial, RmSerial, VMSerial
     DEF Step
<1>3. ASSUME NEW p \in Procs, Crash(p) PROVE SerialInv'
  BY <1>3, CrashSerial
<1>4. CASE UNCHANGED vars
  BY <1>4 DEF vars, store, locals, cmd, work, walk, SerialInv, NoDangling,
              LayersSound, SerialAt, SourceAt, InUse
<1> QED BY <1>1, <1>2, <1>3, <1>4 DEF Next

\* The empty pool satisfies the invariant.
LEMMA SerialInit == Init => SerialInv
BY DEF Init, SerialInv, NoDangling, LayersSound, SerialAt, SourceAt, DelLabels

\* The invariant holds throughout when there is one invocation at a time and
\* deletions do not fail.
LEMMA SerialInvariant ==
  ASSUME \A p, q \in Procs : p = q, "delete" \notin Faults
  PROVE  Spec => []SerialInv
<1>1. TypeOK /\ ControlOK /\ SerialInv /\ [Next]_vars => SerialInv'
  BY SerialStep
<1> QED BY <1>1, SerialInit, TypeCorrect, PTL DEF Spec

\* With one invocation at a time no volume ever loses its backing file, for
\* every layer forest and every history of commands, although uploads,
\* downloads and lookups may fail and the process may die between any two
\* calls: the scan of DeleteIfUnused has seen every possible user of the layer.
THEOREM SerialNoDangling ==
  ASSUME \A p, q \in Procs : p = q, "delete" \notin Faults
  PROVE  Spec => []NoDangling
<1>1. SerialInv => NoDangling
  BY DEF SerialInv
<1> QED BY <1>1, SerialInvariant, PTL

\* image prune visits the layers once, in whatever order they are listed, and
\* leaves none that is not in use, also in a pool full of what interrupted
\* commands have left behind.
THEOREM SerialPruneComplete ==
  ASSUME \A p, q \in Procs : p = q, "delete" \notin Faults
  PROVE  Spec => []PruneComplete
<1>1. TypeOK /\ ControlOK /\ SerialInv => PruneComplete
  BY DEF SerialInv, SerialAt, PruneComplete, ControlOK, ControlAt, DelLabels
<1> QED BY <1>1, SerialInvariant, TypeCorrect, PTL

\* A layer volume stands on the layer its content has below it and holds that
\* content or, after an interrupted copy, nothing valid; never other content.
THEOREM SerialLayersSound ==
  ASSUME \A p, q \in Procs : p = q, "delete" \notin Faults
  PROVE  Spec => []LayersSound
<1>1. SerialInv => LayersSound
  BY DEF SerialInv
<1> QED BY <1>1, SerialInvariant, PTL
=============================================================================
