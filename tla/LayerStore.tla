----------------------------- MODULE LayerStore -----------------------------
(***************************************************************************)
(* The image store of virter: internal/virter/layer.go, image.go, the      *)
(* storage side of vm.go and the commands of cmd/ that drive them.         *)
(*                                                                         *)
(* virter keeps everything in one libvirt storage pool, as qcow2 volumes   *)
(* of three kinds told apart by a name prefix:                             *)
(*   virter:tag:<image>     an empty overlay naming an image               *)
(*   virter:layer:<digest>  an immutable layer, named after its content    *)
(*   virter:work:<name>     a writable volume: boot disk or import buffer  *)
(* Every virter invocation is a process of its own.  libvirt executes one  *)
(* call at a time, and an action below is one such call, so any number of  *)
(* invocations interleave between the calls they make; there is no lock.   *)
(***************************************************************************)
EXTENDS Naturals, FiniteSets

CONSTANTS
  Procs,      \* invocations of virter
  Tag,        \* tag volumes, one per image name
  Layer,      \* layer volumes, one per content digest
  Work,       \* working volumes
  VM,         \* the working volumes that are boot disks, one per VM name
  None,       \* no volume, no content, no command
  Parent,     \* Parent[d]: the backing file in the qcow2 header of content d
  Anc,        \* Anc[d]: d and everything below it, the layers of image d
  ImportVol,  \* ImportVol[d]: the buffer "import-<d>" of ImageImport
  LoadVol,    \* LoadVol[t]: the buffer "load-<t>" of image load
  FetchVol,   \* FetchVol[t]: the buffer "<t>" of ImageImportFromReader
  Ops,        \* the commands that are given
  Faults,     \* the kinds of fault that happen
  MaxFaults   \* bound on the number of faults

Volume == Tag \cup Layer \cup Work

ASSUME NamesAssumption ==
  /\ Tag \cap Layer = {} /\ Tag \cap Work = {} /\ Layer \cap Work = {}
  /\ None \notin Volume
  /\ VM \subseteq Work

\* Content is immutable, so the chain below a digest is fixed and finite.
ASSUME ParentAssumption ==
  /\ Parent \in [Layer -> Layer \cup {None}]
  /\ Anc \in [Layer -> SUBSET Layer]
  /\ \A d \in Layer :
       Anc[d] = {d} \cup (IF Parent[d] = None THEN {} ELSE Anc[Parent[d]])
  /\ \A d \in Layer : Parent[d] # None => d \notin Anc[Parent[d]]
  /\ \A d \in Layer : \A e \in Anc[d] \ {d} : \E c \in Anc[d] : Parent[c] = e

ASSUME BufferAssumption ==
  /\ ImportVol \in [Layer -> Work]
  /\ LoadVol \in [Tag -> Work]
  /\ FetchVol \in [Tag -> Work]

ASSUME BoundAssumption == MaxFaults \in Nat

VARIABLES
  pool,       \* the volumes in the storage pool
  backing,    \* backing[v]: the backing file of volume v of the pool
  content,    \* content[v]: the digest of what v holds, None for anything else
  defined,    \* the VMs whose domain is defined
  faults,     \* faults so far
  pc,         \* the next call of each invocation, or how it ended
  op,         \* its command
  img,        \* the image named on the command line
  goal,       \* the top layer of the registry image to pull
  top,        \* topLayer
  src,        \* the working volume of the command
  dig,        \* diffID of the layer that src becomes
  cur,        \* DeleteAllIfUnused: rl
  dep,        \* DeleteAllIfUnused: dep
  seen,       \* DeleteIfUnused: the part of vols it has yet to read
  todo        \* image prune: the images or layers it has yet to visit

store == <<pool, backing, content>>
cmd == <<op, img, goal>>
work == <<top, src, dig>>
walk == <<cur, dep, seen>>
locals == <<cmd, work, walk, todo>>
vars == <<store, defined, faults, pc, locals>>

Ended == {"ok", "failed", "crashed"}

Labels == Ended \cup
  {"pull_find", "dyn_create", "dyn_upload", "drop",
   "conv_find", "conv_clone", "conv_fill", "conv_delete", "conv_undo",
   "make_find", "make_dep", "make_create",
   "del_dep", "del_list", "del_scan", "del_delete",
   "rm_find", "prune_tags", "prune_list", "prune_next",
   "spawn_find", "spawn_define", "spawn_create",
   "vmrm_find", "undefine", "commit_rm", "commit_find"}

\* image prune is two commands in one: the images that have not been used for
\* long (--delete-unused), then the layers.
OpNames == {"none", "pull", "load", "fetch", "rm", "prune_unused", "prune",
            "run", "vmrm", "commit"}

Init ==
  /\ pool = {}
  /\ backing = [v \in Volume |-> None]
  /\ content = [v \in Volume |-> None]
  /\ defined = {}
  /\ faults = 0
  /\ pc = [p \in Procs |-> "ok"]
  /\ op = [p \in Procs |-> "none"]
  /\ img = [p \in Procs |-> None]
  /\ goal = [p \in Procs |-> None]
  /\ top = [p \in Procs |-> None]
  /\ src = [p \in Procs |-> None]
  /\ dig = [p \in Procs |-> None]
  /\ cur = [p \in Procs |-> None]
  /\ dep = [p \in Procs |-> None]
  /\ seen = [p \in Procs |-> {}]
  /\ todo = [p \in Procs |-> {}]

-----------------------------------------------------------------------------
(* What the invocations share: control flow, faults, libvirt calls.        *)

\* The next call of p is l.
Goto(p, l) == pc' = [pc EXCEPT ![p] = l]

\* The next call of p is l, and its local variables keep their values.
Continue(p, l) == Goto(p, l) /\ UNCHANGED locals

\* p starts command o for image t, registry image g, working volume w of
\* digest d and list q; the next call is l.
Begin(p, l, o, t, g, w, d, q) ==
  /\ pc[p] \in Ended
  /\ o \in Ops
  /\ Goto(p, l)
  /\ op' = [op EXCEPT ![p] = o]
  /\ img' = [img EXCEPT ![p] = t]
  /\ goal' = [goal EXCEPT ![p] = g]
  /\ src' = [src EXCEPT ![p] = w]
  /\ dig' = [dig EXCEPT ![p] = d]
  /\ todo' = [todo EXCEPT ![p] = q]
  /\ UNCHANGED <<store, defined, faults, top, walk>>

\* The command of p ends with result r: "ok", or "failed" for an error.
Finish(p, r) ==
  /\ Goto(p, r)
  /\ op' = [op EXCEPT ![p] = "none"]
  /\ img' = [img EXCEPT ![p] = None]
  /\ goal' = [goal EXCEPT ![p] = None]
  /\ top' = [top EXCEPT ![p] = None]
  /\ src' = [src EXCEPT ![p] = None]
  /\ dig' = [dig EXCEPT ![p] = None]
  /\ cur' = [cur EXCEPT ![p] = None]
  /\ dep' = [dep EXCEPT ![p] = None]
  /\ seen' = [seen EXCEPT ![p] = {}]
  /\ todo' = [todo EXCEPT ![p] = {}]

\* One more fault of kind k happens.
Fault(k) ==
  /\ k \in Faults
  /\ faults < MaxFaults
  /\ faults' = faults + 1

\* StorageVolCreateXML succeeds for a new name and an existing backing file.
CanCreate(v, b) == v \notin pool /\ (b # None => b \in pool)

\* StorageVolCreateXML: the new volume is an empty overlay on b.
CreateVol(v, b) ==
  /\ pool' = pool \cup {v}
  /\ backing' = [backing EXCEPT ![v] = b]
  /\ content' = [content EXCEPT ![v] = None]

\* StorageVolDelete, which RawLayer.Delete accepts for a missing volume too.
DeleteVol(v) ==
  /\ pool' = pool \ {v}
  /\ backing' = [backing EXCEPT ![v] = None]
  /\ content' = [content EXCEPT ![v] = None]

\* StorageVolUpload of content d: the volume now has the header of d.
UploadVol(v, d) ==
  /\ content' = [content EXCEPT ![v] = d]
  /\ backing' = [backing EXCEPT ![v] = Parent[d]]
  /\ UNCHANGED pool

\* A call of DeleteAllIfUnused on volume v.
DeleteAllIfUnused(p, v) ==
  /\ Goto(p, "del_dep")
  /\ cur' = [cur EXCEPT ![p] = v]
  /\ UNCHANGED <<dep, seen>>

-----------------------------------------------------------------------------
(* ImageImport, ImageImportFromReader and image load: into a work volume.  *)

\* image pull: import the registry image with top layer g as image t.
Pull(p) ==
  \E t \in Tag, g \in Layer :
    Begin(p, "pull_find", "pull", t, g, None, None, {})

\* image load: a standalone qcow2 file, through the buffer "load-<t>".
Load(p) ==
  \E t \in Tag, d \in Layer :
    /\ Parent[d] = None
    /\ Begin(p, "dyn_create", "load", t, None, LoadVol[t], d, {})

\* Pulling from a plain URL: ImageImportFromReader, through the buffer "<t>".
Fetch(p) ==
  \E t \in Tag, d \in Layer :
    /\ Parent[d] = None
    /\ Begin(p, "dyn_create", "fetch", t, None, FetchVol[t], d, {})

\* The loop over the layers of the registry image: FindVolumeLayer.
PullFind(p) ==
  /\ pc[p] = "pull_find"
  /\ \/ /\ top[p] = goal[p]
        /\ Goto(p, "make_find")
        /\ UNCHANGED work
     \/ /\ top[p] # goal[p]
        /\ \E d \in Anc[goal[p]] :
             /\ Parent[d] = top[p]
             /\ \/ /\ d \in pool
                   /\ Goto(p, "pull_find")
                   /\ top' = [top EXCEPT ![p] = d]
                   /\ UNCHANGED <<src, dig>>
                \/ /\ d \notin pool
                   /\ Goto(p, "dyn_create")
                   /\ dig' = [dig EXCEPT ![p] = d]
                   /\ src' = [src EXCEPT ![p] = ImportVol[d]]
                   /\ UNCHANGED top
  /\ UNCHANGED <<store, defined, faults, cmd, walk, todo>>

\* NewDynamicLayer for the buffer, on top of the layers imported so far.
DynCreate(p) ==
  /\ pc[p] = "dyn_create"
  /\ \/ /\ CanCreate(src[p], top[p])
        /\ CreateVol(src[p], top[p])
        /\ Continue(p, "dyn_upload")
     \/ /\ ~CanCreate(src[p], top[p])
        /\ Finish(p, "failed")
        /\ UNCHANGED store
  /\ UNCHANGED <<defined, faults>>

\* What a failed upload or conversion leads to: some commands delete their
\* buffer, the others leave it.
OnError(p, dropping) ==
  IF op[p] \in dropping THEN Continue(p, "drop") ELSE Finish(p, "failed")

\* RawLayer.Upload of the data from the registry, file or URL.  After an error
\* ImageImport and ImageImportFromReader delete the buffer, image load does not.
DynUpload(p) ==
  /\ pc[p] = "dyn_upload"
  /\ \/ /\ src[p] \in pool
        /\ UploadVol(src[p], dig[p])
        /\ Continue(p, "conv_find")
        /\ UNCHANGED faults
     \/ /\ IF src[p] \in pool THEN Fault("upload") ELSE UNCHANGED faults
        /\ OnError(p, {"pull", "fetch"})
        /\ UNCHANGED store
  /\ UNCHANGED defined

\* The deletion of the buffer after an error.
Drop(p) ==
  /\ pc[p] = "drop"
  /\ DeleteVol(src[p])
  /\ Finish(p, "failed")
  /\ UNCHANGED <<defined, faults>>

-----------------------------------------------------------------------------
(* RawLayer.ToVolumeLayer: the work volume src becomes layer dig.  After   *)
(* an error only ImageImport deletes the work volume.                      *)

\* The digest, computed from the volume when the caller does not know it.
DiffID(p) == IF op[p] \in {"load", "commit"} THEN content[src[p]] ELSE dig[p]

\* The digest and the lookup of its layer.  Any lookup error other than "no
\* such volume" is taken for a hit, with a volume that has no name (None).
ConvFind(p) ==
  /\ pc[p] = "conv_find"
  /\ \/ /\ DiffID(p) = None \/ src[p] \notin pool
        /\ OnError(p, {"pull"})
        /\ UNCHANGED faults
     \/ /\ DiffID(p) # None /\ src[p] \in pool
        /\ \/ /\ Goto(p, IF DiffID(p) \in pool THEN "conv_delete" ELSE "conv_clone")
              /\ dig' = [dig EXCEPT ![p] = DiffID(p)]
              /\ UNCHANGED faults
           \/ /\ Fault("lookup")
              /\ Goto(p, "conv_delete")
              /\ dig' = [dig EXCEPT ![p] = None]
        /\ UNCHANGED <<cmd, top, src, walk, todo>>
  /\ UNCHANGED <<store, defined>>

\* Mutant: the clone is created without WithBackingLayer.
ConvCloneFlat(p) ==
  /\ pc[p] = "conv_clone"
  /\ src[p] \in pool /\ CanCreate(dig[p], None)
  /\ CreateVol(dig[p], None)
  /\ Continue(p, "conv_fill")
  /\ UNCHANGED <<defined, faults>>

\* CloneAs, first half: Descriptor of src and creation of the layer volume,
\* under its final name and still empty.
ConvClone(p) ==
  /\ pc[p] = "conv_clone"
  /\ \/ /\ src[p] \in pool /\ CanCreate(dig[p], backing[src[p]])
        /\ CreateVol(dig[p], backing[src[p]])
        /\ Continue(p, "conv_fill")
     \/ /\ ~(src[p] \in pool /\ CanCreate(dig[p], backing[src[p]]))
        /\ OnError(p, {"pull"})
        /\ UNCHANGED store
  /\ UNCHANGED <<defined, faults>>

\* Mutant: the clone is never filled.
ConvFillNothing(p) ==
  /\ pc[p] = "conv_fill"
  /\ Continue(p, "conv_delete")
  /\ UNCHANGED <<store, defined, faults>>

\* CloneAs, second half: src is downloaded to a file and the file uploaded.
\* A failed upload is an error and leaves the volume; a failed download is
\* only logged, and what arrived is uploaded as if it were all.
ConvFill(p) ==
  /\ pc[p] = "conv_fill"
  /\ \/ /\ src[p] \in pool /\ dig[p] \in pool
        /\ content' = [content EXCEPT ![dig[p]] = content[src[p]]]
        /\ Continue(p, "conv_delete")
        /\ UNCHANGED <<pool, backing, faults>>
     \/ /\ dig[p] \in pool
        /\ IF src[p] \in pool THEN Fault("download") ELSE UNCHANGED faults
        /\ Continue(p, "conv_delete")
        /\ UNCHANGED store
     \/ /\ IF dig[p] \in pool THEN Fault("upload") ELSE UNCHANGED faults
        /\ OnError(p, {"pull"})
        /\ UNCHANGED store
  /\ UNCHANGED defined

\* rl.Delete: the work volume goes.  A layer volume without a name makes the
\* next call that uses it fail.
ConvDelete(p) ==
  /\ pc[p] = "conv_delete"
  /\ \/ /\ DeleteVol(src[p])
        /\ \/ /\ dig[p] = None
              /\ Finish(p, "failed")
           \/ /\ dig[p] # None
              /\ Goto(p, IF op[p] = "pull" THEN "pull_find" ELSE "make_find")
              /\ top' = [top EXCEPT ![p] = dig[p]]
              /\ dig' = [dig EXCEPT ![p] = None]
              /\ src' = [src EXCEPT ![p] = None]
              /\ UNCHANGED <<cmd, walk, todo>>
        /\ UNCHANGED faults
     \/ /\ Fault("delete")
        /\ Continue(p, "conv_undo")
        /\ UNCHANGED store
  /\ UNCHANGED defined

\* vl.Delete: the clean-up after a failed rl.Delete removes the layer.
ConvUndo(p) ==
  /\ pc[p] = "conv_undo"
  /\ IF dig[p] = None THEN UNCHANGED store ELSE DeleteVol(dig[p])
  /\ OnError(p, {"pull"})
  /\ UNCHANGED <<defined, faults>>

-----------------------------------------------------------------------------
(* MakeImage: tag img is made to point to layer top.                       *)

\* FindRawLayer of the tag.
MakeFind(p) ==
  /\ pc[p] = "make_find"
  /\ Continue(p, IF img[p] \in pool THEN "make_dep" ELSE "make_create")
  /\ UNCHANGED <<store, defined, faults>>

\* Dependency of the existing tag: nothing to do if it is the same layer,
\* otherwise the old image is removed first.
MakeDep(p) ==
  /\ pc[p] = "make_dep"
  /\ \/ /\ img[p] \notin pool
        /\ Finish(p, "failed")
     \/ /\ img[p] \in pool /\ backing[img[p]] = top[p]
        /\ Finish(p, "ok")
     \/ /\ img[p] \in pool /\ backing[img[p]] # top[p]
        /\ DeleteAllIfUnused(p, img[p])
        /\ UNCHANGED <<cmd, work, todo>>
  /\ UNCHANGED <<store, defined, faults>>

\* emptyVolume for the tag, on top of topLayer.
MakeCreate(p) ==
  /\ pc[p] = "make_create"
  /\ \/ /\ CanCreate(img[p], top[p])
        /\ CreateVol(img[p], top[p])
        /\ Finish(p, "ok")
     \/ /\ ~CanCreate(img[p], top[p])
        /\ Finish(p, "failed")
        /\ UNCHANGED store
  /\ UNCHANGED <<defined, faults>>

-----------------------------------------------------------------------------
(* DeleteAllIfUnused and DeleteIfUnused on volume cur.                     *)

\* What the callers of DeleteAllIfUnused do next.
AfterWalk(o) ==
  CASE o = "rm" -> "ok"
    [] o = "vmrm" -> "undefine"
    [] o = "prune_unused" -> "prune_tags"
    [] o = "prune" -> "prune_next"
    [] OTHER -> "make_create"

\* The end of the walk, after success or when cur is in use.
DelReturn(p) ==
  \/ /\ op[p] = "rm"
     /\ Finish(p, AfterWalk(op[p]))
  \/ /\ op[p] # "rm"
     /\ Goto(p, AfterWalk(op[p]))
     /\ cur' = [cur EXCEPT ![p] = None]
     /\ dep' = [dep EXCEPT ![p] = None]
     /\ seen' = [seen EXCEPT ![p] = {}]
     /\ UNCHANGED <<cmd, work, todo>>

\* An error ends the command, but prune goes on with the next layer.
DelError(p) == IF op[p] = "prune" THEN DelReturn(p) ELSE Finish(p, "failed")

\* Dependency of cur.
DelDep(p) ==
  /\ pc[p] = "del_dep"
  /\ \/ /\ cur[p] \in pool
        /\ Goto(p, "del_list")
        /\ dep' = [dep EXCEPT ![p] = backing[cur[p]]]
        /\ UNCHANGED <<cmd, work, cur, seen, todo>>
     \/ /\ cur[p] \notin pool
        /\ DelError(p)
  /\ UNCHANGED <<store, defined, faults>>

\* StoragePoolListAllVolumes.
DelList(p) ==
  /\ pc[p] = "del_list"
  /\ Goto(p, "del_scan")
  /\ seen' = [seen EXCEPT ![p] = pool]
  /\ UNCHANGED <<store, defined, faults, cmd, work, cur, dep, todo>>

\* Mutant: only tags and layers count as users, boot volumes do not.
DelScanNoWork(p) ==
  /\ pc[p] = "del_scan"
  /\ \/ /\ \A v \in seen[p] \ Work : backing[v] # cur[p]
        /\ Continue(p, "del_delete")
     \/ /\ \E v \in seen[p] \ Work : backing[v] = cur[p]
        /\ DelReturn(p)
  /\ UNCHANGED <<store, defined, faults>>

\* Mutant: the loop over the volumes does not advance.
DelScanForever(p) ==
  /\ pc[p] = "del_scan"
  /\ \/ /\ seen[p] = {}
        /\ Continue(p, "del_delete")
     \/ /\ \E v \in seen[p] : backing[v] = cur[p]
        /\ DelReturn(p)
  /\ UNCHANGED <<store, defined, faults>>

\* Dependency of the next volume of the list, in the order libvirt lists
\* them; a volume deleted since the listing is skipped.
DelScan(p) ==
  /\ pc[p] = "del_scan"
  /\ \/ /\ seen[p] = {}
        /\ Continue(p, "del_delete")
     \/ \E v \in seen[p] :
          \/ /\ v \in pool /\ backing[v] = cur[p]
             /\ DelReturn(p)
          \/ /\ ~(v \in pool /\ backing[v] = cur[p])
             /\ Goto(p, "del_scan")
             /\ seen' = [seen EXCEPT ![p] = @ \ {v}]
             /\ UNCHANGED <<cmd, work, cur, dep, todo>>
  /\ UNCHANGED <<store, defined, faults>>

\* Mutant: cur is deleted, but not what it was based on.
DelDeleteOne(p) ==
  /\ pc[p] = "del_delete"
  /\ DeleteVol(cur[p])
  /\ DelReturn(p)
  /\ UNCHANGED <<defined, faults>>

\* Delete of cur, and on to what it was based on.
DelDelete(p) ==
  /\ pc[p] = "del_delete"
  /\ \/ /\ DeleteVol(cur[p])
        /\ \/ /\ dep[p] = None
              /\ DelReturn(p)
           \/ /\ dep[p] # None
              /\ Goto(p, "del_dep")
              /\ cur' = [cur EXCEPT ![p] = dep[p]]
              /\ dep' = [dep EXCEPT ![p] = None]
              /\ UNCHANGED <<cmd, work, seen, todo>>
        /\ UNCHANGED faults
     \/ /\ Fault("delete")
        /\ DelError(p)
        /\ UNCHANGED store
  /\ UNCHANGED defined

-----------------------------------------------------------------------------
(* image rm and image prune.                                               *)

Rm(p) == \E t \in Tag : Begin(p, "rm_find", "rm", t, None, None, None, {})

\* ImageRm: FindImage, and the walk if the image is there.
RmFind(p) ==
  /\ pc[p] = "rm_find"
  /\ \/ /\ img[p] \in pool
        /\ DeleteAllIfUnused(p, img[p])
        /\ UNCHANGED <<cmd, work, todo>>
     \/ /\ img[p] \notin pool
        /\ Finish(p, "ok")
  /\ UNCHANGED <<store, defined, faults>>

\* image prune, with --delete-unused (a visit to all of ImageList) or without.
Prune(p) ==
  \/ Begin(p, "prune_tags", "prune_unused", None, None, None, None, pool \cap Tag)
  \/ Begin(p, "prune_list", "prune", None, None, None, None, {})

\* The next image: without its top layer (as listed, so that it may or may not
\* be there if the tag has gone) the command ends; the access time of that
\* layer says whether the image is kept or given to ImageRm.
PruneTags(p) ==
  /\ pc[p] = "prune_tags"
  /\ \/ /\ todo[p] = {}
        /\ Goto(p, "prune_list")
        /\ op' = [op EXCEPT ![p] = "prune"]
        /\ UNCHANGED <<img, goal, work, walk, todo>>
     \/ \E t \in todo[p] :
          /\ t \in pool => backing[t] \notin pool
          /\ Finish(p, "failed")
     \/ \E t \in todo[p] :
          /\ t \in pool => backing[t] \in pool
          /\ todo' = [todo EXCEPT ![p] = @ \ {t}]
          /\ \/ Goto(p, "prune_tags") /\ UNCHANGED walk
             \/ t \in pool /\ DeleteAllIfUnused(p, t)
          /\ UNCHANGED <<cmd, work>>
  /\ UNCHANGED <<store, defined, faults>>

\* LayerList.
PruneList(p) ==
  /\ pc[p] = "prune_list"
  /\ Goto(p, "prune_next")
  /\ todo' = [todo EXCEPT ![p] = pool \cap Layer]
  /\ UNCHANGED <<store, defined, faults, cmd, work, walk>>

\* The next layer of the list, in the order libvirt listed them.
PruneNext(p) ==
  /\ pc[p] = "prune_next"
  /\ \/ /\ todo[p] = {}
        /\ Finish(p, "ok")
     \/ \E d \in todo[p] :
          /\ todo' = [todo EXCEPT ![p] = @ \ {d}]
          /\ DeleteAllIfUnused(p, d)
          /\ UNCHANGED <<cmd, work>>
  /\ UNCHANGED <<store, defined, faults>>

-----------------------------------------------------------------------------
(* vm run, vm rm and vm commit, as far as the boot volume is concerned.    *)

Run(p) ==
  \E t \in Tag, v \in VM : Begin(p, "spawn_find", "run", t, None, v, None, {})

\* FindImage gives the top layer, read here and used two calls later.
SpawnFind(p) ==
  /\ pc[p] = "spawn_find"
  /\ \/ /\ img[p] \in pool
        /\ Goto(p, "spawn_define")
        /\ top' = [top EXCEPT ![p] = backing[img[p]]]
        /\ UNCHANGED <<cmd, src, dig, walk, todo>>
     \/ /\ img[p] \notin pool
        /\ Finish(p, "failed")
  /\ UNCHANGED <<store, defined, faults>>

\* VMRun: no such domain, no boot volume of that name, DomainDefineXML.
SpawnDefine(p) ==
  /\ pc[p] = "spawn_define"
  /\ \/ /\ src[p] \notin defined \cup pool
        /\ defined' = defined \cup {src[p]}
        /\ Continue(p, "spawn_create")
     \/ /\ src[p] \in defined \cup pool
        /\ Finish(p, "failed")
        /\ UNCHANGED defined
  /\ UNCHANGED <<store, faults>>

\* Mutant: the boot volume is based on the tag volume instead of the top layer.
SpawnCreateOnTag(p) ==
  /\ pc[p] = "spawn_create"
  /\ CanCreate(src[p], img[p])
  /\ CreateVol(src[p], img[p])
  /\ Finish(p, "ok")
  /\ UNCHANGED <<defined, faults>>

\* ImageSpawn: the boot volume, an overlay on the top layer of the image.
SpawnCreate(p) ==
  /\ pc[p] = "spawn_create"
  /\ \/ /\ CanCreate(src[p], top[p])
        /\ CreateVol(src[p], top[p])
        /\ Finish(p, "ok")
     \/ /\ ~CanCreate(src[p], top[p])
        /\ Finish(p, "failed")
        /\ UNCHANGED store
  /\ UNCHANGED <<defined, faults>>

VMRm(p) ==
  \E v \in defined : Begin(p, "vmrm_find", "vmrm", None, None, v, None, {})

\* rmVolume of the boot disk.
VMRmFind(p) ==
  /\ pc[p] = "vmrm_find"
  /\ \/ /\ src[p] \in pool
        /\ DeleteAllIfUnused(p, src[p])
        /\ UNCHANGED <<cmd, work, todo>>
     \/ /\ src[p] \notin pool
        /\ Continue(p, "undefine")
  /\ UNCHANGED <<store, defined, faults>>

\* DomainUndefineFlags, at the end of VMRm.
Undefine(p) ==
  /\ pc[p] = "undefine"
  /\ Finish(p, IF src[p] \in defined THEN "ok" ELSE "failed")
  /\ defined' = defined \ {src[p]}
  /\ UNCHANGED <<store, faults>>

\* vm commit, bounded to VMs for which Layer has some content left.
Commit(p) ==
  \E t \in Tag, v \in defined :
    /\ v \in pool => \E d \in Layer : Parent[d] = backing[v]
    /\ Begin(p, "commit_rm", "commit", t, None, v, None, {})

\* VMCommit: the stopped VM, whose guest has left some content on its boot
\* volume, is removed except for that volume.
CommitRm(p) ==
  /\ pc[p] = "commit_rm"
  /\ \/ /\ src[p] \in defined
        /\ Continue(p, "commit_find")
        /\ \/ /\ src[p] \in pool
              /\ \E d \in Layer :
                   /\ Parent[d] = backing[src[p]]
                   /\ content' = [content EXCEPT ![src[p]] = d]
           \/ /\ src[p] \notin pool
              /\ UNCHANGED content
     \/ /\ src[p] \notin defined
        /\ Finish(p, "failed")
        /\ UNCHANGED content
  /\ defined' = defined \ {src[p]}
  /\ UNCHANGED <<pool, backing, faults>>

\* FindDynamicLayer of the boot volume.
CommitFind(p) ==
  /\ pc[p] = "commit_find"
  /\ \/ src[p] \in pool /\ Continue(p, "conv_find")
     \/ src[p] \notin pool /\ Finish(p, "failed")
  /\ UNCHANGED <<store, defined, faults>>

-----------------------------------------------------------------------------
\* The process is killed, interrupted or leaves through log.Fatal between
\* two of its calls; the storage pool stays as it is.
Crash(p) ==
  /\ pc[p] \notin Ended
  /\ Fault("crash")
  /\ Finish(p, "crashed")
  /\ UNCHANGED <<store, defined>>

Command(p) ==
  \/ Pull(p) \/ Load(p) \/ Fetch(p) \/ Rm(p) \/ Prune(p)
  \/ Run(p) \/ VMRm(p) \/ Commit(p)

ImportStep(p) == PullFind(p) \/ DynCreate(p) \/ DynUpload(p) \/ Drop(p)

ConvStep(p) ==
  ConvFind(p) \/ ConvClone(p) \/ ConvFill(p) \/ ConvDelete(p) \/ ConvUndo(p)

MakeStep(p) == MakeFind(p) \/ MakeDep(p) \/ MakeCreate(p)

DelStep(p) == DelDep(p) \/ DelList(p) \/ DelScan(p) \/ DelDelete(p)

RmStep(p) == RmFind(p) \/ PruneTags(p) \/ PruneList(p) \/ PruneNext(p)

VMStep(p) ==
  \/ SpawnFind(p) \/ SpawnDefine(p) \/ SpawnCreate(p)
  \/ VMRmFind(p) \/ Undefine(p) \/ CommitRm(p) \/ CommitFind(p)

\* The next call of an invocation that is under way.
Step(p) ==
  ImportStep(p) \/ ConvStep(p) \/ MakeStep(p) \/ DelStep(p) \/ RmStep(p) \/ VMStep(p)

Next == \E p \in Procs : Command(p) \/ Step(p) \/ Crash(p)

Spec == Init /\ [][Next]_vars

\* A process that is running goes on running; commands need not be given.
FairSpec == Spec /\ \A p \in Procs : WF_vars(Step(p))

-----------------------------------------------------------------------------
(* Properties.                                                             *)

StoreType ==
  /\ pool \subseteq Volume
  /\ backing \in [Volume -> Layer \cup {None}]
  /\ content \in [Volume -> Layer \cup {None}]
  /\ defined \subseteq VM
  /\ faults \in 0..MaxFaults

LocalType ==
  /\ pc \in [Procs -> Labels]
  /\ op \in [Procs -> OpNames]
  /\ img \in [Procs -> Tag \cup {None}]
  /\ goal \in [Procs -> Layer \cup {None}]
  /\ top \in [Procs -> Layer \cup {None}]
  /\ src \in [Procs -> Work \cup {None}]
  /\ dig \in [Procs -> Layer \cup {None}]
  /\ cur \in [Procs -> Volume \cup {None}]
  /\ dep \in [Procs -> Layer \cup {None}]
  /\ seen \in [Procs -> SUBSET Volume]
  /\ todo \in [Procs -> SUBSET Volume]

\* The types of the storage pool and of the invocations' local variables.
TypeOK == StoreType /\ LocalType

\* Volume v is the backing file of some volume of the pool.
InUse(v) == \E u \in pool : backing[u] = v

\* Every volume has its backing file: no rm, prune, image replacement or vm rm
\* takes a layer away from an image, a layer or a boot disk that needs it
\* (DeleteIfUnused), and none is created on a layer that is gone
\* (WithBackingLayer), wherever the command is interrupted.
NoDangling == \A v \in pool : backing[v] # None => backing[v] \in pool

\* When prune has been through its list, every layer left is in use, whatever
\* the shape of the layer forest, the order of the list and what commands that
\* died have left behind: following the chain after a deletion makes up for
\* layers tried too early.
PruneComplete ==
  \A p \in Procs :
    pc[p] = "prune_next" /\ todo[p] = {} =>
      \A d \in pool \cap Layer : InUse(d)

\* Between commands no layer is kept without a user: MakeImage, ImageRm and
\* VMRm remove what the image or VM that goes was the last to use.
NoGarbage ==
  (\A p \in Procs : pc[p] \in Ended) => \A d \in pool \cap Layer : InUse(d)

\* An image or VM has all layers of its chain, each holding the content that
\* its name promises, so that later pulls may reuse them by name.
ImageComplete ==
  \A v \in pool \cap (Tag \cup VM) :
    backing[v] # None =>
      \A d \in Anc[backing[v]] :
        d \in pool /\ content[d] = d /\ backing[d] = Parent[d]

\* A layer volume never holds or stands on anything but what its digest says;
\* at worst, an interrupted CloneAs leaves it empty.
LayersSound ==
  \A d \in pool \cap Layer : content[d] \in {d, None} /\ backing[d] = Parent[d]

\* ToVolumeLayer deletes the working volume only once its content is in the
\* layer volume.
SourceCopied ==
  [][\A p \in Procs :
       pc[p] = "conv_delete" /\ src[p] \in pool \ pool' =>
         \E d \in pool' \cap Layer : content'[d] = content[src[p]]]_vars

\* A command that is to leave an image behind does not take it away instead:
\* if pull, load or commit fails, an image of that name that was there still is.
ReplaceKeepsImage ==
  [][\A p \in Procs :
       pc[p] = "make_create" /\ pc'[p] = "failed" => img[p] \in pool']_vars

\* Every command ends: the walks down a chain, over the volumes and over the
\* layers of an image all finish, also while others change the pool.
CommandsEnd == \A p \in Procs : pc[p] \notin Ended ~> pc[p] \in Ended
=============================================================================
