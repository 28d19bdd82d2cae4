----------------------------- MODULE BuildCache -----------------------------
(***************************************************************************)
(* virter image build with --push and --build-id, and image push: the      *)
(* container registry as a cache of provisioned images                     *)
(* (cmd/image_build.go, cmd/image_push.go, cmd/image.go).                  *)
(*                                                                         *)
(* Hosts have pools of their own and share a registry.  There is one base  *)
(* image, of which hosts may have different versions, and one image that   *)
(* is built from it.  An image is the sequence of its layers (DiffIDs); in *)
(* the registry it also has a history, of which virter uses the comment of *)
(* the last entry.  What happens inside an import, a build of a VM or a    *)
(* removal is in modules LayerStore and VMLifecycle.                       *)
(***************************************************************************)
EXTENDS Integers, Sequences, SequencesExt

CONSTANTS
  Hosts,
  BuildID,     \* the values of --build-id but the empty one
  NoID,        \* no --build-id
  NBase,       \* layers 1..NBase are those of base images, the rest is built
  BaseImages,  \* the versions of the base image
  Foreign,     \* what others may have pushed as the target before
  Requests,    \* the options that image build is called with
  MaxBuilds,   \* bound on the number of provisioned layers
  None

History == BuildID \cup {NoID, None}
DiffIDs == Seq(1..(NBase + MaxBuilds))
Image == [ids : DiffIDs \ {<<>>}, hist : History, built : BOOLEAN]

\* A layer determines the ones below it: its digest covers the name of the volume
\* it stands on.
ASSUME BuildCacheAssumption ==
  /\ NBase \in Nat /\ MaxBuilds \in Nat
  /\ None \notin Image
  /\ BaseImages \subseteq DiffIDs \ {<<>>}
  /\ \A b, c \in BaseImages : Last(b) = Last(c) => b = c
  /\ Foreign \subseteq Image
  /\ \A f \in Foreign : ~f.built
  /\ Requests \subseteq [id : BuildID \cup {NoID}, push : BOOLEAN, nocache : BOOLEAN]

VARIABLES
  remote,     \* the target image in the registry: its layers, its history and
              \* whether image build has pushed it; or None
  local,      \* local[h]: the target image in the pool of h, <<>> if absent
  made,       \* made[n]: the layer and the build ID that layer NBase + n was
              \* provisioned on and with
  pc,         \* what the invocation at h does next
  req,        \* its options
  seen,       \* existingTargetImage
  base,       \* baseImage
  img,        \* the image it has pulled or is about to push
  overwritten \* auxiliary: whether anybody has pushed the target since the
              \* invocation read it

locals == <<req, seen, base, img>>
vars == <<remote, local, made, pc, locals, overwritten>>

Idle == {"idle", "cached"}

Labels == Idle \cup
  {"check", "base", "pull", "provision", "find", "write", "push_write"}

Init ==
  /\ remote \in Foreign \cup {None}
  /\ local = [h \in Hosts |-> <<>>]
  /\ made = <<>>
  /\ pc = [h \in Hosts |-> "idle"]
  /\ req = [h \in Hosts |-> None]
  /\ seen = [h \in Hosts |-> None]
  /\ base = [h \in Hosts |-> <<>>]
  /\ img = [h \in Hosts |-> <<>>]
  /\ overwritten = [h \in Hosts |-> FALSE]

Goto(h, l) == pc' = [pc EXCEPT ![h] = l]

\* The command ends, with or without success.
Finish(h) ==
  /\ Goto(h, "idle")
  /\ req' = [req EXCEPT ![h] = None]
  /\ seen' = [seen EXCEPT ![h] = None]
  /\ base' = [base EXCEPT ![h] = <<>>]
  /\ img' = [img EXCEPT ![h] = <<>>]

-----------------------------------------------------------------------------
(* image build.                                                            *)

Build(h) ==
  /\ pc[h] \in Idle
  /\ \E r \in Requests :
       /\ req' = [req EXCEPT ![h] = r]
       /\ Goto(h, IF r.push THEN "check" ELSE "base")
  /\ seen' = [seen EXCEPT ![h] = None]
  /\ base' = [base EXCEPT ![h] = <<>>]
  /\ img' = [img EXCEPT ![h] = <<>>]
  /\ UNCHANGED <<remote, local, made, overwritten>>

\* CheckPushPermission, and remote.Image, whose error is taken for an image that
\* does not exist.
BuildCheck(h) ==
  /\ pc[h] = "check"
  /\ \E i \in {remote, None} : seen' = [seen EXCEPT ![h] = i]
  /\ overwritten' = [overwritten EXCEPT ![h] = FALSE]
  /\ Goto(h, "base")
  /\ UNCHANGED <<remote, local, made, req, base, img>>

\* Mutant: only the build ID counts.
ProvisionStepsUnchangedID(b, target, id) == target.hist = id

\* provisionStepsUnchanged: the last history entry is the build ID, and the layer
\* below the top is the top layer of the base image.
ProvisionStepsUnchanged(b, target, id) ==
  /\ target.hist = id
  /\ Len(target.ids) >= 2
  /\ target.ids[Len(target.ids) - 1] = Last(b)

\* GetLocalImage for the base image: depending on the pull policy the version
\* that the host has or the one that the registry has by now.  Then the image in
\* the registry is used, or a new one provisioned; the latter also if the
\* configuration of the former cannot be read.
BuildBase(h) ==
  /\ pc[h] = "base"
  /\ \E b \in BaseImages :
       LET cache     == req[h].id # NoID /\ seen[h] # None /\ ~req[h].nocache
           unchanged == cache /\ ProvisionStepsUnchanged(b, seen[h], req[h].id)
       IN /\ base' = [base EXCEPT ![h] = b]
          /\ \/ unchanged /\ Goto(h, "pull") /\ UNCHANGED seen
             \/ ~unchanged /\ Goto(h, "provision") /\ UNCHANGED seen
             \/ /\ cache
                /\ Goto(h, "provision")
                /\ seen' = [seen EXCEPT ![h] = None]
  /\ UNCHANGED <<remote, local, made, req, img, overwritten>>

\* GetLocalImage with policy Always: the target that the registry has by now.
BuildPull(h) ==
  /\ pc[h] = "pull"
  /\ Goto(h, "cached")
  /\ local' = [local EXCEPT ![h] = remote.ids]
  /\ img' = [img EXCEPT ![h] = remote.ids]
  /\ UNCHANGED <<remote, made, req, seen, base, overwritten>>

\* ImageBuild: a new layer on the base image that was read.  What is not used
\* again is forgotten.
BuildProvision(h) ==
  /\ pc[h] = "provision"
  /\ Len(made) < MaxBuilds
  /\ made' = Append(made, [on |-> Last(base[h]), id |-> req[h].id])
  /\ local' = [local EXCEPT ![h] = Append(base[h], NBase + Len(made'))]
  /\ \/ /\ req[h].push
        /\ Goto(h, "find")
        /\ seen' = [seen EXCEPT ![h] = None]
        /\ base' = [base EXCEPT ![h] = <<>>]
        /\ UNCHANGED <<req, img>>
     \/ ~req[h].push /\ Finish(h)
  /\ UNCHANGED <<remote, overwritten>>

\* Mutant: a missing image is not noticed.
BuildFindAny(h) ==
  /\ pc[h] = "find"
  /\ img' = [img EXCEPT ![h] = local[h]]
  /\ Goto(h, "write")
  /\ UNCHANGED <<remote, local, made, req, seen, base, overwritten>>

\* FindImage of the name that was built.
BuildFind(h) ==
  /\ pc[h] = "find"
  /\ \/ /\ local[h] # <<>>
        /\ img' = [img EXCEPT ![h] = local[h]]
        /\ Goto(h, "write")
        /\ UNCHANGED <<req, seen, base>>
     \/ local[h] = <<>> /\ Finish(h)
  /\ UNCHANGED <<remote, local, made, overwritten>>

\* LocalImage as an image of a registry: Layers lists the layers from the base to
\* the top, and ConfigFile their DiffIDs; there is no history.
ConfigFile(i) == [ids |-> i, hist |-> None, built |-> FALSE]

\* Mutant: the history of the image that was there is kept.
HistoryShimKept(i, id) ==
  [ids |-> i.ids, hist |-> IF remote = None THEN id ELSE remote.hist, built |-> TRUE]

\* Mutant: the history is lost.
HistoryShimNone(i, id) == [ids |-> i.ids, hist |-> i.hist, built |-> TRUE]

\* historyShimImage: the build ID becomes the only entry of the history.
HistoryShim(i, id) == [ids |-> i.ids, hist |-> id, built |-> TRUE]

\* remote.Write: the layers, then the manifest under the name of the target.
BuildWrite(h) ==
  /\ pc[h] = "write"
  /\ remote' = HistoryShim(ConfigFile(img[h]), req[h].id)
  /\ overwritten' = [g \in Hosts |-> seen[g] # None]
  /\ Finish(h)
  /\ UNCHANGED <<local, made>>

-----------------------------------------------------------------------------
(* The other commands on the image.                                        *)

\* image push: a local image, without history.
Push(h) ==
  /\ pc[h] \in Idle
  /\ local[h] # <<>>
  /\ Goto(h, "push_write")
  /\ req' = [req EXCEPT ![h] = None]
  /\ seen' = [seen EXCEPT ![h] = None]
  /\ base' = [base EXCEPT ![h] = <<>>]
  /\ img' = [img EXCEPT ![h] = local[h]]
  /\ UNCHANGED <<remote, local, made, overwritten>>

PushWrite(h) ==
  /\ pc[h] = "push_write"
  /\ remote' = ConfigFile(img[h])
  /\ overwritten' = [g \in Hosts |-> seen[g] # None]
  /\ Finish(h)
  /\ UNCHANGED <<local, made>>

\* image pull of the target.
Pull(h) ==
  /\ pc[h] \in Idle
  /\ remote # None
  /\ Finish(h)
  /\ local' = [local EXCEPT ![h] = remote.ids]
  /\ UNCHANGED <<remote, made, overwritten>>

\* image rm, also while a build is under way.
Rm(h) ==
  /\ local[h] # <<>>
  /\ local' = [local EXCEPT ![h] = <<>>]
  /\ IF pc[h] = "cached" THEN Finish(h) ELSE UNCHANGED <<pc, locals>>
  /\ UNCHANGED <<remote, made, overwritten>>

\* A call fails, permission is denied, provisioning fails, or the process ends.
Fail(h) ==
  /\ pc[h] \notin Idle
  /\ Finish(h)
  /\ UNCHANGED <<remote, local, made, overwritten>>

BuildStep(h) ==
  \/ Build(h) \/ BuildCheck(h) \/ BuildBase(h) \/ BuildPull(h)
  \/ BuildProvision(h) \/ BuildFind(h) \/ BuildWrite(h)

Next ==
  \E h \in Hosts :
    BuildStep(h) \/ Push(h) \/ PushWrite(h) \/ Pull(h) \/ Rm(h) \/ Fail(h)

Spec == Init /\ [][Next]_vars

-----------------------------------------------------------------------------
(* Properties.                                                             *)

\* Image ids was provisioned on base image b with build ID id.
Made(ids, b, id) ==
  /\ ids = Append(b, Last(ids))
  /\ Last(ids) - NBase \in 1..Len(made)
  /\ made[Last(ids) - NBase] = [on |-> Last(b), id |-> id]

\* The types of the images and the local variables.
TypeOK ==
  /\ remote \in Image \cup {None}
  /\ local \in [Hosts -> DiffIDs]
  /\ made \in Seq([on : 1..(NBase + MaxBuilds), id : BuildID \cup {NoID}])
  /\ Len(made) <= MaxBuilds
  /\ pc \in [Hosts -> Labels]
  /\ req \in [Hosts -> Requests \cup {None}]
  /\ seen \in [Hosts -> Image \cup {None}]
  /\ base \in [Hosts -> BaseImages \cup {<<>>}]
  /\ img \in [Hosts -> DiffIDs]
  /\ overwritten \in [Hosts -> BOOLEAN]

\* The history of an image that image build has pushed is true: its top layer was
\* provisioned with that build ID on the base image below, whichever host pushed
\* it, although image build looks its result up by name after the build, and an
\* image that was pulled may be pushed again.
HistoryTrue ==
  remote # None /\ remote.built =>
    \E b \in BaseImages : Made(remote.ids, b, remote.hist)

\* A build that reuses an image that image build has pushed has decided so
\* rightly: the image was provisioned with the build ID asked for, on the base
\* image that the build has looked up (doc/provisioning.md, "The build ID acts as a
\* cache key").  What it then pulls, by the name of the target, is the image it
\* has decided about, unless somebody has pushed the target in between: other
\* hosts push builds with other IDs from other base images, and image push.
CacheHit ==
  \A h \in Hosts :
    pc[h] = "cached" /\ seen[h].built =>
      /\ req[h].id # NoID /\ ~req[h].nocache
      /\ Made(seen[h].ids, base[h], req[h].id)
      /\ local[h] = seen[h].ids \/ overwritten[h]

\* Provisioning runs again only if it has to: not if the image that image build
\* has found in the registry was built with the same ID from the same base image.
NoNeedlessBuild ==
  \A h \in Hosts :
    pc[h] = "provision" /\ req[h].id # NoID /\ ~req[h].nocache
      /\ seen[h] # None /\ seen[h].built =>
        ~Made(seen[h].ids, base[h], req[h].id)
=============================================================================
