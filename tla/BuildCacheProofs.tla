-------------------------- MODULE BuildCacheProofs --------------------------
(***************************************************************************)
(* Theorems about BuildCache for any number of hosts, build IDs, base      *)
(* images and builds.                                                      *)
(***************************************************************************)
EXTENDS BuildCache, TLAPS

Building == {"check", "base", "pull", "provision", "find", "write"}

\* The invocation at h has compared existingTargetImage with its base image and
\* build ID, and may use the former.
Comparable(h) == req[h].id # NoID /\ ~req[h].nocache /\ seen[h] # None

Unchanged(h) == ProvisionStepsUnchanged(base[h], seen[h], req[h].id)

\* What an invocation knows at each point of its way.
ControlAt(h) ==
  /\ pc[h] \in Building \cup {"cached"} => req[h] \in Requests
  /\ pc[h] \in {"pull", "cached", "provision"} => base[h] \in BaseImages
  /\ pc[h] \in {"pull", "cached"} => Comparable(h) /\ Unchanged(h)
  /\ pc[h] \in {"base", "pull"} /\ seen[h] # None => remote = seen[h] \/ overwritten[h]
  /\ pc[h] = "cached" => local[h] = seen[h].ids \/ overwritten[h]
  /\ pc[h] = "provision" /\ Comparable(h) => ~Unchanged(h)
  /\ pc[h] \in {"write", "push_write"} => img[h] # <<>>
  /\ seen[h] # None => remote # None

Control == \A h \in Hosts : ControlAt(h)

\* By the record m, ids was provisioned with build ID id on some base image.
MadeIn(m, ids, id) ==
  \E b \in BaseImages :
    /\ ids = Append(b, Last(ids))
    /\ Last(ids) - NBase \in 1..Len(m)
    /\ m[Last(ids) - NBase] = [on |-> Last(b), id |-> id]

\* Images carry the build ID they were provisioned with, from the end of the
\* build to the registry and back into the variables of later builds.
TrueIn(m, i) == i # None /\ i.built => MadeIn(m, i.ids, i.hist)

ProvenanceAt(h) ==
  /\ TrueIn(made, seen[h])
  /\ pc[h] = "find" /\ local[h] # <<>> => MadeIn(made, local[h], req[h].id)
  /\ pc[h] = "write" => MadeIn(made, img[h], req[h].id)

Provenance == TrueIn(made, remote) /\ \A h \in Hosts : ProvenanceAt(h)

Inv == TypeOK /\ Control /\ Provenance

-----------------------------------------------------------------------------
(* Images as sequences.                                                    *)

\* What appending a layer to a base image gives.
LEMMA AppendImage ==
  ASSUME NEW b \in DiffIDs \ {<<>>}, NEW n \in 1..(NBase + MaxBuilds)
  PROVE  /\ Append(b, n) \in DiffIDs \ {<<>>}
         /\ Len(Append(b, n)) >= 2
         /\ Last(Append(b, n)) = n
         /\ Append(b, n)[Len(Append(b, n)) - 1] = Last(b)
  BY BuildCacheAssumption DEF DiffIDs, Last

\* An image that was provisioned stays so whatever is provisioned later.
LEMMA MadeStays ==
  ASSUME TypeOK, NEW r \in [on : 1..(NBase + MaxBuilds), id : BuildID \cup {NoID}],
         NEW ids, NEW id, MadeIn(made, ids, id)
  PROVE  MadeIn(Append(made, r), ids, id)
<1> DEFINE k == Last(ids) - NBase
           m == Append(made, r)
<1>1. PICK b \in BaseImages :
        /\ ids = Append(b, Last(ids))
        /\ k \in 1..Len(made)
        /\ made[k] = [on |-> Last(b), id |-> id]
  BY DEF MadeIn
<1>2. k \in 1..Len(m) /\ m[k] = made[k]
  BY <1>1 DEF TypeOK
<1> QED BY <1>1, <1>2 DEF MadeIn

\* The comparison finds out whether an image was provisioned on a base image
\* with a build ID.
LEMMA UnchangedMade ==
  ASSUME NEW b \in BaseImages, NEW i \in Image, NEW id,
         MadeIn(made, i.ids, i.hist)
  PROVE  ProvisionStepsUnchanged(b, i, id) <=> Made(i.ids, b, id)
<1>1. PICK c \in BaseImages : Made(i.ids, c, i.hist)
  BY DEF MadeIn, Made
<1> DEFINE n == Last(i.ids)
<1>2. i.ids = Append(c, n) /\ made[n - NBase] = [on |-> Last(c), id |-> i.hist]
  BY <1>1 DEF Made
<1>3. i.ids \in DiffIDs \ {<<>>} /\ n \in 1..(NBase + MaxBuilds)
  BY BuildCacheAssumption DEF Image, DiffIDs, Last
<1>4. b \in DiffIDs \ {<<>>} /\ c \in DiffIDs \ {<<>>}
  BY BuildCacheAssumption
<1>5. Len(i.ids) >= 2 /\ i.ids[Len(i.ids) - 1] = Last(c)
  BY <1>2, <1>3, <1>4, AppendImage
<1>6. ASSUME ProvisionStepsUnchanged(b, i, id)
      PROVE  Made(i.ids, b, id)
  <2>1. b = c
    BY <1>5, <1>6, BuildCacheAssumption DEF ProvisionStepsUnchanged
  <2> QED BY <1>1, <1>6, <2>1 DEF ProvisionStepsUnchanged
<1>7. ASSUME Made(i.ids, b, id)
      PROVE  ProvisionStepsUnchanged(b, i, id)
  <2>1. i.ids = Append(b, n) /\ made[n - NBase] = [on |-> Last(b), id |-> id]
    BY <1>7 DEF Made
  <2>2. i.ids[Len(i.ids) - 1] = Last(b)
    BY <1>3, <1>4, <2>1, AppendImage
  <2>3. i.hist = id
    BY <1>2, <2>1
  <2> QED BY <1>5, <2>2, <2>3 DEF ProvisionStepsUnchanged
<1> QED BY <1>6, <1>7

-----------------------------------------------------------------------------
(* Types.                                                                  *)

\* The empty image, and what a local image becomes in the registry.
LEMMA Shapes ==
  /\ <<>> \in DiffIDs
  /\ \A i \in DiffIDs \ {<<>>} :
       ConfigFile(i) \in Image /\ ~ConfigFile(i).built /\ ConfigFile(i) # None
  /\ \A i \in DiffIDs \ {<<>>}, id \in BuildID \cup {NoID} :
       /\ HistoryShim(ConfigFile(i), id) \in Image
       /\ HistoryShim(ConfigFile(i), id) # None
       /\ HistoryShim(ConfigFile(i), id).ids = i
       /\ HistoryShim(ConfigFile(i), id).hist = id
<1>1. <<>> \in DiffIDs
  BY DEF DiffIDs
<1>2. ASSUME NEW i \in DiffIDs \ {<<>>}
      PROVE  ConfigFile(i) \in Image /\ ~ConfigFile(i).built /\ ConfigFile(i) # None
  <2>1. ConfigFile(i) \in Image
    BY DEF Image, ConfigFile, History
  <2>2. ConfigFile(i).built = FALSE
    BY DEF ConfigFile
  <2>3. ConfigFile(i) # None
    BY <2>1, BuildCacheAssumption
  <2> QED BY <2>1, <2>2, <2>3
<1>3. ASSUME NEW i \in DiffIDs \ {<<>>}, NEW id \in BuildID \cup {NoID}
      PROVE  /\ HistoryShim(ConfigFile(i), id) \in Image
             /\ HistoryShim(ConfigFile(i), id) # None
             /\ HistoryShim(ConfigFile(i), id).ids = i
             /\ HistoryShim(ConfigFile(i), id).hist = id
  <2>1. HistoryShim(ConfigFile(i), id) = [ids |-> i, hist |-> id, built |-> TRUE]
    BY DEF ConfigFile, HistoryShim
  <2>2. [ids |-> i, hist |-> id, built |-> TRUE] \in Image
    BY DEF Image, History
  <2>3. HistoryShim(ConfigFile(i), id) \in Image
    BY <2>1, <2>2
  <2>4. HistoryShim(ConfigFile(i), id) # None
    BY <2>3, BuildCacheAssumption
  <2>5. HistoryShim(ConfigFile(i), id).ids = i
    BY <2>1
  <2>6. HistoryShim(ConfigFile(i), id).hist = id
    BY <2>1
  <2> QED BY <2>3, <2>4, <2>5, <2>6
<1> QED BY <1>1, <1>2, <1>3

\* Every step keeps the types.
LEMMA TypeStep ==
  ASSUME Inv, Next
  PROVE  TypeOK'
<1> <<>> \in DiffIDs
  BY Shapes
<1> SUFFICES ASSUME NEW h \in Hosts,
                    BuildStep(h) \/ Push(h) \/ PushWrite(h) \/ Pull(h) \/ Rm(h) \/ Fail(h)
             PROVE  TypeOK'
  BY DEF Next
<1>1. CASE Build(h)
  BY <1>1 DEF Inv, TypeOK, Build, Finish, Goto, Labels, Idle, locals
<1>2. CASE BuildCheck(h)
  BY <1>2 DEF Inv, TypeOK, BuildCheck, Finish, Goto, Labels, Idle, locals
<1>3. CASE BuildBase(h)
  BY <1>3 DEF Inv, TypeOK, BuildBase, Finish, Goto, Labels, Idle, locals
<1>4. CASE BuildPull(h)
  <2>1. remote \in Image
    BY <1>4 DEF Inv, TypeOK, Control, ControlAt, Comparable, BuildPull
  <2>2. remote.ids \in DiffIDs
    BY <2>1 DEF Image
  <2> QED BY <1>4, <2>2 DEF Inv, TypeOK, BuildPull, Goto, Labels, Idle
<1>5. CASE BuildProvision(h)
  <2>1. req[h] \in Requests /\ base[h] \in BaseImages
    BY <1>5 DEF Inv, Control, ControlAt, Building, BuildProvision
  <2>2. Last(base[h]) \in 1..(NBase + MaxBuilds)
    BY <2>1, BuildCacheAssumption DEF DiffIDs, Last
  <2>3. made' \in Seq([on : 1..(NBase + MaxBuilds), id : BuildID \cup {NoID}])
        /\ Len(made') <= MaxBuilds /\ Len(made') >= 1
    BY <1>5, <2>1, <2>2, BuildCacheAssumption DEF Inv, TypeOK, BuildProvision
  <2>4. Append(base[h], NBase + Len(made')) \in DiffIDs
    BY <2>1, <2>3, AppendImage, BuildCacheAssumption
  <2>5. local' \in [Hosts -> DiffIDs]
    BY <1>5, <2>4 DEF Inv, TypeOK, BuildProvision
  <2>6. CASE req[h].push
    BY <1>5, <2>3, <2>5, <2>6 DEF Inv, TypeOK, BuildProvision, Goto, Labels, Idle
  <2>7. CASE ~req[h].push
    <3>1. Finish(h) /\ UNCHANGED <<remote, overwritten>>
      BY <1>5, <2>7 DEF BuildProvision
    <3> QED BY <2>3, <2>5, <3>1 DEF Inv, TypeOK, Finish, Goto, Labels, Idle
  <2> QED BY <2>6, <2>7
<1>6. CASE BuildFind(h)
  <2>1. CASE local[h] # <<>>
    BY <1>6, <2>1 DEF Inv, TypeOK, BuildFind, Goto, Labels, Idle
  <2>2. CASE local[h] = <<>>
    BY <1>6, <2>2 DEF Inv, TypeOK, BuildFind, Finish, Goto, Labels, Idle
  <2> QED BY <2>1, <2>2
<1>7. CASE BuildWrite(h)
  <2>1. req[h] \in Requests /\ img[h] \in DiffIDs \ {<<>>}
    BY <1>7 DEF Inv, TypeOK, Control, ControlAt, Building, BuildWrite
  <2>2. remote' \in Image
    BY <1>7, <2>1, Shapes, BuildCacheAssumption DEF BuildWrite
  <2> QED BY <1>7, <2>2 DEF Inv, TypeOK, BuildWrite, Finish, Goto, Labels, Idle
<1>8. CASE Push(h)
  BY <1>8 DEF Inv, TypeOK, Push, Finish, Goto, Labels, Idle, locals
<1>9. CASE PushWrite(h)
  <2>1. img[h] \in DiffIDs \ {<<>>}
    BY <1>9 DEF Inv, TypeOK, Control, ControlAt, PushWrite
  <2>2. remote' \in Image
    BY <1>9, <2>1, Shapes DEF PushWrite
  <2> QED BY <1>9, <2>2 DEF Inv, TypeOK, PushWrite, Finish, Goto, Labels, Idle
<1>10. CASE Pull(h)
  <2>1. remote.ids \in DiffIDs
    BY <1>10 DEF Inv, TypeOK, Image, Pull
  <2> QED BY <1>10, <2>1 DEF Inv, TypeOK, Pull, Finish, Goto, Labels, Idle
<1>11. CASE Rm(h)
  BY <1>11 DEF Inv, TypeOK, Rm, Finish, Goto, Labels, Idle, locals
<1>12. CASE Fail(h)
  BY <1>12 DEF Inv, TypeOK, Fail, Finish, Goto, Labels, Idle, locals
<1> QED BY <1>1, <1>2, <1>3, <1>4, <1>5, <1>6, <1>7, <1>8, <1>9, <1>10, <1>11, <1>12 DEF BuildStep

-----------------------------------------------------------------------------
(* What a step leaves alone.                                               *)

Step(h) ==
  BuildStep(h) \/ Push(h) \/ PushWrite(h) \/ Pull(h) \/ Rm(h) \/ Fail(h)

\* A step of one host leaves the pool and the variables of the others alone, and
\* tells them when it writes the target.
LEMMA Others ==
  ASSUME TypeOK, NEW h \in Hosts, Step(h), NEW g \in Hosts, g # h
  PROVE  /\ local'[g] = local[g]
         /\ pc'[g] = pc[g]
         /\ req'[g] = req[g]
         /\ seen'[g] = seen[g]
         /\ base'[g] = base[g]
         /\ img'[g] = img[g]
         /\ \/ seen[g] = None \/ overwritten'[g]
            \/ remote' = remote /\ overwritten'[g] = overwritten[g]
<1> USE DEF TypeOK, Goto, Finish
<1>1. CASE Build(h) \/ BuildCheck(h) \/ BuildBase(h) \/ BuildPull(h)
  BY <1>1 DEF Build, BuildCheck, BuildBase, BuildPull
<1>2. CASE BuildProvision(h)
  BY <1>2 DEF BuildProvision
<1>3. CASE BuildFind(h)
  BY <1>3 DEF BuildFind
<1>4. CASE BuildWrite(h)
  BY <1>4 DEF BuildWrite
<1>5. CASE Push(h)
  BY <1>5 DEF Push
<1>6. CASE PushWrite(h)
  BY <1>6 DEF PushWrite
<1>7. CASE Pull(h) \/ Rm(h) \/ Fail(h)
  BY <1>7 DEF Pull, Rm, Fail, locals
<1> QED BY <1>1, <1>2, <1>3, <1>4, <1>5, <1>6, <1>7 DEF Step, BuildStep

\* An image is never removed from the registry.
LEMMA RemoteStays ==
  ASSUME Inv, NEW h \in Hosts, Step(h), remote # None
  PROVE  remote' # None
<1>1. CASE BuildWrite(h)
  <2>1. req[h] \in Requests /\ img[h] \in DiffIDs \ {<<>>}
    BY <1>1 DEF Inv, TypeOK, Control, ControlAt, Building, BuildWrite
  <2> QED BY <1>1, <2>1, Shapes, BuildCacheAssumption DEF BuildWrite
<1>2. CASE PushWrite(h)
  <2>1. img[h] \in DiffIDs \ {<<>>}
    BY <1>2 DEF Inv, TypeOK, Control, ControlAt, PushWrite
  <2> QED BY <1>2, <2>1, Shapes DEF PushWrite
<1>3. CASE ~BuildWrite(h) /\ ~PushWrite(h)
  BY <1>3 DEF Step, BuildStep, Build, BuildCheck, BuildBase, BuildPull,
              BuildProvision, BuildFind, Push, Pull, Rm, Fail
<1> QED BY <1>1, <1>2, <1>3

-----------------------------------------------------------------------------
(* Control.                                                                *)

\* Every step keeps what the invocations know.
LEMMA ControlStep ==
  ASSUME Inv, NEW h \in Hosts, Step(h)
  PROVE  Control'
<1> SUFFICES ASSUME NEW g \in Hosts
             PROVE  ControlAt(g)'
  BY DEF Control
<1> TypeOK /\ ControlAt(g) /\ ControlAt(h)
  BY DEF Inv, Control
<1> USE DEF Building, Idle
<1>1. CASE g # h
  BY <1>1, Others, RemoteStays DEF ControlAt, Comparable, Unchanged
<1>2. CASE g = h
  <2>1. CASE Build(h)
    BY <1>2, <2>1 DEF TypeOK, ControlAt, Build, Goto, Comparable
  <2>2. CASE BuildCheck(h)
    BY <1>2, <2>2 DEF TypeOK, ControlAt, BuildCheck, Goto
  <2>3. CASE BuildBase(h)
    <3>1. PICK b \in BaseImages :
            LET cache     == req[h].id # NoID /\ seen[h] # None /\ ~req[h].nocache
                unchanged == cache /\ ProvisionStepsUnchanged(b, seen[h], req[h].id)
            IN /\ base' = [base EXCEPT ![h] = b]
               /\ \/ unchanged /\ Goto(h, "pull") /\ UNCHANGED seen
                  \/ ~unchanged /\ Goto(h, "provision") /\ UNCHANGED seen
                  \/ /\ cache
                     /\ Goto(h, "provision")
                     /\ seen' = [seen EXCEPT ![h] = None]
      BY <2>3 DEF BuildBase
    <3> QED BY <1>2, <2>3, <3>1 DEF TypeOK, ControlAt, BuildBase, Goto, Comparable, Unchanged
  <2>4. CASE BuildPull(h)
    BY <1>2, <2>4 DEF TypeOK, ControlAt, BuildPull, Goto, Comparable, Unchanged
  <2>5. CASE BuildProvision(h)
    BY <1>2, <2>5 DEF TypeOK, ControlAt, BuildProvision, Goto, Finish
  <2>6. CASE BuildFind(h)
    BY <1>2, <2>6 DEF TypeOK, ControlAt, BuildFind, Goto, Finish
  <2>7. CASE BuildWrite(h) \/ PushWrite(h)
    BY <1>2, <2>7 DEF TypeOK, ControlAt, BuildWrite, PushWrite, Goto, Finish
  <2>8. CASE Push(h)
    BY <1>2, <2>8 DEF TypeOK, ControlAt, Push, Goto
  <2>9. CASE Pull(h) \/ Fail(h)
    BY <1>2, <2>9 DEF TypeOK, ControlAt, Pull, Fail, Goto, Finish
  <2>10. CASE Rm(h)
    BY <1>2, <2>10 DEF TypeOK, ControlAt, Rm, locals, Goto, Finish, Comparable, Unchanged
  <2> QED BY <2>1, <2>2, <2>3, <2>4, <2>5, <2>6, <2>7, <2>8, <2>9, <2>10
          DEF Step, BuildStep
<1> QED BY <1>1, <1>2

-----------------------------------------------------------------------------
(* Provenance.                                                             *)

\* What ImageBuild leaves in the pool was provisioned as the invocation asks.
LEMMA Provisions ==
  ASSUME Inv, NEW h \in Hosts, BuildProvision(h)
  PROVE  /\ [on |-> Last(base[h]), id |-> req[h].id]
              \in [on : 1..(NBase + MaxBuilds), id : BuildID \cup {NoID}]
         /\ MadeIn(made', local'[h], req[h].id)
<1> DEFINE r == [on |-> Last(base[h]), id |-> req[h].id]
           n == NBase + Len(made')
<1>1. req[h] \in Requests /\ base[h] \in BaseImages
  BY DEF Inv, Control, ControlAt, Building, BuildProvision
<1>2. base[h] \in DiffIDs \ {<<>>}
  BY <1>1, BuildCacheAssumption
<1>3. r \in [on : 1..(NBase + MaxBuilds), id : BuildID \cup {NoID}]
  <2>1. Last(base[h]) \in 1..(NBase + MaxBuilds)
    BY <1>2, BuildCacheAssumption DEF DiffIDs, Last
  <2> QED BY <1>1, <2>1, BuildCacheAssumption
<1>4. /\ Len(made') \in 1..MaxBuilds
      /\ made'[Len(made')] = r
  BY <1>3, BuildCacheAssumption DEF Inv, TypeOK, BuildProvision
<1>5. n \in 1..(NBase + MaxBuilds) /\ n - NBase = Len(made')
  BY <1>4, BuildCacheAssumption
<1>6. local'[h] = Append(base[h], n)
  BY DEF Inv, TypeOK, BuildProvision
<1>7. Last(local'[h]) = n
  BY <1>2, <1>5, <1>6, AppendImage
<1>8. /\ local'[h] = Append(base[h], Last(local'[h]))
      /\ Last(local'[h]) - NBase \in 1..Len(made')
      /\ made'[Last(local'[h]) - NBase] = [on |-> Last(base[h]), id |-> req[h].id]
  BY <1>4, <1>5, <1>6, <1>7
<1>9. MadeIn(made', local'[h], req[h].id)
  BY <1>1, <1>8 DEF MadeIn
<1> QED BY <1>3, <1>9

\* No step undoes what was provisioned.
LEMMA MadeKept ==
  ASSUME Inv, NEW h \in Hosts, Step(h), NEW ids, NEW id, MadeIn(made, ids, id)
  PROVE  MadeIn(made', ids, id)
<1>1. CASE BuildProvision(h)
  <2>1. made' = Append(made, [on |-> Last(base[h]), id |-> req[h].id])
    BY <1>1 DEF BuildProvision
  <2> QED BY <1>1, <2>1, Provisions, MadeStays DEF Inv
<1>2. CASE ~BuildProvision(h)
  <2>1. made' = made
    BY <1>2 DEF Step, BuildStep, Build, BuildCheck, BuildBase, BuildPull,
                BuildFind, BuildWrite, Push, PushWrite, Pull, Rm, Fail
  <2> QED BY <2>1
<1> QED BY <1>1, <1>2

\* Every step keeps the histories true, in the registry and in the invocations.
LEMMA ProvenanceStep ==
  ASSUME Inv, NEW h \in Hosts, Step(h)
  PROVE  Provenance'
<1> TypeOK /\ ControlAt(h) /\ ProvenanceAt(h)
  BY DEF Inv, Control, Provenance
<1>1. \A i : TrueIn(made, i) => TrueIn(made', i)
  BY MadeKept DEF TrueIn
<1>2. TrueIn(made', remote')
  <2>1. CASE BuildWrite(h)
    <3>1. req[h] \in Requests /\ img[h] \in DiffIDs \ {<<>>}
      BY <2>1 DEF TypeOK, ControlAt, Building, BuildWrite
    <3>2. remote'.ids = img[h] /\ remote'.hist = req[h].id
      BY <2>1, <3>1, Shapes, BuildCacheAssumption DEF BuildWrite
    <3>3. MadeIn(made', img[h], req[h].id)
      BY <2>1, MadeKept DEF ProvenanceAt, BuildWrite
    <3> QED BY <3>2, <3>3 DEF TrueIn
  <2>2. CASE PushWrite(h)
    <3>1. img[h] \in DiffIDs \ {<<>>}
      BY <2>2 DEF TypeOK, ControlAt, PushWrite
    <3>2. ~remote'.built
      BY <2>2, <3>1, Shapes DEF PushWrite
    <3> QED BY <3>2 DEF TrueIn
  <2>3. CASE ~BuildWrite(h) /\ ~PushWrite(h)
    <3>1. remote' = remote
      BY <2>3 DEF Step, BuildStep, Build, BuildCheck, BuildBase, BuildPull,
                  BuildProvision, BuildFind, Push, Pull, Rm, Fail
    <3> QED BY <1>1, <3>1 DEF Inv, Provenance
  <2> QED BY <2>1, <2>2, <2>3
<1>3. ASSUME NEW g \in Hosts
      PROVE  ProvenanceAt(g)'
  <2> ProvenanceAt(g)
    BY DEF Inv, Provenance
  <2>1. CASE g # h
    BY <1>1, <2>1, Others, MadeKept DEF ProvenanceAt
  <2>2. CASE g = h
    <3> TrueIn(made, None) /\ TrueIn(made', None)
      BY DEF TrueIn
    <3>1. TrueIn(made', seen'[h])
      <4>1. seen'[h] \in {None, seen[h], remote}
        BY DEF TypeOK, Step, BuildStep, Build, BuildCheck, BuildBase, BuildPull,
               BuildProvision, BuildFind, BuildWrite, Push, PushWrite, Pull, Rm, Fail,
               Finish, locals
      <4> QED BY <1>1, <4>1 DEF ProvenanceAt, Inv, Provenance
    <3>2. pc'[h] = "find" /\ local'[h] # <<>> => MadeIn(made', local'[h], req'[h].id)
      <4>1. CASE BuildProvision(h)
        <5>1. pc'[h] = "find" => req' = req
          BY <4>1 DEF TypeOK, BuildProvision, Goto, Finish
        <5> QED BY <4>1, <5>1, Provisions
      <4>2. CASE Rm(h)
        BY <4>2 DEF TypeOK, Rm
      <4>3. CASE ~BuildProvision(h) /\ ~Rm(h)
        <5>1. pc'[h] # "find"
          BY <4>3 DEF TypeOK, Step, BuildStep, Build, BuildCheck, BuildBase, BuildPull,
                      BuildFind, BuildWrite, Push, PushWrite, Pull, Fail, Finish, Goto
        <5> QED BY <5>1
      <4> QED BY <4>1, <4>2, <4>3
    <3>3. pc'[h] = "write" => MadeIn(made', img'[h], req'[h].id)
      <4>1. CASE BuildFind(h)
        <5>1. pc'[h] = "write" => /\ local[h] # <<>> /\ img'[h] = local[h]
                                  /\ req'[h] = req[h]
          BY <4>1 DEF TypeOK, BuildFind, Goto, Finish
        <5>2. pc[h] = "find"
          BY <4>1 DEF BuildFind
        <5> QED BY <5>1, <5>2, MadeKept DEF ProvenanceAt
      <4>2. CASE Rm(h)
        <5>1. pc'[h] = "write" => pc[h] = "write" /\ img' = img /\ req' = req
          BY <4>2 DEF TypeOK, Rm, Finish, Goto, locals
        <5> QED BY <5>1, MadeKept DEF ProvenanceAt
      <4>3. CASE ~BuildFind(h) /\ ~Rm(h)
        <5>1. pc'[h] # "write"
          BY <4>3 DEF TypeOK, Step, BuildStep, Build, BuildCheck, BuildBase, BuildPull,
                      BuildProvision, BuildWrite, Push, PushWrite, Pull, Fail, Finish, Goto
        <5> QED BY <5>1
      <4> QED BY <4>1, <4>2, <4>3
    <3> QED BY <2>2, <3>1, <3>2, <3>3 DEF ProvenanceAt
  <2> QED BY <2>1, <2>2
<1> QED BY <1>2, <1>3 DEF Provenance

-----------------------------------------------------------------------------
(* The invariant and the theorems.                                         *)

\* The invariant holds when no command has run yet.
LEMMA InitInv == Init => Inv
<1> SUFFICES ASSUME Init PROVE Inv
  OBVIOUS
<1> <<>> \in DiffIDs
  BY Shapes
<1>1. TypeOK
  BY BuildCacheAssumption DEF Init, TypeOK, Labels, Idle
<1>2. Control
  BY DEF Init, Control, ControlAt, Building
<1>3. Provenance
  BY BuildCacheAssumption DEF Init, Provenance, ProvenanceAt, TrueIn
<1> QED BY <1>1, <1>2, <1>3 DEF Inv

\* Every step keeps the invariant.
LEMMA InvStep == Inv /\ [Next]_vars => Inv'
<1> SUFFICES ASSUME Inv, [Next]_vars PROVE Inv'
  OBVIOUS
<1>1. CASE Next
  <2>1. PICK h \in Hosts : Step(h)
    BY <1>1 DEF Next, Step
  <2> QED BY <1>1, <2>1, TypeStep, ControlStep, ProvenanceStep DEF Inv
<1>2. CASE UNCHANGED vars
  BY <1>2 DEF Inv, TypeOK, Control, ControlAt, Comparable, Unchanged, Provenance,
              ProvenanceAt, vars, locals
<1> QED BY <1>1, <1>2

\* The inductive invariant holds in every behaviour of image build, image push,
\* image pull and image rm.
THEOREM Invariant == Spec => []Inv
  BY InitInv, InvStep, PTL DEF Spec

\* The variables of BuildCache always have their types: an invocation has a base
\* image and options where it uses them, and what is written into the registry
\* is an image.
THEOREM TypeCorrect == Spec => []TypeOK
<1>1. Inv => TypeOK
  BY DEF Inv
<1> QED BY <1>1, Invariant, PTL

\* The build ID in the registry is the one that the top layer of the image was
\* provisioned with, however builds, pushes, pulls and removals on any number of
\* hosts interleave (cmd/image_build.go, historyShimImage).
THEOREM HistoryAlwaysTrue == Spec => []HistoryTrue
<1>1. Inv => HistoryTrue
  BY DEF Inv, Provenance, TrueIn, MadeIn, HistoryTrue, Made
<1> QED BY <1>1, Invariant, PTL

\* A build that reuses an image of image build has compared it rightly, and gets
\* the image it has compared unless the target was pushed in between, whatever
\* any number of hosts do (cmd/image_build.go, provisionStepsUnchanged).
THEOREM CacheHitCorrect == Spec => []CacheHit
<1>1. Inv => CacheHit
  <2> SUFFICES ASSUME Inv, NEW h \in Hosts,
                      pc[h] = "cached", seen[h].built
               PROVE  /\ req[h].id # NoID /\ ~req[h].nocache
                      /\ Made(seen[h].ids, base[h], req[h].id)
                      /\ local[h] = seen[h].ids \/ overwritten[h]
    BY DEF CacheHit
  <2>1. TypeOK /\ ControlAt(h) /\ ProvenanceAt(h)
    BY DEF Inv, Control, Provenance
  <2>2. /\ base[h] \in BaseImages /\ Comparable(h) /\ Unchanged(h)
        /\ local[h] = seen[h].ids \/ overwritten[h]
    BY <2>1 DEF ControlAt
  <2>3. seen[h] \in Image /\ MadeIn(made, seen[h].ids, seen[h].hist)
    BY <2>1, <2>2 DEF TypeOK, Comparable, ProvenanceAt, TrueIn
  <2> QED BY <2>2, <2>3, UnchangedMade DEF Comparable, Unchanged
<1> QED BY <1>1, Invariant, PTL

\* An image with the same build ID on the same base image is not provisioned
\* again (cmd/image_build.go, provisionStepsUnchanged).
THEOREM NoBuildNeedless == Spec => []NoNeedlessBuild
<1>1. Inv => NoNeedlessBuild
  <2> SUFFICES ASSUME Inv, NEW h \in Hosts,
                      pc[h] = "provision", req[h].id # NoID, ~req[h].nocache,
                      seen[h] # None, seen[h].built,
                      Made(seen[h].ids, base[h], req[h].id)
               PROVE  FALSE
    BY DEF NoNeedlessBuild
  <2>1. TypeOK /\ ControlAt(h) /\ ProvenanceAt(h)
    BY DEF Inv, Control, Provenance
  <2>2. base[h] \in BaseImages /\ ~Unchanged(h)
    BY <2>1 DEF ControlAt, Comparable
  <2>3. seen[h] \in Image /\ MadeIn(made, seen[h].ids, seen[h].hist)
    BY <2>1 DEF TypeOK, ProvenanceAt, TrueIn
  <2> QED BY <2>2, <2>3, UnchangedMade DEF Unchanged
<1> QED BY <1>1, Invariant, PTL
=============================================================================
