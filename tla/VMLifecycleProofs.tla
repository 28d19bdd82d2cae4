------------------------- MODULE VMLifecycleProofs -------------------------
(***************************************************************************)
(* Theorems about VMLifecycle for any number of invocations, VMs, volumes  *)
(* and IDs, with failing calls and crashes at any point.                   *)
(***************************************************************************)
EXTENDS VMLifecycle, WellFoundedInduction, TLAPS

RunChecks == {"run_domain", "run_images", "run_id"}
RunMakes == {"run_volume", "run_fill", "run_dhcp", "run_start"}
RunLabels == RunChecks \cup {"run_mac", "run_define"} \cup RunMakes
RmTakes == {"rm_ips", "rm_dhcp", "rm_disks", "rm_volume", "rm_undefine"}
RmLabels == {"rm_domain", "rm_destroy"} \cup RmTakes
CommitLabels ==
  {"provision", "commit_active", "commit_reset", "commit_shutdown",
   "commit_poll", "commit_layer"}
HostLabels == {"host_check", "host_add", "host_rm", "host_delete"}

\* What invocation p is about at each of its calls.
ControlAt(p) ==
  /\ pc[p] \in RunLabels \cup RmLabels \cup CommitLabels <=> vm[p] \in VM
  /\ pc[p] \in Ended <=> op[p] = "none"
  /\ op[p] \in Ops \cup {"none"}
  /\ pc[p] \in Ended => phase[p] = "none"
  /\ pc[p] \in RunLabels => op[p] \in {"run", "build"} /\ phase[p] = "run"
  /\ pc[p] \in RunChecks => id[p] = 0 \/ id[p] \in ID
  /\ pc[p] \in RunLabels \ RunChecks => id[p] \in ID
  /\ pc[p] \in RmLabels => phase[p] \in {"rm", "commit", "cleanup"}
  /\ pc[p] \in CommitLabels => phase[p] = "commit"
  /\ phase[p] = "commit" =>
       pc[p] \in RmLabels \cup CommitLabels /\ op[p] \in {"build", "commit"}
  /\ pc[p] \in HostLabels <=> op[p] \in {"hostadd", "hostrm"}
  /\ pc[p] \in {"host_check", "host_add"} => op[p] = "hostadd"
  /\ pc[p] \in {"host_rm", "host_delete"} => op[p] = "hostrm"
  /\ pc[p] \in HostLabels => phase[p] = "hosts"
  /\ pc[p] = "host_delete" => ids[p] # {}
  /\ IF vm[p] \in VM THEN left[p] \subseteq VolsOf(vm[p]) ELSE left[p] = {}

ControlOK == \A p \in Procs : ControlAt(p)

\* The parts of TypeOK: libvirt's objects, and the invocations.
ObjectType ==
  /\ dom \in [VM -> {"none", "defined", "running"}]
  /\ mac \in [VM -> {0} \cup ID]
  /\ vols \subseteq Vol
  /\ hosts \subseteq ID
  /\ faults \in 0..MaxFaults

LocalType ==
  /\ pc \in [Procs -> Labels]
  /\ op \in [Procs -> OpNames]
  /\ vm \in [Procs -> VM \cup {None}]
  /\ id \in [Procs -> 0..(LastID + 1)]
  /\ phase \in [Procs -> {"none", "run", "commit", "rm", "cleanup", "hosts"}]
  /\ flags \in [Procs -> SUBSET {"shutdown", "reset"}]
  /\ left \in [Procs -> SUBSET Vol]
  /\ ids \in [Procs -> SUBSET ID]

\* Nobody runs two commands on the same VM at the same time.
OneOwner == \A p, q \in Procs : vm[p] = vm[q] /\ vm[p] # None => p = q

Local == LocalType /\ ControlOK /\ OneOwner

Sound == ObjectType /\ Local

-----------------------------------------------------------------------------
(* Lemmas on the operators of the model.                                   *)

\* A set of IDs that is not empty has a smallest member.
LEMMA FirstIDExists ==
  ASSUME NEW S \in SUBSET ID, S # {}
  PROVE  \E i \in S : \A j \in S : i <= j
<1>1. S \subseteq Nat
  BY NetworkAssumption DEF ID
<1>2. PICK i \in S : \A j \in S : ~(<<j, i>> \in OpToRel(<, Nat))
  BY <1>1, NatLessThanWellFounded, WFMin
<1>3. \A j \in S : ~(j < i)
  BY <1>1, <1>2 DEF OpToRel
<1> QED BY <1>1, <1>3

\* The loops of network host add and rm take one of the IDs that are left.
LEMMA FirstIDChosen ==
  ASSUME LocalType, NEW p \in Procs, ids[p] # {}
  PROVE  FirstID(p) \in ids[p] /\ FirstID(p) \in ID
BY FirstIDExists DEF LocalType, FirstID

\* What GetVMID returns without an error is an ID of the network.
LEMMA GetVMIDLegal ==
  ASSUME hosts \subseteq ID, NEW w, w = 0 \/ w \in ID, GetVMID(w) # 0
  PROVE  GetVMID(w) \in ID
BY NetworkAssumption DEF GetVMID, ID

\* The volumes that a step creates or removes are volumes of its VM.
LEMMA NextVolOwn ==
  ASSUME NEW p \in Procs, NEW x \in NextVol(p)
  PROVE  x \in left[p]
BY DEF NextVol

-----------------------------------------------------------------------------
(* Type correctness and control.                                           *)

\* A step changes the local variables of p alone.
OnlyOf(p) ==
  \A r \in Procs : r # p =>
    /\ pc'[r] = pc[r] /\ op'[r] = op[r] /\ vm'[r] = vm[r] /\ id'[r] = id[r]
    /\ phase'[r] = phase[r] /\ flags'[r] = flags[r] /\ left'[r] = left[r]
    /\ ids'[r] = ids[r]

\* Such a step is sound if it suits p and takes no VM that others are at.
LEMMA LocalStep ==
  ASSUME Local, NEW p \in Procs, OnlyOf(p), LocalType', ControlAt(p)',
         vm'[p] = None \/ vm'[p] = vm[p] \/ \A r \in Procs : vm[r] # vm'[p]
  PROVE  Local'
<1>1. OneOwner'
  BY DEF Local, LocalType, OneOwner, OnlyOf
<1>2. ASSUME NEW r \in Procs, r # p PROVE ControlAt(r)'
  BY <1>2 DEF Local, LocalType, ControlOK, ControlAt, VolsOf, OnlyOf
<1> QED BY <1>1, <1>2 DEF Local, ControlOK

\* The end of a command.
LEMMA FinishLocal ==
  ASSUME Local, NEW p \in Procs, NEW r \in Ended, Finish(p, r)
  PROVE  Local'
<1>1. LocalType'
  BY NetworkAssumption DEF Local, LocalType, Finish, Goto, Ended, Labels, OpNames
<1>2. ControlAt(p)'
  BY NetworkAssumption
     DEF Local, LocalType, ControlAt, Finish, Goto, Ended, HostLabels,
         RunLabels, RunChecks, RunMakes, RmLabels, RmTakes, CommitLabels
<1>3. OnlyOf(p) /\ vm'[p] = None
  BY DEF OnlyOf, Local, LocalType, Finish, Goto
<1> QED BY <1>1, <1>2, <1>3, LocalStep

\* The end of a command by an error.
LEMMA FailLocal ==
  ASSUME Local, NEW p \in Procs, pc[p] \notin Ended, Fail(p)
  PROVE  Local'
<1>1. CASE op[p] = "build" /\ phase[p] = "commit"
  <2>1. LocalType'
    BY <1>1 DEF Local, LocalType, Fail, Goto, Labels
  <2>2. ControlAt(p)'
    BY <1>1 DEF Local, LocalType, ControlOK, ControlAt, Fail, Goto, Ended, HostLabels,
         RunLabels, RunChecks, RunMakes, RmLabels, RmTakes, CommitLabels
  <2>3. OnlyOf(p) /\ vm'[p] = vm[p]
    BY <1>1 DEF OnlyOf, Local, LocalType, Fail, Goto
  <2> QED BY <2>1, <2>2, <2>3, LocalStep
<1>2. CASE ~(op[p] = "build" /\ phase[p] = "commit")
  BY <1>2, FinishLocal DEF Fail, Ended
<1> QED BY <1>1, <1>2

\* A call that is refused, or that fails.
LEMMA RefusedSound ==
  ASSUME Sound, NEW p \in Procs, pc[p] \notin Ended, NEW ok, Refused(p, ok)
  PROVE  Sound' /\ OnlyOf(p)
<1>1. faults' \in 0..MaxFaults
  BY NetworkAssumption DEF Sound, ObjectType, Refused, Fault
<1>2. ObjectType'
  BY <1>1 DEF Sound, ObjectType, Refused, objects
<1>3. Local'
  BY FailLocal DEF Sound, Refused
<1>4. OnlyOf(p)
  BY DEF Sound, Local, LocalType, Refused, Fail, Finish, Goto, OnlyOf
<1> QED BY <1>2, <1>3, <1>4 DEF Sound

\* A call that leaves the objects as they are and leads to the next.
LEMMA ContinueSound ==
  ASSUME Sound, NEW p \in Procs, NEW l \in Labels, Continue(p, l),
         UNCHANGED <<objects, faults>>, ControlAt(p)'
  PROVE  Sound' /\ OnlyOf(p)
<1>1. ObjectType'
  BY DEF Sound, ObjectType, objects
<1>2. LocalType' /\ OnlyOf(p) /\ vm'[p] = vm[p]
  BY DEF Sound, Local, LocalType, Continue, Goto, locals, OnlyOf
<1> QED BY <1>1, <1>2, LocalStep DEF Sound

\* The calls of VMRun that check.
LEMMA RunCheckSound ==
  ASSUME Sound, NEW p \in Procs,
         RunDomain(p) \/ RunImages(p) \/ RunID(p) \/ RunMAC(p) \/ FillCIData(p)
  PROVE  Sound' /\ OnlyOf(p)
<1> ObjectType /\ Local /\ LocalType /\ ControlAt(p)
  BY DEF Sound, Local, ControlOK
<1> USE DEF Ended, Labels, HostLabels, RunLabels, RunChecks, RunMakes, RmLabels, RmTakes,
            CommitLabels
<1>1. CASE RunDomain(p)
  <2>1. CASE Continue(p, "run_images") /\ UNCHANGED <<objects, faults>>
    <3>1. ControlAt(p)'
      BY <1>1, <2>1 DEF RunDomain, ControlAt, LocalType, Continue, Goto, locals, VolsOf
    <3> QED BY <2>1, <3>1, ContinueSound
  <2> QED BY <1>1, <2>1, RefusedSound DEF RunDomain
<1>2. CASE RunImages(p)
  <2>1. CASE Continue(p, "run_id") /\ UNCHANGED <<objects, faults>>
    <3>1. ControlAt(p)'
      BY <1>2, <2>1 DEF RunImages, ControlAt, LocalType, Continue, Goto, locals, VolsOf
    <3> QED BY <2>1, <3>1, ContinueSound
  <2> QED BY <1>2, <2>1, RefusedSound DEF RunImages
<1>3. CASE RunMAC(p)
  <2>1. CASE Continue(p, "run_define") /\ UNCHANGED <<objects, faults>>
    <3>1. ControlAt(p)'
      BY <1>3, <2>1 DEF RunMAC, ControlAt, LocalType, Continue, Goto, locals, VolsOf
    <3> QED BY <2>1, <3>1, ContinueSound
  <2> QED BY <1>3, <2>1, RefusedSound DEF RunMAC
<1>4. CASE FillCIData(p)
  <2>1. CASE Continue(p, "run_volume") /\ UNCHANGED <<objects, faults>>
    <3>1. ControlAt(p)'
      BY <1>4, <2>1 DEF FillCIData, ControlAt, LocalType, Continue, Goto, locals, VolsOf
    <3> QED BY <2>1, <3>1, ContinueSound
  <2> QED BY <1>4, <2>1, RefusedSound DEF FillCIData
<1>5. CASE RunID(p)
  <2>1. CASE GetVMID(id[p]) # 0 /\ Goto(p, "run_mac") /\ id' = [id EXCEPT ![p] = GetVMID(id[p])]
             /\ UNCHANGED <<objects, faults, op, vm, phase, flags, left, ids>>
    <3>1. GetVMID(id[p]) \in ID
      BY <1>5, <2>1, GetVMIDLegal DEF RunID, ControlAt, ObjectType
    <3>2. LocalType' /\ OnlyOf(p)
      BY <2>1, <3>1, NetworkAssumption DEF LocalType, Goto, OnlyOf, ID
    <3>3. ControlAt(p)'
      BY <1>5, <2>1, <3>1 DEF RunID, LocalType, ControlAt, Goto, VolsOf
    <3>4. ObjectType'
      BY <2>1 DEF ObjectType, objects
    <3> QED BY <2>1, <3>2, <3>3, <3>4, LocalStep DEF Sound
  <2> QED BY <1>5, <2>1, RefusedSound DEF RunID
<1> QED BY <1>1, <1>2, <1>3, <1>4, <1>5

\* The calls of VMRun that make the VM.
LEMMA RunMakeSound ==
  ASSUME Sound, NEW p \in Procs,
         RunDefine(p) \/ RunVolume(p) \/ RunDHCP(p) \/ RunStart(p) \/ Provision(p)
  PROVE  Sound' /\ OnlyOf(p)
<1> ObjectType /\ Local /\ LocalType /\ ControlAt(p)
  BY DEF Sound, Local, ControlOK
<1> USE DEF Ended, Labels, HostLabels, RunLabels, RunChecks, RunMakes, RmLabels, RmTakes,
            CommitLabels
<1>1. CASE RunDefine(p)
  <2>1. CASE /\ dom' = [dom EXCEPT ![vm[p]] = "defined"]
             /\ mac' = [mac EXCEPT ![vm[p]] = id[p]]
             /\ Goto(p, "run_volume")
             /\ left' = [left EXCEPT ![p] = VolsOf(vm[p])]
             /\ UNCHANGED <<vols, hosts, faults, op, vm, id, phase, flags, ids>>
    <3>1. ObjectType'
      BY <1>1, <2>1, VolumeAssumption
         DEF RunDefine, ObjectType, ControlAt, LocalType, objects, VolsOf
    <3>2. LocalType' /\ OnlyOf(p) /\ vm'[p] = vm[p]
      BY <1>1, <2>1, VolumeAssumption
         DEF RunDefine, LocalType, ControlAt, Goto, Continue, locals, OnlyOf, VolsOf
    <3>3. ControlAt(p)'
      BY <1>1, <2>1 DEF RunDefine, LocalType, ControlAt, Goto, Continue, locals, VolsOf
    <3> QED BY <3>1, <3>2, <3>3, LocalStep DEF Sound
  <2> QED BY <1>1, <2>1, RefusedSound DEF RunDefine
<1>2. CASE RunVolume(p)
  <2>1. CASE Continue(p, "run_dhcp") /\ UNCHANGED <<objects, faults>>
    <3>1. ControlAt(p)'
      BY <1>2, <2>1 DEF RunVolume, ControlAt, LocalType, Continue, Goto, locals, VolsOf
    <3> QED BY <2>1, <3>1, ContinueSound
  <2>2. ASSUME NEW x \in NextVol(p),
               vols' = vols \cup {x},
               left' = [left EXCEPT ![p] = @ \ {x}],
               Goto(p, IF x = CIData[vm[p]] THEN "run_fill" ELSE "run_volume"),
               UNCHANGED <<dom, mac, hosts, faults, op, vm, id, phase, flags, ids>>
        PROVE  Sound' /\ OnlyOf(p)
    <3>1. x \in left[p]
      BY NextVolOwn
    <3>2. ObjectType'
      BY <2>2, <3>1 DEF ObjectType, LocalType
    <3>3. LocalType' /\ OnlyOf(p) /\ vm'[p] = vm[p]
      BY <2>2 DEF LocalType, Goto, OnlyOf
    <3>4. ControlAt(p)'
      BY <1>2, <2>2 DEF RunVolume, LocalType, ControlAt, Goto, VolsOf
    <3> QED BY <3>2, <3>3, <3>4, LocalStep DEF Sound
  <2> QED BY <1>2, <2>1, <2>2, RefusedSound DEF RunVolume
<1>3. CASE RunDHCP(p)
  <2>1. CASE Continue(p, "run_start") /\ hosts' \subseteq hosts \cup {id[p]}
             /\ UNCHANGED <<dom, mac, vols, faults>>
    <3>1. ObjectType'
      BY <1>3, <2>1 DEF RunDHCP, ObjectType, ControlAt
    <3>2. LocalType' /\ OnlyOf(p) /\ vm'[p] = vm[p]
      BY <2>1 DEF LocalType, Goto, Continue, locals, OnlyOf
    <3>3. ControlAt(p)'
      BY <1>3, <2>1 DEF RunDHCP, LocalType, ControlAt, Goto, Continue, locals, VolsOf
    <3> QED BY <3>1, <3>2, <3>3, LocalStep DEF Sound
  <2> QED BY <1>3, <2>1, RefusedSound DEF RunDHCP, objects
<1>4. CASE RunStart(p)
  <2>1. CASE dom' = [dom EXCEPT ![vm[p]] = "running"] /\ UNCHANGED <<mac, vols, hosts, faults>>
    <3>1. ObjectType'
      BY <2>1 DEF ObjectType
    <3>2. CASE Finish(p, "ok")
      BY <3>1, <3>2, FinishLocal DEF Sound, Finish, Goto, LocalType, OnlyOf
    <3>3. CASE /\ op[p] = "build"
               /\ Goto(p, "provision")
               /\ phase' = [phase EXCEPT ![p] = "commit"]
               /\ UNCHANGED <<op, vm, id, flags, left, ids>>
      <4>1. LocalType' /\ OnlyOf(p) /\ vm'[p] = vm[p]
        BY <3>3 DEF LocalType, Goto, OnlyOf
      <4>2. ControlAt(p)'
        BY <1>4, <3>3 DEF RunStart, LocalType, ControlAt, Goto, VolsOf
      <4> QED BY <3>1, <4>1, <4>2, LocalStep DEF Sound
    <3> QED BY <1>4, <2>1, <3>2, <3>3, RefusedSound DEF RunStart
  <2> QED BY <1>4, <2>1, RefusedSound DEF RunStart
<1>5. CASE Provision(p)
  <2>1. CASE Continue(p, "commit_active") /\ UNCHANGED <<objects, faults>>
    <3>1. ControlAt(p)'
      BY <1>5, <2>1 DEF Provision, ControlAt, LocalType, Continue, Goto, locals, VolsOf
    <3> QED BY <2>1, <3>1, ContinueSound
  <2> QED BY <1>5, <2>1, RefusedSound DEF Provision
<1> QED BY <1>1, <1>2, <1>3, <1>4, <1>5

\* VMRm has succeeded.
LEMMA RmDoneLocal ==
  ASSUME Local, NEW p \in Procs, pc[p] \in RmLabels, RmDone(p)
  PROVE  Local' /\ OnlyOf(p)
<1> LocalType /\ ControlAt(p)
  BY DEF Local, ControlOK
<1>1. phase[p] \in {"rm", "commit", "cleanup"}
  BY DEF ControlAt
<1>2. CASE phase[p] = "commit"
  <2>1. Continue(p, "commit_layer")
    BY <1>2 DEF RmDone
  <2>2. LocalType' /\ OnlyOf(p) /\ vm'[p] = vm[p]
    BY <2>1 DEF LocalType, Goto, Continue, locals, OnlyOf, Labels
  <2>3. ControlAt(p)'
    BY <1>2, <2>1 DEF LocalType, ControlAt, Goto, Continue, locals, VolsOf, Ended,
       HostLabels, RunLabels, RunChecks, RunMakes, RmLabels, RmTakes, CommitLabels
  <2> QED BY <2>2, <2>3, LocalStep
<1>3. CASE phase[p] # "commit"
  <2>1. PICK r \in Ended : Finish(p, r)
    BY <1>1, <1>3 DEF RmDone, Ended
  <2>2. OnlyOf(p)
    BY <2>1 DEF Finish, Goto, LocalType, OnlyOf
  <2> QED BY <2>1, <2>2, FinishLocal
<1> QED BY <1>2, <1>3

\* The calls of VMRm.
LEMMA RmSound ==
  ASSUME Sound, NEW p \in Procs, RmStep(p)
  PROVE  Sound' /\ OnlyOf(p)
<1> ObjectType /\ Local /\ LocalType /\ ControlAt(p)
  BY DEF Sound, Local, ControlOK
<1> USE DEF Ended, Labels, HostLabels, RunLabels, RunChecks, RunMakes, RmLabels, RmTakes,
            CommitLabels
<1>1. CASE RmDomain(p)
  <2>1. ASSUME NEW l \in {"rm_destroy", "rm_ips"}, Continue(p, l),
               UNCHANGED <<objects, faults>>
        PROVE  Sound' /\ OnlyOf(p)
    <3>1. ControlAt(p)'
      BY <1>1, <2>1 DEF RmDomain, ControlAt, LocalType, Continue, Goto, locals, VolsOf
    <3> QED BY <2>1, <3>1, ContinueSound
  <2>2. CASE RmDone(p) /\ UNCHANGED <<objects, faults>>
    BY <1>1, <2>2, RmDoneLocal DEF RmDomain, Sound, ObjectType, objects
  <2> QED BY <1>1, <2>1, <2>2, RefusedSound DEF RmDomain
<1>2. CASE RmDestroy(p)
  <2>1. CASE /\ dom' = [dom EXCEPT ![vm[p]] = "defined"]
             /\ Continue(p, "rm_ips")
             /\ UNCHANGED <<mac, vols, hosts, faults>>
    <3>1. ObjectType'
      BY <1>2, <2>1 DEF ObjectType, objects
    <3>2. LocalType' /\ OnlyOf(p) /\ vm'[p] = vm[p]
      BY <1>2, <2>1, VolumeAssumption
         DEF RmDestroy, LocalType, ObjectType, ControlAt, Goto, Continue, locals, OnlyOf,
             VolsOf
    <3>3. ControlAt(p)'
      BY <1>2, <2>1 DEF RmDestroy, LocalType, ControlAt, Goto, Continue, locals, VolsOf
    <3> QED BY <3>1, <3>2, <3>3, LocalStep DEF Sound
  <2> QED BY <1>2, <2>1, RefusedSound DEF RmDestroy
<1>3. CASE RmIPs(p)
  <2>1. CASE /\ Goto(p, "rm_dhcp")
             /\ ids' = [ids EXCEPT ![p] = IF Static THEN {} ELSE hosts \cap {mac[vm[p]]}]
             /\ UNCHANGED <<objects, faults, op, vm, id, phase, flags, left>>
    <3>1. ObjectType'
      BY <1>3, <2>1 DEF ObjectType, objects
    <3>2. LocalType' /\ OnlyOf(p) /\ vm'[p] = vm[p]
      BY <1>3, <2>1, VolumeAssumption
         DEF RmIPs, LocalType, ObjectType, ControlAt, Goto, Continue, locals, OnlyOf, VolsOf
    <3>3. ControlAt(p)'
      BY <1>3, <2>1 DEF RmIPs, LocalType, ControlAt, Goto, Continue, locals, VolsOf
    <3> QED BY <3>1, <3>2, <3>3, LocalStep DEF Sound
  <2> QED BY <1>3, <2>1, RefusedSound DEF RmIPs
<1>4. CASE RmDHCP(p)
  <2>1. CASE Continue(p, "rm_disks") /\ UNCHANGED <<objects, faults>>
    <3>1. ControlAt(p)'
      BY <1>4, <2>1 DEF RmDHCP, ControlAt, LocalType, Continue, Goto, locals, VolsOf
    <3> QED BY <2>1, <3>1, ContinueSound
  <2>2. ASSUME NEW i \in ids[p],
               hosts' = hosts \ {i},
               Goto(p, "rm_dhcp"),
               ids' = [ids EXCEPT ![p] = @ \ {i}],
               UNCHANGED <<dom, mac, vols, faults, op, vm, id, phase, flags, left>>
        PROVE  Sound' /\ OnlyOf(p)
    <3>1. ObjectType'
      BY <2>2 DEF ObjectType
    <3>2. LocalType' /\ OnlyOf(p) /\ vm'[p] = vm[p]
      BY <2>2 DEF LocalType, Goto, OnlyOf
    <3>3. ControlAt(p)'
      BY <1>4, <2>2 DEF RmDHCP, LocalType, ControlAt, Goto, VolsOf
    <3> QED BY <3>1, <3>2, <3>3, LocalStep DEF Sound
  <2> QED BY <1>4, <2>1, <2>2, RefusedSound DEF RmDHCP
<1>5. CASE RmDisks(p)
  <2>1. CASE /\ Goto(p, "rm_volume")
             /\ left' = [left EXCEPT ![p] =
                           IF phase[p] = "commit" THEN VolsOf(vm[p]) \ {Boot[vm[p]]}
                                                  ELSE VolsOf(vm[p])]
             /\ UNCHANGED <<objects, faults, op, vm, id, phase, flags, ids>>
    <3>1. ObjectType'
      BY <1>5, <2>1 DEF ObjectType, objects
    <3>2. LocalType' /\ OnlyOf(p) /\ vm'[p] = vm[p]
      BY <1>5, <2>1, VolumeAssumption
         DEF RmDisks, LocalType, ObjectType, ControlAt, Goto, Continue, locals, OnlyOf,
             VolsOf
    <3>3. ControlAt(p)'
      BY <1>5, <2>1 DEF RmDisks, LocalType, ControlAt, Goto, Continue, locals, VolsOf
    <3> QED BY <3>1, <3>2, <3>3, LocalStep DEF Sound
  <2> QED BY <1>5, <2>1, RefusedSound DEF RmDisks
<1>6. CASE RmVolume(p)
  <2>1. CASE Continue(p, "rm_undefine") /\ UNCHANGED <<objects, faults>>
    <3>1. ControlAt(p)'
      BY <1>6, <2>1 DEF RmVolume, ControlAt, LocalType, Continue, Goto, locals, VolsOf
    <3> QED BY <2>1, <3>1, ContinueSound
  <2>2. ASSUME NEW x \in NextVol(p),
               vols' = vols \ {x},
               Goto(p, "rm_volume"),
               left' = [left EXCEPT ![p] = @ \ {x}],
               UNCHANGED <<dom, mac, hosts, faults, op, vm, id, phase, flags, ids>>
        PROVE  Sound' /\ OnlyOf(p)
    <3>1. ObjectType'
      BY <2>2 DEF ObjectType
    <3>2. LocalType' /\ OnlyOf(p) /\ vm'[p] = vm[p]
      BY <2>2 DEF LocalType, Goto, OnlyOf
    <3>3. ControlAt(p)'
      BY <1>6, <2>2 DEF RmVolume, LocalType, ControlAt, Goto, VolsOf
    <3> QED BY <3>1, <3>2, <3>3, LocalStep DEF Sound
  <2> QED BY <1>6, <2>1, <2>2, RefusedSound DEF RmVolume
<1>7. CASE RmUndefine(p)
  <2>1. CASE /\ dom' = [dom EXCEPT ![vm[p]] = "none"]
             /\ mac' = [mac EXCEPT ![vm[p]] = 0]
             /\ RmDone(p)
             /\ UNCHANGED <<vols, hosts, faults>>
    BY <1>7, <2>1, RmDoneLocal DEF RmUndefine, Sound, ObjectType
  <2> QED BY <1>7, <2>1, RefusedSound DEF RmUndefine
<1> QED BY <1>1, <1>2, <1>3, <1>4, <1>5, <1>6, <1>7 DEF RmStep

\* The calls of VMCommit and vmShutdown.
LEMMA CommitSound ==
  ASSUME Sound, NEW p \in Procs, CommitStep(p)
  PROVE  Sound' /\ OnlyOf(p)
<1> ObjectType /\ Local /\ LocalType /\ ControlAt(p)
  BY DEF Sound, Local, ControlOK
<1> USE DEF Ended, Labels, HostLabels, RunLabels, RunChecks, RunMakes, RmLabels, RmTakes,
            CommitLabels
<1>1. CASE CommitActive(p)
  <2>1. ASSUME NEW l \in {"rm_domain", "commit_reset", "commit_shutdown"}, Continue(p, l),
               UNCHANGED <<objects, faults>>
        PROVE  Sound' /\ OnlyOf(p)
    <3>1. ControlAt(p)'
      BY <1>1, <2>1 DEF CommitActive, ControlAt, LocalType, Continue, Goto, locals, VolsOf
    <3> QED BY <2>1, <3>1, ContinueSound
  <2> QED BY <1>1, <2>1, RefusedSound DEF CommitActive
<1>2. CASE CommitReset(p)
  <2>1. CASE Continue(p, "commit_shutdown") /\ UNCHANGED <<objects, faults>>
    <3>1. ControlAt(p)'
      BY <1>2, <2>1 DEF CommitReset, ControlAt, LocalType, Continue, Goto, locals, VolsOf
    <3> QED BY <2>1, <3>1, ContinueSound
  <2> QED BY <1>2, <2>1, RefusedSound DEF CommitReset
<1>3. CASE CommitShutdown(p)
  <2>1. ASSUME NEW l \in {"commit_poll", "rm_domain"}, Continue(p, l),
               UNCHANGED <<objects, faults>>
        PROVE  Sound' /\ OnlyOf(p)
    <3>1. ControlAt(p)'
      BY <1>3, <2>1 DEF CommitShutdown, ControlAt, LocalType, Continue, Goto, locals, VolsOf
    <3> QED BY <2>1, <3>1, ContinueSound
  <2> QED BY <1>3, <2>1, RefusedSound DEF CommitShutdown
<1>4. CASE CommitPoll(p)
  <2>1. ObjectType'
    BY <1>4, NetworkAssumption DEF CommitPoll, Fault, ObjectType, objects
  <2>2. CASE Continue(p, "rm_domain")
    <3>1. LocalType' /\ OnlyOf(p) /\ vm'[p] = vm[p]
      BY <2>2 DEF LocalType, Goto, Continue, locals, OnlyOf
    <3>2. ControlAt(p)'
      BY <1>4, <2>2 DEF CommitPoll, LocalType, ControlAt, Goto, Continue, locals, VolsOf
    <3> QED BY <2>1, <3>1, <3>2, LocalStep DEF Sound
  <2>3. CASE Fail(p)
    <3>1. OnlyOf(p)
      BY <2>3 DEF LocalType, Fail, Finish, Goto, OnlyOf
    <3> QED BY <1>4, <2>1, <2>3, <3>1, FailLocal DEF CommitPoll, Sound
  <2> QED BY <1>4, <2>2, <2>3 DEF CommitPoll
<1>5. CASE CommitLayer(p)
  <2>1. CASE Finish(p, "ok") /\ vols' = vols \ {Boot[vm[p]]} /\ UNCHANGED <<dom, mac, hosts, faults>>
    <3>1. OnlyOf(p)
      BY <2>1 DEF LocalType, Finish, Goto, OnlyOf
    <3> QED BY <2>1, <3>1, FinishLocal DEF Sound, ObjectType
  <2> QED BY <1>5, <2>1, RefusedSound DEF CommitLayer
<1> QED BY <1>1, <1>2, <1>3, <1>4, <1>5 DEF CommitStep

\* The calls of network host add and rm.
LEMMA HostSound ==
  ASSUME Sound, NEW p \in Procs, HostStep(p)
  PROVE  Sound' /\ OnlyOf(p)
<1> ObjectType /\ Local /\ LocalType /\ ControlAt(p)
  BY DEF Sound, Local, ControlOK
<1> USE DEF Ended, Labels, HostLabels, RunLabels, RunChecks, RunMakes, RmLabels, RmTakes,
            CommitLabels
<1>1. CASE HostCheck(p)
  <2>1. CASE Continue(p, "host_add") /\ UNCHANGED <<objects, faults>>
    <3>1. ControlAt(p)'
      BY <1>1, <2>1 DEF HostCheck, ControlAt, LocalType, Continue, Goto, locals, VolsOf
    <3> QED BY <2>1, <3>1, ContinueSound
  <2>2. CASE /\ id[p] \in ids[p] \ hosts
             /\ Goto(p, "host_check")
             /\ id' = [id EXCEPT ![p] = @ + 1]
             /\ UNCHANGED <<objects, faults, op, vm, phase, flags, left, ids>>
    <3>1. ObjectType'
      BY <1>1, <2>2, FirstIDChosen DEF ObjectType, objects
    <3>2. LocalType' /\ OnlyOf(p) /\ vm'[p] = vm[p]
      BY <1>1, <2>2, NetworkAssumption DEF HostCheck, LocalType, Goto, OnlyOf, ID
    <3>3. ControlAt(p)'
      BY <1>1, <2>2 DEF HostCheck, LocalType, ControlAt, Goto
    <3> QED BY <3>1, <3>2, <3>3, LocalStep DEF Sound
  <2> QED BY <1>1, <2>1, <2>2, RefusedSound DEF HostCheck
<1>2. CASE HostAddNext(p)
  <2>1. CASE Finish(p, "ok") /\ UNCHANGED <<objects, faults>>
    <3>1. OnlyOf(p)
      BY <2>1 DEF LocalType, Finish, Goto, OnlyOf
    <3> QED BY <2>1, <3>1, FinishLocal DEF Sound, ObjectType, objects
  <2>2. CASE /\ ids[p] # {} /\ FirstID(p) \notin hosts
             /\ hosts' = hosts \cup {FirstID(p)}
             /\ Goto(p, "host_add")
             /\ ids' = [ids EXCEPT ![p] = @ \ {FirstID(p)}]
             /\ UNCHANGED <<dom, mac, vols, faults, op, vm, id, phase, flags, left>>
    <3>1. ObjectType'
      BY <1>2, <2>2, FirstIDChosen DEF ObjectType, objects
    <3>2. LocalType' /\ OnlyOf(p) /\ vm'[p] = vm[p]
      BY <1>2, <2>2, NetworkAssumption DEF HostAddNext, LocalType, Goto, OnlyOf, ID
    <3>3. ControlAt(p)'
      BY <1>2, <2>2 DEF HostAddNext, LocalType, ControlAt, Goto
    <3> QED BY <3>1, <3>2, <3>3, LocalStep DEF Sound
  <2> QED BY <1>2, <2>1, <2>2, RefusedSound DEF HostAddNext
<1>3. CASE HostRmNext(p)
  <2>1. CASE Continue(p, "host_delete") /\ ids[p] # {} /\ UNCHANGED <<objects, faults>>
    <3>1. ControlAt(p)'
      BY <1>3, <2>1 DEF HostRmNext, ControlAt, LocalType, Continue, Goto, locals, VolsOf
    <3> QED BY <2>1, <3>1, ContinueSound
  <2>2. CASE /\ Goto(p, "host_rm")
             /\ ids' = [ids EXCEPT ![p] = @ \ {FirstID(p)}]
             /\ UNCHANGED <<objects, faults, op, vm, id, phase, flags, left>>
    <3>1. ObjectType'
      BY <1>3, <2>2, FirstIDChosen DEF ObjectType, objects
    <3>2. LocalType' /\ OnlyOf(p) /\ vm'[p] = vm[p]
      BY <1>3, <2>2, NetworkAssumption DEF HostRmNext, LocalType, Goto, OnlyOf, ID
    <3>3. ControlAt(p)'
      BY <1>3, <2>2 DEF HostRmNext, LocalType, ControlAt, Goto
    <3> QED BY <3>1, <3>2, <3>3, LocalStep DEF Sound
  <2>3. CASE Finish(p, "ok") /\ UNCHANGED <<objects, faults>>
    <3>1. OnlyOf(p)
      BY <2>3 DEF LocalType, Finish, Goto, OnlyOf
    <3> QED BY <2>3, <3>1, FinishLocal DEF Sound, ObjectType, objects
  <2> QED BY <1>3, <2>1, <2>2, <2>3, RefusedSound DEF HostRmNext
<1>4. CASE HostDelete(p)
  <2>1. CASE /\ hosts' = hosts \ {FirstID(p)}
             /\ Goto(p, "host_rm")
             /\ ids' = [ids EXCEPT ![p] = @ \ {FirstID(p)}]
             /\ UNCHANGED <<dom, mac, vols, faults, op, vm, id, phase, flags, left>>
    <3>1. ObjectType'
      BY <1>4, <2>1, FirstIDChosen DEF ObjectType, objects
    <3>2. LocalType' /\ OnlyOf(p) /\ vm'[p] = vm[p]
      BY <1>4, <2>1, NetworkAssumption DEF HostDelete, LocalType, Goto, OnlyOf, ID
    <3>3. ControlAt(p)'
      BY <1>4, <2>1 DEF HostDelete, LocalType, ControlAt, Goto
    <3> QED BY <3>1, <3>2, <3>3, LocalStep DEF Sound
  <2> QED BY <1>4, <2>1, RefusedSound DEF HostDelete
<1> QED BY <1>1, <1>2, <1>3, <1>4 DEF HostStep

\* The commands.
LEMMA CommandSound ==
  ASSUME Sound, NEW p \in Procs, Command(p)
  PROVE  Sound' /\ OnlyOf(p)
<1> ObjectType /\ Local /\ LocalType /\ ControlAt(p)
  BY DEF Sound, Local, ControlOK
<1> USE DEF Ended, Labels, HostLabels, RunLabels, RunChecks, RunMakes, RmLabels, RmTakes,
            CommitLabels
<1>1. CASE Run(p)
  <2>1. ASSUME NEW v \in VM, NEW w \in Wanted[v],
               Begin(p, "run_domain", "run", v, w, "run", {}, {})
        PROVE  Sound' /\ OnlyOf(p)
    <3>1. ObjectType'
      BY <2>1 DEF Begin, ObjectType, objects
    <3>2. LocalType' /\ OnlyOf(p)
      BY <2>1, NetworkAssumption DEF Begin, LocalType, Goto, OnlyOf, ID, OpNames
    <3>3. left[p] = {}
      BY <2>1 DEF Begin, ControlAt
    <3>4. ControlAt(p)'
      BY <2>1, <3>3, NetworkAssumption DEF Begin, LocalType, ControlAt, Goto, ID
    <3>5. vm'[p] = v /\ \A r \in Procs : vm[r] # v
      BY <2>1, NetworkAssumption DEF Begin, LocalType
    <3> QED BY <3>1, <3>2, <3>4, <3>5, LocalStep DEF Sound
  <2> QED BY <1>1, <2>1 DEF Run
<1>2. CASE Build(p)
  <2>1. ASSUME NEW v \in VM, NEW w \in Wanted[v], NEW f \in SUBSET {"shutdown", "reset"},
               Begin(p, "run_domain", "build", v, w, "run", f, {})
        PROVE  Sound' /\ OnlyOf(p)
    <3>1. ObjectType'
      BY <2>1 DEF Begin, ObjectType, objects
    <3>2. LocalType' /\ OnlyOf(p)
      BY <2>1, NetworkAssumption DEF Begin, LocalType, Goto, OnlyOf, ID, OpNames
    <3>3. left[p] = {}
      BY <2>1 DEF Begin, ControlAt
    <3>4. ControlAt(p)'
      BY <2>1, <3>3, NetworkAssumption DEF Begin, LocalType, ControlAt, Goto, ID
    <3>5. vm'[p] = v /\ \A r \in Procs : vm[r] # v
      BY <2>1, NetworkAssumption DEF Begin, LocalType
    <3> QED BY <3>1, <3>2, <3>4, <3>5, LocalStep DEF Sound
  <2> QED BY <1>2, <2>1 DEF Build
<1>3. CASE Rm(p)
  <2>1. ASSUME NEW v \in VM,
               Begin(p, "rm_domain", "rm", v, 0, "rm", {}, {})
        PROVE  Sound' /\ OnlyOf(p)
    <3>1. ObjectType'
      BY <2>1 DEF Begin, ObjectType, objects
    <3>2. LocalType' /\ OnlyOf(p)
      BY <2>1, NetworkAssumption DEF Begin, LocalType, Goto, OnlyOf, ID, OpNames
    <3>3. left[p] = {}
      BY <2>1 DEF Begin, ControlAt
    <3>4. ControlAt(p)'
      BY <2>1, <3>3, NetworkAssumption DEF Begin, LocalType, ControlAt, Goto, ID
    <3>5. vm'[p] = v /\ \A r \in Procs : vm[r] # v
      BY <2>1, NetworkAssumption DEF Begin, LocalType
    <3> QED BY <3>1, <3>2, <3>4, <3>5, LocalStep DEF Sound
  <2> QED BY <1>3, <2>1 DEF Rm
<1>4. CASE Commit(p)
  <2>1. ASSUME NEW v \in VM, NEW f \in SUBSET {"shutdown", "reset"},
               Begin(p, "commit_active", "commit", v, 0, "commit", f, {})
        PROVE  Sound' /\ OnlyOf(p)
    <3>1. ObjectType'
      BY <2>1 DEF Begin, ObjectType, objects
    <3>2. LocalType' /\ OnlyOf(p)
      BY <2>1, NetworkAssumption DEF Begin, LocalType, Goto, OnlyOf, ID, OpNames
    <3>3. left[p] = {}
      BY <2>1 DEF Begin, ControlAt
    <3>4. ControlAt(p)'
      BY <2>1, <3>3, NetworkAssumption DEF Begin, LocalType, ControlAt, Goto, ID
    <3>5. vm'[p] = v /\ \A r \in Procs : vm[r] # v
      BY <2>1, NetworkAssumption DEF Begin, LocalType
    <3> QED BY <3>1, <3>2, <3>4, <3>5, LocalStep DEF Sound
  <2> QED BY <1>4, <2>1 DEF Commit
<1>5. CASE HostAdd(p)
  <2>1. ASSUME NEW i \in ID, NEW j \in ID,
               Begin(p, "host_check", "hostadd", None, i, "hosts", {}, i..j)
        PROVE  Sound' /\ OnlyOf(p)
    <3>1. ObjectType'
      BY <2>1 DEF Begin, ObjectType, objects
    <3>2. LocalType' /\ OnlyOf(p)
      BY <2>1, NetworkAssumption DEF Begin, LocalType, Goto, OnlyOf, ID, OpNames
    <3>3. ControlAt(p)'
      BY <2>1, NetworkAssumption DEF Begin, LocalType, ControlAt, Goto
    <3>4. vm'[p] = None
      BY <2>1 DEF Begin, LocalType
    <3> QED BY <3>1, <3>2, <3>3, <3>4, LocalStep DEF Sound
  <2> QED BY <1>5, <2>1 DEF HostAdd
<1>6. CASE HostRm(p)
  <2>1. ASSUME NEW i \in ID, NEW j \in ID,
               Begin(p, "host_rm", "hostrm", None, i, "hosts", {}, i..j)
        PROVE  Sound' /\ OnlyOf(p)
    <3>1. ObjectType'
      BY <2>1 DEF Begin, ObjectType, objects
    <3>2. LocalType' /\ OnlyOf(p)
      BY <2>1, NetworkAssumption DEF Begin, LocalType, Goto, OnlyOf, ID, OpNames
    <3>3. ControlAt(p)'
      BY <2>1, NetworkAssumption DEF Begin, LocalType, ControlAt, Goto
    <3>4. vm'[p] = None
      BY <2>1 DEF Begin, LocalType
    <3> QED BY <3>1, <3>2, <3>3, <3>4, LocalStep DEF Sound
  <2> QED BY <1>6, <2>1 DEF HostRm
<1> QED BY <1>1, <1>2, <1>3, <1>4, <1>5, <1>6 DEF Command

\* A crash.
LEMMA CrashSound ==
  ASSUME Sound, NEW p \in Procs, Crash(p)
  PROVE  Sound' /\ OnlyOf(p)
<1>1. ObjectType'
  BY NetworkAssumption DEF Sound, Crash, Fault, ObjectType, objects
<1>2. OnlyOf(p)
  BY DEF Sound, Local, LocalType, Crash, Finish, Goto, OnlyOf
<1> QED BY <1>1, <1>2, FinishLocal DEF Sound, Crash, Ended

\* Whatever p does is sound and leaves the other invocations alone.
LEMMA StepSound ==
  ASSUME Sound, NEW p \in Procs, Command(p) \/ Step(p) \/ Crash(p)
  PROVE  Sound' /\ OnlyOf(p)
BY RunCheckSound, RunMakeSound, RmSound, CommitSound, HostSound, CommandSound, CrashSound
   DEF Step, RunStep

\* The invariant is kept by every step.
LEMMA NextSound ==
  ASSUME Sound, [Next]_vars
  PROVE  Sound'
<1>1. CASE \E p \in Procs : Command(p) \/ Step(p) \/ Crash(p)
  BY <1>1, StepSound
<1>2. CASE (\E v \in VM : GuestStop(v)) \/ UNCHANGED vars
  <2>1. ObjectType' /\ UNCHANGED <<pc, locals>>
    BY <1>2 DEF Sound, ObjectType, GuestStop, vars, objects
  <2>2. Local'
    BY <2>1 DEF Sound, Local, LocalType, ControlOK, ControlAt, OneOwner, locals, VolsOf
  <2> QED BY <2>1, <2>2 DEF Sound
<1> QED BY <1>1, <1>2 DEF Next

LEMMA InitSound == Init => Sound
<1> SUFFICES ASSUME Init PROVE Sound
  OBVIOUS
<1>1. ObjectType /\ LocalType /\ OneOwner
  BY NetworkAssumption DEF Init, ObjectType, LocalType, OneOwner, Labels, Ended, OpNames
<1>2. ControlOK
  BY NetworkAssumption DEF Init, ControlOK, ControlAt, Ended, HostLabels,
     RunLabels, RunChecks, RunMakes, RmLabels, RmTakes, CommitLabels
<1> QED BY <1>1, <1>2 DEF Sound, Local

LEMMA AlwaysSound == Spec => []Sound
BY InitSound, NextSound, PTL DEF Spec

\* Type correctness: the domain of a VM, its MAC address, the DHCP entries and the
\* local variables of VMRun, VMRm, VMCommit and the host commands have their types,
\* in particular every DHCP entry ever added is for an ID of the network.
THEOREM TypeCorrect == Spec => []TypeOK
<1>1. Sound => TypeOK
  BY DEF Sound, ObjectType, Local, LocalType, TypeOK
<1> QED BY <1>1, AlwaysSound, PTL

-----------------------------------------------------------------------------
(* The volumes.                                                            *)

\* No volume belongs to two VMs or to one VM twice.
OwnVolumes ==
  /\ \A u, v \in VM : u # v => VolsOf(u) \cap VolsOf(v) = {}
  /\ \A v \in VM : Boot[v] # CIData[v] /\ Boot[v] \notin Disks[v]

\* A step changes the domain and the volumes of the VM of p alone.
OnlyVMOf(p) ==
  /\ \A u \in VM : u # vm[p] => dom'[u] = dom[u] /\ mac'[u] = mac[u]
  /\ \A x \in (vols \ vols') \cup (vols' \ vols) :
       vm[p] \in VM /\ x \in VolsOf(vm[p])

LEMMA StepOnlyVM ==
  ASSUME Sound, NEW p \in Procs, Command(p) \/ Step(p) \/ Crash(p)
  PROVE  OnlyVMOf(p)
<1> ObjectType /\ LocalType /\ ControlAt(p)
  BY DEF Sound, Local, ControlOK
<1> USE DEF objects, OnlyVMOf
<1>1. CASE \E ok : Refused(p, ok)
  BY <1>1 DEF Refused
<1>2. CASE Command(p) \/ Crash(p)
  BY <1>2 DEF Command, Run, Build, Rm, Commit, HostAdd, HostRm, Begin, Crash
<1>3. CASE RunVolume(p)
  BY <1>1, <1>3, NextVolOwn DEF RunVolume, ControlAt, RunLabels, RunMakes
<1>4. CASE RunStep(p) /\ ~RunVolume(p)
  BY <1>1, <1>4, NetworkAssumption
     DEF RunStep, RunDomain, RunImages, RunID, RunMAC, RunDefine, FillCIData, RunDHCP,
         RunStart, Provision, ObjectType
<1>5. CASE RmVolume(p)
  BY <1>1, <1>5, NextVolOwn DEF RmVolume, ControlAt, RmLabels, RmTakes
<1>6. CASE RmStep(p) /\ ~RmVolume(p)
  BY <1>1, <1>6
     DEF RmStep, RmDomain, RmDestroy, RmIPs, RmDHCP, RmDisks, RmUndefine, ObjectType
<1>7. CASE CommitStep(p)
  BY <1>1, <1>7
     DEF CommitStep, CommitActive, CommitReset, CommitShutdown, CommitPoll, CommitLayer,
         ControlAt, CommitLabels, VolsOf
<1>8. CASE HostStep(p)
  BY <1>1, <1>8 DEF HostStep, HostCheck, HostAddNext, HostRmNext, HostDelete
<1> QED BY <1>2, <1>3, <1>4, <1>5, <1>6, <1>7, <1>8 DEF Step

\* The volume that VMRm leaves to VMCommit.
Spared(p) == IF phase[p] = "commit" THEN {Boot[vm[p]]} ELSE {}

\* What invocation p knows of its VM: VMRun has found no domain and makes the volumes of
\* a defined domain;
\* VMRm removes those of a domain that is stopped, and once it has removed all it
\* undefines the domain.
WorkAt(p) ==
  /\ pc[p] \in {"run_images", "run_id", "run_mac", "run_define"} => dom[vm[p]] = "none"
  /\ pc[p] \in RunMakes => dom[vm[p]] = "defined" /\ mac[vm[p]] = id[p]
  /\ pc[p] \in RmTakes => dom[vm[p]] = "defined"
  /\ pc[p] = "commit_layer" => dom[vm[p]] = "none"
  /\ OwnVolumes =>
       /\ pc[p] = "rm_volume" => VolsOf(vm[p]) \cap vols \subseteq left[p] \cup Spared(p)
       /\ pc[p] = "rm_undefine" => VolsOf(vm[p]) \cap vols \subseteq Spared(p)

Work == \A p \in Procs : WorkAt(p)

\* A step of p leaves what the others know true.
LEMMA WorkStep ==
  ASSUME Sound, Work, NEW p \in Procs, Command(p) \/ Step(p) \/ Crash(p), WorkAt(p)'
  PROVE  Work'
<1> SUFFICES ASSUME NEW q \in Procs, q # p PROVE WorkAt(q)'
  BY DEF Work
<1>1. OnlyOf(p) /\ OnlyVMOf(p)
  BY StepSound, StepOnlyVM
<1>2. WorkAt(q) /\ ControlAt(q)
  BY DEF Work, Sound, Local, ControlOK
<1>3. CASE vm[q] \notin VM
  BY <1>1, <1>2, <1>3
     DEF WorkAt, ControlAt, OnlyOf, RunLabels, RunChecks, RunMakes, RmLabels, RmTakes,
         CommitLabels
<1>4. CASE vm[q] \in VM
  <2>1. vm[q] # vm[p]
    BY <1>4, NetworkAssumption DEF Sound, Local, OneOwner
  <2>2. dom'[vm[q]] = dom[vm[q]] /\ mac'[vm[q]] = mac[vm[q]]
    BY <1>1, <1>4, <2>1 DEF OnlyVMOf
  <2>3. ASSUME OwnVolumes PROVE VolsOf(vm[q]) \cap vols' = VolsOf(vm[q]) \cap vols
    <3>1. ASSUME NEW x \in VolsOf(vm[q]), vm[p] \in VM PROVE x \notin VolsOf(vm[p])
      BY <1>4, <2>1, <2>3, <3>1 DEF OwnVolumes
    <3> QED BY <1>1, <3>1 DEF OnlyVMOf
  <2>4. /\ pc'[q] = pc[q] /\ vm'[q] = vm[q] /\ id'[q] = id[q]
        /\ phase'[q] = phase[q] /\ left'[q] = left[q]
    BY <1>1 DEF OnlyOf
  <2> QED BY <1>2, <2>2, <2>3, <2>4 DEF WorkAt, Spared, VolsOf
<1> QED BY <1>3, <1>4

\* The labels at which p knows nothing of its VM.
LEMMA WorkNothing ==
  ASSUME NEW p \in Procs,
         pc'[p] \in Ended \cup HostLabels \cup CommitLabels \cup
                     {"run_domain", "rm_domain", "rm_destroy"},
         pc'[p] # "commit_layer"
  PROVE  WorkAt(p)'
BY DEF WorkAt, Ended, HostLabels, CommitLabels, RunMakes, RmTakes

\* The ends of a command, and the cleanup of a build.
LEMMA LeaveWork ==
  ASSUME Sound, NEW p \in Procs, \/ Fail(p) \/ \E r \in Ended : Finish(p, r)
  PROVE  WorkAt(p)'
<1>1. pc'[p] \in Ended \cup {"rm_domain"}
  BY DEF Sound, Local, LocalType, Fail, Finish, Goto, Ended
<1> QED BY <1>1, WorkNothing DEF Ended

LEMMA RefusedWork ==
  ASSUME Sound, NEW p \in Procs, NEW ok, Refused(p, ok)
  PROVE  WorkAt(p)'
BY LeaveWork DEF Refused

\* What p knows after its step.
LEMMA StepWorkAt ==
  ASSUME Sound, Work, NEW p \in Procs, Command(p) \/ Step(p) \/ Crash(p)
  PROVE  WorkAt(p)'
<1> ObjectType /\ LocalType /\ ControlAt(p) /\ WorkAt(p)
  BY DEF Sound, Local, ControlOK, Work
<1> USE DEF Goto, Continue, locals, objects, Ended, RunLabels, RunChecks, RunMakes, RmLabels,
            RmTakes, CommitLabels
<1>1. CASE Command(p)
  <2>1. pc'[p] \in {"run_domain", "rm_domain", "commit_active"} \cup HostLabels
    BY <1>1 DEF Command, Run, Build, Rm, Commit, HostAdd, HostRm, Begin, LocalType,
       HostLabels
  <2> QED BY <2>1, WorkNothing DEF HostLabels
<1>2. CASE Crash(p)
  BY <1>2, LeaveWork DEF Crash
<1>3. CASE RunStart(p) \/ Provision(p)
  BY <1>3, WorkNothing, LeaveWork, RefusedWork DEF RunStart, Provision, LocalType
<1>4. CASE \E ok : Refused(p, ok)
  BY <1>4, RefusedWork
<1>5. CASE /\ RunDomain(p) \/ RunImages(p) \/ RunID(p) \/ RunMAC(p)
           /\ ~\E ok : Refused(p, ok)
  <2>1. pc'[p] \in {"run_images", "run_id", "run_mac", "run_define"}
    BY <1>5 DEF RunDomain, RunImages, RunID, RunMAC, LocalType
  <2>2. vm' = vm /\ dom' = dom /\ dom[vm[p]] = "none"
    BY <1>5 DEF RunDomain, RunImages, RunID, RunMAC, WorkAt
  <2> QED BY <2>1, <2>2 DEF WorkAt
<1>6. CASE RunDefine(p) /\ ~\E ok : Refused(p, ok)
  <2>1. pc'[p] = "run_volume" /\ vm' = vm /\ id' = id /\ vm[p] \in VM
    BY <1>6 DEF RunDefine, LocalType, ControlAt
  <2>2. dom'[vm[p]] = "defined" /\ mac'[vm[p]] = id[p]
    BY <1>6, <2>1 DEF RunDefine, ObjectType
  <2> QED BY <2>1, <2>2 DEF WorkAt
<1>7. CASE (RunVolume(p) \/ FillCIData(p) \/ RunDHCP(p)) /\ ~\E ok : Refused(p, ok)
  <2>1. dom' = dom /\ mac' = mac /\ vm' = vm /\ id' = id
    BY <1>7 DEF RunVolume, FillCIData, RunDHCP
  <2>2. pc[p] \in RunMakes /\ pc'[p] \in RunMakes
    BY <1>7 DEF RunVolume, FillCIData, RunDHCP, LocalType
  <2> QED BY <2>1, <2>2 DEF WorkAt
<1>8. CASE RmDomain(p) /\ ~\E ok : Refused(p, ok)
  <2>1. CASE dom[vm[p]] = "none" /\ RmDone(p) /\ UNCHANGED objects
    <3>1. CASE Continue(p, "commit_layer")
      BY <2>1, <3>1 DEF LocalType, WorkAt
    <3> QED BY <1>8, <2>1, <3>1, LeaveWork DEF RmDomain, RmDone, ControlAt
  <2>2. CASE /\ dom[vm[p]] # "none"
             /\ Continue(p, IF dom[vm[p]] = "running" THEN "rm_destroy" ELSE "rm_ips")
             /\ UNCHANGED <<objects, faults>>
    BY <1>8, <2>2 DEF RmDomain, LocalType, ObjectType, ControlAt, WorkAt
  <2> QED BY <1>8, <2>1, <2>2 DEF RmDomain
<1>9. CASE (RmDestroy(p) \/ RmIPs(p) \/ RmDHCP(p)) /\ ~\E ok : Refused(p, ok)
  <2>1. pc'[p] \in {"rm_ips", "rm_dhcp", "rm_disks"} /\ vm' = vm
    BY <1>9 DEF RmDestroy, RmIPs, RmDHCP, LocalType
  <2>2. dom'[vm[p]] = "defined"
    BY <1>9 DEF RmDestroy, RmIPs, RmDHCP, ObjectType, ControlAt, WorkAt
  <2> QED BY <2>1, <2>2 DEF WorkAt
<1>10. CASE RmDisks(p) /\ ~\E ok : Refused(p, ok)
  <2>1. pc'[p] = "rm_volume" /\ vm' = vm /\ dom' = dom /\ vols' = vols /\ phase' = phase
    BY <1>10 DEF RmDisks, LocalType
  <2>2. left'[p] = VolsOf(vm[p]) \ Spared(p)
    BY <1>10 DEF RmDisks, LocalType, Spared
  <2> QED BY <1>10, <2>1, <2>2 DEF RmDisks, WorkAt, Spared, VolsOf
<1>11. CASE RmVolume(p) /\ ~\E ok : Refused(p, ok)
  <2>1. CASE left[p] = {} /\ Continue(p, "rm_undefine") /\ UNCHANGED objects
    BY <1>11, <2>1 DEF RmVolume, LocalType, WorkAt, Spared, VolsOf
  <2>2. ASSUME NEW x \in NextVol(p), vols' = vols \ {x}, Goto(p, "rm_volume"),
               left' = [left EXCEPT ![p] = @ \ {x}], UNCHANGED <<dom, vm, phase>>
        PROVE  WorkAt(p)'
    BY <1>11, <2>2 DEF RmVolume, LocalType, WorkAt, Spared, VolsOf
  <2> QED BY <1>11, <2>1, <2>2 DEF RmVolume
<1>12. CASE RmUndefine(p) /\ ~\E ok : Refused(p, ok)
  <2>1. dom' = [dom EXCEPT ![vm[p]] = "none"] /\ RmDone(p)
    BY <1>12 DEF RmUndefine
  <2>2. CASE Continue(p, "commit_layer")
    BY <1>12, <2>1, <2>2 DEF RmUndefine, LocalType, ObjectType, ControlAt, WorkAt
  <2> QED BY <1>12, <2>1, <2>2, LeaveWork DEF RmUndefine, RmDone, ControlAt
<1>13. CASE CommitStep(p)
  BY <1>13, WorkNothing, LeaveWork, RefusedWork
     DEF CommitStep, CommitActive, CommitReset, CommitShutdown, CommitPoll, CommitLayer,
         LocalType
<1>14. CASE HostStep(p)
  BY <1>14, WorkNothing, LeaveWork, RefusedWork
     DEF HostStep, HostCheck, HostAddNext, HostRmNext, HostDelete, LocalType, HostLabels
<1> QED BY <1>1, <1>2, <1>3, <1>4, <1>5, <1>6, <1>7, <1>8, <1>9, <1>10, <1>11, <1>12, <1>13,
           <1>14
        DEF Step, RunStep, RmStep

\* The guest stops: only a running one does.
LEMMA GuestWork ==
  ASSUME Sound, Work, NEW v \in VM, GuestStop(v)
  PROVE  Work'
<1> SUFFICES ASSUME NEW q \in Procs PROVE WorkAt(q)'
  BY DEF Work
<1>1. WorkAt(q) /\ ControlAt(q)
  BY DEF Work, Sound, Local, ControlOK
<1>2. UNCHANGED <<pc, vm, id, phase, left, mac, vols>>
  BY DEF GuestStop, locals
<1>3. CASE vm[q] # v
  BY <1>1, <1>2, <1>3
     DEF WorkAt, GuestStop, Sound, ObjectType, VolsOf, Spared, ControlAt, RunLabels,
         RunMakes, RmLabels, RmTakes, CommitLabels
<1>4. CASE vm[q] = v
  BY <1>1, <1>2, <1>4 DEF WorkAt, GuestStop, RmTakes
<1> QED BY <1>3, <1>4

LEMMA NextWork ==
  ASSUME Sound, Work, [Next]_vars
  PROVE  Work'
<1>1. CASE UNCHANGED vars
  BY <1>1 DEF Work, WorkAt, Spared, VolsOf, vars, objects, locals
<1> QED BY <1>1, StepWorkAt, WorkStep, GuestWork DEF Next

LEMMA InitWork == Init => Work
BY DEF Init, Work, WorkAt, RunMakes, RmTakes

LEMMA AlwaysWork == Spec => []Work
BY InitWork, NextWork, AlwaysSound, PTL DEF Spec

\* A step of p creates volumes only of a defined VM and undefines it only when
\* it has removed all volumes but a boot volume that is to be committed.
LEMMA StepVolumes ==
  ASSUME Sound, OwnVolumes, Work, NEW p \in Procs,
         Command(p) \/ Step(p) \/ Crash(p), vm[p] \in VM, dom'[vm[p]] = "none"
  PROVE  \/ dom[vm[p]] = "none" /\ vols' \subseteq vols
         \/ VolsOf(vm[p]) \cap vols' \subseteq Spared(p)
<1> ObjectType /\ LocalType /\ ControlAt(p) /\ WorkAt(p)
  BY DEF Sound, Local, ControlOK, Work
<1> USE DEF objects
<1>1. CASE \E ok : Refused(p, ok)
  BY <1>1 DEF Refused
<1>2. CASE Command(p) \/ Crash(p)
  BY <1>2 DEF Command, Run, Build, Rm, Commit, HostAdd, HostRm, Begin, Crash
<1>3. CASE RunVolume(p)
  BY <1>1, <1>3 DEF RunVolume, WorkAt, RunMakes
<1>4. CASE RunStep(p) /\ ~RunVolume(p)
  BY <1>1, <1>4
     DEF RunStep, RunDomain, RunImages, RunID, RunMAC, RunDefine, FillCIData, RunDHCP,
         RunStart, Provision, ObjectType
<1>5. CASE RmUndefine(p)
  BY <1>1, <1>5 DEF RmUndefine, WorkAt
<1>6. CASE RmStep(p) /\ ~RmUndefine(p)
  BY <1>1, <1>6
     DEF RmStep, RmDomain, RmDestroy, RmIPs, RmDHCP, RmDisks, RmVolume, ObjectType
<1>7. CASE CommitStep(p)
  BY <1>1, <1>7
     DEF CommitStep, CommitActive, CommitReset, CommitShutdown, CommitPoll, CommitLayer
<1>8. CASE HostStep(p)
  BY <1>1, <1>8 DEF HostStep, HostCheck, HostAddNext, HostRmNext, HostDelete
<1> QED BY <1>2, <1>3, <1>4, <1>5, <1>6, <1>7, <1>8 DEF Step

\* Nothing else changes which VMs are undefined, or their volumes.
LEMMA OtherVolumes ==
  ASSUME Sound, OwnVolumes, NEW p \in Procs, Command(p) \/ Step(p) \/ Crash(p),
         NEW v \in VM, v # vm[p]
  PROVE  dom'[v] = dom[v] /\ VolsOf(v) \cap vols' = VolsOf(v) \cap vols
<1>1. OnlyVMOf(p)
  BY StepOnlyVM
<1>2. ASSUME NEW x \in VolsOf(v), vm[p] \in VM PROVE x \notin VolsOf(vm[p])
  BY <1>2 DEF OwnVolumes
<1> QED BY <1>1, <1>2 DEF OnlyVMOf

\* With volumes of its own, a VM that is not defined has no cloud-init or disk volume
\* left, for any number of commands on any VMs at the same time, whichever of their
\* calls fail and wherever they crash: VMRun defines the domain before it creates a
\* volume and VMRm undefines it after it has removed the last.
THEOREM NoDisksLeft ==
  ASSUME OwnVolumes
  PROVE  Spec => []NoLeftoverDisks
<1>1. Init => NoLeftoverDisks
  BY DEF Init, NoLeftoverDisks
<1>2. ASSUME Sound, Work, NoLeftoverDisks, [Next]_vars PROVE NoLeftoverDisks'
  <2>1. CASE UNCHANGED vars
    BY <1>2, <2>1 DEF NoLeftoverDisks, vars, objects
  <2>2. ASSUME NEW u \in VM, GuestStop(u) PROVE NoLeftoverDisks'
    BY <1>2, <2>2 DEF NoLeftoverDisks, GuestStop, Sound, ObjectType
  <2>3. ASSUME NEW p \in Procs, Command(p) \/ Step(p) \/ Crash(p),
               NEW v \in VM, dom'[v] = "none"
        PROVE  ({CIData[v]} \cup Disks[v]) \cap vols' = {}
    <3>1. CASE v = vm[p]
      <4>1. CASE dom[v] = "none" /\ vols' \subseteq vols
        BY <1>2, <4>1 DEF NoLeftoverDisks
      <4>2. CASE VolsOf(v) \cap vols' \subseteq Spared(p)
        BY <3>1, <4>2 DEF Spared, VolsOf, OwnVolumes
      <4> QED BY <1>2, <2>3, <3>1, <4>1, <4>2, StepVolumes
    <3>2. CASE v # vm[p]
      BY <1>2, <2>3, <3>2, OtherVolumes DEF NoLeftoverDisks, VolsOf
    <3> QED BY <3>1, <3>2
  <2> QED BY <1>2, <2>1, <2>2, <2>3 DEF Next, NoLeftoverDisks
<1> QED BY <1>1, <1>2, AlwaysSound, AlwaysWork, PTL DEF Spec

\* Without commits the same holds of the boot volume, at any moment.
LEMMA NoBootLeft ==
  ASSUME OwnVolumes, Ops \cap {"build", "commit"} = {}
  PROVE  Spec => [](\A v \in VM : dom[v] = "none" => Boot[v] \notin vols)
<1> DEFINE NoBoot == \A v \in VM : dom[v] = "none" => Boot[v] \notin vols
<1>1. Init => NoBoot
  BY DEF Init
<1>2. ASSUME Sound, Work, NoBoot, [Next]_vars PROVE NoBoot'
  <2>1. CASE UNCHANGED vars
    BY <1>2, <2>1 DEF vars, objects
  <2>2. ASSUME NEW u \in VM, GuestStop(u) PROVE NoBoot'
    BY <1>2, <2>2 DEF GuestStop, Sound, ObjectType
  <2>3. ASSUME NEW p \in Procs, Command(p) \/ Step(p) \/ Crash(p),
               NEW v \in VM, dom'[v] = "none"
        PROVE  Boot[v] \notin vols'
    <3>1. CASE v = vm[p]
      <4>1. Spared(p) = {}
        BY <1>2 DEF Spared, Sound, Local, ControlOK, ControlAt
      <4> QED BY <1>2, <2>3, <3>1, <4>1, StepVolumes DEF VolsOf
    <3>2. CASE v # vm[p]
      BY <1>2, <2>3, <3>2, OtherVolumes DEF VolsOf
    <3> QED BY <3>1, <3>2
  <2> QED BY <1>2, <2>1, <2>2, <2>3 DEF Next
<1> QED BY <1>1, <1>2, AlwaysSound, AlwaysWork, PTL DEF Spec

\* Where nothing is committed, a VM that is neither defined nor worked on has no boot
\* volume left either: vm run never fails for good on what a vm run or rm before it
\* has left.
THEOREM NoBootVolumeLeft ==
  ASSUME OwnVolumes, Ops \cap {"build", "commit"} = {}
  PROVE  Spec => []NoLeftoverBoot
<1>1. (\A v \in VM : dom[v] = "none" => Boot[v] \notin vols) => NoLeftoverBoot
  BY DEF NoLeftoverBoot
<1> QED BY <1>1, NoBootLeft, PTL

-----------------------------------------------------------------------------
(* VMCommit and the guest.                                                 *)

\* A commit that has come to VMRm has seen the guest stopped.
StoppedAt(p) ==
  phase[p] = "commit" =>
    /\ pc[p] # "rm_destroy"
    /\ pc[p] = "rm_domain" => dom[vm[p]] # "running"

Stopped == \A p \in Procs : StoppedAt(p)

LEMMA StepStopped ==
  ASSUME "poll" \notin Faults, Sound, Stopped, NEW p \in Procs,
         Command(p) \/ Step(p) \/ Crash(p)
  PROVE  StoppedAt(p)'
<1> ObjectType /\ LocalType /\ ControlAt(p) /\ StoppedAt(p)
  BY DEF Sound, Local, ControlOK, Stopped
<1> USE DEF Goto, Continue, locals, objects, StoppedAt
<1>1. CASE Fail(p) \/ \E r \in Ended : Finish(p, r)
  BY <1>1 DEF Fail, Finish, Ended, LocalType
<1>2. CASE \E ok : Refused(p, ok)
  BY <1>1, <1>2 DEF Refused
<1>3. CASE Command(p) \/ Crash(p)
  BY <1>1, <1>3
     DEF Command, Run, Build, Rm, Commit, HostAdd, HostRm, Begin, Crash, LocalType, Ended
<1>4. CASE RunStep(p)
  BY <1>1, <1>2, <1>4
     DEF RunStep, RunDomain, RunImages, RunID, RunMAC, RunDefine, RunVolume, FillCIData,
         RunDHCP, RunStart, Provision, LocalType, ControlAt, RunLabels, RunChecks, RunMakes,
         Ended
<1>5. CASE RmDomain(p)
  BY <1>1, <1>2, <1>5 DEF RmDomain, RmDone, LocalType, ControlAt, RmLabels, Ended
<1>6. CASE RmUndefine(p)
  BY <1>1, <1>2, <1>6 DEF RmUndefine, RmDone, LocalType, ControlAt, RmLabels, RmTakes, Ended
<1>7. CASE RmDestroy(p) \/ RmIPs(p) \/ RmDHCP(p) \/ RmDisks(p) \/ RmVolume(p)
  BY <1>2, <1>7 DEF RmDestroy, RmIPs, RmDHCP, RmDisks, RmVolume, LocalType
<1>8. CASE CommitActive(p) \/ CommitReset(p) \/ CommitShutdown(p) \/ CommitLayer(p)
  BY <1>1, <1>2, <1>8
     DEF CommitActive, CommitReset, CommitShutdown, CommitLayer, LocalType, Ended
<1>9. CASE CommitPoll(p)
  BY <1>1, <1>9 DEF CommitPoll, Fault, LocalType
<1>10. CASE HostStep(p)
  BY <1>1, <1>2, <1>10
     DEF HostStep, HostCheck, HostAddNext, HostRmNext, HostDelete, LocalType, Ended
<1> QED BY <1>3, <1>4, <1>5, <1>6, <1>7, <1>8, <1>9, <1>10 DEF Step, RmStep, CommitStep

\* If DomainIsActive does not fail while vmShutdown polls, VMCommit never destroys a
\* running domain, however many other commands are under way: the poll ends either
\* with the guest stopped or with an error.
THEOREM CommitWaits ==
  ASSUME "poll" \notin Faults
  PROVE  Spec => []CommitShutsDown
<1>1. Init => Stopped
  BY DEF Init, Stopped, StoppedAt
<1>2. ASSUME Sound, Stopped, [Next]_vars PROVE Stopped'
  <2> SUFFICES ASSUME NEW q \in Procs PROVE StoppedAt(q)'
    BY DEF Stopped
  <2>1. StoppedAt(q) /\ ControlAt(q)
    BY <1>2 DEF Stopped, Sound, Local, ControlOK
  <2>2. CASE UNCHANGED vars
    BY <2>1, <2>2 DEF StoppedAt, vars, objects, locals
  <2>3. ASSUME NEW v \in VM, GuestStop(v) PROVE StoppedAt(q)'
    <3>1. UNCHANGED <<pc, phase, vm>> /\ (dom'[vm[q]] = dom[vm[q]] \/ dom'[vm[q]] = "defined")
      BY <1>2, <2>3 DEF GuestStop, locals, Sound, ObjectType
    <3> QED BY <2>1, <3>1 DEF StoppedAt
  <2>4. ASSUME NEW p \in Procs, Command(p) \/ Step(p) \/ Crash(p) PROVE StoppedAt(q)'
    <3>1. CASE q = p
      BY <1>2, <2>4, <3>1, StepStopped
    <3>2. CASE q # p
      <4>1. OnlyOf(p) /\ OnlyVMOf(p)
        BY <1>2, <2>4, StepSound, StepOnlyVM
      <4>2. pc'[q] = pc[q] /\ vm'[q] = vm[q] /\ phase'[q] = phase[q]
        BY <3>2, <4>1 DEF OnlyOf
      <4>3. CASE phase[q] = "commit"
        <5>1. vm[q] \in VM /\ vm[q] # vm[p]
          BY <1>2, <2>1, <3>2, <4>3, NetworkAssumption
             DEF ControlAt, Sound, Local, OneOwner
        <5> QED BY <2>1, <4>1, <4>2, <5>1 DEF StoppedAt, OnlyVMOf
      <4> QED BY <4>2, <4>3 DEF StoppedAt
    <3> QED BY <3>1, <3>2
  <2> QED BY <1>2, <2>2, <2>3, <2>4 DEF Next
<1>3. Stopped => CommitShutsDown
  BY DEF Stopped, StoppedAt, CommitShutsDown
<1> QED BY <1>1, <1>2, <1>3, AlwaysSound, PTL DEF Spec

-----------------------------------------------------------------------------
(* MAC addresses.                                                          *)

\* The VMs ask for IDs of their own.
OwnIDs ==
  /\ \A u, v \in VM : u # v => Wanted[u] \cap Wanted[v] = {}
  /\ \A v \in VM : 0 \notin Wanted[v]

\* One command at a time.
Alone == \A p, q \in Procs : p = q

\* No two VMs have the same MAC address.
UniqueMAC ==
  \A u, v \in VM :
    u # v /\ dom[u] # "none" /\ dom[v] # "none" => mac[u] # mac[v]

\* MAC addresses change when a domain is defined or undefined.
LEMMA MACStep ==
  ASSUME Sound, Work, NEW p \in Procs, Command(p) \/ Step(p) \/ Crash(p)
  PROVE  \/ mac' = mac /\ \A v \in VM : dom'[v] = "none" <=> dom[v] = "none"
         \/ /\ pc[p] = "run_define" /\ vm[p] \in VM
            /\ dom' = [dom EXCEPT ![vm[p]] = "defined"]
            /\ mac' = [mac EXCEPT ![vm[p]] = id[p]]
         \/ /\ pc[p] = "rm_undefine" /\ vm[p] \in VM
            /\ dom' = [dom EXCEPT ![vm[p]] = "none"]
            /\ mac' = [mac EXCEPT ![vm[p]] = 0]
<1> ObjectType /\ LocalType /\ ControlAt(p) /\ WorkAt(p)
  BY DEF Sound, Local, ControlOK, Work
<1> USE DEF objects
<1>1. CASE \E ok : Refused(p, ok)
  BY <1>1 DEF Refused
<1>2. CASE Command(p) \/ Crash(p)
  BY <1>2 DEF Command, Run, Build, Rm, Commit, HostAdd, HostRm, Begin, Crash
<1>3. CASE RunDefine(p)
  BY <1>1, <1>3 DEF RunDefine, ControlAt, RunLabels
<1>4. CASE RunStart(p)
  BY <1>1, <1>4 DEF RunStart, WorkAt, RunMakes, ObjectType
<1>5. CASE RunStep(p) /\ ~RunDefine(p) /\ ~RunStart(p)
  BY <1>1, <1>5
     DEF RunStep, RunDomain, RunImages, RunID, RunMAC, RunVolume, FillCIData, RunDHCP,
         Provision
<1>6. CASE RmDestroy(p)
  BY <1>1, <1>6 DEF RmDestroy, ObjectType
<1>7. CASE RmUndefine(p)
  BY <1>1, <1>7 DEF RmUndefine, ControlAt, RmLabels, RmTakes
<1>8. CASE RmStep(p) /\ ~RmDestroy(p) /\ ~RmUndefine(p)
  BY <1>1, <1>8 DEF RmStep, RmDomain, RmIPs, RmDHCP, RmDisks, RmVolume
<1>9. CASE CommitStep(p)
  BY <1>1, <1>9
     DEF CommitStep, CommitActive, CommitReset, CommitShutdown, CommitPoll, CommitLayer
<1>10. CASE HostStep(p)
  BY <1>1, <1>10 DEF HostStep, HostCheck, HostAddNext, HostRmNext, HostDelete
<1> QED BY <1>2, <1>3, <1>4, <1>5, <1>6, <1>7, <1>8, <1>9, <1>10 DEF Step

\* A guest that stops stays defined.
LEMMA GuestMAC ==
  ASSUME Sound, NEW u \in VM, GuestStop(u)
  PROVE  mac' = mac /\ \A v \in VM : dom'[v] = "none" <=> dom[v] = "none"
BY DEF Sound, ObjectType, GuestStop

\* With IDs of their own, the VMs have and get no others.
Asked ==
  /\ \A p \in Procs : pc[p] \in RunLabels => id[p] \in Wanted[vm[p]]
  /\ \A v \in VM : dom[v] # "none" => mac[v] \in Wanted[v]

LEMMA StepAsked ==
  ASSUME OwnIDs, Sound, Asked, NEW p \in Procs, Command(p) \/ Step(p) \/ Crash(p),
         pc'[p] \in RunLabels
  PROVE  id'[p] \in Wanted[vm'[p]]
<1> LocalType /\ ControlAt(p)
  BY DEF Sound, Local, ControlOK
<1> USE DEF Goto, Continue, locals, RunLabels, RunChecks, RunMakes, Ended
<1>1. CASE Fail(p) \/ \E r \in Ended : Finish(p, r)
  BY <1>1 DEF Fail, Finish, LocalType
<1>2. CASE \E ok : Refused(p, ok)
  BY <1>1, <1>2 DEF Refused
<1>3. CASE Command(p) \/ Crash(p)
  BY <1>1, <1>3
     DEF Command, Run, Build, Rm, Commit, HostAdd, HostRm, Begin, Crash, LocalType
<1>4. CASE RunID(p)
  <2>1. id[p] \in Wanted[vm[p]] /\ id[p] # 0
    BY <1>4, NetworkAssumption DEF RunID, Asked, ControlAt, OwnIDs
  <2>2. GetVMID(id[p]) \in {0, id[p]}
    BY <2>1 DEF GetVMID
  <2> QED BY <1>2, <1>4, <2>1, <2>2 DEF RunID, LocalType
<1>5. CASE RunStep(p) /\ ~RunID(p)
  BY <1>1, <1>2, <1>5
     DEF RunStep, RunDomain, RunImages, RunMAC, RunDefine, RunVolume, FillCIData, RunDHCP,
         RunStart, Provision, LocalType, Asked
<1>6. CASE RmDomain(p) \/ RmUndefine(p)
  BY <1>1, <1>2, <1>6
     DEF RmDomain, RmUndefine, RmDone, LocalType, ControlAt, RmLabels, RmTakes
<1>7. CASE RmDestroy(p) \/ RmIPs(p) \/ RmDHCP(p) \/ RmDisks(p) \/ RmVolume(p)
  BY <1>2, <1>7 DEF RmDestroy, RmIPs, RmDHCP, RmDisks, RmVolume, LocalType
<1>8. CASE CommitStep(p)
  BY <1>1, <1>2, <1>8
     DEF CommitStep, CommitActive, CommitReset, CommitShutdown, CommitPoll, CommitLayer,
         LocalType
<1>9. CASE HostStep(p)
  BY <1>1, <1>2, <1>9
     DEF HostStep, HostCheck, HostAddNext, HostRmNext, HostDelete, LocalType
<1> QED BY <1>3, <1>4, <1>5, <1>6, <1>7, <1>8, <1>9 DEF Step, RmStep

LEMMA AlwaysAsked ==
  ASSUME OwnIDs
  PROVE  Spec => []Asked
<1>1. Init => Asked
  BY DEF Init, Asked, RunLabels, RunChecks, RunMakes
<1>2. ASSUME Sound, Work, Asked, [Next]_vars PROVE Asked'
  <2>1. CASE UNCHANGED vars
    BY <1>2, <2>1 DEF Asked, vars, objects, locals
  <2>2. ASSUME NEW u \in VM, GuestStop(u) PROVE Asked'
    BY <1>2, <2>2, GuestMAC DEF Asked, GuestStop, locals
  <2>3. ASSUME NEW p \in Procs, Command(p) \/ Step(p) \/ Crash(p) PROVE Asked'
    <3>1. ASSUME NEW q \in Procs, pc'[q] \in RunLabels PROVE id'[q] \in Wanted[vm'[q]]
      BY <1>2, <2>3, <3>1, StepAsked, StepSound DEF OnlyOf, Asked
    <3>2. pc[p] = "run_define" => id[p] \in Wanted[vm[p]]
      BY <1>2 DEF Asked, RunLabels
    <3>3. ASSUME NEW v \in VM, dom'[v] # "none" PROVE mac'[v] \in Wanted[v]
      BY <1>2, <2>3, <3>2, <3>3, MACStep DEF Asked, Sound, ObjectType
    <3> QED BY <3>1, <3>3 DEF Asked
  <2> QED BY <1>2, <2>1, <2>2, <2>3 DEF Next
<1> QED BY <1>1, <1>2, AlwaysSound, AlwaysWork, PTL DEF Spec

\* When one command runs at a time, the check of VMRun still holds when it defines
\* the domain.
Clear == UniqueMAC /\ \A p \in Procs : pc[p] = "run_define" => ~MACTaken(id[p])

LEMMA StepClear ==
  ASSUME Sound, NEW p \in Procs, Command(p) \/ Step(p) \/ Crash(p),
         pc'[p] = "run_define"
  PROVE  ~MACTaken(id[p]) /\ UNCHANGED <<dom, mac, id>>
<1> LocalType /\ ControlAt(p)
  BY DEF Sound, Local, ControlOK
<1> USE DEF Goto, Continue, locals, objects, Ended
<1>1. CASE Fail(p) \/ \E r \in Ended : Finish(p, r)
  BY <1>1 DEF Fail, Finish, LocalType
<1>2. CASE \E ok : Refused(p, ok)
  BY <1>1, <1>2 DEF Refused
<1>3. CASE Command(p) \/ Crash(p)
  BY <1>1, <1>3
     DEF Command, Run, Build, Rm, Commit, HostAdd, HostRm, Begin, Crash, LocalType
<1>4. CASE RunStep(p)
  BY <1>1, <1>2, <1>4
     DEF RunStep, RunDomain, RunImages, RunID, RunMAC, RunDefine, RunVolume, FillCIData,
         RunDHCP, RunStart, Provision, LocalType
<1>5. CASE RmStep(p)
  BY <1>1, <1>2, <1>5
     DEF RmStep, RmDomain, RmDestroy, RmIPs, RmDHCP, RmDisks, RmVolume, RmUndefine, RmDone,
         LocalType, ControlAt, RmLabels, RmTakes
<1>6. CASE CommitStep(p)
  BY <1>1, <1>2, <1>6
     DEF CommitStep, CommitActive, CommitReset, CommitShutdown, CommitPoll, CommitLayer,
         LocalType
<1>7. CASE HostStep(p)
  BY <1>1, <1>2, <1>7
     DEF HostStep, HostCheck, HostAddNext, HostRmNext, HostDelete, LocalType
<1> QED BY <1>3, <1>4, <1>5, <1>6, <1>7 DEF Step

LEMMA AlwaysClear ==
  ASSUME Alone
  PROVE  Spec => []Clear
<1>1. Init => Clear
  BY DEF Init, Clear, UniqueMAC
<1>2. ASSUME Sound, Work, Clear, [Next]_vars PROVE Clear'
  <2>1. CASE UNCHANGED vars
    BY <1>2, <2>1 DEF Clear, UniqueMAC, MACTaken, vars, objects, locals
  <2>2. ASSUME NEW u \in VM, GuestStop(u) PROVE Clear'
    BY <1>2, <2>2, GuestMAC DEF Clear, UniqueMAC, MACTaken, GuestStop, locals
  <2>3. ASSUME NEW p \in Procs, Command(p) \/ Step(p) \/ Crash(p) PROVE Clear'
    <3>1. UniqueMAC'
      BY <1>2, <2>3, MACStep DEF Clear, UniqueMAC, MACTaken, Sound, ObjectType
    <3>2. ASSUME NEW q \in Procs, pc'[q] = "run_define" PROVE ~MACTaken(id[q])'
      <4>1. q = p
        BY DEF Alone
      <4> QED BY <1>2, <2>3, <3>2, <4>1, StepClear DEF MACTaken
    <3> QED BY <3>1, <3>2 DEF Clear
  <2> QED BY <1>2, <2>1, <2>2, <2>3 DEF Next
<1> QED BY <1>1, <1>2, AlwaysSound, AlwaysWork, PTL DEF Spec

\* No two VMs have the same MAC address, if commands run one at a time or VMs ask for
\* IDs of their own: VMRun compares the MAC address with those of all other domains
\* before it defines the domain, and nothing but an ID of its own helps when another
\* VMRun does so between the two calls.
LEMMA MACsUnique ==
  ASSUME Alone \/ OwnIDs
  PROVE  Spec => []UniqueMAC
<1>1. CASE Alone
  <2>1. Clear => UniqueMAC
    BY DEF Clear
  <2> QED BY <1>1, <2>1, AlwaysClear, PTL
<1>2. CASE OwnIDs
  <2>1. Asked => UniqueMAC
    BY <1>2 DEF Asked, UniqueMAC, OwnIDs
  <2> QED BY <1>2, <2>1, AlwaysAsked, PTL
<1> QED BY <1>1, <1>2

-----------------------------------------------------------------------------
(* DHCP entries.                                                           *)

\* The entries change by one, when a VM or the user adds or removes it.
LEMMA HostsStep ==
  ASSUME Sound, NEW p \in Procs, Command(p) \/ Step(p) \/ Crash(p), hosts' # hosts
  PROVE  /\ UNCHANGED <<dom, mac, vols>>
         /\ \/ pc[p] = "run_dhcp" /\ ~Static /\ hosts' = hosts \cup {id[p]}
            \/ \E i \in ids[p] :
                 /\ pc[p] = "rm_dhcp"
                 /\ hosts' = hosts \ {i} /\ ids' = [ids EXCEPT ![p] = @ \ {i}]
            \/ \E i \in ids[p] :
                 /\ pc[p] = "host_add"
                 /\ hosts' = hosts \cup {i} /\ ids' = [ids EXCEPT ![p] = @ \ {i}]
            \/ \E i \in ids[p] :
                 /\ pc[p] = "host_delete"
                 /\ hosts' = hosts \ {i} /\ ids' = [ids EXCEPT ![p] = @ \ {i}]
<1> LocalType /\ ControlAt(p)
  BY DEF Sound, Local, ControlOK
<1> USE DEF objects
<1>1. ~\E ok : Refused(p, ok)
  BY DEF Refused
<1>2. CASE Command(p) \/ Crash(p)
  BY <1>2 DEF Command, Run, Build, Rm, Commit, HostAdd, HostRm, Begin, Crash
<1>3. CASE RunStep(p)
  BY <1>1, <1>3
     DEF RunStep, RunDomain, RunImages, RunID, RunMAC, RunDefine, RunVolume, FillCIData,
         RunDHCP, RunStart, Provision
<1>4. CASE RmStep(p)
  BY <1>1, <1>4
     DEF RmStep, RmDomain, RmDestroy, RmIPs, RmDHCP, RmDisks, RmVolume, RmUndefine
<1>5. CASE CommitStep(p)
  BY <1>1, <1>5
     DEF CommitStep, CommitActive, CommitReset, CommitShutdown, CommitPoll, CommitLayer
<1>6. CASE HostStep(p)
  BY <1>1, <1>6, FirstIDChosen
     DEF HostStep, HostCheck, HostAddNext, HostRmNext, HostDelete, ControlAt
<1> QED BY <1>2, <1>3, <1>4, <1>5, <1>6 DEF Step

\* VMRm removes the entry of its VM and, with static_dhcp, none.
TakeAt(p) ==
  pc[p] = "rm_dhcp" => ids[p] \subseteq IF Static THEN {} ELSE {mac[vm[p]]}

Take == \A p \in Procs : TakeAt(p)

\* VMRm comes to the entry of its VM from findIPs or from another entry.
LEMMA StepTake ==
  ASSUME Sound, Take, NEW p \in Procs, Command(p) \/ Step(p) \/ Crash(p)
  PROVE  TakeAt(p)'
<1> LocalType /\ ControlAt(p) /\ TakeAt(p)
  BY DEF Sound, Local, ControlOK, Take
<1> USE DEF Goto, Continue, locals, objects, Ended, TakeAt
<1>1. CASE Fail(p) \/ \E r \in Ended : Finish(p, r)
  BY <1>1 DEF Fail, Finish, LocalType
<1>2. CASE \E ok : Refused(p, ok)
  BY <1>1, <1>2 DEF Refused
<1>3. CASE Command(p) \/ Crash(p)
  BY <1>1, <1>3
     DEF Command, Run, Build, Rm, Commit, HostAdd, HostRm, Begin, Crash, LocalType
<1>4. CASE RunStep(p)
  BY <1>1, <1>2, <1>4
     DEF RunStep, RunDomain, RunImages, RunID, RunMAC, RunDefine, RunVolume, FillCIData,
         RunDHCP, RunStart, Provision, LocalType
<1>5. CASE RmDomain(p) \/ RmUndefine(p)
  BY <1>1, <1>2, <1>5
     DEF RmDomain, RmUndefine, RmDone, LocalType, ControlAt, RmLabels, RmTakes
<1>6. CASE RmDestroy(p) \/ RmDisks(p) \/ RmVolume(p)
  BY <1>2, <1>6 DEF RmDestroy, RmDisks, RmVolume, LocalType
<1>7. CASE RmIPs(p) \/ RmDHCP(p)
  <2>1. CASE ~\E ok : Refused(p, ok)
    <3>1. mac' = mac /\ vm' = vm
      BY <1>7, <2>1 DEF RmIPs, RmDHCP
    <3>2. CASE RmIPs(p)
      <4>1. ids'[p] = IF Static THEN {} ELSE hosts \cap {mac[vm[p]]}
        BY <2>1, <3>2 DEF RmIPs, LocalType
      <4> QED BY <3>1, <4>1
    <3>3. CASE RmDHCP(p)
      BY <2>1, <3>1, <3>3 DEF RmDHCP, LocalType
    <3> QED BY <1>7, <3>2, <3>3
  <2> QED BY <1>2, <2>1
<1>8. CASE CommitStep(p)
  BY <1>1, <1>2, <1>8
     DEF CommitStep, CommitActive, CommitReset, CommitShutdown, CommitPoll, CommitLayer,
         LocalType
<1>9. CASE HostStep(p)
  BY <1>1, <1>2, <1>9
     DEF HostStep, HostCheck, HostAddNext, HostRmNext, HostDelete, LocalType
<1> QED BY <1>3, <1>4, <1>5, <1>6, <1>7, <1>8, <1>9 DEF Step, RmStep

\* What the others are about stays the same in a step of p.
LEMMA OtherVM ==
  ASSUME Sound, NEW p \in Procs, Command(p) \/ Step(p) \/ Crash(p),
         NEW q \in Procs, q # p
  PROVE  /\ pc'[q] = pc[q] /\ vm'[q] = vm[q] /\ id'[q] = id[q] /\ ids'[q] = ids[q]
         /\ vm[q] \in VM => /\ vm[q] # vm[p]
                            /\ dom'[vm[q]] = dom[vm[q]] /\ mac'[vm[q]] = mac[vm[q]]
<1>1. OnlyOf(p) /\ OnlyVMOf(p)
  BY StepSound, StepOnlyVM
<1>2. vm[q] \in VM => vm[q] # vm[p]
  BY NetworkAssumption DEF Sound, Local, OneOwner
<1> QED BY <1>1, <1>2 DEF OnlyOf, OnlyVMOf

LEMMA AlwaysTake == Spec => []Take
<1>1. Init => Take
  BY DEF Init, Take, TakeAt
<1>2. ASSUME Sound, Take, [Next]_vars PROVE Take'
  <2> SUFFICES ASSUME NEW q \in Procs PROVE TakeAt(q)'
    BY DEF Take
  <2>1. TakeAt(q) /\ ControlAt(q)
    BY <1>2 DEF Take, Sound, Local, ControlOK
  <2>2. CASE UNCHANGED vars \/ \E v \in VM : GuestStop(v)
    BY <2>1, <2>2 DEF TakeAt, GuestStop, vars, objects, locals
  <2>3. ASSUME NEW p \in Procs, Command(p) \/ Step(p) \/ Crash(p) PROVE TakeAt(q)'
    <3>1. CASE q = p
      BY <1>2, <2>3, <3>1, StepTake
    <3>2. CASE q # p
      BY <1>2, <2>1, <2>3, <3>2, OtherVM DEF TakeAt, ControlAt, RmLabels, RmTakes
    <3> QED BY <3>1, <3>2
  <2> QED BY <1>2, <2>2, <2>3 DEF Next
<1> QED BY <1>1, <1>2, AlwaysSound, PTL DEF Spec

\* With static_dhcp an entry appears only by a network host add and disappears only by
\* a network host rm that has come to its ID, and takes it off its list; VMRun skips
\* AddDHCPHost and VMRm removeDomainDHCP.
THEOREM StaticEntriesStay == Spec => StaticEntriesKept
<1> DEFINE Listed == Static =>
             \A i \in (hosts \ hosts') \cup (hosts' \ hosts) :
               \E p \in Procs :
                 /\ op[p] = IF i \in hosts' THEN "hostadd" ELSE "hostrm"
                 /\ i \in ids[p] /\ ids'[p] = ids[p] \ {i}
<1>1. ASSUME Sound, Take, [Next]_vars PROVE Listed
  <2> SUFFICES ASSUME Static, NEW i \in (hosts \ hosts') \cup (hosts' \ hosts)
               PROVE  \E p \in Procs :
                        /\ op[p] = IF i \in hosts' THEN "hostadd" ELSE "hostrm"
                        /\ i \in ids[p] /\ ids'[p] = ids[p] \ {i}
    OBVIOUS
  <2>1. PICK p \in Procs : Command(p) \/ Step(p) \/ Crash(p)
    BY <1>1 DEF Next, GuestStop, vars, objects
  <2>2. LocalType /\ ControlAt(p) /\ TakeAt(p)
    BY <1>1 DEF Sound, Local, ControlOK, Take
  <2>3. PICK j \in ids[p] :
          /\ \/ pc[p] = "host_add" /\ hosts' = hosts \cup {j}
             \/ pc[p] = "host_delete" /\ hosts' = hosts \ {j}
          /\ ids' = [ids EXCEPT ![p] = @ \ {j}]
    BY <1>1, <2>1, <2>2, HostsStep DEF TakeAt
  <2>4. j = i /\ ids'[p] = ids[p] \ {i}
    BY <2>2, <2>3 DEF LocalType
  <2> QED BY <2>2, <2>3, <2>4 DEF ControlAt
<1>2. Sound /\ Take /\ [Next]_vars => [Listed]_vars
  BY <1>1
<1> QED BY <1>2, AlwaysSound, AlwaysTake, PTL DEF Spec, StaticEntriesKept

\* What VMRm knows of the entry of its VM: it will remove it, or it is gone.
GoneAt(p) ==
  /\ pc[p] = "rm_dhcp" /\ mac[vm[p]] \in hosts => mac[vm[p]] \in ids[p]
  /\ pc[p] \in {"rm_disks", "rm_volume", "rm_undefine"} => mac[vm[p]] \notin hosts

LEMMA StepGone ==
  ASSUME ~Static, Sound, NEW p \in Procs, GoneAt(p), Command(p) \/ Step(p) \/ Crash(p)
  PROVE  GoneAt(p)'
<1> LocalType /\ ControlAt(p)
  BY DEF Sound, Local, ControlOK
<1> USE DEF Goto, Continue, locals, objects, Ended, GoneAt
<1>1. CASE Fail(p) \/ \E r \in Ended : Finish(p, r)
  BY <1>1 DEF Fail, Finish, LocalType
<1>2. CASE \E ok : Refused(p, ok)
  BY <1>1, <1>2 DEF Refused
<1>3. CASE Command(p) \/ Crash(p)
  BY <1>1, <1>3
     DEF Command, Run, Build, Rm, Commit, HostAdd, HostRm, Begin, Crash, LocalType
<1>4. CASE RunStep(p)
  BY <1>1, <1>2, <1>4
     DEF RunStep, RunDomain, RunImages, RunID, RunMAC, RunDefine, RunVolume, FillCIData,
         RunDHCP, RunStart, Provision, LocalType
<1>5. CASE RmDomain(p) \/ RmUndefine(p)
  BY <1>1, <1>2, <1>5
     DEF RmDomain, RmUndefine, RmDone, LocalType, ControlAt, RmLabels, RmTakes
<1>6. CASE (RmDestroy(p) \/ RmDisks(p) \/ RmVolume(p)) /\ ~\E ok : Refused(p, ok)
  BY <1>6 DEF RmDestroy, RmDisks, RmVolume, LocalType
<1>7. CASE RmIPs(p) /\ ~\E ok : Refused(p, ok)
  <2>1. ids'[p] = IF Static THEN {} ELSE hosts \cap {mac[vm[p]]}
    BY <1>7 DEF RmIPs, LocalType
  <2>2. pc'[p] = "rm_dhcp" /\ vm' = vm /\ mac' = mac /\ hosts' = hosts
    BY <1>7 DEF RmIPs, LocalType
  <2> QED BY <2>1, <2>2
<1>8. CASE RmDHCP(p) /\ ~\E ok : Refused(p, ok)
  BY <1>8 DEF RmDHCP, LocalType
<1>9. CASE CommitStep(p)
  BY <1>1, <1>2, <1>9
     DEF CommitStep, CommitActive, CommitReset, CommitShutdown, CommitPoll, CommitLayer,
         LocalType
<1>10. CASE HostStep(p)
  BY <1>1, <1>2, <1>10
     DEF HostStep, HostCheck, HostAddNext, HostRmNext, HostDelete, LocalType
<1> QED BY <1>2, <1>3, <1>4, <1>5, <1>6, <1>7, <1>8, <1>9, <1>10 DEF Step, RmStep

\* A new entry is the one of a VM under construction, and of no other VM.
LEMMA NewEntry ==
  ASSUME "hostadd" \notin Ops, Sound, Work,
         NEW p \in Procs, Command(p) \/ Step(p) \/ Crash(p), NEW i \in hosts' \ hosts
  PROVE  /\ pc[p] = "run_dhcp" /\ vm[p] \in VM /\ dom[vm[p]] # "none" /\ mac[vm[p]] = i
         /\ UNCHANGED <<dom, mac>>
<1>1. ControlAt(p) /\ WorkAt(p)
  BY DEF Sound, Local, ControlOK, Work
<1>2. pc[p] # "host_add"
  BY <1>1 DEF ControlAt
<1>3. pc[p] = "run_dhcp" /\ i = id[p] /\ UNCHANGED <<dom, mac>>
  BY <1>2, HostsStep
<1> QED BY <1>1, <1>3 DEF ControlAt, WorkAt, RunLabels, RunMakes

\* A command goes to another VM only by ending first.
LEMMA StepSameVM ==
  ASSUME Sound, NEW p \in Procs, Command(p) \/ Step(p) \/ Crash(p)
  PROVE  vm'[p] \in {vm[p], None} \/ pc[p] \in Ended
<1> LocalType /\ ControlAt(p)
  BY DEF Sound, Local, ControlOK
<1> USE DEF Continue, locals
<1>1. CASE Fail(p) \/ \E r \in Ended : Finish(p, r)
  BY <1>1 DEF Fail, Finish, LocalType
<1>2. CASE \E ok : Refused(p, ok)
  BY <1>1, <1>2 DEF Refused
<1>3. CASE Command(p)
  BY <1>3 DEF Command, Run, Build, Rm, Commit, HostAdd, HostRm, Begin
<1>4. CASE Crash(p)
  BY <1>1, <1>4 DEF Crash, Ended
<1>5. CASE RunStep(p)
  BY <1>1, <1>2, <1>5
     DEF RunStep, RunDomain, RunImages, RunID, RunMAC, RunDefine, RunVolume, FillCIData,
         RunDHCP, RunStart, Provision, Ended
<1>6. CASE RmStep(p)
  BY <1>1, <1>2, <1>6
     DEF RmStep, RmDomain, RmDestroy, RmIPs, RmDHCP, RmDisks, RmVolume, RmUndefine, RmDone,
         ControlAt, RmLabels, RmTakes, Ended
<1>7. CASE CommitStep(p)
  BY <1>1, <1>2, <1>7
     DEF CommitStep, CommitActive, CommitReset, CommitShutdown, CommitPoll, CommitLayer,
         Ended
<1>8. CASE HostStep(p)
  BY <1>1, <1>2, <1>8 DEF HostStep, HostCheck, HostAddNext, HostRmNext, HostDelete, Ended
<1> QED BY <1>3, <1>4, <1>5, <1>6, <1>7, <1>8 DEF Step

\* VM v answers for the entry of ID i: whoever is at work on it knows of the entry.
Keeps(v, i) ==
  /\ dom[v] # "none" /\ mac[v] = i
  /\ \A p \in Procs : vm[p] = v => GoneAt(p)

\* Every entry has a VM that answers for it.  Another VM of the same ID may be at any
\* point of its removal, and have taken the entry off its list or not yet seen it.
Kept == \A i \in hosts : \E v \in VM : Keeps(v, i)

LEMMA StepKept ==
  ASSUME ~Static, "hostadd" \notin Ops, Sound, Work, Kept,
         NEW p \in Procs, Command(p) \/ Step(p) \/ Crash(p)
  PROVE  Kept'
<1> SUFFICES ASSUME NEW i \in hosts' PROVE \E v \in VM : Keeps(v, i)'
  BY DEF Kept
<1>1. CASE i \notin hosts
  <2>1. /\ pc[p] = "run_dhcp" /\ vm[p] \in VM
        /\ dom'[vm[p]] # "none" /\ mac'[vm[p]] = i
    BY <1>1, NewEntry
  <2>2. GoneAt(p)'
    BY <2>1, StepGone DEF GoneAt
  <2>3. ASSUME NEW q \in Procs, vm'[q] = vm[p] PROVE q = p
    BY <2>1, <2>3, OtherVM
  <2> QED BY <2>1, <2>2, <2>3 DEF Keeps
<1>2. CASE i \in hosts
  <2>1. PICK v \in VM : Keeps(v, i)
    BY <1>2 DEF Kept
  <2>2. dom[v] # "none" /\ mac[v] = i
    BY <2>1 DEF Keeps
  <2>3. pc[p] = "run_define" => v # vm[p]
    BY <2>2 DEF Work, WorkAt
  <2>4. pc[p] = "rm_undefine" => v # vm[p]
    BY <1>2, <2>1 DEF Keeps, GoneAt
  <2>5. dom'[v] # "none" /\ mac'[v] = i
    BY <2>2, <2>3, <2>4, MACStep DEF Sound, ObjectType
  <2>6. ASSUME NEW q \in Procs, vm'[q] = v PROVE GoneAt(q)'
    <3>1. CASE q = p
      <4>1. v # None
        BY NetworkAssumption
      <4>2. vm[p] = v \/ pc[p] \in Ended
        BY <2>6, <3>1, <4>1, StepSameVM
      <4>3. GoneAt(p)
        BY <2>1, <4>2 DEF Keeps, GoneAt, Ended
      <4> QED BY <3>1, <4>3, StepGone
    <3>2. CASE q # p
      <4>1. vm[q] = v /\ pc'[q] = pc[q] /\ ids'[q] = ids[q]
        BY <2>6, <3>2, OtherVM
      <4> QED BY <1>2, <2>1, <2>2, <2>5, <2>6, <4>1 DEF Keeps, GoneAt
    <3> QED BY <3>1, <3>2
  <2> QED BY <2>5, <2>6 DEF Keeps
<1> QED BY <1>1, <1>2

\* Every DHCP entry that virter makes belongs to a defined domain, whatever fails and
\* wherever a command dies, so that vm rm finds and removes it: VMRun adds the entry
\* after it has defined the domain, VMRm removes it before it undefines the domain.
\* This holds for any number of commands at a time, VMs that get the same ID because
\* both checked the MAC address before either was defined included: an entry belongs
\* to the one that added it, and goes before that one does.  No entries are added by
\* hand.
THEOREM NoEntryLeaks ==
  ASSUME "hostadd" \notin Ops
  PROVE  Spec => []NoLeakedEntry
<1>1. Init => Kept
  BY DEF Init, Kept
<1>2. ASSUME ~Static, Sound, Work, Kept, [Next]_vars PROVE Kept'
  <2>1. CASE UNCHANGED vars
    BY <1>2, <2>1 DEF Kept, Keeps, GoneAt, vars, objects, locals
  <2>2. ASSUME NEW u \in VM, GuestStop(u) PROVE Kept'
    <3>1. /\ mac' = mac /\ \A v \in VM : dom'[v] = "none" <=> dom[v] = "none"
          /\ UNCHANGED <<hosts, pc, vm, ids>>
      BY <1>2, <2>2, GuestMAC DEF GuestStop, locals
    <3> QED BY <1>2, <3>1 DEF Kept, Keeps, GoneAt
  <2> QED BY <1>2, <2>1, <2>2, StepKept DEF Next
<1>3. Kept => NoLeakedEntry
  BY DEF Kept, Keeps, NoLeakedEntry
<1>4. CASE Static
  <2>1. NoLeakedEntry
    BY <1>4 DEF NoLeakedEntry
  <2> QED BY <2>1, PTL
<1>5. CASE ~Static
  BY <1>1, <1>2, <1>3, <1>5, AlwaysSound, AlwaysWork, PTL DEF Spec
<1> QED BY <1>4, <1>5

-----------------------------------------------------------------------------
(* Running VMs.                                                            *)

\* What a step may do to its VM while it runs: start it, with its volumes there and
\* the call before it done, or leave it and its volumes alone.
LEMMA StepRunning ==
  ASSUME Sound, Work, NEW p \in Procs, Command(p) \/ Step(p) \/ Crash(p),
         vm[p] \in VM, dom'[vm[p]] = "running"
  PROVE  \/ /\ pc[p] = "run_start" /\ VolsOf(vm[p]) \subseteq vols
            /\ UNCHANGED <<mac, vols, hosts>>
         \/ dom[vm[p]] = "running" /\ UNCHANGED <<mac, vols, hosts>>
<1> ObjectType /\ LocalType /\ ControlAt(p) /\ WorkAt(p)
  BY DEF Sound, Local, ControlOK, Work
<1> USE DEF objects
<1>1. CASE \E ok : Refused(p, ok)
  BY <1>1 DEF Refused
<1>2. CASE Command(p) \/ Crash(p)
  BY <1>2 DEF Command, Run, Build, Rm, Commit, HostAdd, HostRm, Begin, Crash
<1>3. CASE RunVolume(p) \/ RunDHCP(p)
  BY <1>1, <1>3 DEF RunVolume, RunDHCP, WorkAt, RunMakes
<1>4. CASE RunStep(p) /\ ~RunVolume(p) /\ ~RunDHCP(p)
  BY <1>1, <1>4
     DEF RunStep, RunDomain, RunImages, RunID, RunMAC, RunDefine, FillCIData, RunStart,
         Provision, ObjectType
<1>5. CASE RmStep(p)
  BY <1>1, <1>5
     DEF RmStep, RmDomain, RmDestroy, RmIPs, RmDHCP, RmDisks, RmVolume, RmUndefine,
         ObjectType,
         WorkAt, RmTakes
<1>6. CASE CommitStep(p)
  <2>1. CASE CommitLayer(p)
    BY <1>1, <2>1 DEF CommitLayer, WorkAt
  <2> QED BY <1>1, <1>6, <2>1
          DEF CommitStep, CommitActive, CommitReset, CommitShutdown, CommitPoll
<1>7. pc[p] \notin HostLabels
  BY NetworkAssumption DEF ControlAt, RunLabels, RunChecks, RunMakes, RmLabels, RmTakes,
     CommitLabels, HostLabels
<1>8. CASE HostStep(p)
  BY <1>7, <1>8 DEF HostStep, HostCheck, HostAddNext, HostRmNext, HostDelete, HostLabels
<1> QED BY <1>2, <1>3, <1>4, <1>5, <1>6, <1>8 DEF Step

\* An entry that disappears is the one of a VM that VMRm has stopped.
LEMMA OldEntry ==
  ASSUME "hostrm" \notin Ops, Sound, Work, Take,
         NEW p \in Procs, Command(p) \/ Step(p) \/ Crash(p), NEW i \in hosts \ hosts'
  PROVE  vm[p] \in VM /\ dom[vm[p]] = "defined" /\ mac[vm[p]] = i /\ pc[p] = "rm_dhcp"
<1>1. ControlAt(p) /\ WorkAt(p) /\ TakeAt(p)
  BY DEF Sound, Local, ControlOK, Work, Take
<1>2. pc[p] # "host_delete"
  BY <1>1 DEF ControlAt
<1>3. pc[p] = "rm_dhcp" /\ i \in ids[p]
  BY <1>2, HostsStep
<1>4. mac[vm[p]] = i
  BY <1>1, <1>3 DEF TakeAt
<1> QED BY <1>1, <1>3, <1>4 DEF ControlAt, WorkAt, RmLabels, RmTakes

\* VMRun starts the VM after it has added the entry.
StartAt(p) == pc[p] = "run_start" => id[p] \in hosts

Start == \A p \in Procs : StartAt(p)

LEMMA StepStart ==
  ASSUME ~Static, Sound, NEW p \in Procs, Command(p) \/ Step(p) \/ Crash(p)
  PROVE  StartAt(p)'
<1> LocalType /\ ControlAt(p)
  BY DEF Sound, Local, ControlOK
<1> USE DEF Goto, Continue, locals, objects, Ended, StartAt
<1>1. CASE Fail(p) \/ \E r \in Ended : Finish(p, r)
  BY <1>1 DEF Fail, Finish, LocalType
<1>2. CASE \E ok : Refused(p, ok)
  BY <1>1, <1>2 DEF Refused
<1>3. CASE Command(p) \/ Crash(p)
  BY <1>1, <1>3
     DEF Command, Run, Build, Rm, Commit, HostAdd, HostRm, Begin, Crash, LocalType
<1>4. CASE RunStep(p)
  BY <1>1, <1>2, <1>4
     DEF RunStep, RunDomain, RunImages, RunID, RunMAC, RunDefine, RunVolume, FillCIData,
         RunDHCP, RunStart, Provision, LocalType
<1>5. CASE RmStep(p)
  BY <1>1, <1>2, <1>5
     DEF RmStep, RmDomain, RmDestroy, RmIPs, RmDHCP, RmDisks, RmVolume, RmUndefine, RmDone,
         LocalType, ControlAt, RmLabels, RmTakes
<1>6. CASE CommitStep(p)
  BY <1>1, <1>2, <1>6
     DEF CommitStep, CommitActive, CommitReset, CommitShutdown, CommitPoll, CommitLayer,
         LocalType
<1>7. CASE HostStep(p)
  BY <1>1, <1>2, <1>7
     DEF HostStep, HostCheck, HostAddNext, HostRmNext, HostDelete, LocalType
<1> QED BY <1>3, <1>4, <1>5, <1>6, <1>7 DEF Step

LEMMA AlwaysStart ==
  ASSUME Alone \/ OwnIDs, ~Static, "hostrm" \notin Ops
  PROVE  Spec => []Start
<1>1. Init => Start
  BY DEF Init, Start, StartAt
<1>2. ASSUME Sound, Work, Take, UniqueMAC, Start, [Next]_vars PROVE Start'
  <2> SUFFICES ASSUME NEW q \in Procs PROVE StartAt(q)'
    BY DEF Start
  <2>1. StartAt(q) /\ ControlAt(q) /\ WorkAt(q)
    BY <1>2 DEF Start, Work, Sound, Local, ControlOK
  <2>2. CASE UNCHANGED vars \/ \E v \in VM : GuestStop(v)
    BY <2>1, <2>2 DEF StartAt, GuestStop, vars, objects, locals
  <2>3. ASSUME NEW p \in Procs, Command(p) \/ Step(p) \/ Crash(p) PROVE StartAt(q)'
    <3>1. CASE q = p
      BY <1>2, <2>3, <3>1, StepStart
    <3>2. CASE q # p /\ pc[q] = "run_start"
      <4>1. vm[q] \in VM /\ dom[vm[q]] = "defined" /\ mac[vm[q]] = id[q]
        BY <2>1, <3>2 DEF ControlAt, WorkAt, RunLabels, RunMakes
      <4>2. vm[q] # vm[p] /\ id'[q] = id[q]
        BY <1>2, <2>3, <3>2, <4>1, OtherVM
      <4>3. id[q] \in hosts'
        BY <1>2, <2>1, <2>3, <3>2, <4>1, <4>2, OldEntry DEF StartAt, UniqueMAC
      <4> QED BY <4>2, <4>3 DEF StartAt
    <3>3. CASE q # p /\ pc[q] # "run_start"
      BY <1>2, <2>3, <3>3, OtherVM DEF StartAt
    <3> QED BY <3>1, <3>2, <3>3
  <2> QED BY <1>2, <2>2, <2>3 DEF Next
<1> QED BY <1>1, <1>2, AlwaysSound, AlwaysWork, AlwaysTake, MACsUnique, PTL DEF Spec

\* A running VM has all its volumes and the DHCP entry of its ID at any moment, also
\* while VMRm is under way or has failed half way, and whatever other commands do to
\* other VMs: VMRun makes them before it starts the VM, VMRm stops the VM before it
\* removes any, and an entry that another VMRm removes has another MAC address.
THEOREM RunningIsComplete ==
  ASSUME OwnVolumes, Alone \/ OwnIDs, ~Static, "hostrm" \notin Ops
  PROVE  Spec => []RunningComplete
<1>1. Init => RunningComplete
  BY DEF Init, RunningComplete
<1>2. ASSUME Sound, Work, Take, UniqueMAC, Start, RunningComplete, [Next]_vars
      PROVE  RunningComplete'
  <2> SUFFICES ASSUME NEW v \in VM, dom'[v] = "running"
               PROVE  VolsOf(v) \subseteq vols' /\ mac'[v] \in hosts'
    BY DEF RunningComplete, VolsOf
  <2>1. CASE UNCHANGED vars
    BY <1>2, <2>1 DEF RunningComplete, vars, objects
  <2>2. ASSUME NEW u \in VM, GuestStop(u) PROVE VolsOf(v) \subseteq vols' /\ mac'[v] \in hosts'
    BY <1>2, <2>2 DEF RunningComplete, GuestStop, Sound, ObjectType
  <2>3. ASSUME NEW p \in Procs, Command(p) \/ Step(p) \/ Crash(p)
        PROVE  VolsOf(v) \subseteq vols' /\ mac'[v] \in hosts'
    <3>1. CASE v = vm[p]
      <4>1. pc[p] = "run_start" => mac[v] \in hosts
        BY <1>2, <3>1 DEF Start, StartAt, Work, WorkAt, RunMakes
      <4> QED BY <1>2, <2>3, <3>1, <4>1, StepRunning DEF RunningComplete
    <3>2. CASE v # vm[p]
      <4>1. dom[v] = "running" /\ mac'[v] = mac[v]
        BY <1>2, <2>3, <3>2, StepOnlyVM DEF OnlyVMOf
      <4>2. VolsOf(v) \subseteq vols'
        BY <1>2, <2>3, <3>2, <4>1, OtherVolumes DEF RunningComplete
      <4>3. mac[v] \in hosts'
        BY <1>2, <2>3, <3>2, <4>1, OldEntry DEF RunningComplete, UniqueMAC
      <4> QED BY <4>1, <4>2, <4>3
    <3> QED BY <3>1, <3>2
  <2> QED BY <1>2, <2>1, <2>2, <2>3 DEF Next
<1> QED BY <1>1, <1>2, AlwaysSound, AlwaysWork, AlwaysTake, AlwaysStart, MACsUnique, PTL
           DEF Spec

\* A running VM loses its DHCP entry only to the removal of another VM that has been
\* given the same MAC address between the check and the definition of two VMRun, for
\* any number of commands at a time, any wanted IDs and any faults: VMRm stops a VM
\* before it takes its entry, and takes no entry but that of the VM's MAC address.
THEOREM OnlyTwinsTakeEntries ==
  ASSUME "hostrm" \notin Ops
  PROVE  Spec => OnlyTwinTakesEntry
<1> DEFINE Twin == \A v \in VM :
             dom[v] = "running" /\ dom'[v] = "running" /\ mac[v] \in hosts \ hosts' =>
               \E u \in VM \ {v} : dom[u] # "none" /\ mac[u] = mac[v]
<1>1. ASSUME Sound, Work, Take, [Next]_vars PROVE Twin
  <2> SUFFICES ASSUME NEW v \in VM, dom[v] = "running", mac[v] \in hosts \ hosts'
               PROVE  \E u \in VM \ {v} : dom[u] # "none" /\ mac[u] = mac[v]
    OBVIOUS
  <2>1. PICK p \in Procs : Command(p) \/ Step(p) \/ Crash(p)
    BY <1>1 DEF Next, GuestStop, vars, objects
  <2>2. vm[p] \in VM /\ dom[vm[p]] = "defined" /\ mac[vm[p]] = mac[v]
    BY <1>1, <2>1, OldEntry
  <2> QED BY <2>2
<1>2. Sound /\ Work /\ Take /\ [Next]_vars => [Twin]_vars
  BY <1>1
<1> QED BY <1>2, AlwaysSound, AlwaysWork, AlwaysTake, PTL DEF Spec, OnlyTwinTakesEntry
=============================================================================
