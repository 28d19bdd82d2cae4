---------------------------- MODULE VMLifecycle ----------------------------
(***************************************************************************)
(* The life of a VM: VMRun, VMRm, VMCommit and vmShutdown of               *)
(* internal/virter/vm.go, ImageBuild of image.go, the DHCP entries of      *)
(* dhcp.go and the commands network host add and rm.                       *)
(*                                                                         *)
(* A VM is spread over three kinds of libvirt objects: its domain, its     *)
(* volumes (boot, cloud-init, disks) and the DHCP entry of its ID in the   *)
(* network.  No transaction ties them together: a command makes one call   *)
(* after the other, each may fail, the process may die in between, and     *)
(* other commands run concurrently.  Nobody is assumed to run two commands *)
(* on the same VM at the same time.                                        *)
(***************************************************************************)
EXTENDS Integers, FiniteSets

CONSTANTS
  Procs,      \* invocations of virter, and the goroutines of vm run --count
  VM,         \* VM names
  Vol,        \* volume names
  Boot,       \* Boot[v]: the boot volume
  CIData,     \* CIData[v]: the cloud-init volume
  Disks,      \* Disks[v]: the volumes of the extra disks
  LastID,     \* the last host ID of the network
  Wanted,     \* Wanted[v]: the IDs that vm run asks for, 0 for any
  Static,     \* libvirt.static_dhcp
  Ops,        \* the commands that are given
  Faults,     \* the kinds of fault that happen
  MaxFaults,  \* bound on the number of faults
  None

ASSUME VolumeAssumption ==
  /\ Boot \in [VM -> Vol]
  /\ CIData \in [VM -> Vol]
  /\ Disks \in [VM -> SUBSET Vol]

ASSUME NetworkAssumption ==
  /\ LastID \in Nat
  /\ Wanted \in [VM -> SUBSET ({0} \cup 2..LastID)]
  /\ Static \in BOOLEAN
  /\ MaxFaults \in Nat
  /\ None \notin VM

ID == 2..LastID

\* The volumes of VM v, in the order of vmXML.
VolsOf(v) == {Boot[v], CIData[v]} \cup Disks[v]

VARIABLES
  dom,        \* dom[v]: the state of the domain
  mac,        \* mac[v]: the ID whose MAC address the domain has
  vols,       \* the volumes that exist
  hosts,      \* the IDs with a DHCP entry, QemuMAC(id) to address id
  faults,     \* faults so far
  pc,         \* the next call of each invocation, or how it ended
  op,         \* its command
  vm,         \* the VM it is about
  id,         \* vmConfig.ID
  phase,      \* "run", "commit", "rm", or "cleanup" after a failed build
  flags,      \* CommitConfig: Shutdown and ResetMachineID, if set
  left,       \* the volumes it has yet to create or remove
  ids         \* the IDs whose DHCP entries it has yet to add or remove

objects == <<dom, mac, vols, hosts>>
locals == <<op, vm, id, phase, flags, left, ids>>
vars == <<objects, faults, pc, locals>>

Ended == {"ok", "failed", "crashed"}

Labels == Ended \cup
  {"run_domain", "run_images", "run_id", "run_mac", "run_define", "run_volume",
   "run_fill", "run_dhcp", "run_start", "provision",
   "rm_domain", "rm_destroy", "rm_ips", "rm_dhcp", "rm_disks", "rm_volume",
   "rm_undefine",
   "commit_active", "commit_reset", "commit_shutdown", "commit_poll",
   "commit_layer",
   "host_check", "host_add", "host_rm", "host_delete"}

OpNames == {"none", "run", "build", "rm", "commit", "hostadd", "hostrm"}

Init ==
  /\ dom = [v \in VM |-> "none"]
  /\ mac = [v \in VM |-> 0]
  /\ vols = {}
  /\ hosts = {}
  /\ faults = 0
  /\ pc = [p \in Procs |-> "ok"]
  /\ op = [p \in Procs |-> "none"]
  /\ vm = [p \in Procs |-> None]
  /\ id = [p \in Procs |-> 0]
  /\ phase = [p \in Procs |-> "none"]
  /\ flags = [p \in Procs |-> {}]
  /\ left = [p \in Procs |-> {}]
  /\ ids = [p \in Procs |-> {}]

-----------------------------------------------------------------------------
(* Control flow.                                                           *)

Goto(p, l) == pc' = [pc EXCEPT ![p] = l]

Continue(p, l) == Goto(p, l) /\ UNCHANGED locals

\* p starts command o on VM v, if nobody else is at it, with ID i, flags f and
\* the list q of IDs.
Begin(p, l, o, v, i, ph, f, q) ==
  /\ pc[p] \in Ended
  /\ o \in Ops
  /\ v # None => \A r \in Procs : vm[r] # v
  /\ Goto(p, l)
  /\ op' = [op EXCEPT ![p] = o]
  /\ vm' = [vm EXCEPT ![p] = v]
  /\ id' = [id EXCEPT ![p] = i]
  /\ phase' = [phase EXCEPT ![p] = ph]
  /\ flags' = [flags EXCEPT ![p] = f]
  /\ ids' = [ids EXCEPT ![p] = q]
  /\ UNCHANGED <<objects, faults, left>>

Finish(p, r) ==
  /\ Goto(p, r)
  /\ op' = [op EXCEPT ![p] = "none"]
  /\ vm' = [vm EXCEPT ![p] = None]
  /\ id' = [id EXCEPT ![p] = 0]
  /\ phase' = [phase EXCEPT ![p] = "none"]
  /\ flags' = [flags EXCEPT ![p] = {}]
  /\ left' = [left EXCEPT ![p] = {}]
  /\ ids' = [ids EXCEPT ![p] = {}]

\* An error ends the command, but a build that got past VMRun first removes
\* its VM.
Fail(p) ==
  IF op[p] = "build" /\ phase[p] = "commit"
  THEN /\ Goto(p, "rm_domain")
       /\ phase' = [phase EXCEPT ![p] = "cleanup"]
       /\ left' = [left EXCEPT ![p] = {}]
       /\ ids' = [ids EXCEPT ![p] = {}]
       /\ UNCHANGED <<op, vm, id, flags>>
  ELSE Finish(p, "failed")

Fault(k) ==
  /\ k \in Faults
  /\ faults < MaxFaults
  /\ faults' = faults + 1

\* A call that can be made, ok, is made with effect Effect, or it fails.
Refused(p, ok) ==
  /\ IF ok THEN Fault("call") ELSE UNCHANGED faults
  /\ Fail(p)
  /\ UNCHANGED objects

-----------------------------------------------------------------------------
(* VMRun.                                                                  *)

\* Mutant: the broadcast address counts as a host.
GetVMIDBroadcast(w) == IF w = 0 THEN LastID + 1 ELSE IF w \in hosts THEN 0 ELSE w

\* GetVMID.  The loop runs over the IDs from the top, but looks for the entry
\* of the wanted ID each time; 0 stands for an error.
GetVMID(w) ==
  LET first == IF w = 0 THEN 2 ELSE w
      end   == IF w = 0 THEN LastID ELSE w
  IN IF Static THEN (IF w \in hosts THEN w ELSE 0)
     ELSE IF \E i \in first..end : w \notin hosts THEN end ELSE 0

Run(p) ==
  \E v \in VM : \E w \in Wanted[v] : Begin(p, "run_domain", "run", v, w, "run", {}, {})

\* image build: VMRun without extra disks, provisioning, VMCommit with Shutdown.
Build(p) ==
  \E v \in VM : \E w \in Wanted[v] : \E f \in {{"shutdown"}, {"shutdown", "reset"}} :
    /\ Disks[v] = {}
    /\ Begin(p, "run_domain", "build", v, w, "run", f, {})

\* The checks: no such domain, ...
RunDomain(p) ==
  /\ pc[p] = "run_domain"
  /\ \/ /\ dom[vm[p]] = "none"
        /\ Continue(p, "run_images")
        /\ UNCHANGED <<objects, faults>>
     \/ Refused(p, dom[vm[p]] = "none")

\* ... none of its volumes (anyImageExists), ...
RunImages(p) ==
  /\ pc[p] = "run_images"
  /\ \/ /\ VolsOf(vm[p]) \cap vols = {}
        /\ Continue(p, "run_id")
        /\ UNCHANGED <<objects, faults>>
     \/ Refused(p, VolsOf(vm[p]) \cap vols = {})

\* ... an ID, ...
RunID(p) ==
  /\ pc[p] = "run_id"
  /\ \/ /\ GetVMID(id[p]) # 0
        /\ Goto(p, "run_mac")
        /\ id' = [id EXCEPT ![p] = GetVMID(id[p])]
        /\ UNCHANGED <<objects, faults, op, vm, phase, flags, left, ids>>
     \/ Refused(p, GetVMID(id[p]) # 0)

\* Some domain has the MAC address of ID i (getDomainForMAC).
MACTaken(i) == \E u \in VM : dom[u] # "none" /\ mac[u] = i

\* ... and no other domain with its MAC address.
RunMAC(p) ==
  /\ pc[p] = "run_mac"
  /\ \/ /\ ~MACTaken(id[p])
        /\ Continue(p, "run_define")
        /\ UNCHANGED <<objects, faults>>
     \/ Refused(p, ~MACTaken(id[p]))

\* DomainDefineXML.
RunDefine(p) ==
  /\ pc[p] = "run_define"
  /\ \/ /\ dom' = [dom EXCEPT ![vm[p]] = "defined"]
        /\ mac' = [mac EXCEPT ![vm[p]] = id[p]]
        /\ Goto(p, "run_volume")
        /\ left' = [left EXCEPT ![p] = VolsOf(vm[p])]
        /\ UNCHANGED <<vols, hosts, faults, op, vm, id, phase, flags, ids>>
     \/ Refused(p, TRUE)

\* The next volume in the order of the code: boot, cloud-init, disks.
NextVol(p) ==
  IF Boot[vm[p]] \in left[p] THEN {Boot[vm[p]]}
  ELSE IF CIData[vm[p]] \in left[p] THEN {CIData[vm[p]]} ELSE left[p]

\* ImageSpawn, createCIData and NewDynamicLayer: libvirt refuses to create a
\* volume that exists.
RunVolume(p) ==
  /\ pc[p] = "run_volume"
  /\ \/ /\ left[p] = {}
        /\ Continue(p, "run_dhcp")
        /\ UNCHANGED <<objects, faults>>
     \/ \E x \in NextVol(p) :
          /\ x \notin vols
          /\ vols' = vols \cup {x}
          /\ left' = [left EXCEPT ![p] = @ \ {x}]
          /\ Goto(p, IF x = CIData[vm[p]] THEN "run_fill" ELSE "run_volume")
          /\ UNCHANGED <<dom, mac, hosts, faults, op, vm, id, phase, flags, ids>>
     \/ \E x \in NextVol(p) : Refused(p, x \notin vols)

\* createCIData, second half: the upload of the cloud-init data.
FillCIData(p) ==
  /\ pc[p] = "run_fill"
  /\ \/ /\ Continue(p, "run_volume")
        /\ UNCHANGED <<objects, faults>>
     \/ Refused(p, TRUE)

\* AddDHCPHost, unless the entries are managed by hand: libvirt refuses a
\* second entry for a MAC address or IP.
RunDHCP(p) ==
  /\ pc[p] = "run_dhcp"
  /\ \/ /\ Static
        /\ Continue(p, "run_start")
        /\ UNCHANGED <<objects, faults>>
     \/ /\ ~Static /\ id[p] \notin hosts
        /\ hosts' = hosts \cup {id[p]}
        /\ Continue(p, "run_start")
        /\ UNCHANGED <<dom, mac, vols, faults>>
     \/ ~Static /\ Refused(p, id[p] \notin hosts)

\* DomainCreate starts the VM if its volumes are there.
RunStart(p) ==
  /\ pc[p] = "run_start"
  /\ \/ /\ VolsOf(vm[p]) \subseteq vols
        /\ dom' = [dom EXCEPT ![vm[p]] = "running"]
        /\ UNCHANGED <<mac, vols, hosts, faults>>
        /\ \/ /\ op[p] = "run"
              /\ Finish(p, "ok")
           \/ /\ op[p] = "build"
              /\ Goto(p, "provision")
              /\ phase' = [phase EXCEPT ![p] = "commit"]
              /\ UNCHANGED <<op, vm, id, flags, left, ids>>
     \/ Refused(p, VolsOf(vm[p]) \subseteq vols)

\* imageBuildProvisionCommit: WaitVmReady and the provisioning steps (module
\* Provisioning) need the running VM, may fail, and may never end.
Provision(p) ==
  /\ pc[p] = "provision"
  /\ \/ /\ dom[vm[p]] = "running"
        /\ Continue(p, "commit_active")
        /\ UNCHANGED <<objects, faults>>
     \/ Refused(p, dom[vm[p]] = "running")

-----------------------------------------------------------------------------
(* VMRm.  In phase "commit" it is part of VMCommit and spares the boot     *)
(* volume.                                                                 *)

Rm(p) == \E v \in VM : Begin(p, "rm_domain", "rm", v, 0, "rm", {}, {})

\* What follows VMRm when it has succeeded.
RmDone(p) ==
  CASE phase[p] = "commit"  -> Continue(p, "commit_layer")
    [] phase[p] = "cleanup" -> Finish(p, "failed")
    [] phase[p] = "rm"      -> Finish(p, "ok")

\* Mutant: the VM is not stopped.
RmDomainNoStop(p) ==
  /\ pc[p] = "rm_domain"
  /\ \/ dom[vm[p]] = "none" /\ RmDone(p)
     \/ dom[vm[p]] # "none" /\ Continue(p, "rm_ips")
  /\ UNCHANGED <<objects, faults>>

\* DomainLookupByName, DomainIsActive and DomainIsPersistent; a domain that
\* virter has defined is persistent.
RmDomain(p) ==
  /\ pc[p] = "rm_domain"
  /\ \/ /\ dom[vm[p]] = "none"
        /\ RmDone(p)
        /\ UNCHANGED <<objects, faults>>
     \/ /\ dom[vm[p]] # "none"
        /\ Continue(p, IF dom[vm[p]] = "running" THEN "rm_destroy" ELSE "rm_ips")
        /\ UNCHANGED <<objects, faults>>
     \/ Refused(p, TRUE)

\* DomainDestroy; an error if the guest has stopped meanwhile.
RmDestroy(p) ==
  /\ pc[p] = "rm_destroy"
  /\ \/ /\ dom[vm[p]] = "running"
        /\ dom' = [dom EXCEPT ![vm[p]] = "defined"]
        /\ Continue(p, "rm_ips")
        /\ UNCHANGED <<mac, vols, hosts, faults>>
     \/ Refused(p, dom[vm[p]] = "running")

\* Mutant: removeDHCPEntries is taken for its opposite.
RmIPsInverted(p) ==
  /\ pc[p] = "rm_ips"
  /\ Goto(p, "rm_dhcp")
  /\ ids' = [ids EXCEPT ![p] = IF Static THEN hosts \cap {mac[vm[p]]} ELSE {}]
  /\ UNCHANGED <<objects, faults, op, vm, id, phase, flags, left>>

\* removeDomainDHCP: findIPs of the domain's MAC address.
RmIPs(p) ==
  /\ pc[p] = "rm_ips"
  /\ \/ /\ Goto(p, "rm_dhcp")
        /\ ids' = [ids EXCEPT ![p] = IF Static THEN {} ELSE hosts \cap {mac[vm[p]]}]
        /\ UNCHANGED <<objects, faults, op, vm, id, phase, flags, left>>
     \/ Refused(p, TRUE)

\* removeDHCPEntries: libvirt refuses to delete an entry that is not there.
RmDHCP(p) ==
  /\ pc[p] = "rm_dhcp"
  /\ \/ /\ ids[p] = {}
        /\ Continue(p, "rm_disks")
        /\ UNCHANGED <<objects, faults>>
     \/ \E i \in ids[p] :
          /\ i \in hosts
          /\ hosts' = hosts \ {i}
          /\ Goto(p, "rm_dhcp")
          /\ ids' = [ids EXCEPT ![p] = @ \ {i}]
          /\ UNCHANGED <<dom, mac, vols, faults, op, vm, id, phase, flags, left>>
     \/ \E i \in ids[p] : Refused(p, i \in hosts)

\* Mutant: only the cloud-init volume is removed.
RmDisksOnlyCIData(p) ==
  /\ pc[p] = "rm_disks"
  /\ Goto(p, "rm_volume")
  /\ left' = [left EXCEPT ![p] = {CIData[vm[p]]}]
  /\ UNCHANGED <<objects, faults, op, vm, id, phase, flags, ids>>

\* rmSnapshots and getDisksOfDomain: the volumes the domain names, whether
\* they exist or not.
RmDisks(p) ==
  /\ pc[p] = "rm_disks"
  /\ \/ /\ Goto(p, "rm_volume")
        /\ left' = [left EXCEPT ![p] =
                      IF phase[p] = "commit" THEN VolsOf(vm[p]) \ {Boot[vm[p]]}
                                             ELSE VolsOf(vm[p])]
        /\ UNCHANGED <<objects, faults, op, vm, id, phase, flags, ids>>
     \/ Refused(p, TRUE)

\* rmVolume: a missing volume is fine.
RmVolume(p) ==
  /\ pc[p] = "rm_volume"
  /\ \/ /\ left[p] = {}
        /\ Continue(p, "rm_undefine")
        /\ UNCHANGED <<objects, faults>>
     \/ \E x \in NextVol(p) :
          /\ vols' = vols \ {x}
          /\ Goto(p, "rm_volume")
          /\ left' = [left EXCEPT ![p] = @ \ {x}]
          /\ UNCHANGED <<dom, mac, hosts, faults, op, vm, id, phase, flags, ids>>
     \/ /\ left[p] # {}
        /\ Refused(p, TRUE)

\* DomainUndefineFlags comes last, so that a failed vm rm can be repeated.
RmUndefine(p) ==
  /\ pc[p] = "rm_undefine"
  /\ \/ /\ dom' = [dom EXCEPT ![vm[p]] = "none"]
        /\ mac' = [mac EXCEPT ![vm[p]] = 0]
        /\ RmDone(p)
        /\ UNCHANGED <<vols, hosts, faults>>
     \/ Refused(p, TRUE)

-----------------------------------------------------------------------------
(* VMCommit and vmShutdown.                                                *)

Commit(p) ==
  \E v \in VM, f \in SUBSET {"shutdown", "reset"} :
    Begin(p, "commit_active", "commit", v, 0, "commit", f, {})

\* DomainLookupByName and DomainIsActive: a running VM may be committed only
\* with Shutdown, and the machine ID of a stopped one cannot be reset.
CommitActive(p) ==
  /\ pc[p] = "commit_active"
  /\ LET allowed == \/ dom[vm[p]] = "running" /\ "shutdown" \in flags[p]
                    \/ dom[vm[p]] = "defined" /\ "reset" \notin flags[p]
     IN \/ /\ allowed
           /\ Continue(p, IF dom[vm[p]] = "defined" THEN "rm_domain"
                          ELSE IF "reset" \in flags[p] THEN "commit_reset"
                          ELSE "commit_shutdown")
           /\ UNCHANGED <<objects, faults>>
        \/ Refused(p, allowed)

\* VMExecShell (module Provisioning), which needs the running VM and goes on
\* trying to connect, and waiting for the script, until the guest lets it.
CommitReset(p) ==
  /\ pc[p] = "commit_reset"
  /\ \/ /\ dom[vm[p]] = "running"
        /\ Continue(p, "commit_shutdown")
        /\ UNCHANGED <<objects, faults>>
     \/ Refused(p, dom[vm[p]] = "running")

\* Mutant: nobody waits for the guest.
CommitShutdownNoWait(p) ==
  /\ pc[p] = "commit_shutdown"
  /\ Continue(p, "rm_domain")
  /\ UNCHANGED <<objects, faults>>

\* DomainShutdown, if the VM is still active: the guest is asked to stop.
CommitShutdown(p) ==
  /\ pc[p] = "commit_shutdown"
  /\ \/ /\ Continue(p, IF dom[vm[p]] = "running" THEN "commit_poll" ELSE "rm_domain")
        /\ UNCHANGED <<objects, faults>>
     \/ Refused(p, TRUE)

\* Mutant: no timeout.
CommitPollForever(p) ==
  /\ pc[p] = "commit_poll"
  /\ dom[vm[p]] # "running"
  /\ Continue(p, "rm_domain")
  /\ UNCHANGED <<objects, faults>>

\* The polling loop: until DomainIsActive says no, or the time is up.  If the
\* call fails it has returned 0, which ends the loop just as well.
CommitPoll(p) ==
  /\ pc[p] = "commit_poll"
  /\ \/ /\ dom[vm[p]] # "running"
        /\ Continue(p, "rm_domain")
        /\ UNCHANGED <<objects, faults>>
     \/ /\ dom[vm[p]] = "running"
        /\ Fault("poll")
        /\ Continue(p, "rm_domain")
        /\ UNCHANGED objects
     \/ /\ Fail(p)                               \* shutdownTimeout, ctx.Done
        /\ UNCHANGED <<objects, faults>>

\* FindDynamicLayer, ToVolumeLayer and MakeImage turn the boot volume into an
\* image (module LayerStore).
CommitLayer(p) ==
  /\ pc[p] = "commit_layer"
  /\ \/ /\ Boot[vm[p]] \in vols
        /\ vols' = vols \ {Boot[vm[p]]}
        /\ Finish(p, "ok")
        /\ UNCHANGED <<dom, mac, hosts, faults>>
     \/ Refused(p, Boot[vm[p]] \in vols)

-----------------------------------------------------------------------------
(* network host add and rm, for the IDs i..j.                              *)

HostAdd(p) ==
  \E i, j \in ID :
    i <= j /\ Begin(p, "host_check", "hostadd", None, i, "hosts", {}, i..j)

\* The first of the IDs that are left.
FirstID(p) == CHOOSE i \in ids[p] : \A j \in ids[p] : i <= j

\* The first loop: GetVMID of each ID, ...
HostCheck(p) ==
  /\ pc[p] = "host_check"
  /\ \/ /\ id[p] \notin ids[p]
        /\ Continue(p, "host_add")
        /\ UNCHANGED <<objects, faults>>
     \/ /\ id[p] \in ids[p] \ hosts
        /\ Goto(p, "host_check")
        /\ id' = [id EXCEPT ![p] = @ + 1]
        /\ UNCHANGED <<objects, faults, op, vm, phase, flags, left, ids>>
     \/ id[p] \in ids[p] /\ Refused(p, id[p] \notin hosts)

\* ... the second: AddDHCPHost of each ID.
HostAddNext(p) ==
  /\ pc[p] = "host_add"
  /\ \/ /\ ids[p] = {}
        /\ Finish(p, "ok")
        /\ UNCHANGED <<objects, faults>>
     \/ /\ ids[p] # {} /\ FirstID(p) \notin hosts
        /\ hosts' = hosts \cup {FirstID(p)}
        /\ Goto(p, "host_add")
        /\ ids' = [ids EXCEPT ![p] = @ \ {FirstID(p)}]
        /\ UNCHANGED <<dom, mac, vols, faults, op, vm, id, phase, flags, left>>
     \/ ids[p] # {} /\ Refused(p, FirstID(p) \notin hosts)

HostRm(p) ==
  \E i, j \in ID :
    i <= j /\ Begin(p, "host_rm", "hostrm", None, i, "hosts", {}, i..j)

\* Mutant: an ID without an entry is not skipped.
HostRmNextStuck(p) ==
  /\ pc[p] = "host_rm"
  /\ \/ /\ ids[p] = {}
        /\ Finish(p, "ok")
     \/ /\ ids[p] # {} /\ FirstID(p) \in hosts
        /\ Continue(p, "host_delete")
  /\ UNCHANGED <<objects, faults>>

\* RemoveMACDHCPEntries of each ID: findIPs; an ID without an entry is skipped.
HostRmNext(p) ==
  /\ pc[p] = "host_rm"
  /\ \/ /\ ids[p] = {}
        /\ Finish(p, "ok")
        /\ UNCHANGED <<objects, faults>>
     \/ /\ ids[p] # {} /\ FirstID(p) \in hosts
        /\ Continue(p, "host_delete")
        /\ UNCHANGED <<objects, faults>>
     \/ /\ ids[p] # {} /\ FirstID(p) \notin hosts
        /\ Goto(p, "host_rm")
        /\ ids' = [ids EXCEPT ![p] = @ \ {FirstID(p)}]
        /\ UNCHANGED <<objects, faults, op, vm, id, phase, flags, left>>
     \/ ids[p] # {} /\ Refused(p, TRUE)

\* removeDHCPEntries.
HostDelete(p) ==
  /\ pc[p] = "host_delete"
  /\ \/ /\ FirstID(p) \in hosts
        /\ hosts' = hosts \ {FirstID(p)}
        /\ Goto(p, "host_rm")
        /\ ids' = [ids EXCEPT ![p] = @ \ {FirstID(p)}]
        /\ UNCHANGED <<dom, mac, vols, faults, op, vm, id, phase, flags, left>>
     \/ Refused(p, FirstID(p) \in hosts)

-----------------------------------------------------------------------------
\* The guest stops, because it was asked to or on its own.
GuestStop(v) ==
  /\ dom[v] = "running"
  /\ dom' = [dom EXCEPT ![v] = "defined"]
  /\ UNCHANGED <<mac, vols, hosts, faults, pc, locals>>

\* The process dies between two calls.
Crash(p) ==
  /\ pc[p] \notin Ended
  /\ Fault("crash")
  /\ Finish(p, "crashed")
  /\ UNCHANGED objects

Command(p) ==
  Run(p) \/ Build(p) \/ Rm(p) \/ Commit(p) \/ HostAdd(p) \/ HostRm(p)

RunStep(p) ==
  \/ RunDomain(p) \/ RunImages(p) \/ RunID(p) \/ RunMAC(p) \/ RunDefine(p)
  \/ RunVolume(p) \/ FillCIData(p) \/ RunDHCP(p) \/ RunStart(p) \/ Provision(p)

RmStep(p) ==
  \/ RmDomain(p) \/ RmDestroy(p) \/ RmIPs(p) \/ RmDHCP(p) \/ RmDisks(p)
  \/ RmVolume(p) \/ RmUndefine(p)

CommitStep(p) ==
  \/ CommitActive(p) \/ CommitReset(p) \/ CommitShutdown(p) \/ CommitPoll(p)
  \/ CommitLayer(p)

HostStep(p) == HostCheck(p) \/ HostAddNext(p) \/ HostRmNext(p) \/ HostDelete(p)

Step(p) == RunStep(p) \/ RmStep(p) \/ CommitStep(p) \/ HostStep(p)

Next ==
  \/ \E p \in Procs : Command(p) \/ Step(p) \/ Crash(p)
  \/ \E v \in VM : GuestStop(v)

Spec == Init /\ [][Next]_vars

\* The calls that wait for a guest: SSH connections are retried until the
\* command is cancelled, scripts take no context.
Waiting == {"provision", "commit_reset"}

\* A process that is running goes on, but for these; a guest need never answer
\* or stop.
FairSpec == Spec /\ \A p \in Procs : WF_vars(pc[p] \notin Waiting /\ Step(p))

-----------------------------------------------------------------------------
(* Properties.                                                             *)

\* The types of libvirt's objects and of the invocations' local variables.
TypeOK ==
  /\ dom \in [VM -> {"none", "defined", "running"}]
  /\ mac \in [VM -> {0} \cup ID]
  /\ vols \subseteq Vol
  /\ hosts \subseteq ID
  /\ faults \in 0..MaxFaults
  /\ pc \in [Procs -> Labels]
  /\ op \in [Procs -> OpNames]
  /\ vm \in [Procs -> VM \cup {None}]
  /\ id \in [Procs -> 0..(LastID + 1)]
  /\ phase \in [Procs -> {"none", "run", "commit", "rm", "cleanup", "hosts"}]
  /\ flags \in [Procs -> SUBSET {"shutdown", "reset"}]
  /\ left \in [Procs -> SUBSET Vol]
  /\ ids \in [Procs -> SUBSET ID]

\* Somebody is at work on VM v.
Busy(v) == \E p \in Procs : vm[p] = v

\* A VM that is not defined has no cloud-init or disk volume left, however many
\* commands failed or died on the way: VMRun defines the domain before it
\* creates them and VMRm undefines it last, so that vm rm always finds them.
NoLeftoverDisks ==
  \A v \in VM :
    dom[v] = "none" => ({CIData[v]} \cup Disks[v]) \cap vols = {}

\* The same for the boot volume, once no command is at work on the VM.
NoLeftoverBoot ==
  \A v \in VM : dom[v] = "none" /\ ~Busy(v) => Boot[v] \notin vols

\* Every DHCP entry that virter manages belongs to a defined VM, so that vm rm
\* will find and remove it (the comment in VMRun before AddDHCPHost).
NoLeakedEntry ==
  ~Static => \A i \in hosts : \E v \in VM : dom[v] # "none" /\ mac[v] = i

\* A running VM has all its volumes and the DHCP entry of its ID, also while
\* vm rm is under way and after one that failed half way: VMRun creates them
\* before it starts the VM, VMRm stops the VM before it removes any.
RunningComplete ==
  \A v \in VM :
    dom[v] = "running" => VolsOf(v) \subseteq vols /\ mac[v] \in hosts

\* Two vm run with the same ID may both find its MAC address unused before
\* either defines its domain.  Then one of them fails, as the DHCP entry is
\* there, and its VM stays defined until vm rm, which takes the entry of the
\* other.  In no other way does a running VM lose its entry.
OnlyTwinTakesEntry ==
  [][\A v \in VM :
       dom[v] = "running" /\ dom'[v] = "running" /\ mac[v] \in hosts \ hosts' =>
         \E u \in VM \ {v} : dom[u] # "none" /\ mac[u] = mac[v]]_vars

\* A commit shuts the guest down and waits: the VMRm inside VMCommit never
\* finds the VM running, which it would power off under the guest's feet.
CommitShutsDown ==
  \A p \in Procs : phase[p] = "commit" => pc[p] # "rm_destroy"

\* GetVMID, asked for any ID, gives one that is not used yet.
AutoIDUnused == ~Static => GetVMID(0) \notin hosts

\* With static_dhcp the DHCP entries are the user's: an entry appears only when
\* a network host add, and disappears only when a network host rm, has come to
\* its ID among those it was given.
StaticEntriesKept ==
  [][Static =>
       \A i \in (hosts \ hosts') \cup (hosts' \ hosts) :
         \E p \in Procs :
           /\ op[p] = IF i \in hosts' THEN "hostadd" ELSE "hostrm"
           /\ i \in ids[p] /\ ids'[p] = ids[p] \ {i}]_vars

\* Every command ends, also the wait for a guest that never shuts down, unless
\* it comes to wait for a guest's SSH server or for a script.
CommandsEnd == \A p \in Procs : pc[p] \notin Ended ~> pc[p] \in Ended \cup Waiting
=============================================================================
