------------------------------- MODULE Network -------------------------------
(***************************************************************************)
(* The access network: internal/virter/network.go, dhcp.go and the network *)
(* side of VMRun and VMRm, with the addresses themselves (module           *)
(* Addressing).                                                            *)
(*                                                                         *)
(* A libvirt network has a name and, as long as it exists, an identity of  *)
(* its own (UUID).  An invocation looks the network up once, at its start, *)
(* and uses that handle; VMs are attached by name, and VMRm looks the name *)
(* up again.  Meanwhile others may remove the network and add another one  *)
(* of that name.  The DHCP server of the network gives a VM the address of *)
(* its entry, unless that is leased to another MAC address.                *)
(*                                                                         *)
(* Networks of other names do not interact with this one and are left out. *)
(***************************************************************************)
EXTENDS Addressing, FiniteSets

CONSTANTS
  Procs,      \* invocations of virter
  VM,         \* VM names
  Wanted,     \* Wanted[v]: the IDs that vm run asks for, 0 for any
  Existing,   \* the networks that may be there at the beginning
  Additions,  \* network add: its CIDR, --dhcp-id and --dhcp-count
  Users,      \* who runs vm rm: root or not, and the tools that are installed
  MaxGen,     \* bound on the number of networks defined
  None

Address == 0..(AddrSize - 1)
MACs == 0..(MACSize - 1)

\* What libvirt keeps of a network.
NetType ==
  [uuid : Nat, ip : Address, size : 1..AddrSize, hosts : SUBSET (MACs \X Address),
   active : BOOLEAN, persistent : BOOLEAN]

ASSUME NetworkAssumption ==
  /\ \A v \in VM : Wanted[v] \subseteq Address
  /\ Existing \subseteq CIDR
  /\ Additions \subseteq [cidr : CIDR, id : Nat, count : Nat]
  /\ \A c \in Existing \cup {a.cidr : a \in Additions} : AddrSize % c.size = 0
  /\ MaxGen \in Nat \ {0}
  /\ None \notin VM /\ None \notin NetType

VARIABLES
  net,        \* the network of that name, or None
  leases,     \* the leases of its DHCP server: pairs of MAC and IP address
  gen,        \* the UUID of the network defined last
  dom,        \* dom[v]: the state of the domain
  mac,        \* mac[v]: the MAC address of the domain
  plug,       \* plug[v]: the network that the running VM is attached to, or 0
  strays,     \* the networks on which a VM was started that was entered in another
  pc,         \* the next call of each invocation
  vm,         \* the VM it is about
  want,       \* wantedID
  id,         \* the ID of the VM, or the one that GetVMID tries
  handle,     \* the network it has looked up, or 0
  ips,        \* the IP addresses it is about to add or to remove
  desc        \* the network it is about to define

network == <<net, leases, gen>>
domains == <<dom, mac, plug, strays>>
locals == <<vm, want, id, handle, ips, desc>>
vars == <<network, domains, pc, locals>>

Labels ==
  {"idle", "id_net", "id_next", "run_mac", "run_define", "add_net", "add_host",
   "run_start", "rm_stop", "rm_find", "rm_ips", "rm_delete", "rm_release",
   "rm_undefine", "net_define", "net_start", "net_find",
   "net_destroy", "net_undefine"}

\* A network as it is defined; Init has one that is running, without entries.
NewNetwork(c, hosts, uuid) ==
  [uuid |-> uuid, ip |-> c.ip, size |-> c.size, hosts |-> hosts,
   active |-> FALSE, persistent |-> TRUE]

Init ==
  /\ \E c \in Existing :
       net = [NewNetwork(c, {}, 1) EXCEPT !.active = TRUE]
  /\ leases = {}
  /\ gen = 1
  /\ dom = [v \in VM |-> "none"]
  /\ mac = [v \in VM |-> NoAddr]
  /\ plug = [v \in VM |-> 0]
  /\ strays = {}
  /\ pc = [p \in Procs |-> "idle"]
  /\ vm = [p \in Procs |-> None]
  /\ want = [p \in Procs |-> 0]
  /\ id = [p \in Procs |-> 0]
  /\ handle = [p \in Procs |-> 0]
  /\ ips = [p \in Procs |-> {}]
  /\ desc = [p \in Procs |-> None]

-----------------------------------------------------------------------------
(* Control flow and libvirt's side.                                        *)

Goto(p, l) == pc' = [pc EXCEPT ![p] = l]

Continue(p, l) == Goto(p, l) /\ UNCHANGED locals

\* InitVirter looks the network up; that this may fail is only a warning.
Lookup == IF net = None THEN 0 ELSE net.uuid

\* p starts command o at l for VM v and ID w, or for network d.  Nobody else is
\* at v or asks for that ID; module VMLifecycle has concurrent runs with one ID.
Begin(p, o, l, v, w, d) ==
  /\ pc[p] = "idle"
  /\ v # None => \A q \in Procs : vm[q] # v /\ (w = 0 \/ want[q] # w)
  /\ Goto(p, l)
  /\ vm' = [vm EXCEPT ![p] = v]
  /\ want' = [want EXCEPT ![p] = w]
  /\ handle' = [handle EXCEPT ![p] = IF o = "run" THEN Lookup ELSE 0]
  /\ desc' = [desc EXCEPT ![p] = d]
  /\ UNCHANGED <<network, domains, id, ips>>

Finish(p) ==
  /\ Goto(p, "idle")
  /\ vm' = [vm EXCEPT ![p] = None]
  /\ want' = [want EXCEPT ![p] = 0]
  /\ id' = [id EXCEPT ![p] = 0]
  /\ handle' = [handle EXCEPT ![p] = 0]
  /\ ips' = [ips EXCEPT ![p] = {}]
  /\ desc' = [desc EXCEPT ![p] = None]

\* An error ends the command.
Refused(p) == Finish(p) /\ UNCHANGED <<network, domains>>

\* libvirt knows the network that p has looked up.
Alive(p) == net # None /\ net.uuid = handle[p]

\* findIPs.
IPsOf(m) == {h[2] : h \in {g \in net.hosts : g[1] = m}}

\* NetworkUpdate of the running and of the persistent configuration.
Updatable(p) == Alive(p) /\ net.active /\ net.persistent

\* libvirt refuses an entry whose MAC or IP address has one already.
CanAddHost(m, a) == \A h \in net.hosts : h[1] # m /\ h[2] # a

\* The range of addresses libvirt accepts: in the network, from its first to its
\* last address, both excluded.
ValidRange(c) ==
  /\ NetBase(c) < RangeStart(c)
  /\ RangeStart(c) <= RangeEnd(c)
  /\ RangeEnd(c) < Broadcast(c)

-----------------------------------------------------------------------------
(* The commands.  Only vm run uses the network that InitVirter has found.  *)

Run(p) == \E v \in VM : \E w \in Wanted[v] : Begin(p, "run", "id_net", v, w, None)
Rm(p) == \E v \in VM : dom[v] # "none" /\ Begin(p, "rm", "rm_stop", v, 0, None)

\* A MAC address that overflows is an error before anything is done.
NetAdd(p) ==
  \E a \in Additions :
    /\ \A h \in DHCPHosts(a.cidr, QemuBaseMAC, a.id, a.count) : h[1] # NoAddr
    /\ Begin(p, "netadd", "net_define", None, 0,
             NewNetwork(a.cidr, DHCPHosts(a.cidr, QemuBaseMAC, a.id, a.count), 0))
NetRm(p) == Begin(p, "netrm", "net_find", None, 0, None)

-----------------------------------------------------------------------------
(* VMRun: GetVMID, the check of the MAC address, AddDHCPHost, start.       *)

\* GetVMID: getIPNet gives the range of the search.
IDNet(p) ==
  /\ pc[p] = "id_net"
  /\ \/ /\ Alive(p)
        /\ Goto(p, "id_next")
        /\ id' = [id EXCEPT ![p] = EndID(net, want[p])]
        /\ UNCHANGED <<network, domains, vm, want, handle, ips, desc>>
     \/ ~Alive(p) /\ Refused(p)

\* One round of the loop over i, which asks for the entry of wantedID.
IDNext(p) ==
  /\ pc[p] = "id_next"
  /\ \/ /\ id[p] >= StartID(want[p]) /\ Alive(p)
        /\ IPsOf(QemuMAC(want[p])) = {}
        /\ Continue(p, "run_mac")
        /\ UNCHANGED <<network, domains>>
     \/ /\ id[p] >= StartID(want[p]) /\ Alive(p)
        /\ IPsOf(QemuMAC(want[p])) # {}
        /\ Goto(p, "id_next")
        /\ id' = [id EXCEPT ![p] = ToUint(@ - 1)]
        /\ UNCHANGED <<network, domains, vm, want, handle, ips, desc>>
     \/ /\ id[p] < StartID(want[p]) \/ ~Alive(p)
        /\ Refused(p)

\* QemuMAC, which may panic, and getDomainForMAC.
RunMAC(p) ==
  /\ pc[p] = "run_mac"
  /\ LET ok == QemuMAC(id[p]) # NoAddr /\ \A v \in VM : mac[v] # QemuMAC(id[p])
     IN \/ ok /\ Continue(p, "run_define") /\ UNCHANGED <<network, domains>>
        \/ ~ok /\ Refused(p)

\* DomainDefineXML; the volumes are the business of module VMLifecycle.
RunDefine(p) ==
  /\ pc[p] = "run_define"
  /\ \/ /\ dom[vm[p]] = "none"
        /\ dom' = [dom EXCEPT ![vm[p]] = "defined"]
        /\ mac' = [mac EXCEPT ![vm[p]] = QemuMAC(id[p])]
        /\ Continue(p, "add_net")
        /\ UNCHANGED <<network, plug, strays>>
     \/ dom[vm[p]] # "none" /\ Refused(p)

\* Mutant: the error of cidr.Host is ignored.
AddNetUnchecked(p) ==
  /\ pc[p] = "add_net"
  /\ \/ /\ Alive(p)
        /\ Goto(p, "add_host")
        /\ ips' = [ips EXCEPT ![p] = {HostIP(net, id[p])}]
        /\ UNCHANGED <<network, domains, vm, want, id, handle, desc>>
     \/ ~Alive(p) /\ Refused(p)

\* AddDHCPHost: getIPNet and the address of the ID, ...
AddNet(p) ==
  /\ pc[p] = "add_net"
  /\ \/ /\ Alive(p) /\ HostIP(net, id[p]) # NoAddr
        /\ Goto(p, "add_host")
        /\ ips' = [ips EXCEPT ![p] = {HostIP(net, id[p])}]
        /\ UNCHANGED <<network, domains, vm, want, id, handle, desc>>
     \/ /\ ~(Alive(p) /\ HostIP(net, id[p]) # NoAddr)
        /\ Refused(p)

\* Mutant: the network is looked up again by its name.
AddHostByName(p) ==
  /\ pc[p] = "add_host"
  /\ net # None
  /\ \A a \in ips[p] : CanAddHost(mac[vm[p]], a)
  /\ net' = [net EXCEPT !.hosts = @ \cup {<<mac[vm[p]], a>> : a \in ips[p]}]
  /\ Goto(p, "run_start")
  /\ ips' = [ips EXCEPT ![p] = {}]
  /\ UNCHANGED <<leases, gen, domains, vm, want, id, handle, desc>>

\* ... and patchedNetworkUpdate, with the address computed before.
AddHost(p) ==
  /\ pc[p] = "add_host"
  /\ LET ok == Updatable(p) /\ \A a \in ips[p] : CanAddHost(mac[vm[p]], a)
     IN \/ /\ ok
           /\ net' = [net EXCEPT !.hosts = @ \cup {<<mac[vm[p]], a>> : a \in ips[p]}]
           /\ Goto(p, "run_start")
           /\ ips' = [ips EXCEPT ![p] = {}]
           /\ UNCHANGED <<leases, gen, domains, vm, want, id, handle, desc>>
        \/ ~ok /\ Refused(p)

\* DomainCreate attaches the VM to the network that has the name now.
RunStart(p) ==
  /\ pc[p] = "run_start"
  /\ \/ /\ net # None /\ net.active
        /\ dom' = [dom EXCEPT ![vm[p]] = "running"]
        /\ plug' = [plug EXCEPT ![vm[p]] = net.uuid]
        /\ strays' = IF net.uuid = handle[p] THEN strays ELSE strays \cup {net.uuid}
        /\ Finish(p)
        /\ UNCHANGED <<network, mac>>
     \/ ~(net # None /\ net.active) /\ Refused(p)

-----------------------------------------------------------------------------
(* VMRm: removeDomainDHCP and the lease.                                   *)

\* DomainDestroy, if the VM is running.
RmStop(p) ==
  /\ pc[p] = "rm_stop"
  /\ dom' = [dom EXCEPT ![vm[p]] = "defined"]
  /\ plug' = [plug EXCEPT ![vm[p]] = 0]
  /\ Continue(p, "rm_find")
  /\ UNCHANGED <<network, mac, strays>>

\* NetworkLookupByName: without a network there is no entry to remove.
RmFind(p) ==
  /\ pc[p] = "rm_find"
  /\ Goto(p, IF net = None THEN "rm_undefine" ELSE "rm_ips")
  /\ handle' = [handle EXCEPT ![p] = IF net = None THEN 0 ELSE net.uuid]
  /\ UNCHANGED <<network, domains, vm, want, id, ips, desc>>

\* findIPs of the MAC address.
RmIPs(p) ==
  /\ pc[p] = "rm_ips"
  /\ \/ /\ Alive(p)
        /\ Goto(p, "rm_delete")
        /\ ips' = [ips EXCEPT ![p] = IPsOf(mac[vm[p]])]
        /\ UNCHANGED <<network, domains, vm, want, id, handle, desc>>
     \/ ~Alive(p) /\ Refused(p)

\* removeDHCPEntries: patchedNetworkUpdate with each address that was found.
RmDelete(p) ==
  /\ pc[p] = "rm_delete"
  /\ LET gone == {<<mac[vm[p]], a>> : a \in ips[p]}
         ok   == gone = {} \/ (Updatable(p) /\ gone \subseteq net.hosts)
     IN \/ /\ gone # {} /\ ok
           /\ net' = [net EXCEPT !.hosts = @ \ gone]
           /\ Continue(p, "rm_release")
           /\ UNCHANGED <<leases, gen, domains>>
        \/ /\ gone = {}
           /\ Continue(p, "rm_release")
           /\ UNCHANGED <<network, domains>>
        \/ ~ok /\ Refused(p)

\* The command that is to run dhcp_release with privileges: the first of the
\* tools that exec.LookPath does not find, whose path is then empty, so that
\* dhcp_release runs as it is; an error if all of them are found.
PrivCmd(u) ==
  IF u.root \/ ~({"sudo", "doas", "please"} \subseteq u.tools) THEN "" ELSE "error"

\* tryReleaseDHCP: dhcp_release works for root only; errors are ignored.
RmRelease(p) ==
  /\ pc[p] = "rm_release"
  /\ \E u \in Users :
       leases' = IF PrivCmd(u) = "" /\ u.root /\ Alive(p)
                 THEN leases \ {<<mac[vm[p]], a>> : a \in ips[p]} ELSE leases
  /\ Goto(p, "rm_undefine")
  /\ handle' = [handle EXCEPT ![p] = 0]
  /\ ips' = [ips EXCEPT ![p] = {}]
  /\ UNCHANGED <<net, gen, domains, vm, want, id, desc>>

\* DomainUndefineFlags.
RmUndefine(p) ==
  /\ pc[p] = "rm_undefine"
  /\ dom' = [dom EXCEPT ![vm[p]] = "none"]
  /\ mac' = [mac EXCEPT ![vm[p]] = NoAddr]
  /\ Finish(p)
  /\ UNCHANGED <<network, plug, strays>>

-----------------------------------------------------------------------------
(* NetworkAdd and NetworkRemove.  NetworkSetAutostart, which matters at the *)
(* next start of the host, is one step with the definition.  The leases end *)
(* with the network.                                                        *)

\* NetworkDefineXML: a new network, unless there is one of that name.
NetDefine(p) ==
  /\ pc[p] = "net_define"
  /\ LET ok == net = None /\ ValidRange(desc[p])
     IN \/ /\ ok /\ gen < MaxGen
           /\ gen' = gen + 1
           /\ net' = [desc[p] EXCEPT !.uuid = gen + 1]
           /\ Goto(p, "net_start")
           /\ handle' = [handle EXCEPT ![p] = gen + 1]
           /\ desc' = [desc EXCEPT ![p] = None]
           /\ UNCHANGED <<leases, domains, vm, want, id, ips>>
        \/ ~(ok /\ gen < MaxGen) /\ Refused(p)

NetCreate(p) ==
  /\ pc[p] = "net_start"
  /\ \/ /\ Alive(p) /\ ~net.active
        /\ net' = [net EXCEPT !.active = TRUE]
        /\ Finish(p)
        /\ UNCHANGED <<leases, gen, domains>>
     \/ ~(Alive(p) /\ ~net.active) /\ Refused(p)

\* NetworkRemove: the lookup by name; no network is fine.
NetFind(p) ==
  /\ pc[p] = "net_find"
  /\ \/ /\ net # None
        /\ Goto(p, "net_destroy")
        /\ handle' = [handle EXCEPT ![p] = net.uuid]
        /\ UNCHANGED <<vm, want, id, ips, desc>>
     \/ net = None /\ Finish(p)
  /\ UNCHANGED <<network, domains>>

\* NetworkDestroy: an inactive network is fine, one that is gone is an error.
\* The VMs lose their connection; a network that is not persistent vanishes.
NetDestroy(p) ==
  /\ pc[p] = "net_destroy"
  /\ \/ /\ Alive(p)
        /\ IF net.active /\ ~net.persistent THEN net' = None /\ leases' = {}
           ELSE net' = [net EXCEPT !.active = FALSE] /\ UNCHANGED leases
        /\ plug' = [v \in VM |-> 0]
        /\ Continue(p, "net_undefine")
        /\ UNCHANGED <<gen, dom, mac, strays>>
     \/ ~Alive(p) /\ Refused(p)

\* NetworkUndefine: a network that is active stays until it is stopped.
NetUndefine(p) ==
  /\ pc[p] = "net_undefine"
  /\ \/ /\ Alive(p) /\ net.persistent
        /\ IF net.active THEN net' = [net EXCEPT !.persistent = FALSE] /\ UNCHANGED leases
           ELSE net' = None /\ leases' = {}
        /\ Finish(p)
        /\ UNCHANGED <<gen, domains>>
     \/ ~(Alive(p) /\ net.persistent) /\ Refused(p)

-----------------------------------------------------------------------------
\* The DHCP server answers VM v: the address of its entry, if nobody else has
\* a lease for it, otherwise any address of the range that is free.
Lease(v) ==
  /\ plug[v] # 0 /\ net # None /\ net.uuid = plug[v]
  /\ LET others == {l[2] : l \in {k \in leases : k[1] # mac[v]}}
         own    == IPsOf(mac[v]) \ others
         free   == RangeStart(net)..RangeEnd(net) \ (others \cup {h[2] : h \in net.hosts})
     IN \E a \in IF own # {} THEN own ELSE free :
          leases' = {l \in leases : l[1] # mac[v]} \cup {<<mac[v], a>>}
  /\ leases' # leases
  /\ UNCHANGED <<net, gen, domains, pc, locals>>

\* A call fails or the process ends.
Fail(p) ==
  /\ pc[p] # "idle"
  /\ Finish(p)
  /\ UNCHANGED <<network, domains>>

Command(p) == Run(p) \/ Rm(p) \/ NetAdd(p) \/ NetRm(p)

RunStep(p) ==
  \/ IDNet(p) \/ IDNext(p) \/ RunMAC(p) \/ RunDefine(p)
  \/ AddNet(p) \/ AddHost(p) \/ RunStart(p)

RmStep(p) ==
  \/ RmStop(p) \/ RmFind(p) \/ RmIPs(p) \/ RmDelete(p) \/ RmRelease(p)
  \/ RmUndefine(p)

NetStep(p) ==
  \/ NetDefine(p) \/ NetCreate(p)
  \/ NetFind(p) \/ NetDestroy(p) \/ NetUndefine(p)

Step(p) == RunStep(p) \/ RmStep(p) \/ NetStep(p)

Next ==
  \/ \E p \in Procs : Command(p) \/ Step(p) \/ Fail(p)
  \/ \E v \in VM : Lease(v)

Spec == Init /\ [][Next]_vars

\* A process that is running goes on; users and guests need not do anything.
FairSpec == Spec /\ \A p \in Procs : WF_vars(Step(p))

-----------------------------------------------------------------------------
(* Properties.                                                             *)

\* The types of the network, the domains and the local variables.
TypeOK ==
  /\ net # None =>
       /\ net.uuid \in 1..gen
       /\ net.ip \in Address /\ net.size \in 1..AddrSize
       /\ net.hosts \subseteq MACs \X Address
  /\ leases \subseteq MACs \X Address
  /\ gen \in 1..MaxGen
  /\ dom \in [VM -> {"none", "defined", "running"}]
  /\ mac \in [VM -> MACs \cup {NoAddr}]
  /\ plug \in [VM -> 0..gen]
  /\ strays \subseteq 1..gen
  /\ pc \in [Procs -> Labels]
  /\ id \in [Procs -> 0..(UintSize - 1)]
  /\ handle \in [Procs -> 0..gen]
  /\ ips \in [Procs -> SUBSET Address]

\* Every DHCP entry lies in its network, although AddDHCPHost computes the
\* address from what it has read before, and the network may since have been
\* replaced by one with other addresses: the update goes to the network that was
\* looked up, not to the one that has its name now.
EntriesInside ==
  net # None => \A h \in net.hosts : h[2] \in NetBase(net)..Broadcast(net)

\* A VM never gets another address than the one of its ID, the ID being the
\* index into the addresses of the network and read off the MAC address
\* (IDFromMAC), also if the lease of an earlier VM was not released: the same
\* MAC address is always paired with the same IP (the comment on AddDHCPHost).
\* It takes a network on which only VMs were started that are entered in it: one
\* that is replaced between AddDHCPHost and DomainCreate gets a VM without entry.
VMAddress ==
  \A v \in VM : \A l \in leases :
    plug[v] # 0 /\ plug[v] \notin strays /\ l[1] = mac[v] =>
      l[2] = NetBase(net) + IDFromMAC(mac[v], QemuBaseMAC)

\* An automatic ID is a host of the network: neither the network, nor its first
\* address, nor broadcast, also where the range of IDs is empty.
AutoIDLegal ==
  \A p \in Procs :
    want[p] = 0 /\ pc[p] = "run_mac" /\ Alive(p) => id[p] \in 2..(net.size - 2)

\* Every command ends: the search for an ID counts down in unsigned integers
\* and stops, and so does everything else, whatever happens to the network.
CommandsEnd == \A p \in Procs : pc[p] # "idle" ~> pc[p] = "idle"
=============================================================================
