---------------------------- MODULE NetworkProofs ----------------------------
(***************************************************************************)
(* Theorems about Network and the arithmetic of Addressing, for any number *)
(* of invocations, VMs and networks, and integers of any width.            *)
(***************************************************************************)
EXTENDS Network, TLAPS

RunLabels ==
  {"id_net", "id_next", "run_mac", "run_define", "add_net", "add_host",
   "run_start"}
AddLabels == {"add_net", "add_host", "run_start"}
RmTakes == {"rm_find", "rm_ips", "rm_delete", "rm_release", "rm_undefine"}
RmLabels == {"rm_stop"} \cup RmTakes

\* A network that there is.
NetOK == net # None => net \in NetType /\ net.uuid \in 1..gen /\ Broadcast(net) < AddrSize

\* The parts of TypeOK: libvirt's objects, and the invocations.
ObjectType ==
  /\ NetOK
  /\ leases \subseteq MACs \X Address
  /\ gen \in 1..MaxGen
  /\ dom \in [VM -> {"none", "defined", "running"}]
  /\ mac \in [VM -> MACs \cup {NoAddr}]
  /\ plug \in [VM -> 0..gen]
  /\ strays \subseteq 1..gen

LocalType ==
  /\ pc \in [Procs -> Labels]
  /\ vm \in [Procs -> VM \cup {None}]
  /\ want \in [Procs -> Address]
  /\ id \in [Procs -> 0..(UintSize - 1)]
  /\ handle \in [Procs -> 0..gen]
  /\ ips \in [Procs -> SUBSET Address]
  /\ desc \in [Procs -> NetType \cup {None}]

\* What invocation p is about, and the domain of its VM, at each of its calls.
ControlAt(p) ==
  /\ pc[p] \in RunLabels \cup RmLabels => vm[p] \in VM
  /\ pc[p] = "net_define" => desc[p] \in NetType /\ Broadcast(desc[p]) < AddrSize
  /\ pc[p] = "run_define" => QemuMAC(id[p]) # NoAddr
  /\ pc[p] \in AddLabels =>
       /\ mac[vm[p]] = QemuMAC(id[p]) /\ mac[vm[p]] # NoAddr
       /\ dom[vm[p]] = "defined"
  /\ pc[p] \in RmTakes => dom[vm[p]] = "defined"

ControlOK == \A p \in Procs : ControlAt(p)

\* Only a running domain is attached, and a running domain has a MAC address.
Domains ==
  \A v \in VM :
    /\ plug[v] # 0 => dom[v] = "running"
    /\ dom[v] = "running" => mac[v] # NoAddr

\* Nobody runs two commands on the same VM at the same time.
OneOwner == \A p, q \in Procs : vm[p] = vm[q] /\ vm[p] # None => p = q

Sound == ObjectType /\ LocalType /\ ControlOK /\ Domains /\ OneOwner

-----------------------------------------------------------------------------
(* Lemmas on the arithmetic of addresses.                                  *)

\* Remainders, also of negative numbers, are smaller than the divisor.
LEMMA Remainder ==
  ASSUME NEW a \in Int, NEW n \in Nat \ {0}
  PROVE  a % n \in 0..(n - 1) /\ (a \in 0..(n - 1) => a % n = a)
BY Z3

\* Division with remainder.
LEMMA Division ==
  ASSUME NEW a \in Int, NEW n \in Nat \ {0}
  PROVE  a = n * (a \div n) + (a % n)
BY Z3

\* The number of values of uint exceeds those of the other types.
LEMMA Widths ==
  /\ AddrSize \in Nat \ {0} /\ MACSize \in Nat /\ QemuBaseMAC \in Nat
  /\ QemuBaseMAC + AddrSize <= MACSize
  /\ UintSize \in Nat \ {0} /\ UintSize \div 2 \in Nat /\ MACSize <= UintSize \div 2
  /\ (UintSize \div 2) + (UintSize \div 2) = UintSize
<1>1. UintSize \div 2 \in Nat /\ (UintSize \div 2) + (UintSize \div 2) = UintSize
  BY WidthAssumption, Z3
<1> QED BY <1>1, WidthAssumption

\* The host's own address lies in its network.
LEMMA BaseInside ==
  ASSUME NEW c, c.ip \in Address, c.size \in 1..AddrSize
  PROVE  /\ NetBase(c) \in 0..c.ip
         /\ Broadcast(c) \in c.ip..(c.ip + c.size - 1)
<1>1. c.ip \in Nat /\ c.ip \in Int /\ c.size \in Nat \ {0}
  BY WidthAssumption DEF Address
<1>2. /\ c.ip % c.size \in 0..(c.size - 1)
      /\ c.ip \in 0..(c.size - 1) => c.ip % c.size = c.ip
  BY <1>1, Remainder, Zenon
<1>3. c.ip % c.size <= c.ip
  BY <1>1, <1>2
<1> QED BY <1>1, <1>2, <1>3 DEF NetBase, Broadcast

\* The addresses of a network whose size divides their number are addresses.
LEMMA NetworkFits ==
  ASSUME NEW i \in Address, NEW s \in 1..AddrSize, AddrSize % s = 0
  PROVE  i - (i % s) + s - 1 < AddrSize
<1>1. i \in Nat /\ s \in Nat \ {0} /\ AddrSize \in Nat \ {0} /\ i < AddrSize
  BY WidthAssumption DEF Address
<1> DEFINE k == i \div s
           m == AddrSize \div s
<1>2. k \in Int /\ m \in Int
  BY <1>1
<1>3. i - (i % s) = s * k /\ AddrSize = s * m
  <2>1. i = s * k + (i % s)
    BY <1>1, Division
  <2>2. AddrSize = s * m + (AddrSize % s)
    BY <1>1, Division
  <2> QED BY <1>1, <1>2, <2>1, <2>2, Remainder
<1>4. i % s >= 0
  BY <1>1, Remainder
<1>5. s * k < s * m
  BY <1>1, <1>2, <1>3, <1>4
<1> HIDE DEF k, m
<1>6. k < m
  <2>1. CASE m <= k
    <3>1. s * (k - m) >= 0
      BY <1>1, <1>2, <2>1
    <3>2. s * (k - m) = s * k - s * m
      BY <1>1, <1>2
    <3> QED BY <1>1, <1>2, <1>5, <3>1, <3>2
  <2> QED BY <2>1, <1>2
<1>7. s * (m - k - 1) >= 0
  BY <1>1, <1>2, <1>6
<1>8. s * (m - k - 1) = s * m - s * k - s
  BY <1>1, <1>2
<1> QED BY <1>1, <1>2, <1>3, <1>7, <1>8

\* cidr.Host returns an address of the network or an error.
LEMMA HostInside ==
  ASSUME NEW c, c.ip \in Address, c.size \in 1..AddrSize, NEW n \in Int,
         Host(c, n) # NoAddr
  PROVE  Host(c, n) \in NetBase(c)..Broadcast(c)
BY BaseInside DEF Host, Broadcast, Address

\* A MAC address that can be computed is one.
LEMMA AddToMACType ==
  ASSUME NEW m \in Nat, NEW i \in Nat
  PROVE  AddToMAC(m, i) \in MACs \cup {NoAddr}
BY Widths DEF AddToMAC, ToInt, MACs

\* The ID of a VM can be read off its MAC address, and gives its IP address.
LEMMA IDFromQemuMAC ==
  ASSUME NEW i \in Address
  PROVE  /\ QemuMAC(i) = QemuBaseMAC + i /\ QemuMAC(i) # NoAddr
         /\ ToInt(i) = i /\ IDFromMAC(QemuMAC(i), QemuBaseMAC) = i
<1>1. i \in Nat /\ i < UintSize \div 2 /\ i < UintSize
  BY Widths DEF Address
<1>2. ToInt(i) = i
  BY <1>1 DEF ToInt
<1>3. QemuMAC(i) = QemuBaseMAC + i
  <2> DEFINE sum == QemuBaseMAC + i
  <2>1. ~(sum < 0) /\ sum < MACSize
    BY <1>1, Widths DEF Address
  <2>2. AddToMAC(QemuBaseMAC, i) =
          LET bytes == IF sum < 0 THEN -sum ELSE sum
          IN IF bytes < MACSize THEN bytes ELSE NoAddr
    BY <1>2, Zenon DEF AddToMAC
  <2> HIDE DEF sum
  <2> QED BY <2>1, <2>2, Zenon DEF QemuMAC, sum
<1>4. i % UintSize = i
  <2>1. UintSize \in Nat \ {0} /\ i \in 0..(UintSize - 1) /\ i \in Int
    BY <1>1, Widths
  <2> QED BY <2>1, Remainder, Zenon
<1> QED
  BY <1>1, <1>2, <1>3, <1>4, WidthAssumption DEF IDFromMAC, ToUint, NoAddr

\* Different IDs have different MAC addresses.
LEMMA QemuMACInjective ==
  ASSUME NEW i \in Address, NEW j \in Address, QemuMAC(i) = QemuMAC(j)
  PROVE  i = j
BY IDFromQemuMAC

\* Numbers with the same remainder are equal or a multiple of the divisor apart.
LEMMA SameRemainder ==
  ASSUME NEW a \in Int, NEW b \in Int, NEW n \in Nat \ {0}, a % n = b % n, a < b
  PROVE  a + n <= b
<1> DEFINE k == a \div n
           m == b \div n
<1>1. k \in Int /\ m \in Int
  OBVIOUS
<1>2. a = n * k + (a % n) /\ b = n * m + (a % n) /\ a % n \in Int
  BY Division, Remainder
<1> HIDE DEF k, m
<1>3. n * k < n * m
  BY <1>1, <1>2
<1>4. k < m
  <2>1. CASE m <= k
    <3>1. n * (k - m) >= 0
      BY <1>1, <2>1
    <3>2. n * (k - m) = n * k - n * m
      BY <1>1
    <3> QED BY <1>1, <1>3, <3>1, <3>2
  <2> QED BY <2>1, <1>1
<1>5. n * (m - k - 1) >= 0
  BY <1>1, <1>4
<1>6. n * (m - k - 1) = n * m - n * k - n
  BY <1>1
<1> QED BY <1>1, <1>2, <1>5, <1>6

\* Different MAC addresses have different IDs.
LEMMA IDInjective ==
  ASSUME NEW m \in MACs, NEW n \in MACs,
         IDFromMAC(m, QemuBaseMAC) = IDFromMAC(n, QemuBaseMAC)
  PROVE  m = n
<1> DEFINE a == m - QemuBaseMAC
           b == n - QemuBaseMAC
<1>1. a \in Int /\ b \in Int /\ a % UintSize = b % UintSize
  BY WidthAssumption DEF MACs, IDFromMAC, ToUint
<1>2. a - b < UintSize /\ b - a < UintSize
  BY Widths DEF MACs
<1>3. m - n = a - b
  BY WidthAssumption DEF MACs
<1> HIDE DEF a, b
<1>4. ASSUME a < b PROVE FALSE
  <2>1. a + UintSize <= b
    BY <1>1, <1>4, Widths, SameRemainder, Zenon
  <2> QED BY <1>1, <1>2, <2>1, Widths
<1>5. ASSUME b < a PROVE FALSE
  <2>1. b + UintSize <= a
    BY <1>1, <1>5, Widths, SameRemainder, Zenon
  <2> QED BY <1>1, <1>2, <2>1, Widths
<1> QED BY <1>1, <1>3, <1>4, <1>5 DEF MACs

\* The n-th host of a network that has one.
LEMMA HostOfID ==
  ASSUME NEW c, c.ip \in Address, c.size \in 1..AddrSize, NEW i \in Address,
         HostIP(c, i) # NoAddr
  PROVE  HostIP(c, i) = NetBase(c) + i
BY IDFromQemuMAC, BaseInside DEF HostIP, Host, Address

\* The addresses of a network depend on its host's address and size alone.
LEMMA SameAddresses ==
  ASSUME NEW c, NEW d, c.ip = d.ip, c.size = d.size
  PROVE  /\ NetBase(c) = NetBase(d) /\ Broadcast(c) = Broadcast(d)
         /\ \A i : HostIP(c, i) = HostIP(d, i)
BY DEF NetBase, Broadcast, HostIP, Host

\* The DHCP range consists of addresses.
LEMMA RangeInside ==
  ASSUME NEW c, c.ip \in Address, c.size \in 1..AddrSize, Broadcast(c) < AddrSize
  PROVE  RangeStart(c)..RangeEnd(c) \subseteq Address
<1>1. c.ip + 1 \in Int /\ AddrSize \in Nat \ {0} /\ Broadcast(c) - 1 \in Int
  BY BaseInside, Widths DEF Address
<1>2. RangeStart(c) \in Address
  BY <1>1, Remainder, Zenon DEF RangeStart, Inc, Address
<1>3. RangeEnd(c) \in Int /\ RangeEnd(c) < AddrSize
  <2>1. CASE c.size > RangeLimit
    <3>1. RangeLimit - 1 \in Int /\ RangeLimit - 1 \in 0..(c.size - 1)
      BY <2>1, WidthAssumption
    <3>2. Host(c, RangeLimit - 1) = NetBase(c) + (RangeLimit - 1)
      BY <3>1, Zenon DEF Host
    <3>3. NetBase(c) + (RangeLimit - 1) <= Broadcast(c)
      BY <3>1, <2>1, BaseInside, Widths DEF Broadcast, Address
    <3> QED BY <2>1, <3>1, <3>2, <3>3, <1>1, BaseInside DEF RangeEnd, Address
  <2>2. CASE ~(c.size > RangeLimit)
    <3>1. (Broadcast(c) - 1) % AddrSize \in 0..(AddrSize - 1)
      BY <1>1, Remainder, Zenon
    <3>2. RangeEnd(c) = (Broadcast(c) - 1) % AddrSize
      BY <2>2, Zenon DEF RangeEnd, Dec
    <3> QED BY <1>1, <3>1, <3>2
  <2> QED BY <2>1, <2>2
<1> QED BY <1>1, <1>2, <1>3 DEF Address

\* The entries that network add writes have MAC and IP addresses.
LEMMA DHCPHostsType ==
  ASSUME NEW c, NEW i \in Nat, NEW n \in Nat, c.ip \in Address,
         \A h \in DHCPHosts(c, QemuBaseMAC, i, n) : h[1] # NoAddr
  PROVE  DHCPHosts(c, QemuBaseMAC, i, n) \subseteq MACs \X Address
<1> SUFFICES ASSUME NEW k \in 0..(n - 1)
             PROVE  /\ AddToMAC(QemuBaseMAC, ToUint(i + k)) \in MACs \cup {NoAddr}
                    /\ (RangeStart(c) + k) % AddrSize \in Address
  BY DEF DHCPHosts
<1>1. AddrSize \in Nat \ {0} /\ UintSize \in Nat \ {0} /\ i + k \in Int /\ c.ip + 1 \in Int
  BY Widths DEF Address
<1>2. ToUint(i + k) \in 0..(UintSize - 1)
  BY <1>1, Remainder, Zenon DEF ToUint
<1>3. RangeStart(c) \in 0..(AddrSize - 1)
  BY <1>1, Remainder, Zenon DEF RangeStart, Inc
<1>4. RangeStart(c) + k \in Int
  BY <1>1, <1>3
<1>5. (RangeStart(c) + k) % AddrSize \in Address
  BY <1>1, <1>4, Remainder, Zenon DEF Address
<1> QED BY <1>1, <1>2, <1>5, AddToMACType, Widths

-----------------------------------------------------------------------------
(* Type correctness and control.                                           *)

\* A step changes the local variables of p alone, ...
OnlyOf(p) ==
  \A r \in Procs : r # p =>
    /\ pc'[r] = pc[r] /\ vm'[r] = vm[r] /\ want'[r] = want[r] /\ id'[r] = id[r]
    /\ handle'[r] = handle[r] /\ ips'[r] = ips[r] /\ desc'[r] = desc[r]

\* ... and only its own domain, except that it may detach others.
OnlyVMOf(p) ==
  \A v \in VM : v # vm[p] =>
    dom'[v] = dom[v] /\ mac'[v] = mac[v] /\ plug'[v] \in {plug[v], 0}

\* Such a step is sound if it suits p and its VM and takes no VM of others.
LEMMA LocalStep ==
  ASSUME Sound, NEW p \in Procs, OnlyOf(p), OnlyVMOf(p), ObjectType', LocalType',
         ControlAt(p)',
         vm'[p] = None \/ vm'[p] = vm[p] \/ \A r \in Procs : vm[r] # vm'[p],
         vm[p] \in VM =>
           /\ plug'[vm[p]] # 0 => dom'[vm[p]] = "running"
           /\ dom'[vm[p]] = "running" => mac'[vm[p]] # NoAddr
  PROVE  Sound'
<1>1. OneOwner'
  BY DEF Sound, LocalType, OneOwner, OnlyOf
<1>2. ASSUME NEW r \in Procs, r # p PROVE ControlAt(r)'
  <2>1. vm[r] \in VM => vm[r] # vm[p]
    BY <1>2, NetworkAssumption DEF Sound, OneOwner
  <2>2. ControlAt(r) /\ vm'[r] = vm[r] /\ pc'[r] = pc[r] /\ id'[r] = id[r] /\ desc'[r] = desc[r]
    BY <1>2 DEF Sound, ControlOK, OnlyOf
  <2>3. vm[r] \in VM => dom'[vm[r]] = dom[vm[r]] /\ mac'[vm[r]] = mac[vm[r]]
    BY <2>1 DEF OnlyVMOf
  <2> QED BY <2>2, <2>3 DEF ControlAt, RunLabels, RmLabels, AddLabels, RmTakes
<1>3. Domains'
  BY DEF Sound, Domains, OnlyVMOf
<1> QED BY <1>1, <1>2, <1>3 DEF Sound, ControlOK

\* A step that leaves the network and the domains alone.
LEMMA QuietStep ==
  ASSUME Sound, NEW p \in Procs, OnlyOf(p), UNCHANGED <<network, domains>>,
         LocalType', ControlAt(p)',
         vm'[p] = None \/ vm'[p] = vm[p] \/ \A r \in Procs : vm[r] # vm'[p]
  PROVE  Sound'
<1>1. ObjectType'
  BY DEF Sound, ObjectType, NetOK, network, domains
<1>2. OnlyVMOf(p)
  BY DEF OnlyVMOf, domains
<1>3. vm[p] \in VM =>
        /\ plug'[vm[p]] # 0 => dom'[vm[p]] = "running"
        /\ dom'[vm[p]] = "running" => mac'[vm[p]] # NoAddr
  BY DEF Sound, Domains, domains
<1> QED BY <1>1, <1>2, <1>3, LocalStep

\* The end of a command resets the local variables.
LEMMA FinishLocal ==
  ASSUME Sound, NEW p \in Procs, Finish(p), gen' = gen
  PROVE  OnlyOf(p) /\ LocalType' /\ ControlAt(p)' /\ vm'[p] = None /\ pc'[p] = "idle"
<1>1. OnlyOf(p) /\ vm'[p] = None /\ pc'[p] = "idle"
  BY DEF Sound, LocalType, OnlyOf, Finish, Goto
<1>2. LocalType'
  BY Widths DEF Sound, ObjectType, LocalType, Finish, Goto, Labels, Address
<1>3. ControlAt(p)'
  BY <1>1 DEF ControlAt, RunLabels, AddLabels, RmLabels, RmTakes
<1> QED BY <1>1, <1>2, <1>3

\* The end of a command by an error.
LEMMA RefusedSound ==
  ASSUME Sound, NEW p \in Procs, Refused(p)
  PROVE  Sound'
BY FinishLocal, QuietStep DEF Refused, network

\* A step that goes on to another call and leaves everything else alone.
LEMMA ContinueSound ==
  ASSUME Sound, NEW p \in Procs, NEW l \in Labels, Continue(p, l),
         UNCHANGED <<network, domains>>, ControlAt(p)'
  PROVE  Sound'
<1>1. OnlyOf(p) /\ vm'[p] = vm[p]
  BY DEF Sound, LocalType, OnlyOf, Continue, Goto, locals
<1>2. LocalType'
  BY DEF Sound, LocalType, Continue, Goto, locals, network
<1> QED BY <1>1, <1>2, QuietStep

\* GetVMID and the check of the MAC address.
LEMMA SearchSound ==
  ASSUME Sound, NEW p \in Procs, IDNet(p) \/ IDNext(p) \/ RunMAC(p)
  PROVE  Sound'
<1> USE DEF Labels, RunLabels, RmLabels, AddLabels, RmTakes
<1>1. ControlAt(p) /\ pc[p] \in Labels
  BY DEF Sound, ControlOK, LocalType
<1>2. CASE Refused(p)
  BY <1>2, RefusedSound
<1>3. CASE IDNet(p) /\ ~Refused(p)
  <2>1. EndID(net, want[p]) \in 0..(UintSize - 1)
    <3>1. want[p] \in 0..(UintSize - 1)
      BY Widths DEF Sound, LocalType, Address
    <3>2. net # None => net.size - 2 \in Int
      BY Widths DEF Sound, ObjectType, NetOK, NetType
    <3>3. net # None => ToUint(net.size - 2) \in 0..(UintSize - 1)
      BY <3>2, Widths, Remainder, Zenon DEF ToUint
    <3> QED BY <1>3, <3>1, <3>3 DEF EndID, IDNet, Alive
  <2>2. OnlyOf(p) /\ vm'[p] = vm[p] /\ LocalType'
    BY <1>3, <2>1 DEF Sound, LocalType, IDNet, OnlyOf, Goto, network
  <2>3. ControlAt(p)'
    BY <1>1, <1>3, <2>2 DEF ControlAt, IDNet, Goto, Sound, LocalType
  <2> QED BY <1>3, <2>2, <2>3, QuietStep DEF IDNet
<1>4. CASE IDNext(p) /\ ~Refused(p)
  <2>1. CASE IPsOf(QemuMAC(want[p])) = {}
    <3>1. Continue(p, "run_mac") /\ UNCHANGED <<network, domains>> /\ pc[p] = "id_next"
      BY <1>4, <2>1 DEF IDNext
    <3>2. ControlAt(p)'
      BY <1>1, <3>1 DEF ControlAt, Continue, Goto, Sound, LocalType, locals
    <3> QED BY <3>1, <3>2, ContinueSound
  <2>2. CASE IPsOf(QemuMAC(want[p])) # {}
    <3>1. /\ pc[p] = "id_next" /\ Goto(p, "id_next")
          /\ id' = [id EXCEPT ![p] = ToUint(id[p] - 1)]
          /\ UNCHANGED <<network, domains, vm, want, handle, ips, desc>>
      BY <1>4, <2>2 DEF IDNext
    <3>2. id[p] - 1 \in Int
      BY DEF Sound, LocalType
    <3>3. ToUint(id[p] - 1) \in 0..(UintSize - 1)
      BY <3>2, Widths, Remainder, Zenon DEF ToUint
    <3>4. OnlyOf(p) /\ vm'[p] = vm[p] /\ LocalType'
      BY <3>1, <3>3 DEF Sound, LocalType, OnlyOf, Goto, network
    <3>5. ControlAt(p)'
      BY <1>1, <3>1, <3>4 DEF ControlAt, Goto, Sound, LocalType
    <3> QED BY <3>1, <3>4, <3>5, QuietStep
  <2> QED BY <2>1, <2>2
<1>5. CASE RunMAC(p) /\ ~Refused(p)
  <2>1. /\ Continue(p, "run_define") /\ UNCHANGED <<network, domains>>
        /\ pc[p] = "run_mac" /\ QemuMAC(id[p]) # NoAddr
    BY <1>5 DEF RunMAC
  <2>2. ControlAt(p)'
    BY <1>1, <2>1 DEF ControlAt, Continue, Goto, Sound, LocalType, locals
  <2> QED BY <2>1, <2>2, ContinueSound
<1> QED BY <1>2, <1>3, <1>4, <1>5

\* The domain, its DHCP entry and its start.
LEMMA RunSound ==
  ASSUME Sound, NEW p \in Procs,
         RunDefine(p) \/ AddNet(p) \/ AddHost(p) \/ RunStart(p)
  PROVE  Sound'
<1> USE DEF Labels, RunLabels, RmLabels, AddLabels, RmTakes
<1>1. ControlAt(p) /\ pc[p] \in Labels
  BY DEF Sound, ControlOK, LocalType
<1>2. CASE Refused(p)
  BY <1>2, RefusedSound
<1>3. CASE RunDefine(p) /\ ~Refused(p)
  <2>1. vm[p] \in VM /\ QemuMAC(id[p]) # NoAddr /\ dom[vm[p]] = "none"
    BY <1>1, <1>3 DEF ControlAt, RunDefine
  <2>2. QemuMAC(id[p]) \in MACs \cup {NoAddr}
    BY AddToMACType, Widths DEF Sound, LocalType, QemuMAC
  <2>3. OnlyOf(p) /\ vm'[p] = vm[p] /\ LocalType'
    BY <1>3 DEF Sound, LocalType, RunDefine, Continue, OnlyOf, Goto, locals, network
  <2>4. ObjectType' /\ OnlyVMOf(p)
    BY <1>3, <2>2 DEF Sound, ObjectType, NetOK, RunDefine, network, OnlyVMOf
  <2>5. dom'[vm[p]] = "defined" /\ mac'[vm[p]] = QemuMAC(id[p]) /\ plug'[vm[p]] = 0
    BY <1>3, <2>1 DEF Sound, ObjectType, Domains, RunDefine
  <2>6. ControlAt(p)'
    BY <1>3, <2>1, <2>3, <2>5
       DEF ControlAt, RunDefine, Continue, Goto, Sound, LocalType, locals
  <2> QED BY <2>3, <2>4, <2>5, <2>6, LocalStep
<1>4. CASE AddNet(p) /\ ~Refused(p)
  <2>1. Alive(p) /\ HostIP(net, id[p]) # NoAddr
    BY <1>4 DEF AddNet
  <2>2. ToInt(id[p]) \in Int
    BY Widths DEF Sound, LocalType, ToInt
  <2>3. HostIP(net, id[p]) \in Address
    <3>1. net.ip \in Address /\ net.size \in 1..AddrSize /\ Broadcast(net) < AddrSize
      BY <2>1 DEF Sound, ObjectType, NetOK, NetType, Alive
    <3>2. HostIP(net, id[p]) \in NetBase(net)..Broadcast(net)
      BY <2>1, <2>2, <3>1, HostInside, Zenon DEF HostIP
    <3>3. NetBase(net) \in 0..net.ip
      BY <3>1, BaseInside
    <3> QED BY <3>1, <3>2, <3>3, BaseInside, Widths DEF Address
  <2>4. OnlyOf(p) /\ vm'[p] = vm[p] /\ LocalType'
    BY <1>4, <2>3 DEF Sound, LocalType, AddNet, OnlyOf, Goto, network
  <2>5. ControlAt(p)'
    BY <1>1, <1>4, <2>4 DEF ControlAt, AddNet, Goto, Sound, LocalType, domains
  <2> QED BY <1>4, <2>4, <2>5, QuietStep DEF AddNet
<1>5. CASE AddHost(p) /\ ~Refused(p)
  <2> DEFINE new == {<<mac[vm[p]], a>> : a \in ips[p]}
  <2>1. /\ pc[p] = "add_host" /\ Alive(p) /\ vm[p] \in VM
        /\ mac[vm[p]] \in MACs /\ ips[p] \subseteq Address
    BY <1>1, <1>5 DEF ControlAt, AddHost, Updatable, Sound, ObjectType, LocalType
  <2>2. new \subseteq MACs \X Address
    BY <2>1
  <2>3. net' = [net EXCEPT !.hosts = @ \cup new] /\ UNCHANGED <<leases, gen, domains>>
    BY <1>5 DEF AddHost
  <2> HIDE DEF new
  <2>4. /\ net # None /\ net \in NetType /\ net.uuid \in 1..gen
        /\ Broadcast(net) < AddrSize
    BY <2>1 DEF Sound, ObjectType, NetOK, Alive
  <2>5. net' \in NetType /\ net'.uuid = net.uuid /\ net'.ip = net.ip /\ net'.size = net.size
    BY <2>2, <2>3, <2>4 DEF NetType
  <2>6. ObjectType' /\ OnlyVMOf(p)
    BY <2>3, <2>4, <2>5, SameAddresses
       DEF Sound, ObjectType, NetOK, domains, OnlyVMOf
  <2>7. OnlyOf(p) /\ vm'[p] = vm[p] /\ LocalType'
    BY <1>5 DEF Sound, LocalType, AddHost, OnlyOf, Goto
  <2>8. ControlAt(p)'
    BY <1>1, <1>5, <2>7 DEF ControlAt, AddHost, Goto, Sound, LocalType, domains
  <2> QED BY <2>1, <2>3, <2>6, <2>7, <2>8, LocalStep DEF Sound, Domains, domains
<1>6. CASE RunStart(p) /\ ~Refused(p)
  <2>1. /\ vm[p] \in VM /\ mac[vm[p]] # NoAddr /\ net # None
        /\ net.uuid \in 1..gen /\ Finish(p) /\ UNCHANGED <<network, mac>>
    BY <1>1, <1>6 DEF ControlAt, RunStart, Sound, ObjectType, NetOK
  <2>2. gen' = gen
    BY <2>1 DEF network
  <2>3. ObjectType' /\ OnlyVMOf(p)
    <3>1. /\ dom' = [dom EXCEPT ![vm[p]] = "running"]
          /\ plug' = [plug EXCEPT ![vm[p]] = net.uuid]
          /\ strays' \in {strays, strays \cup {net.uuid}}
      BY <1>6, <2>1 DEF RunStart
    <3>2. dom' \in [VM -> {"none", "defined", "running"}]
      BY <3>1 DEF Sound, ObjectType
    <3>3. plug' \in [VM -> 0..gen] /\ strays' \subseteq 1..gen
      BY <2>1, <3>1 DEF Sound, ObjectType
    <3>4. OnlyVMOf(p)
      BY <2>1, <3>1 DEF Sound, ObjectType, OnlyVMOf
    <3> QED BY <2>1, <3>2, <3>3, <3>4 DEF Sound, ObjectType, NetOK, network
  <2>4. dom'[vm[p]] = "running" /\ mac'[vm[p]] # NoAddr
    BY <1>6, <2>1 DEF Sound, ObjectType, RunStart
  <2> QED BY <2>1, <2>2, <2>3, <2>4, FinishLocal, LocalStep
<1> QED BY <1>2, <1>3, <1>4, <1>5, <1>6

\* vm rm.
LEMMA RmSound ==
  ASSUME Sound, NEW p \in Procs, RmStep(p)
  PROVE  Sound'
<1> USE DEF Labels, RunLabels, RmLabels, AddLabels, RmTakes
<1>1. ControlAt(p) /\ pc[p] \in Labels
  BY DEF Sound, ControlOK, LocalType
<1>2. CASE Refused(p)
  BY <1>2, RefusedSound
<1>3. CASE RmStop(p)
  <2>1. vm[p] \in VM
    BY <1>1, <1>3 DEF ControlAt, RmStop
  <2>2. OnlyOf(p) /\ vm'[p] = vm[p] /\ LocalType'
    BY <1>3 DEF Sound, LocalType, RmStop, Continue, OnlyOf, Goto, locals, network
  <2>3. ObjectType' /\ OnlyVMOf(p)
    <3>1. /\ dom' = [dom EXCEPT ![vm[p]] = "defined"]
          /\ plug' = [plug EXCEPT ![vm[p]] = 0] /\ UNCHANGED <<network, mac, strays>>
      BY <1>3 DEF RmStop
    <3>2. dom' \in [VM -> {"none", "defined", "running"}]
      BY <3>1 DEF Sound, ObjectType
    <3>3. plug' \in [VM -> 0..gen]
      <4>1. 0 \in 0..gen /\ plug \in [VM -> 0..gen]
        BY NetworkAssumption DEF Sound, ObjectType
      <4> QED BY <3>1, <4>1
    <3>4. OnlyVMOf(p)
      BY <3>1 DEF Sound, ObjectType, OnlyVMOf
    <3> QED BY <3>1, <3>2, <3>3, <3>4 DEF Sound, ObjectType, NetOK, network
  <2>4. dom'[vm[p]] = "defined" /\ plug'[vm[p]] = 0
    BY <1>3, <2>1 DEF Sound, ObjectType, RmStop
  <2>5. ControlAt(p)'
    BY <1>1, <1>3, <2>2, <2>4
       DEF ControlAt, RmStop, Continue, Goto, Sound, LocalType, locals
  <2> QED BY <2>2, <2>3, <2>4, <2>5, LocalStep
<1>4. CASE (RmFind(p) \/ RmIPs(p)) /\ ~Refused(p)
  <2>1. UNCHANGED <<network, domains>> /\ vm' = vm
    BY <1>4 DEF RmFind, RmIPs
  <2>2. IPsOf(mac[vm[p]]) \subseteq Address \/ net = None
    BY DEF IPsOf, Sound, ObjectType, NetOK, NetType
  <2>3. OnlyOf(p) /\ vm'[p] = vm[p]
    BY <1>4 DEF Sound, LocalType, RmFind, RmIPs, OnlyOf, Goto
  <2>4. LocalType'
    BY <1>4, <2>2
       DEF Sound, ObjectType, NetOK, LocalType, RmFind, RmIPs, Goto, network, Alive
  <2>5. ControlAt(p)'
    BY <1>1, <1>4, <2>3 DEF ControlAt, RmFind, RmIPs, Goto, Sound, LocalType, domains
  <2> QED BY <2>1, <2>3, <2>4, <2>5, QuietStep
<1>5. CASE RmDelete(p) /\ ~Refused(p)
  <2>1. pc[p] = "rm_delete" /\ Continue(p, "rm_release") /\ UNCHANGED <<leases, gen, domains>>
    BY <1>5 DEF RmDelete, network
  <2>2. ControlAt(p)' /\ OnlyOf(p) /\ vm'[p] = vm[p] /\ LocalType'
    BY <1>1, <2>1
       DEF ControlAt, OnlyOf, Continue, Goto, Sound, LocalType, locals, domains
  <2> DEFINE gone == {<<mac[vm[p]], a>> : a \in ips[p]}
  <2>3. UNCHANGED net \/ \E hs : Alive(p) /\ net' = [net EXCEPT !.hosts = @ \ hs]
    <3>1. CASE gone = {}
      <4>1. UNCHANGED <<network, domains>>
        BY <1>5, <3>1, Zenon DEF RmDelete
      <4>2. UNCHANGED net
        BY <4>1 DEF network
      <4> QED BY <4>2
    <3>2. CASE gone # {}
      BY <1>5, <3>2 DEF RmDelete, Updatable
    <3> QED BY <3>1, <3>2
  <2>4. CASE UNCHANGED net
    BY <2>1, <2>2, <2>4, QuietStep DEF network
  <2>5. ASSUME NEW hs, Alive(p), net' = [net EXCEPT !.hosts = @ \ hs] PROVE Sound'
    <3>1. /\ net # None /\ net \in NetType /\ net.uuid \in 1..gen
          /\ Broadcast(net) < AddrSize
      BY <2>5 DEF Sound, ObjectType, NetOK, Alive
    <3>2. net' \in NetType /\ net'.uuid = net.uuid /\ net'.ip = net.ip /\ net'.size = net.size
      BY <2>5, <3>1 DEF NetType
    <3>3. ObjectType' /\ OnlyVMOf(p)
      BY <2>1, <3>1, <3>2, SameAddresses
         DEF Sound, ObjectType, NetOK, domains, OnlyVMOf
    <3> QED BY <2>1, <2>2, <3>3, LocalStep DEF Sound, Domains, domains
  <2> QED BY <2>3, <2>4, <2>5
<1>6. CASE RmRelease(p)
  <2>1. OnlyOf(p) /\ vm'[p] = vm[p] /\ LocalType'
    <3>1. /\ Goto(p, "rm_undefine") /\ handle' = [handle EXCEPT ![p] = 0]
          /\ ips' = [ips EXCEPT ![p] = {}] /\ UNCHANGED <<gen, vm, want, id, desc>>
      BY <1>6 DEF RmRelease
    <3>2. handle' \in [Procs -> 0..gen] /\ ips' \in [Procs -> SUBSET Address]
      BY <3>1 DEF Sound, LocalType, ObjectType
    <3> QED BY <3>1, <3>2 DEF Sound, LocalType, OnlyOf, Goto
  <2>2. ControlAt(p)'
    BY <1>1, <1>6, <2>1 DEF ControlAt, RmRelease, Goto, Sound, LocalType, domains
  <2>3. ObjectType' /\ OnlyVMOf(p)
    BY <1>6 DEF Sound, ObjectType, NetOK, RmRelease, domains, OnlyVMOf
  <2> QED BY <1>6, <2>1, <2>2, <2>3, LocalStep DEF RmRelease, Sound, Domains, domains
<1>7. CASE RmUndefine(p)
  <2>1. vm[p] \in VM /\ Finish(p) /\ UNCHANGED <<network, plug, strays>> /\ gen' = gen
    BY <1>1, <1>7 DEF ControlAt, RmUndefine, network
  <2>2. ObjectType' /\ OnlyVMOf(p)
    BY <1>7 DEF Sound, ObjectType, NetOK, RmUndefine, network, OnlyVMOf
  <2>3. dom'[vm[p]] = "none" /\ plug'[vm[p]] = 0
    <3>1. dom[vm[p]] = "defined"
      BY <1>1, <1>7 DEF ControlAt, RmUndefine
    <3> QED BY <1>7, <2>1, <3>1 DEF Sound, ObjectType, Domains, RmUndefine
  <2> QED BY <2>1, <2>2, <2>3, FinishLocal, LocalStep
<1> QED BY <1>2, <1>3, <1>4, <1>5, <1>6, <1>7 DEF RmStep

\* network add and rm.
LEMMA NetSound ==
  ASSUME Sound, NEW p \in Procs, NetStep(p)
  PROVE  Sound'
<1> USE DEF Labels, RunLabels, RmLabels, AddLabels, RmTakes
<1>1. ControlAt(p) /\ pc[p] \in Labels
  BY DEF Sound, ControlOK, LocalType
<1>2. CASE Refused(p)
  BY <1>2, RefusedSound
<1>3. CASE NetDefine(p) /\ ~Refused(p)
  <2>1. /\ net = None /\ gen < MaxGen /\ gen' = gen + 1 /\ Goto(p, "net_start")
        /\ net' = [desc[p] EXCEPT !.uuid = gen + 1]
        /\ handle' = [handle EXCEPT ![p] = gen + 1]
        /\ desc' = [desc EXCEPT ![p] = None]
        /\ UNCHANGED <<leases, domains, vm, want, id, ips>>
    BY <1>3 DEF NetDefine
  <2>2. gen \in Nat /\ gen' \in 1..MaxGen /\ gen \in 0..gen' /\ gen' \in Nat
    BY <2>1, NetworkAssumption DEF Sound, ObjectType
  <2>3. desc[p] \in NetType /\ Broadcast(desc[p]) < AddrSize
    BY <1>1, <1>3 DEF ControlAt, NetDefine
  <2>4. /\ net' \in NetType /\ net'.uuid = gen'
        /\ net'.ip = desc[p].ip /\ net'.size = desc[p].size
    BY <2>1, <2>2, <2>3 DEF NetType
  <2>5. plug' \in [VM -> 0..gen'] /\ strays' \subseteq 1..gen'
    BY <2>1, <2>2 DEF Sound, ObjectType, domains
  <2>6. ObjectType'
    <3>1. Broadcast(net') = Broadcast(desc[p])
      BY <2>4, SameAddresses, Zenon
    <3>2. NetOK'
      BY <2>2, <2>3, <2>4, <3>1 DEF NetOK
    <3> QED BY <2>1, <2>2, <2>5, <3>2 DEF Sound, ObjectType, domains
  <2>7. OnlyOf(p) /\ OnlyVMOf(p) /\ vm'[p] = vm[p]
    BY <2>1 DEF Sound, LocalType, OnlyOf, OnlyVMOf, Goto, domains
  <2>8. handle' \in [Procs -> 0..gen']
    BY <2>1, <2>2 DEF Sound, LocalType
  <2>9. LocalType'
    BY <2>1, <2>8 DEF Sound, LocalType, Goto
  <2>10. ControlAt(p)'
    BY <2>1 DEF ControlAt, Goto, Sound, LocalType
  <2> QED BY <2>1, <2>6, <2>7, <2>9, <2>10, LocalStep DEF Sound, Domains, domains
<1>4. CASE NetCreate(p) /\ ~Refused(p)
  <2>1. /\ net' = [net EXCEPT !.active = TRUE] /\ Finish(p) /\ Alive(p)
        /\ UNCHANGED <<leases, gen, domains>>
    BY <1>4 DEF NetCreate
  <2>2. /\ net # None /\ net \in NetType /\ net.uuid \in 1..gen
        /\ Broadcast(net) < AddrSize
    BY <2>1 DEF Sound, ObjectType, NetOK, Alive
  <2>3. net' \in NetType /\ net'.uuid = net.uuid /\ net'.ip = net.ip /\ net'.size = net.size
    BY <2>1, <2>2 DEF NetType
  <2>4. ObjectType' /\ OnlyVMOf(p)
    BY <2>1, <2>2, <2>3, SameAddresses DEF Sound, ObjectType, NetOK, domains, OnlyVMOf
  <2> QED BY <2>1, <2>4, FinishLocal, LocalStep DEF Sound, Domains, domains
<1>5. CASE NetFind(p)
  <2>1. UNCHANGED <<network, domains>> /\ gen' = gen
    BY <1>5 DEF NetFind, network
  <2>2. CASE net = None
    BY <1>5, <2>1, <2>2, FinishLocal, QuietStep DEF NetFind
  <2>3. CASE net # None
    <3>1. /\ Goto(p, "net_destroy") /\ handle' = [handle EXCEPT ![p] = net.uuid]
          /\ UNCHANGED <<vm, want, id, ips, desc>>
      BY <1>5, <2>3 DEF NetFind
    <3>2. net.uuid \in 0..gen
      BY <2>3 DEF Sound, ObjectType, NetOK
    <3>3. OnlyOf(p) /\ vm'[p] = vm[p] /\ LocalType'
      BY <2>1, <3>1, <3>2 DEF Sound, LocalType, OnlyOf, Goto
    <3>4. ControlAt(p)'
      BY <3>1 DEF ControlAt, Goto, Sound, LocalType
    <3> QED BY <2>1, <3>3, <3>4, QuietStep
  <2> QED BY <2>2, <2>3
<1>6. CASE NetDestroy(p) /\ ~Refused(p)
  <2>1. /\ Alive(p) /\ Continue(p, "net_undefine") /\ plug' = [v \in VM |-> 0]
        /\ UNCHANGED <<gen, dom, mac, strays>>
        /\ \/ net' = None /\ leases' = {}
           \/ net' = [net EXCEPT !.active = FALSE] /\ UNCHANGED leases
    BY <1>6 DEF NetDestroy
  <2>2. ControlAt(p)' /\ OnlyOf(p) /\ vm'[p] = vm[p] /\ LocalType'
    BY <1>1, <2>1
       DEF ControlAt, OnlyOf, Continue, Goto, Sound, LocalType, locals
  <2>3. /\ net # None /\ net \in NetType /\ net.uuid \in 1..gen
        /\ Broadcast(net) < AddrSize
    BY <2>1 DEF Sound, ObjectType, NetOK, Alive
  <2>4. ASSUME net' # None
        PROVE  /\ net' \in NetType /\ net'.uuid = net.uuid
               /\ net'.ip = net.ip /\ net'.size = net.size
    <3>1. net' = [net EXCEPT !.active = FALSE]
      BY <2>1, <2>4
    <3> QED BY <2>3, <3>1 DEF NetType
  <2>5. NetOK'
    BY <2>1, <2>3, <2>4, SameAddresses DEF NetOK
  <2>6. ObjectType' /\ OnlyVMOf(p)
    BY <2>1, <2>5, NetworkAssumption DEF Sound, ObjectType, OnlyVMOf
  <2> QED BY <2>1, <2>2, <2>6, LocalStep DEF Sound, Domains
<1>7. CASE NetUndefine(p) /\ ~Refused(p)
  <2>1. /\ Alive(p) /\ Finish(p) /\ UNCHANGED <<gen, domains>>
        /\ \/ net' = None /\ leases' = {}
           \/ net' = [net EXCEPT !.persistent = FALSE] /\ UNCHANGED leases
    BY <1>7 DEF NetUndefine
  <2>2. /\ net # None /\ net \in NetType /\ net.uuid \in 1..gen
        /\ Broadcast(net) < AddrSize
    BY <2>1 DEF Sound, ObjectType, NetOK, Alive
  <2>3. ASSUME net' # None
        PROVE  /\ net' \in NetType /\ net'.uuid = net.uuid
               /\ net'.ip = net.ip /\ net'.size = net.size
    <3>1. net' = [net EXCEPT !.persistent = FALSE]
      BY <2>1, <2>3
    <3> QED BY <2>2, <3>1 DEF NetType
  <2>4. NetOK'
    BY <2>1, <2>2, <2>3, SameAddresses DEF NetOK
  <2>5. ObjectType' /\ OnlyVMOf(p)
    BY <2>1, <2>4 DEF Sound, ObjectType, OnlyVMOf, domains
  <2> QED BY <2>1, <2>5, FinishLocal, LocalStep DEF Sound, Domains, domains
<1> QED BY <1>2, <1>3, <1>4, <1>5, <1>6, <1>7 DEF NetStep

\* The start of a command.
LEMMA BeginSound ==
  ASSUME Sound, NEW p \in Procs, NEW o, NEW l \in Labels, NEW v \in VM \cup {None},
         NEW w \in Address, NEW d \in NetType \cup {None}, Begin(p, o, l, v, w, d),
         v = None => l \in {"net_define", "net_find"},
         l = "net_define" => d \in NetType /\ Broadcast(d) < AddrSize,
         l \in {"id_net", "rm_stop", "net_define", "net_find"}
  PROVE  Sound'
<1> USE DEF Labels, RunLabels, RmLabels, AddLabels, RmTakes
<1>1. OnlyOf(p)
  BY DEF Sound, LocalType, OnlyOf, Begin, Goto
<1>2. Lookup \in 0..gen
  BY NetworkAssumption DEF Sound, ObjectType, NetOK, Lookup
<1>3. handle' \in [Procs -> 0..gen]
  BY <1>2, NetworkAssumption DEF Sound, LocalType, ObjectType, Begin
<1>4. LocalType'
  BY <1>3 DEF Sound, LocalType, Begin, Goto, network
<1>5. pc'[p] = l /\ vm'[p] = v /\ desc'[p] = d /\ UNCHANGED <<network, domains>>
  BY DEF Begin, Goto, Sound, LocalType
<1>6. ControlAt(p)'
  BY <1>5, NetworkAssumption DEF ControlAt
<1>7. vm'[p] = None \/ \A r \in Procs : vm[r] # vm'[p]
  BY <1>5 DEF Begin
<1> QED BY <1>1, <1>4, <1>5, <1>6, <1>7, QuietStep

\* What network add defines is a network.
LEMMA AdditionType ==
  ASSUME NEW a \in Additions,
         \A h \in DHCPHosts(a.cidr, QemuBaseMAC, a.id, a.count) : h[1] # NoAddr
  PROVE  LET d == NewNetwork(a.cidr, DHCPHosts(a.cidr, QemuBaseMAC, a.id, a.count), 0)
         IN d \in NetType /\ Broadcast(d) < AddrSize
<1> DEFINE c == a.cidr
           hs == DHCPHosts(a.cidr, QemuBaseMAC, a.id, a.count)
           d == NewNetwork(c, hs, 0)
<1>1. c \in CIDR /\ a.id \in Nat /\ a.count \in Nat /\ AddrSize % c.size = 0
  BY NetworkAssumption
<1>2. c.ip \in Address /\ c.size \in 1..AddrSize
  BY <1>1 DEF CIDR, Address
<1>3. hs \subseteq MACs \X Address
  BY <1>1, <1>2, DHCPHostsType
<1>4. Broadcast(c) < AddrSize
  BY <1>1, <1>2, NetworkFits DEF Broadcast, NetBase
<1> HIDE DEF c, hs
<1>5. d \in NetType /\ d.ip = c.ip /\ d.size = c.size
  BY <1>2, <1>3 DEF NewNetwork, NetType
<1>6. Broadcast(d) < AddrSize
  BY <1>4, <1>5, SameAddresses
<1> QED BY <1>5, <1>6 DEF c, hs

\* The commands.
LEMMA CommandSound ==
  ASSUME Sound, NEW p \in Procs, Command(p)
  PROVE  Sound'
<1> USE DEF Labels
<1>1. ASSUME NEW v \in VM, NEW w \in Wanted[v], Begin(p, "run", "id_net", v, w, None)
      PROVE  Sound'
  <2>1. w \in Address /\ v # None
    BY NetworkAssumption DEF Address
  <2> QED BY <1>1, <2>1, BeginSound
<1>2. ASSUME NEW v \in VM, Begin(p, "rm", "rm_stop", v, 0, None)
      PROVE  Sound'
  <2>1. 0 \in Address /\ v # None
    BY NetworkAssumption, Widths DEF Address
  <2> QED BY <1>2, <2>1, BeginSound
<1>3. CASE NetAdd(p)
  <2>1. PICK a \in Additions :
          /\ \A h \in DHCPHosts(a.cidr, QemuBaseMAC, a.id, a.count) : h[1] # NoAddr
          /\ Begin(p, "netadd", "net_define", None, 0,
               NewNetwork(a.cidr, DHCPHosts(a.cidr, QemuBaseMAC, a.id, a.count), 0))
    BY <1>3 DEF NetAdd
  <2>2. 0 \in Address
    BY Widths DEF Address
  <2> DEFINE d == NewNetwork(a.cidr, DHCPHosts(a.cidr, QemuBaseMAC, a.id, a.count), 0)
  <2>3. d \in NetType /\ Broadcast(d) < AddrSize
    BY <2>1, AdditionType
  <2>4. Begin(p, "netadd", "net_define", None, 0, d)
    BY <2>1
  <2> HIDE DEF d
  <2> QED BY <2>2, <2>3, <2>4, BeginSound
<1>4. CASE NetRm(p)
  <2>1. 0 \in Address
    BY Widths DEF Address
  <2> QED BY <1>4, <2>1, BeginSound DEF NetRm
<1> QED BY <1>1, <1>2, <1>3, <1>4 DEF Command, Run, Rm

\* The DHCP server.
LEMMA LeaseSound ==
  ASSUME Sound, NEW v \in VM, Lease(v)
  PROVE  Sound'
<1>1. /\ plug[v] # 0 /\ net # None /\ net \in NetType /\ Broadcast(net) < AddrSize
      /\ mac[v] \in MACs
  BY DEF Lease, Sound, ObjectType, NetOK, Domains
<1>2. /\ net.ip \in Address /\ net.size \in 1..AddrSize
      /\ net.hosts \subseteq MACs \X Address
  BY <1>1 DEF NetType
<1>3. RangeStart(net)..RangeEnd(net) \subseteq Address
  BY <1>1, <1>2, RangeInside
<1>4. IPsOf(mac[v]) \subseteq Address
  BY <1>2 DEF IPsOf
<1>5. PICK a \in Address :
        leases' = {l \in leases : l[1] # mac[v]} \cup {<<mac[v], a>>}
  BY <1>3, <1>4 DEF Lease
<1>6. leases' \subseteq MACs \X Address
  BY <1>1, <1>5 DEF Sound, ObjectType
<1>7. UNCHANGED <<net, gen, domains, pc, locals>>
  BY DEF Lease
<1>8. ObjectType'
  BY <1>6, <1>7 DEF Sound, ObjectType, NetOK, domains
<1>9. LocalType' /\ ControlOK' /\ Domains' /\ OneOwner'
  BY <1>7 DEF Sound, LocalType, ControlOK, ControlAt, Domains, OneOwner, domains, locals
<1> QED BY <1>8, <1>9 DEF Sound

LEMMA NextSound == Sound /\ [Next]_vars => Sound'
<1> SUFFICES ASSUME Sound, [Next]_vars PROVE Sound'
  OBVIOUS
<1>1. ASSUME NEW p \in Procs, Step(p) PROVE Sound'
  BY <1>1, SearchSound, RunSound, RmSound, NetSound DEF Step, RunStep
<1>2. ASSUME NEW p \in Procs, Fail(p) PROVE Sound'
  BY <1>2, RefusedSound DEF Fail, Refused
<1>3. CASE UNCHANGED vars
  BY <1>3 DEF vars, network, domains, locals, Sound, ObjectType, NetOK, LocalType,
              ControlOK, ControlAt, Domains, OneOwner
<1> QED BY <1>1, <1>2, <1>3, CommandSound, LeaseSound DEF Next

LEMMA InitSound == Init => Sound
<1> SUFFICES ASSUME Init PROVE Sound
  OBVIOUS
<1>1. PICK c \in Existing : net = [NewNetwork(c, {}, 1) EXCEPT !.active = TRUE]
  BY DEF Init
<1>2. c.ip \in Address /\ c.size \in 1..AddrSize /\ AddrSize % c.size = 0
  BY NetworkAssumption DEF CIDR, Address
<1>3. Broadcast(c) < AddrSize
  BY <1>2, NetworkFits DEF Broadcast, NetBase
<1>4. net \in NetType /\ net.uuid = 1 /\ net.ip = c.ip /\ net.size = c.size
  BY <1>1, <1>2 DEF NewNetwork, NetType
<1>5. ObjectType
  <2>1. Broadcast(net) = Broadcast(c)
    BY <1>4, SameAddresses, Zenon
  <2>2. gen = 1 /\ gen \in 1..MaxGen
    BY NetworkAssumption DEF Init
  <2>3. NetOK
    BY <1>3, <1>4, <2>1, <2>2 DEF NetOK
  <2> QED BY <2>2, <2>3 DEF Init, ObjectType
<1>6. LocalType
  BY Widths DEF Init, LocalType, Labels, Address
<1>7. ControlOK /\ Domains /\ OneOwner
  BY DEF Init, ControlOK, ControlAt, Domains, OneOwner, RunLabels, RmLabels,
         AddLabels, RmTakes
<1> QED BY <1>5, <1>6, <1>7 DEF Sound

LEMMA AlwaysSound == Spec => []Sound
BY InitSound, NextSound, PTL DEF Spec

\* Whatever fails and whoever replaces the network, no address is negative or
\* beyond the last one, no domain has a MAC address that could not be computed,
\* and no identity of a network is used before the network is defined.
THEOREM TypeCorrect == Spec => []TypeOK
<1>1. Sound => TypeOK
  BY DEF Sound, ObjectType, NetOK, NetType, LocalType, TypeOK
<1> QED BY <1>1, AlwaysSound, PTL

-----------------------------------------------------------------------------
(* What a step changes.                                                    *)

StepOf(p) == Command(p) \/ Step(p) \/ Fail(p)

\* Every action names the call that it is, and the ones that may follow.
LEMMA NextCall ==
  ASSUME Sound, NEW p \in Procs, StepOf(p)
  PROVE  /\ pc'[p] = "id_next" => IDNet(p) \/ IDNext(p)
         /\ pc'[p] = "run_mac" => IDNext(p)
         /\ pc'[p] = "run_define" => RunMAC(p)
         /\ pc'[p] = "add_net" => RunDefine(p)
         /\ pc'[p] = "add_host" => AddNet(p)
         /\ pc'[p] = "run_start" => AddHost(p)
         /\ pc'[p] = "net_define" => NetAdd(p)
<1> USE DEF Sound, LocalType, Goto
<1>1. CASE Fail(p) \/ Refused(p)
  BY <1>1 DEF Fail, Refused, Finish
<1>2. CASE Command(p)
  BY <1>2 DEF Command, Run, Rm, NetAdd, NetRm, Begin
<1>3. CASE RunStep(p) /\ ~Refused(p)
  BY <1>3 DEF RunStep, IDNet, IDNext, RunMAC, RunDefine, AddNet, AddHost, RunStart,
              Continue, Finish
<1>4. CASE RmStep(p) /\ ~Refused(p)
  BY <1>4 DEF RmStep, RmStop, RmFind, RmIPs, RmDelete, RmRelease, RmUndefine,
              Continue, Finish
<1>5. CASE NetStep(p) /\ ~Refused(p)
  BY <1>5 DEF NetStep, NetDefine, NetCreate, NetFind, NetDestroy, NetUndefine,
              Continue, Finish
<1> QED BY <1>1, <1>2, <1>3, <1>4, <1>5 DEF StepOf, Step

LEMMA StepOnlyOf ==
  ASSUME Sound, NEW p \in Procs, StepOf(p)
  PROVE  OnlyOf(p)
<1> USE DEF Sound, LocalType, Goto, OnlyOf
<1>1. CASE Fail(p) \/ Refused(p)
  BY <1>1 DEF Fail, Refused, Finish
<1>2. CASE Command(p)
  BY <1>2 DEF Command, Run, Rm, NetAdd, NetRm, Begin
<1>3. CASE RunStep(p) /\ ~Refused(p)
  BY <1>3 DEF RunStep, IDNet, IDNext, RunMAC, RunDefine, AddNet, AddHost, RunStart,
              Continue, Finish, locals
<1>4. CASE RmStep(p) /\ ~Refused(p)
  BY <1>4 DEF RmStep, RmStop, RmFind, RmIPs, RmDelete, RmRelease, RmUndefine,
              Continue, Finish, locals
<1>5. CASE NetStep(p) /\ ~Refused(p)
  BY <1>5 DEF NetStep, NetDefine, NetCreate, NetFind, NetDestroy, NetUndefine,
              Continue, Finish, locals
<1> QED BY <1>1, <1>2, <1>3, <1>4, <1>5 DEF StepOf, Step

\* The network stays the one it is, unless it vanishes.
Kept ==
  net' # None =>
    /\ net # None /\ net'.uuid = net.uuid
    /\ net'.ip = net.ip /\ net'.size = net.size

\* The new entry of AddDHCPHost.
NewHosts(p) == {<<mac[vm[p]], a>> : a \in ips[p]}

Entered(p) ==
  /\ AddHost(p) /\ Alive(p) /\ Kept /\ net' # None
  /\ net'.hosts = net.hosts \cup NewHosts(p)

Defined(p) ==
  /\ NetDefine(p) /\ net = None /\ gen' = gen + 1 /\ desc[p] \in NetType
  /\ pc[p] = "net_define" /\ net'.uuid = gen + 1 /\ net'.ip = desc[p].ip
  /\ net'.size = desc[p].size /\ net'.hosts = desc[p].hosts

\* Entries are only removed by removeDomainDHCP, and only those of the VM.
Removed(p) ==
  /\ Kept
  /\ net' # None =>
       /\ net'.hosts \subseteq net.hosts
       /\ \A h \in net.hosts : h[1] # mac[vm[p]] => h \in net'.hosts
  /\ RmDelete(p) \/ UNCHANGED net \/ net' = None \/ net'.hosts = net.hosts

\* There are three kinds of steps, as to the network.
LEMMA NetworkStep ==
  ASSUME Sound, NEW p \in Procs, StepOf(p)
  PROVE  Removed(p) \/ Entered(p) \/ Defined(p)
<1>1. net # None => net \in NetType
  BY DEF Sound, ObjectType, NetOK
<1>2. CASE UNCHANGED net
  BY <1>2 DEF Kept, Removed
<1>3. CASE Command(p) \/ Fail(p) \/ Refused(p)
  <2>1. UNCHANGED network
    BY <1>3 DEF Command, Run, Rm, NetAdd, NetRm, Begin, Fail, Refused
  <2> QED BY <2>1, <1>2 DEF network
<1>4. CASE RunStep(p) /\ ~Refused(p) /\ ~AddHost(p)
  <2>1. UNCHANGED network
    BY <1>4 DEF RunStep, IDNet, IDNext, RunMAC, RunDefine, AddNet, RunStart
  <2> QED BY <2>1, <1>2 DEF network
<1>5. CASE AddHost(p) /\ ~Refused(p)
  <2>1. /\ Alive(p) /\ net' = [net EXCEPT !.hosts = @ \cup NewHosts(p)]
        /\ pc[p] = "add_host"
    BY <1>5 DEF AddHost, NewHosts, Updatable
  <2>2. net # None /\ net \in NetType
    BY <1>1, <2>1 DEF Alive
  <2>3. /\ net'.hosts = net.hosts \cup NewHosts(p) /\ net'.uuid = net.uuid
        /\ net'.ip = net.ip /\ net'.size = net.size
    BY <2>1, <2>2 DEF NetType
  <2>4. NewHosts(p) \subseteq MACs \X Address
    <3>1. vm[p] \in VM /\ mac[vm[p]] # NoAddr
      BY <2>1 DEF Sound, ControlOK, ControlAt, RunLabels, AddLabels
    <3> QED BY <3>1 DEF NewHosts, Sound, ObjectType, LocalType
  <2>5. net' \in NetType
    BY <2>1, <2>2, <2>4 DEF NetType
  <2>6. net' # None
    BY <2>5, NetworkAssumption
  <2> QED BY <1>5, <2>1, <2>2, <2>3, <2>6 DEF Entered, Kept
<1>6. CASE RmStep(p) /\ ~Refused(p)
  <2>1. \/ UNCHANGED net
        \/ \E hs : /\ RmDelete(p) /\ Alive(p) /\ \A h \in hs : h[1] = mac[vm[p]]
                  /\ net' = [net EXCEPT !.hosts = @ \ hs]
    <3>1. CASE RmDelete(p)
      <4> DEFINE gone == {<<mac[vm[p]], a>> : a \in ips[p]}
      <4>1. CASE gone = {}
        <5>1. UNCHANGED <<network, domains>>
          BY <1>6, <3>1, <4>1, Zenon DEF RmDelete
        <5>2. UNCHANGED net
          BY <5>1 DEF network
        <5> QED BY <5>2
      <4>2. CASE gone # {}
        <5>1. Alive(p) /\ net' = [net EXCEPT !.hosts = @ \ gone]
          BY <1>6, <3>1, <4>2 DEF RmDelete, Updatable
        <5>2. \A h \in gone : h[1] = mac[vm[p]]
          OBVIOUS
        <5> HIDE DEF gone
        <5> QED BY <3>1, <5>1, <5>2
      <4> QED BY <4>1, <4>2
    <3>2. CASE ~RmDelete(p)
      BY <1>6, <3>2 DEF RmStep, RmStop, RmFind, RmIPs, RmRelease, RmUndefine, network
    <3> QED BY <3>1, <3>2
  <2>2. ASSUME NEW hs, RmDelete(p), Alive(p), \A h \in hs : h[1] = mac[vm[p]],
               net' = [net EXCEPT !.hosts = @ \ hs]
        PROVE  Removed(p)
    <3>1. net # None /\ net \in NetType
      BY <1>1, <2>2 DEF Alive
    <3>2. Kept /\ net'.hosts = net.hosts \ hs
      BY <2>2, <3>1 DEF Kept, NetType
    <3> QED BY <2>2, <3>2 DEF Removed
  <2> QED BY <1>2, <2>1, <2>2
<1>7. CASE NetDefine(p) /\ ~Refused(p)
  <2>1. /\ net = None /\ gen' = gen + 1 /\ pc[p] = "net_define"
        /\ net' = [desc[p] EXCEPT !.uuid = gen + 1]
    BY <1>7 DEF NetDefine
  <2>2. desc[p] \in NetType
    BY <2>1 DEF Sound, ControlOK, ControlAt
  <2>3. gen + 1 \in Nat
    BY NetworkAssumption DEF Sound, ObjectType
  <2> QED BY <1>7, <2>1, <2>2, <2>3 DEF Defined, NetType
<1>8. CASE NetStep(p) /\ ~Refused(p) /\ ~NetDefine(p)
  <2>1. \/ UNCHANGED net
        \/ net' = None
        \/ Alive(p) /\ \E b \in BOOLEAN :
             net' = [net EXCEPT !.active = b] \/ net' = [net EXCEPT !.persistent = b]
    BY <1>8 DEF NetStep, NetCreate, NetFind, NetDestroy, NetUndefine, network
  <2>2. ASSUME NEW b \in BOOLEAN, Alive(p),
               net' = [net EXCEPT !.active = b] \/ net' = [net EXCEPT !.persistent = b]
        PROVE  Removed(p)
    <3>1. net # None /\ net \in NetType
      BY <1>1, <2>2 DEF Alive
    <3>2. Kept /\ net'.hosts = net.hosts
      BY <2>2, <3>1 DEF Kept, NetType
    <3> QED BY <3>2 DEF Removed
  <2> QED BY <1>2, <2>1, <2>2 DEF Kept, Removed
<1> QED BY <1>3, <1>4, <1>5, <1>6, <1>7, <1>8 DEF StepOf, Step, RunStep

\* A network that an invocation knows was there before the step.
LEMMA AliveBefore ==
  ASSUME Sound, NEW p \in Procs, StepOf(p), NEW r \in Procs, handle'[r] = handle[r],
         Alive(r)'
  PROVE  Alive(r) /\ Kept
<1>1. handle[r] \in 0..gen /\ gen \in Int
  BY NetworkAssumption DEF Sound, LocalType, ObjectType
<1>2. ~Defined(p)
  BY <1>1 DEF Defined, Alive
<1> QED BY <1>2, NetworkStep DEF Entered, Removed, Kept, Alive

-----------------------------------------------------------------------------
(* The entries.                                                            *)

\* The address that AddDHCPHost is about to enter is that of the ID.
AddressAt(p) ==
  pc[p] = "add_host" /\ Alive(p) =>
    HostIP(net, id[p]) # NoAddr /\ ips[p] = {HostIP(net, id[p])}

Addresses == \A p \in Procs : AddressAt(p)

LEMMA StepAddresses ==
  ASSUME Sound, Addresses, NEW p \in Procs, StepOf(p)
  PROVE  Addresses'
<1>1. OnlyOf(p)
  BY StepOnlyOf
<1>2. ASSUME NEW r \in Procs, r # p PROVE AddressAt(r)'
  <2>1. pc'[r] = pc[r] /\ id'[r] = id[r] /\ ips'[r] = ips[r] /\ handle'[r] = handle[r]
    BY <1>1, <1>2 DEF OnlyOf
  <2>2. ASSUME pc[r] = "add_host", Alive(r)'
        PROVE  HostIP(net', id'[r]) # NoAddr /\ ips'[r] = {HostIP(net', id'[r])}
    <3>1. Alive(r) /\ net'.ip = net.ip /\ net'.size = net.size
      BY <2>1, <2>2, AliveBefore DEF Kept, Alive
    <3>2. HostIP(net', id[r]) = HostIP(net, id[r])
      BY <3>1, SameAddresses
    <3> QED BY <2>1, <2>2, <3>1, <3>2 DEF Addresses, AddressAt
  <2> QED BY <2>1, <2>2 DEF AddressAt
<1>3. AddressAt(p)'
  <2> SUFFICES ASSUME pc'[p] = "add_host", Alive(p)'
               PROVE  HostIP(net', id'[p]) # NoAddr /\ ips'[p] = {HostIP(net', id'[p])}
    BY DEF AddressAt
  <2>1. AddNet(p) /\ ~Refused(p)
    BY NextCall DEF Refused, Finish, Goto, Sound, LocalType
  <2>2. /\ HostIP(net, id[p]) # NoAddr /\ UNCHANGED <<network, domains, vm, want, id>>
        /\ ips' = [ips EXCEPT ![p] = {HostIP(net, id[p])}]
    BY <2>1 DEF AddNet
  <2> QED BY <2>2 DEF network, Sound, LocalType
<1> QED BY <1>2, <1>3 DEF Addresses

LEMMA AlwaysAddresses == Spec => []Addresses
<1>1. Init => Addresses
  BY DEF Init, Addresses, AddressAt
<1>2. Sound /\ Addresses /\ [Next]_vars => Addresses'
  <2> SUFFICES ASSUME Sound, Addresses, [Next]_vars PROVE Addresses'
    OBVIOUS
  <2>1. ASSUME UNCHANGED <<net, pc, locals>> PROVE Addresses'
    BY <2>1 DEF locals, Addresses, AddressAt, Alive
  <2>2. CASE UNCHANGED vars
    BY <2>1, <2>2 DEF vars, network
  <2>3. ASSUME NEW v \in VM, Lease(v) PROVE Addresses'
    BY <2>1, <2>3 DEF Lease
  <2> QED BY <2>2, <2>3, StepAddresses DEF Next, StepOf
<1> QED BY <1>1, <1>2, AlwaysSound, PTL DEF Spec

\* The entries that network add writes lie in the network.
EntriesFit ==
  \A a \in Additions :
    \A h \in DHCPHosts(a.cidr, QemuBaseMAC, a.id, a.count) :
      h[2] \in NetBase(a.cidr)..Broadcast(a.cidr)

DescAt(p) ==
  pc[p] = "net_define" =>
    \A h \in desc[p].hosts : h[2] \in NetBase(desc[p])..Broadcast(desc[p])

\* What there is and what network add is about to write lies in the network.
Entries == EntriesInside /\ \A p \in Procs : DescAt(p)

LEMMA StepEntries ==
  ASSUME EntriesFit, Sound, Addresses, Entries, NEW p \in Procs, StepOf(p)
  PROVE  Entries'
<1>1. OnlyOf(p)
  BY StepOnlyOf
<1>2. ASSUME NEW r \in Procs, r # p PROVE DescAt(r)'
  BY <1>1, <1>2 DEF OnlyOf, Entries, DescAt
<1>4. DescAt(p)'
  <2> SUFFICES ASSUME pc'[p] = "net_define"
               PROVE  \A h \in desc'[p].hosts :
                        h[2] \in NetBase(desc'[p])..Broadcast(desc'[p])
    BY DEF DescAt
  <2>1. PICK a \in Additions :
          desc'[p] = NewNetwork(a.cidr, DHCPHosts(a.cidr, QemuBaseMAC, a.id, a.count), 0)
    BY NextCall DEF NetAdd, Begin, Sound, LocalType
  <2>2. /\ desc'[p].ip = a.cidr.ip /\ desc'[p].size = a.cidr.size
        /\ desc'[p].hosts = DHCPHosts(a.cidr, QemuBaseMAC, a.id, a.count)
    BY <2>1 DEF NewNetwork
  <2>3. NetBase(desc'[p]) = NetBase(a.cidr) /\ Broadcast(desc'[p]) = Broadcast(a.cidr)
    BY <2>2, SameAddresses, Zenon
  <2> QED BY <2>2, <2>3 DEF EntriesFit
<1>5. EntriesInside'
  <2>1. ASSUME Kept, net' # None
        PROVE  /\ NetBase(net') = NetBase(net) /\ Broadcast(net') = Broadcast(net)
               /\ \A h \in net.hosts : h[2] \in NetBase(net)..Broadcast(net)
    BY <2>1, SameAddresses DEF Kept, Entries, EntriesInside
  <2>2. CASE Removed(p)
    BY <2>1, <2>2 DEF Removed, EntriesInside
  <2>3. CASE Entered(p)
    <3>1. HostIP(net, id[p]) # NoAddr /\ ips[p] = {HostIP(net, id[p])}
      BY <2>3 DEF Entered, AddHost, Addresses, AddressAt
    <3>2. ToInt(id[p]) \in Int
      BY Widths DEF Sound, LocalType, ToInt
    <3>3. net.ip \in Address /\ net.size \in 1..AddrSize
      BY <2>3 DEF Sound, ObjectType, NetOK, NetType, Entered, Alive
    <3>4. HostIP(net, id[p]) \in NetBase(net)..Broadcast(net)
      BY <3>1, <3>2, <3>3, HostInside, Zenon DEF HostIP
    <3>5. \A h \in NewHosts(p) : h[2] \in NetBase(net)..Broadcast(net)
      BY <3>1, <3>4 DEF NewHosts
    <3> QED BY <2>1, <2>3, <3>5 DEF EntriesInside, Entered
  <2>4. CASE Defined(p)
    <3>1. NetBase(net') = NetBase(desc[p]) /\ Broadcast(net') = Broadcast(desc[p])
      BY <2>4, SameAddresses, Zenon DEF Defined
    <3> QED BY <2>4, <3>1 DEF Defined, Entries, DescAt, EntriesInside
  <2> QED BY <2>2, <2>3, <2>4, NetworkStep
<1> QED BY <1>2, <1>4, <1>5 DEF Entries

\* The DHCP entries lie in the network, if those of network add do: the address
\* of a VM that was computed for one network is never entered in another.
THEOREM EntriesLieInside ==
  ASSUME EntriesFit
  PROVE  Spec => []EntriesInside
<1>1. Init => Entries
  <2> SUFFICES ASSUME Init PROVE Entries
    OBVIOUS
  <2>1. PICK c \in Existing : net = [NewNetwork(c, {}, 1) EXCEPT !.active = TRUE]
    BY DEF Init
  <2>2. net.hosts = {}
    BY <2>1 DEF NewNetwork
  <2> QED BY <2>2 DEF Init, Entries, EntriesInside, DescAt
<1>2. Sound /\ Addresses /\ Entries /\ [Next]_vars => Entries'
  <2> SUFFICES ASSUME Sound, Addresses, Entries, [Next]_vars PROVE Entries'
    OBVIOUS
  <2>1. ASSUME UNCHANGED <<net, pc, locals>> PROVE Entries'
    BY <2>1 DEF locals, Entries, EntriesInside, DescAt
  <2>2. CASE UNCHANGED vars
    BY <2>1, <2>2 DEF vars, network
  <2>3. ASSUME NEW v \in VM, Lease(v) PROVE Entries'
    BY <2>1, <2>3 DEF Lease
  <2> QED BY <2>2, <2>3, StepEntries DEF Next, StepOf
<1>3. Entries => EntriesInside
  BY DEF Entries
<1> QED BY <1>1, <1>2, <1>3, AlwaysSound, AlwaysAddresses, PTL DEF Spec

-----------------------------------------------------------------------------
(* The search for an ID.                                                   *)

\* A network that has a range of addresses to lease has more than one.
LEMMA ValidRangeRoomy ==
  ASSUME NEW c, c.ip \in Address, c.size \in 1..AddrSize, ValidRange(c)
  PROVE  c.size # 1
<1>1. NetBase(c) \in Int /\ Broadcast(c) \in Int
  BY BaseInside, Widths DEF Address
<1>2. RangeStart(c) \in Int
  <2>1. c.ip + 1 \in Int /\ AddrSize \in Nat \ {0}
    BY Widths DEF Address
  <2>2. RangeStart(c) \in 0..(AddrSize - 1)
    BY <2>1, Remainder, Zenon DEF RangeStart, Inc
  <2> QED BY <2>2
<1>3. CASE c.size = 1
  <2>1. Broadcast(c) = NetBase(c)
    BY <1>1, <1>3 DEF Broadcast
  <2>2. ~(c.size > RangeLimit)
    BY <1>3, WidthAssumption
  <2>3. RangeEnd(c) = (Broadcast(c) - 1) % AddrSize
    BY <2>2, Zenon DEF RangeEnd, Dec
  <2>4. Broadcast(c) - 1 \in Int /\ AddrSize \in Nat \ {0}
    BY <1>1, Widths
  <2>5. (Broadcast(c) - 1) % AddrSize \in 0..(AddrSize - 1)
    BY <2>4, Remainder, Zenon
  <2> QED BY <1>1, <1>2, <2>1, <2>3, <2>5 DEF ValidRange
<1> QED BY <1>3

\* A network has more than one address.
NoSingle == \A c \in Existing : c.size # 1

\* GetVMID counts down from the last but one address of the network.
Roomy == net # None => net.size # 1

SearchAt(p) ==
  want[p] = 0 /\ Alive(p) =>
    /\ pc[p] = "id_next" => id[p] \in 0..(net.size - 2)
    /\ pc[p] = "run_mac" => id[p] \in 2..(net.size - 2)

Search == Roomy /\ \A p \in Procs : SearchAt(p)

LEMMA StepRoomy ==
  ASSUME Sound, Roomy, NEW p \in Procs, StepOf(p)
  PROVE  Roomy'
<1>1. CASE Kept
  BY <1>1 DEF Kept, Roomy
<1>2. CASE Defined(p)
  <2>1. ValidRange(desc[p])
    <3>1. ~Refused(p)
      BY <1>2 DEF Defined, Refused, network, Sound, ObjectType
    <3> QED BY <1>2, <3>1 DEF Defined, NetDefine
  <2>2. desc[p].size # 1
    BY <1>2, <2>1, ValidRangeRoomy DEF Defined, NetType
  <2> QED BY <1>2, <2>2 DEF Defined, Roomy
<1> QED BY <1>1, <1>2, NetworkStep DEF Entered, Removed

LEMMA StepSearch ==
  ASSUME Sound, Search, NEW p \in Procs, StepOf(p)
  PROVE  Search'
<1>1. OnlyOf(p) /\ Roomy'
  BY StepOnlyOf, StepRoomy DEF Search
<1>2. ASSUME NEW r \in Procs, r # p PROVE SearchAt(r)'
  <2>1. pc'[r] = pc[r] /\ id'[r] = id[r] /\ want'[r] = want[r] /\ handle'[r] = handle[r]
    BY <1>1, <1>2 DEF OnlyOf
  <2>2. Alive(r)' => Alive(r) /\ net'.size = net.size
    BY <2>1, AliveBefore DEF Kept, Alive
  <2> QED BY <2>1, <2>2 DEF Search, SearchAt
<1>3. SearchAt(p)'
  <2>1. CASE pc'[p] \in {"id_next", "run_mac"} /\ want'[p] = 0 /\ Alive(p)'
    <3>1. (IDNet(p) \/ IDNext(p)) /\ ~Refused(p) /\ (pc'[p] = "run_mac" => IDNext(p))
      BY <2>1, NextCall DEF Refused, Finish, Goto, Sound, LocalType
    <3>2. UNCHANGED <<network, want, handle>>
      BY <3>1 DEF IDNet, IDNext, Continue, locals
    <3>3. want[p] = 0 /\ Alive(p) /\ net.size \in 2..AddrSize /\ UNCHANGED net
      BY <2>1, <3>2 DEF network, Alive, Search, Roomy, Sound, ObjectType, NetOK, NetType
    <3>4. \A i \in Int : 0 <= i /\ i < AddrSize => ToUint(i) = i
      <4> SUFFICES ASSUME NEW i \in Int, 0 <= i, i < AddrSize PROVE i % UintSize = i
        BY DEF ToUint
      <4>1. i \in 0..(UintSize - 1) /\ UintSize \in Nat \ {0}
        BY Widths
      <4> QED BY <4>1, Remainder, Zenon
    <3>5. CASE IDNet(p)
      <4>1. pc'[p] = "id_next" /\ id'[p] = ToUint(net.size - 2)
        BY <3>1, <3>3, <3>5 DEF IDNet, EndID, Goto, Sound, LocalType
      <4>2. id'[p] = net.size - 2
        BY <3>3, <3>4, <4>1, Widths
      <4> QED BY <3>3, <4>1, <4>2, Widths DEF SearchAt
    <3>6. CASE IDNext(p)
      <4>1. id[p] >= 2 /\ id[p] <= net.size - 2 /\ id[p] \in Nat
        BY <3>1, <3>3, <3>6, Widths DEF IDNext, StartID, Search, SearchAt, Sound, LocalType
      <4>2. CASE pc'[p] = "run_mac"
        <5>1. id'[p] = id[p]
          BY <3>1, <3>6, <4>2 DEF IDNext, Continue, locals, Goto, Sound, LocalType
        <5> QED BY <3>3, <4>1, <4>2, <5>1 DEF SearchAt
      <4>3. CASE pc'[p] # "run_mac"
        <5>1. id'[p] = ToUint(id[p] - 1)
          BY <3>1, <3>6, <4>3 DEF IDNext, Continue, Goto, Sound, LocalType
        <5>2. id[p] - 1 \in Int /\ 0 <= id[p] - 1 /\ id[p] - 1 < AddrSize
          BY <3>3, <4>1, Widths
        <5>3. id'[p] = id[p] - 1
          BY <3>4, <5>1, <5>2, Zenon
        <5> QED BY <3>3, <4>1, <4>3, <5>3 DEF SearchAt
      <4> QED BY <4>2, <4>3
    <3> QED BY <3>1, <3>5, <3>6
  <2> QED BY <2>1 DEF SearchAt
<1>4. ASSUME NEW r \in Procs PROVE SearchAt(r)'
  BY <1>2, <1>3
<1> QED BY <1>1, <1>4 DEF Search

LEMMA AlwaysSearch ==
  ASSUME NoSingle
  PROVE  Spec => []Search
<1>1. Init => Search
  <2> SUFFICES ASSUME Init PROVE Search
    OBVIOUS
  <2>1. PICK c \in Existing : net = [NewNetwork(c, {}, 1) EXCEPT !.active = TRUE]
    BY DEF Init
  <2>2. net.size # 1
    BY <2>1 DEF NewNetwork, NoSingle
  <2> QED BY <2>2 DEF Init, Search, Roomy, SearchAt
<1>2. Sound /\ Search /\ [Next]_vars => Search'
  <2> SUFFICES ASSUME Sound, Search, [Next]_vars PROVE Search'
    OBVIOUS
  <2>1. ASSUME UNCHANGED <<net, pc, locals>> PROVE Search'
    BY <2>1 DEF locals, Search, Roomy, SearchAt, Alive
  <2>2. CASE UNCHANGED vars
    BY <2>1, <2>2 DEF vars, network
  <2>3. ASSUME NEW v \in VM, Lease(v) PROVE Search'
    BY <2>1, <2>3 DEF Lease
  <2> QED BY <2>2, <2>3, StepSearch DEF Next, StepOf
<1> QED BY <1>1, <1>2, AlwaysSound, PTL DEF Spec

\* On networks of more than one address the unsigned subtractions of GetVMID do
\* not wrap, and the automatic ID is a host of the network, as long as that is
\* the one that was looked up.
THEOREM AutoIDsAreLegal ==
  ASSUME NoSingle
  PROVE  Spec => []AutoIDLegal
<1>1. Search => AutoIDLegal
  BY DEF Search, SearchAt, AutoIDLegal
<1> QED BY <1>1, AlwaysSearch, PTL

-----------------------------------------------------------------------------
(* The MAC addresses.                                                      *)

\* DomainCreate attaches the VM of p.
Started(p) ==
  /\ pc[p] = "run_start" /\ net # None /\ net.active
  /\ plug'[vm[p]] = net.uuid /\ UNCHANGED <<network, mac>>
  /\ net.uuid # handle[p] => net.uuid \in strays'

\* A step changes the domain of its VM only.
LEMMA DomainStep ==
  ASSUME Sound, NEW p \in Procs, StepOf(p)
  PROVE  /\ \A v \in VM :
              \/ mac'[v] = mac[v]
              \/ RunDefine(p) /\ v = vm[p] /\ mac'[v] = QemuMAC(id[p]) /\ plug'[v] = 0
              \/ v = vm[p] /\ mac'[v] = NoAddr /\ plug'[v] = 0
         /\ \A v \in VM :
              \/ plug'[v] \in {plug[v], 0}
              \/ v = vm[p] /\ Started(p)
         /\ strays \subseteq strays'
<1> USE DEF Sound, ObjectType
<1>1. CASE Command(p) \/ Fail(p) \/ Refused(p)
  <2>1. UNCHANGED domains
    BY <1>1 DEF Command, Run, Rm, NetAdd, NetRm, Begin, Fail, Refused
  <2> QED BY <2>1 DEF domains
<1>2. CASE RunDefine(p) /\ ~Refused(p)
  <2>1. /\ mac' = [mac EXCEPT ![vm[p]] = QemuMAC(id[p])] /\ dom[vm[p]] = "none"
        /\ UNCHANGED <<plug, strays>>
    BY <1>2 DEF RunDefine
  <2>2. vm[p] \in VM => plug[vm[p]] = 0
    BY <2>1 DEF Domains
  <2> QED BY <1>2, <2>1, <2>2
<1>3. CASE RunStart(p) /\ ~Refused(p)
  <2>1. /\ pc[p] = "run_start" /\ net # None /\ net.active
        /\ plug' = [plug EXCEPT ![vm[p]] = net.uuid] /\ UNCHANGED <<network, mac>>
        /\ strays' = IF net.uuid = handle[p] THEN strays ELSE strays \cup {net.uuid}
    BY <1>3 DEF RunStart
  <2>2. strays \subseteq strays' /\ (net.uuid # handle[p] => net.uuid \in strays')
    BY <2>1
  <2>3. vm[p] \in VM
    BY <2>1 DEF ControlOK, ControlAt, RunLabels
  <2> QED BY <2>1, <2>2, <2>3 DEF Started
<1>4. CASE RunStep(p) /\ ~RunDefine(p) /\ ~RunStart(p) /\ ~Refused(p)
  <2>1. UNCHANGED domains
    BY <1>4 DEF RunStep, IDNet, IDNext, RunMAC, AddNet, AddHost
  <2> QED BY <2>1 DEF domains
<1>5. CASE RmStop(p)
  BY <1>5 DEF RmStop
<1>6. CASE RmUndefine(p)
  <2>1. mac' = [mac EXCEPT ![vm[p]] = NoAddr] /\ UNCHANGED <<plug, strays>>
    BY <1>6 DEF RmUndefine
  <2>2. vm[p] \in VM /\ dom[vm[p]] = "defined"
    BY <1>6 DEF RmUndefine, ControlOK, ControlAt, RmLabels, RmTakes
  <2>3. plug[vm[p]] = 0
    BY <2>2 DEF Domains
  <2> QED BY <2>1, <2>3
<1>7. CASE RmStep(p) /\ ~RmStop(p) /\ ~RmUndefine(p) /\ ~Refused(p)
  <2>1. UNCHANGED domains
    BY <1>7 DEF RmStep, RmFind, RmIPs, RmDelete, RmRelease
  <2> QED BY <2>1 DEF domains
<1>8. CASE NetDestroy(p) /\ ~Refused(p)
  BY <1>8 DEF NetDestroy
<1>9. CASE NetStep(p) /\ ~NetDestroy(p) /\ ~Refused(p)
  <2>1. UNCHANGED domains
    BY <1>9 DEF NetStep, NetDefine, NetCreate, NetFind, NetUndefine
  <2> QED BY <2>1 DEF domains
<1> QED
  BY <1>1, <1>2, <1>3, <1>4, <1>5, <1>6, <1>7, <1>8, <1>9 DEF StepOf, Step, RunStep, RmStep

\* The ID of a run is the one it was asked for, or an address.
IDAt(p) ==
  /\ pc[p] \in RunLabels \ {"id_net"} => id[p] \in Address
  /\ pc[p] = "id_next" /\ want[p] # 0 => id[p] <= want[p]
  /\ pc[p] \in RunLabels \ {"id_net", "id_next"} /\ want[p] # 0 => id[p] = want[p]

\* A run goes on with the ID it was asked for, or with the one it has found.
LEMMA IDStep ==
  ASSUME Sound, Search, \A r \in Procs : IDAt(r), NEW p \in Procs, StepOf(p)
  PROVE  \A r \in Procs : IDAt(r)'
<1> USE DEF RunLabels
<1>1. ASSUME NEW r \in Procs, r # p PROVE IDAt(r)'
  BY <1>1, StepOnlyOf DEF OnlyOf, IDAt
<1>2. IDAt(p)'
  <2>1. CASE pc'[p] \notin RunLabels \ {"id_net"}
    BY <2>1 DEF IDAt
  <2>2. CASE Refused(p)
    BY <2>2 DEF Refused, Finish, Goto, IDAt, Sound, LocalType
  <2>3. ASSUME pc'[p] \in {"run_mac", "run_define", "add_net", "add_host", "run_start"},
               ~Refused(p)
        PROVE  IDAt(p)'
    <3>1. /\ id'[p] = id[p] /\ want'[p] = want[p] /\ pc[p] \in RunLabels \ {"id_net"}
          /\ pc[p] = "id_next" => id[p] >= StartID(want[p])
      BY <2>3, NextCall
         DEF IDNext, RunMAC, RunDefine, AddNet, AddHost, Continue, Goto, locals,
             Sound, LocalType
    <3>2. id[p] \in Nat /\ want[p] \in Nat
      BY DEF Sound, LocalType, Address
    <3> QED BY <3>1, <3>2 DEF IDAt, StartID
  <2>4. ASSUME pc'[p] = "id_next", ~Refused(p) PROVE IDAt(p)'
    <3>1. IDNet(p) \/ IDNext(p)
      BY <2>4, NextCall
    <3>2. want'[p] = want[p] /\ want[p] \in Address
      BY <2>4, <3>1 DEF IDNet, IDNext, Continue, locals, Sound, LocalType
    <3>3. \A i \in Address : ToUint(i) = i
      <4> SUFFICES ASSUME NEW i \in Address PROVE i % UintSize = i
        BY DEF ToUint
      <4>1. i \in Int /\ i \in 0..(UintSize - 1) /\ UintSize \in Nat \ {0}
        BY Widths DEF Address
      <4> QED BY <4>1, Remainder, Zenon
    <3>4. CASE IDNet(p)
      <4>1. id'[p] = EndID(net, want[p]) /\ Alive(p)
        BY <2>4, <3>4 DEF IDNet, Sound, LocalType
      <4>2. CASE want[p] # 0
        BY <2>4, <3>2, <4>1, <4>2 DEF IDAt, EndID, Address
      <4>3. CASE want[p] = 0
        <5>1. net.size \in 2..AddrSize
          BY <4>1, Widths DEF Alive, Search, Roomy, Sound, ObjectType, NetOK, NetType
        <5>2. net.size - 2 \in Address
          BY <5>1, Widths DEF Address
        <5>3. id'[p] = net.size - 2
          BY <3>3, <4>1, <4>3, <5>2 DEF EndID
        <5> QED BY <2>4, <3>2, <4>3, <5>2, <5>3 DEF IDAt
      <4> QED BY <4>2, <4>3
    <3>5. CASE IDNext(p)
      <4>1. /\ id'[p] = ToUint(id[p] - 1) /\ pc[p] = "id_next"
            /\ id[p] >= StartID(want[p])
        BY <2>4, <3>5 DEF IDNext, Continue, Goto, Sound, LocalType
      <4>2. id[p] \in Address /\ (want[p] # 0 => id[p] <= want[p])
        BY <4>1 DEF IDAt
      <4>3. id[p] - 1 \in Address
        <5>1. id[p] >= 1
          <6>1. CASE want[p] = 0
            BY <4>1, <4>2, <6>1 DEF StartID, Address
          <6>2. CASE want[p] # 0
            BY <3>2, <4>1, <4>2, <6>2 DEF StartID, Address
          <6> QED BY <6>1, <6>2
        <5> QED BY <4>2, <5>1, Widths DEF Address
      <4>4. id'[p] = id[p] - 1
        BY <3>3, <4>1, <4>3
      <4> QED BY <2>4, <3>2, <4>2, <4>3, <4>4 DEF IDAt, Address
    <3> QED BY <3>1, <3>4, <3>5
  <2> QED BY <2>1, <2>2, <2>3, <2>4
<1> QED BY <1>1, <1>2

LEMMA AlwaysID ==
  ASSUME NoSingle
  PROVE  Spec => [](\A p \in Procs : IDAt(p))
<1> DEFINE IDs == \A p \in Procs : IDAt(p)
<1>1. Init => IDs
  BY DEF Init, IDAt, RunLabels
<1>2. Sound /\ Search /\ IDs /\ [Next]_vars => IDs'
  <2> SUFFICES ASSUME Sound, Search, IDs, [Next]_vars PROVE IDs'
    OBVIOUS
  <2>1. ASSUME UNCHANGED <<pc, locals>> PROVE IDs'
    BY <2>1 DEF locals, IDAt
  <2>2. CASE UNCHANGED vars
    BY <2>1, <2>2 DEF vars
  <2>3. ASSUME NEW v \in VM, Lease(v) PROVE IDs'
    BY <2>1, <2>3 DEF Lease
  <2> QED BY <2>2, <2>3, IDStep DEF Next, StepOf
<1> HIDE DEF IDs
<1>3. Spec => []IDs
  BY <1>1, <1>2, AlwaysSound, AlwaysSearch, PTL DEF Spec
<1> QED BY <1>3 DEF IDs

\* One invocation at a time; no automatic IDs.
Alone == \A p, q \in Procs : p = q
Explicit == \A v \in VM : 0 \notin Wanted[v]

\* No two domains have one MAC address.
UniqueMAC == \A v, w \in VM : mac[v] = mac[w] /\ mac[v] # NoAddr => v = w
DistinctWants == \A p, q \in Procs : want[p] = want[q] /\ want[p] # 0 => p = q
ClearAt(p) == pc[p] = "run_define" => \A v \in VM : mac[v] # QemuMAC(id[p])

\* Nobody asks for the ID that another one is asking for, and a MAC address that
\* was found to be free stays so until the domain is defined.
WantAt(p) == Explicit /\ pc[p] \in RunLabels => want[p] # 0

FreeMACs ==
  /\ UniqueMAC /\ DistinctWants
  /\ \A p \in Procs : WantAt(p) /\ ClearAt(p)

LEMMA WantStep ==
  ASSUME Sound, FreeMACs, NEW p \in Procs, StepOf(p)
  PROVE  DistinctWants' /\ \A r \in Procs : WantAt(r)'
<1>1. OnlyOf(p)
  BY StepOnlyOf
<1>2. /\ want'[p] \in {want[p], 0} \/ \A q \in Procs : want[q] # want'[p]
      /\ WantAt(p)'
  <2> USE DEF Sound, LocalType, Goto, RunLabels
  <2>1. CASE Fail(p) \/ Refused(p)
    BY <2>1 DEF Fail, Refused, Finish, WantAt
  <2>2. CASE NetAdd(p) \/ NetRm(p) \/ Rm(p)
    BY <2>2 DEF Rm, NetAdd, NetRm, Begin, WantAt
  <2>3. CASE Run(p)
    <3>0. PICK v \in VM : \E w \in Wanted[v] : Begin(p, "run", "id_net", v, w, None)
      BY <2>3 DEF Run
    <3>1. PICK w \in Wanted[v] : Begin(p, "run", "id_net", v, w, None)
      BY <3>0
    <3>2. v # None /\ want'[p] = w
      BY <3>1, NetworkAssumption DEF Begin
    <3>3. w = 0 \/ \A q \in Procs : want[q] # w
      BY <3>1, <3>2 DEF Begin
    <3> QED BY <3>2, <3>3 DEF WantAt, Explicit
  <2>4. CASE RunStep(p) /\ ~Refused(p)
    BY <2>4 DEF RunStep, IDNet, IDNext, RunMAC, RunDefine, AddNet, AddHost, RunStart,
                Continue, Finish, locals, FreeMACs, WantAt
  <2>5. CASE RmStep(p) /\ ~Refused(p)
    BY <2>5 DEF RmStep, RmStop, RmFind, RmIPs, RmDelete, RmRelease, RmUndefine,
                Continue, Finish, locals, WantAt
  <2>6. CASE NetStep(p) /\ ~Refused(p)
    BY <2>6 DEF NetStep, NetDefine, NetCreate, NetFind, NetDestroy, NetUndefine,
                Continue, Finish, locals, WantAt
  <2> QED BY <2>1, <2>2, <2>3, <2>4, <2>5, <2>6 DEF StepOf, Step, Command
<1>3. DistinctWants'
  BY <1>1, <1>2 DEF OnlyOf, FreeMACs, DistinctWants
<1>4. ASSUME NEW r \in Procs, r # p PROVE WantAt(r)'
  BY <1>1, <1>4 DEF OnlyOf, FreeMACs, WantAt
<1> QED BY <1>2, <1>3, <1>4

LEMMA MACStep ==
  ASSUME Alone \/ Explicit, Sound, \A r \in Procs : IDAt(r), FreeMACs,
         NEW p \in Procs, StepOf(p)
  PROVE  FreeMACs'
<1>1. OnlyOf(p) /\ (RunDefine(p) => pc[p] = "run_define")
  BY StepOnlyOf DEF RunDefine
<1>2. RunDefine(p) => \A v \in VM : mac[v] # QemuMAC(id[p])
  BY <1>1 DEF FreeMACs, ClearAt
<1>3. UniqueMAC'
  BY <1>2, DomainStep DEF FreeMACs, UniqueMAC
<1>4. ASSUME NEW r \in Procs, r # p, pc'[r] = "run_define", NEW v \in VM
      PROVE  mac'[v] # QemuMAC(id'[r])
  <2>1. pc[r] = "run_define" /\ id'[r] = id[r] /\ id[r] \in Address
    BY <1>1, <1>4 DEF OnlyOf, IDAt, RunLabels
  <2>2. mac[v] # QemuMAC(id[r]) /\ QemuMAC(id[r]) # NoAddr
    BY <2>1, IDFromQemuMAC DEF FreeMACs, ClearAt
  <2>3. CASE RunDefine(p)
    <3>1. Explicit
      BY <1>4 DEF Alone
    <3>2. /\ want[p] # 0 /\ want[r] # 0 /\ id[p] \in Address
          /\ id[p] = want[p] /\ id[r] = want[r]
      BY <1>1, <2>1, <2>3, <3>1 DEF FreeMACs, WantAt, IDAt, RunLabels
    <3>3. id[p] # id[r]
      BY <1>4, <3>2 DEF FreeMACs, DistinctWants
    <3>4. QemuMAC(id[p]) # QemuMAC(id[r])
      BY <2>1, <3>2, <3>3, QemuMACInjective
    <3> QED BY <2>1, <2>2, <3>4, DomainStep
  <2> QED BY <2>1, <2>2, <2>3, DomainStep
<1>5. ASSUME pc'[p] = "run_define", NEW v \in VM
      PROVE  mac'[v] # QemuMAC(id'[p])
  <2>1. RunMAC(p) /\ ~Refused(p)
    BY <1>5, NextCall DEF Refused, Finish, Goto, Sound, LocalType
  <2> QED BY <2>1 DEF RunMAC, Continue, locals, domains
<1>6. \A r \in Procs : ClearAt(r)'
  BY <1>4, <1>5 DEF ClearAt
<1> QED BY <1>3, <1>6, WantStep DEF FreeMACs

LEMMA AlwaysMACs ==
  ASSUME Alone \/ Explicit, NoSingle
  PROVE  Spec => []FreeMACs
<1> DEFINE IDs == \A p \in Procs : IDAt(p)
<1>1. Init => FreeMACs
  BY DEF Init, FreeMACs, UniqueMAC, DistinctWants, WantAt, ClearAt, RunLabels
<1>2. Sound /\ IDs /\ FreeMACs /\ [Next]_vars => FreeMACs'
  <2> SUFFICES ASSUME Sound, IDs, FreeMACs, [Next]_vars PROVE FreeMACs'
    OBVIOUS
  <2>1. ASSUME UNCHANGED <<mac, pc, locals>> PROVE FreeMACs'
    BY <2>1 DEF locals, FreeMACs, UniqueMAC, DistinctWants, WantAt, ClearAt
  <2>2. CASE UNCHANGED vars
    BY <2>1, <2>2 DEF vars, domains
  <2>3. ASSUME NEW v \in VM, Lease(v) PROVE FreeMACs'
    BY <2>1, <2>3 DEF Lease, domains
  <2> QED BY <2>2, <2>3, MACStep DEF Next, StepOf
<1>3. Spec => []IDs
  BY AlwaysID
<1> HIDE DEF IDs
<1> QED BY <1>1, <1>2, <1>3, AlwaysSound, PTL DEF Spec

-----------------------------------------------------------------------------
(* The addresses.                                                          *)

\* A VM that is about to be started has its entry, and no other.
EntryAt(p) ==
  pc[p] = "run_start" /\ Alive(p) =>
    HostIP(net, id[p]) # NoAddr /\ IPsOf(mac[vm[p]]) = {HostIP(net, id[p])}

VMEntries == \A p \in Procs : EntryAt(p)

\* findIPs in network n.
HostsOf(n, m) == {h[2] : h \in {g \in n.hosts : g[1] = m}}

LEMMA IPsAreHosts == \A m : IPsOf(m) = HostsOf(net, m)
BY DEF IPsOf, HostsOf

\* The entries of a MAC address stay as they are while its VM is not removed.
LEMMA SameEntries ==
  ASSUME Sound, NEW p \in Procs, StepOf(p), net # None, net' # None,
         NEW m, m # mac[vm[p]] \/ ~(AddHost(p) \/ RmDelete(p)),
         NEW a, HostsOf(net, m) = {a}
  PROVE  HostsOf(net', m) = {a}
<1>1. CASE Removed(p)
  <2>1. \A h \in net.hosts : h[1] = m => h \in net'.hosts
    BY <1>1 DEF Removed
  <2>2. net'.hosts \subseteq net.hosts
    BY <1>1 DEF Removed
  <2> QED BY <2>1, <2>2 DEF HostsOf
<1>2. CASE Entered(p)
  <2>1. m # mac[vm[p]]
    BY <1>2 DEF Entered
  <2>2. \A h \in NewHosts(p) : h[1] # m
    BY <2>1 DEF NewHosts
  <2> QED BY <1>2, <2>2 DEF Entered, HostsOf
<1>3. ~Defined(p)
  BY DEF Defined
<1> QED BY <1>1, <1>2, <1>3, NetworkStep

\* The VMs that others are about to start, and those that are running, have other
\* MAC addresses than the one of p.
LEMMA OtherMAC ==
  ASSUME Sound, FreeMACs, NEW p \in Procs, AddHost(p) \/ RmDelete(p), NEW v \in VM,
         v # vm[p], mac[v] # NoAddr
  PROVE  mac[v] # mac[vm[p]]
<1>1. vm[p] \in VM
  BY DEF AddHost, RmDelete, Sound, ControlOK, ControlAt, RunLabels, RmLabels, RmTakes
<1> QED BY <1>1 DEF FreeMACs, UniqueMAC

LEMMA EntryStep ==
  ASSUME Sound, FreeMACs, Addresses, VMEntries, NEW p \in Procs, StepOf(p)
  PROVE  VMEntries'
<1>1. OnlyOf(p)
  BY StepOnlyOf
<1>2. ASSUME NEW r \in Procs, r # p, pc'[r] = "run_start", Alive(r)'
      PROVE  /\ HostIP(net', id'[r]) # NoAddr
             /\ HostsOf(net', mac'[vm'[r]]) = {HostIP(net', id'[r])}
  <2>1. /\ pc[r] = "run_start" /\ id'[r] = id[r] /\ vm'[r] = vm[r]
        /\ handle'[r] = handle[r]
    BY <1>1, <1>2 DEF OnlyOf
  <2>2. Alive(r) /\ net # None /\ net' # None /\ net'.ip = net.ip /\ net'.size = net.size
    BY <1>2, <2>1, AliveBefore DEF Kept, Alive
  <2>3. HostIP(net', id[r]) = HostIP(net, id[r])
    BY <2>2, SameAddresses
  <2>4. HostIP(net, id[r]) # NoAddr /\ IPsOf(mac[vm[r]]) = {HostIP(net, id[r])}
    BY <2>1, <2>2 DEF VMEntries, EntryAt
  <2>5. vm[r] \in VM /\ mac[vm[r]] # NoAddr /\ vm[r] # vm[p]
    BY <1>2, <2>1, NetworkAssumption
       DEF Sound, ControlOK, ControlAt, RunLabels, AddLabels, OneOwner
  <2>6. mac'[vm[r]] = mac[vm[r]]
    BY <2>5, DomainStep
  <2>7. mac[vm[r]] # mac[vm[p]] \/ ~(AddHost(p) \/ RmDelete(p))
    BY <2>5, OtherMAC
  <2>8. HostsOf(net', mac[vm[r]]) = {HostIP(net, id[r])}
    BY <2>2, <2>4, <2>7, SameEntries, IPsAreHosts
  <2> QED BY <2>1, <2>3, <2>4, <2>6, <2>8
<1>3. ASSUME pc'[p] = "run_start", Alive(p)'
      PROVE  /\ HostIP(net', id'[p]) # NoAddr
             /\ HostsOf(net', mac'[vm'[p]]) = {HostIP(net', id'[p])}
  <2>1. AddHost(p) /\ ~Refused(p)
    BY <1>3, NextCall DEF Refused, Finish, Goto, Sound, LocalType
  <2>2. /\ Alive(p) /\ \A a \in ips[p] : CanAddHost(mac[vm[p]], a)
        /\ UNCHANGED <<gen, domains, vm, want, id, handle, desc>>
        /\ pc[p] = "add_host"
    BY <2>1 DEF AddHost, Updatable
  <2>3. HostIP(net, id[p]) # NoAddr /\ ips[p] = {HostIP(net, id[p])}
    BY <2>2 DEF Addresses, AddressAt
  <2>4. Entered(p)
    <3>1. CASE Removed(p)
      <4>1. net' = [net EXCEPT !.hosts = @ \cup NewHosts(p)]
        BY <2>1 DEF AddHost, NewHosts
      <4>2. net # None /\ net \in NetType
        BY <2>2 DEF Alive, Sound, ObjectType, NetOK
      <4>3. net'.hosts = net.hosts \cup NewHosts(p)
        BY <4>1, <4>2 DEF NetType
      <4> QED BY <1>3, <2>1, <2>2, <3>1, <4>3 DEF Entered, Removed, Alive
    <3>2. ~Defined(p)
      BY <2>2 DEF Defined
    <3> QED BY <3>1, <3>2, NetworkStep
  <2>5. /\ net'.hosts = net.hosts \cup {<<mac[vm[p]], HostIP(net, id[p])>>}
        /\ \A h \in net.hosts : h[1] # mac[vm[p]]
    BY <2>2, <2>3, <2>4 DEF Entered, NewHosts, CanAddHost
  <2>6. mac' = mac /\ vm' = vm /\ id' = id
    BY <2>2 DEF domains
  <2>7. HostIP(net', id[p]) = HostIP(net, id[p])
    BY <2>4, SameAddresses DEF Entered, Kept
  <2>8. HostsOf(net', mac[vm[p]]) = {HostIP(net, id[p])}
    <3> DEFINE m == mac[vm[p]]
               a == HostIP(net, id[p])
    <3>1. {g \in net'.hosts : g[1] = m} = {<<m, a>>}
      BY <2>5
    <3> HIDE DEF m, a
    <3>2. HostsOf(net', m) = {h[2] : h \in {<<m, a>>}}
      BY <3>1 DEF HostsOf
    <3>3. {h[2] : h \in {<<m, a>>}} = {a}
      OBVIOUS
    <3> QED BY <3>2, <3>3 DEF m, a
  <2> QED BY <2>3, <2>6, <2>7, <2>8
<1>4. ASSUME NEW r \in Procs, pc'[r] = "run_start", Alive(r)'
      PROVE  /\ HostIP(net', id'[r]) # NoAddr
             /\ HostsOf(net', mac'[vm'[r]]) = {HostIP(net', id'[r])}
  BY <1>2, <1>3, <1>4
<1> QED BY <1>4 DEF VMEntries, EntryAt, IPsOf, HostsOf

\* What a step does to the leases, and to the VMs that are attached.
LEMMA LeaseStep ==
  ASSUME Sound, NEW p \in Procs, StepOf(p)
  PROVE  /\ leases' \subseteq leases
         /\ net # None /\ net' = None => leases' = {}
         /\ net # None /\ net.active =>
              (net' # None /\ net'.active) \/ \A v \in VM : plug'[v] = 0
<1>1. net # None => net \in NetType
  BY DEF Sound, ObjectType, NetOK
<1>2. CASE UNCHANGED <<net, leases>>
  BY <1>2
<1>3. CASE Command(p) \/ Fail(p) \/ Refused(p)
  <2>1. UNCHANGED network
    BY <1>3 DEF Command, Run, Rm, NetAdd, NetRm, Begin, Fail, Refused
  <2> QED BY <2>1, <1>2 DEF network
<1>4. CASE RunStep(p) /\ ~Refused(p) /\ ~AddHost(p)
  <2>1. UNCHANGED network
    BY <1>4 DEF RunStep, IDNet, IDNext, RunMAC, RunDefine, AddNet, RunStart
  <2> QED BY <2>1, <1>2 DEF network
<1>5. CASE AddHost(p) /\ ~Refused(p)
  <2>1. net' = [net EXCEPT !.hosts = @ \cup NewHosts(p)] /\ Alive(p) /\ UNCHANGED leases
        /\ pc[p] = "add_host"
    BY <1>5 DEF AddHost, NewHosts, Updatable
  <2>2. net # None /\ net \in NetType
    BY <1>1, <2>1 DEF Alive
  <2>3. NewHosts(p) \subseteq MACs \X Address
    <3>1. vm[p] \in VM /\ mac[vm[p]] # NoAddr
      BY <2>1 DEF Sound, ControlOK, ControlAt, RunLabels, AddLabels
    <3> QED BY <3>1 DEF NewHosts, Sound, ObjectType, LocalType
  <2>4. net' \in NetType /\ net'.active = net.active
    BY <2>1, <2>2, <2>3 DEF NetType
  <2> QED BY <2>1, <2>4, NetworkAssumption
<1>6. CASE RmDelete(p) /\ ~Refused(p)
  <2>1. UNCHANGED leases
    BY <1>6 DEF RmDelete, network
  <2> DEFINE gone == {<<mac[vm[p]], a>> : a \in ips[p]}
  <2>2. CASE gone = {}
    <3>1. UNCHANGED <<network, domains>>
      BY <1>6, <2>2, Zenon DEF RmDelete
    <3> QED BY <1>2, <3>1 DEF network
  <2>3. CASE gone # {}
    <3>1. Alive(p) /\ net' = [net EXCEPT !.hosts = @ \ gone]
      BY <1>6, <2>3 DEF RmDelete, Updatable
    <3> HIDE DEF gone
    <3>2. net # None /\ net \in NetType
      BY <1>1, <3>1 DEF Alive
    <3>3. net' \in NetType /\ net'.active = net.active
      BY <3>1, <3>2 DEF NetType
    <3> QED BY <2>1, <3>3, NetworkAssumption
  <2> QED BY <2>2, <2>3
<1>7. CASE RmStep(p) /\ ~RmDelete(p) /\ ~Refused(p)
  <2>1. UNCHANGED net /\ leases' \subseteq leases
    BY <1>7 DEF RmStep, RmStop, RmFind, RmIPs, RmRelease, RmUndefine, network
  <2> QED BY <2>1
<1>8. CASE NetDefine(p) /\ ~Refused(p)
  BY <1>8 DEF NetDefine
<1>9. CASE NetFind(p)
  BY <1>9, <1>2 DEF NetFind, network
<1>10. CASE NetCreate(p) /\ ~Refused(p)
  <2>1. net' = [net EXCEPT !.active = TRUE] /\ Alive(p) /\ UNCHANGED leases
    BY <1>10 DEF NetCreate
  <2>2. net # None /\ net \in NetType
    BY <1>1, <2>1 DEF Alive
  <2>3. net' \in NetType /\ net'.active
    BY <2>1, <2>2 DEF NetType
  <2> QED BY <2>1, <2>3, NetworkAssumption
<1>11. CASE NetDestroy(p) /\ ~Refused(p)
  <2>1. /\ Alive(p) /\ plug' = [v \in VM |-> 0]
        /\ \/ net' = None /\ leases' = {}
           \/ net' = [net EXCEPT !.active = FALSE] /\ UNCHANGED leases
    BY <1>11 DEF NetDestroy
  <2>2. net # None /\ net \in NetType
    BY <1>1, <2>1 DEF Alive
  <2>3. CASE net' = [net EXCEPT !.active = FALSE] /\ UNCHANGED leases
    <3>1. net' \in NetType
      BY <2>2, <2>3 DEF NetType
    <3> QED BY <2>1, <2>3, <3>1, NetworkAssumption
  <2> QED BY <2>1, <2>3
<1>12. CASE NetUndefine(p) /\ ~Refused(p)
  <2>1. /\ Alive(p)
        /\ \/ ~net.active /\ net' = None /\ leases' = {}
           \/ net' = [net EXCEPT !.persistent = FALSE] /\ UNCHANGED leases
    BY <1>12 DEF NetUndefine
  <2>2. net # None /\ net \in NetType
    BY <1>1, <2>1 DEF Alive
  <2>3. CASE net' = [net EXCEPT !.persistent = FALSE] /\ UNCHANGED leases
    <3>1. net' \in NetType /\ net'.active = net.active
      BY <2>2, <2>3 DEF NetType
    <3> QED BY <2>3, <3>1, NetworkAssumption
  <2> QED BY <2>1, <2>3
<1> QED
  BY <1>3, <1>4, <1>5, <1>6, <1>7, <1>8, <1>9, <1>10, <1>11, <1>12
     DEF StepOf, Step, RunStep, NetStep

\* The address of a MAC address in the network.
Own(m) == NetBase(net) + IDFromMAC(m, QemuBaseMAC)

\* So has every VM that is attached to a network without strays, ...
Attached ==
  \A v \in VM : plug[v] # 0 =>
    /\ net # None /\ net.uuid = plug[v] /\ net.active
    /\ plug[v] \notin strays => IPsOf(mac[v]) = {Own(mac[v])}

\* ... and all leases of such a network are those of the ID.
Leased ==
  /\ net = None => leases = {}
  /\ net # None /\ net.uuid \notin strays => \A l \in leases : l[2] = Own(l[1])

\* The address of a MAC address stays the same with the network.
LEMMA SameOwn ==
  ASSUME Kept, net' # None, NEW m
  PROVE  NetBase(net') + IDFromMAC(m, QemuBaseMAC) = Own(m)
BY SameAddresses DEF Kept, Own

LEMMA AttachedStep ==
  ASSUME Sound, FreeMACs, \A r \in Procs : IDAt(r), VMEntries, Attached,
         NEW p \in Procs, StepOf(p)
  PROVE  Attached'
<1> DEFINE own(v) == NetBase(net') + IDFromMAC(mac'[v], QemuBaseMAC)
<1> SUFFICES ASSUME NEW v \in VM, plug'[v] # 0
             PROVE  /\ net' # None /\ net'.uuid = plug'[v] /\ net'.active
                    /\ plug'[v] \notin strays' => HostsOf(net', mac'[v]) = {own(v)}
  BY DEF Attached, Own, IPsOf, HostsOf
<1>1. CASE v = vm[p] /\ Started(p)
  <2>1. UNCHANGED <<net, mac>>
    BY <1>1 DEF Started, network
  <2>2. ASSUME net.uuid = handle[p] PROVE HostsOf(net, mac[v]) = {Own(mac[v])}
    <3>1. HostIP(net, id[p]) # NoAddr /\ HostsOf(net, mac[v]) = {HostIP(net, id[p])}
      BY <1>1, <2>2, IPsAreHosts DEF Started, VMEntries, EntryAt, Alive
    <3>2. mac[v] = QemuMAC(id[p]) /\ id[p] \in Address
      BY <1>1 DEF Started, Sound, ControlOK, ControlAt, AddLabels, IDAt, RunLabels
    <3>3. net.ip \in Address /\ net.size \in 1..AddrSize
      BY <1>1 DEF Started, Sound, ObjectType, NetOK, NetType
    <3>4. HostIP(net, id[p]) = NetBase(net) + id[p]
      BY <3>1, <3>2, <3>3, HostOfID
    <3>5. IDFromMAC(mac[v], QemuBaseMAC) = id[p]
      BY <3>2, IDFromQemuMAC
    <3> QED BY <3>1, <3>4, <3>5 DEF Own
  <2> QED BY <1>1, <2>1, <2>2 DEF Started, Own
<1>2. CASE ~(v = vm[p] /\ Started(p))
  <2>1. plug'[v] = plug[v] /\ plug[v] # 0 /\ mac'[v] = mac[v] /\ strays \subseteq strays'
    BY <1>2, DomainStep
  <2>2. /\ net # None /\ net.uuid = plug[v] /\ net.active
        /\ plug[v] \notin strays => HostsOf(net, mac[v]) = {Own(mac[v])}
    BY <2>1, IPsAreHosts DEF Attached
  <2>3. net' # None /\ net'.active
    BY <2>1, <2>2, LeaseStep
  <2>4. Kept
    BY <2>2, NetworkStep DEF Removed, Entered, Defined
  <2>5. ASSUME plug'[v] \notin strays' PROVE HostsOf(net', mac'[v]) = {own(v)}
    <3>1. HostsOf(net, mac[v]) = {Own(mac[v])}
      BY <2>1, <2>2, <2>5
    <3>2. own(v) = Own(mac[v])
      BY <2>1, <2>3, <2>4, SameOwn
    <3>3. mac[v] # NoAddr /\ dom[v] = "running"
      BY <2>1 DEF Sound, Domains
    <3>4. mac[v] # mac[vm[p]] \/ ~(AddHost(p) \/ RmDelete(p))
      <4>1. AddHost(p) \/ RmDelete(p) => v # vm[p]
        BY <3>3 DEF AddHost, RmDelete, Sound, ControlOK, ControlAt, AddLabels, RmTakes
      <4> QED BY <3>3, <4>1, OtherMAC
    <3>5. HostsOf(net', mac[v]) = {Own(mac[v])}
      BY <2>2, <2>3, <3>1, <3>4, SameEntries
    <3> QED BY <2>1, <3>2, <3>5
  <2> QED BY <2>1, <2>2, <2>3, <2>4, <2>5 DEF Kept
<1> QED BY <1>1, <1>2

LEMMA LeasedStep ==
  ASSUME Sound, Leased, NEW p \in Procs, StepOf(p)
  PROVE  Leased'
<1>1. leases' \subseteq leases /\ (net # None /\ net' = None => leases' = {})
  BY LeaseStep
<1>2. CASE net = None
  BY <1>1, <1>2 DEF Leased
<1>3. CASE net # None /\ net' = None
  BY <1>1, <1>3 DEF Leased
<1>4. CASE net # None /\ net' # None
  <2>1. Kept
    BY <1>4, NetworkStep DEF Removed, Entered, Defined
  <2>2. strays \subseteq strays'
    BY DomainStep
  <2>3. \A m : Own(m)' = Own(m)
    BY <1>4, <2>1, SameOwn DEF Own
  <2> QED BY <1>1, <1>4, <2>1, <2>2, <2>3 DEF Leased, Kept, Own
<1> QED BY <1>2, <1>3, <1>4

\* The DHCP server gives a VM its own address, which nobody else can have.
LEMMA LeaseLeased ==
  ASSUME Sound, Attached, Leased, NEW v \in VM, Lease(v)
  PROVE  Leased'
<1>1. plug[v] # 0 /\ net # None /\ net.uuid = plug[v] /\ UNCHANGED <<net, domains>>
  BY DEF Lease
<1>2. CASE net.uuid \in strays
  BY <1>1, <1>2 DEF Leased, domains
<1>3. CASE net.uuid \notin strays
  <2>1. IPsOf(mac[v]) = {Own(mac[v])} /\ mac[v] \in MACs
    BY <1>1, <1>3 DEF Attached, Sound, ObjectType, Domains
  <2> DEFINE others == {l[2] : l \in {k \in leases : k[1] # mac[v]}}
  <2>2. Own(mac[v]) \notin others
    <3> SUFFICES ASSUME NEW l \in leases, l[1] # mac[v], l[2] = Own(mac[v])
                 PROVE  FALSE
      OBVIOUS
    <3>1. l[2] = Own(l[1]) /\ l[1] \in MACs
      BY <1>1, <1>3 DEF Leased, Sound, ObjectType
    <3>2. /\ IDFromMAC(l[1], QemuBaseMAC) \in Int
          /\ IDFromMAC(mac[v], QemuBaseMAC) \in Int
      <4>1. l[1] - QemuBaseMAC \in Int /\ mac[v] - QemuBaseMAC \in Int
        BY <2>1, <3>1, Widths DEF MACs
      <4>2. UintSize \in Nat \ {0}
        BY Widths
      <4> QED BY <4>1, <4>2 DEF IDFromMAC, ToUint
    <3>3. NetBase(net) \in Int
      BY <1>1, BaseInside, Widths DEF Sound, ObjectType, NetOK, NetType, Address
    <3>4. IDFromMAC(l[1], QemuBaseMAC) = IDFromMAC(mac[v], QemuBaseMAC)
      <4> DEFINE x == IDFromMAC(l[1], QemuBaseMAC)
                 y == IDFromMAC(mac[v], QemuBaseMAC)
                 b == NetBase(net)
      <4>1. b + x = b + y
        BY <3>1 DEF Own
      <4>2. x \in Int /\ y \in Int /\ b \in Int
        BY <3>2, <3>3
      <4> HIDE DEF x, y, b
      <4>3. x = y
        BY <4>1, <4>2
      <4> QED BY <4>3 DEF x, y
    <3> QED BY <2>1, <3>1, <3>4, IDInjective
  <2>3. IPsOf(mac[v]) \ others = {Own(mac[v])}
    BY <2>1, <2>2
  <2>4. leases' = {l \in leases : l[1] # mac[v]} \cup {<<mac[v], Own(mac[v])>>}
    BY <2>3 DEF Lease
  <2>5. \A m : Own(m)' = NetBase(net) + IDFromMAC(m, QemuBaseMAC)'
    BY <1>1 DEF Own
  <2>6. \A l \in leases' : l[2] = Own(l[1])
    BY <1>1, <1>3, <2>4 DEF Leased
  <2> QED BY <1>1, <2>6 DEF Leased, Own
<1> QED BY <1>2, <1>3

\* Whoever adds and removes networks meanwhile and whatever fails, no VM that was
\* started on the network it is entered in gets another address than the one of
\* its ID.  No two runs must be after the same ID: there is one invocation at a
\* time, or every run asks for an ID.
THEOREM VMsHaveTheirAddress ==
  ASSUME Alone \/ Explicit, NoSingle
  PROVE  Spec => []VMAddress
<1> DEFINE IDs == \A p \in Procs : IDAt(p)
           Inv == VMEntries /\ Attached /\ Leased
<1>1. Init => Inv
  <2> SUFFICES ASSUME Init PROVE Inv
    OBVIOUS
  <2> QED BY DEF Init, VMEntries, EntryAt, Attached, Leased
<1>2. Sound /\ Addresses /\ IDs /\ FreeMACs /\ Inv /\ [Next]_vars => Inv'
  <2> SUFFICES ASSUME Sound, Addresses, IDs, FreeMACs, Inv, [Next]_vars PROVE Inv'
    OBVIOUS
  <2>1. ASSUME UNCHANGED <<net, domains, pc, locals>> PROVE VMEntries' /\ Attached'
    BY <2>1 DEF domains, locals, VMEntries, EntryAt, Attached, Alive, IPsOf, Own
  <2>2. CASE UNCHANGED vars
    <3>1. UNCHANGED <<net, leases, domains, pc, locals>> /\ UNCHANGED strays
      BY <2>2 DEF vars, network, domains
    <3>2. Leased'
      BY <3>1 DEF Leased, Own
    <3> QED BY <2>1, <3>1, <3>2
  <2>3. ASSUME NEW v \in VM, Lease(v) PROVE Inv'
    BY <2>1, <2>3, LeaseLeased DEF Lease
  <2>4. ASSUME NEW p \in Procs, StepOf(p) PROVE Inv'
    BY <2>4, EntryStep, AttachedStep, LeasedStep
  <2> QED BY <2>2, <2>3, <2>4 DEF Next, StepOf
<1>3. Inv => VMAddress
  <2> SUFFICES ASSUME Inv, NEW v \in VM, NEW l \in leases, plug[v] # 0,
                      plug[v] \notin strays, l[1] = mac[v]
               PROVE  l[2] = NetBase(net) + IDFromMAC(mac[v], QemuBaseMAC)
    BY DEF VMAddress
  <2> QED BY DEF Attached, Leased, Own
<1>4. Spec => []IDs
  BY AlwaysID
<1>5. Spec => []FreeMACs
  BY AlwaysMACs
<1> HIDE DEF IDs, Inv
<1> QED BY <1>1, <1>2, <1>3, <1>4, <1>5, AlwaysSound, AlwaysAddresses, PTL DEF Spec

=============================================================================
