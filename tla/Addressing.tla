---------------------------- MODULE Addressing ----------------------------
(***************************************************************************)
(* The arithmetic of internal/virter/dhcp.go and cmd/network_add.go: how   *)
(* an ID becomes a MAC address and an IP address, and back, in integers of *)
(* the machine's width.  Widths are given as the number of values (2^32    *)
(* addresses, 2^48 MAC addresses, 2^64 values of uint), and a network by   *)
(* the host's address in it and its size 2^(32-prefix).                    *)
(***************************************************************************)
EXTENDS Integers

CONSTANTS
  AddrSize,     \* number of IPv4 addresses
  MACSize,      \* number of MAC addresses
  UintSize,     \* number of values of uint
  QemuBaseMAC,  \* 52:54:00:00:00:00
  RangeLimit    \* the largest network whose addresses libvirt can all lease

ASSUME WidthAssumption ==
  /\ AddrSize \in Nat \ {0}
  /\ MACSize \in Nat
  /\ UintSize \in Nat
  /\ UintSize % 2 = 0
  /\ MACSize <= UintSize \div 2
  /\ QemuBaseMAC \in Nat
  /\ QemuBaseMAC + AddrSize <= MACSize
  /\ RangeLimit \in Nat \ {0}

\* A description of a network: the address of the host and the size.
CIDR == [ip : 0..(AddrSize - 1), size : 1..AddrSize]

\* An address that could not be computed.
NoAddr == -1

\* The conversions int(u) and uint(i).
ToInt(u) == IF u < UintSize \div 2 THEN u ELSE u - UintSize
ToUint(i) == i % UintSize

\* AddToMAC: big.Int keeps the sign, Bytes() drops it; more bytes than a MAC
\* address has are an error.
AddToMAC(mac, addend) ==
  LET sum   == mac + ToInt(addend)
      bytes == IF sum < 0 THEN -sum ELSE sum
  IN IF bytes < MACSize THEN bytes ELSE NoAddr

\* QemuMAC, which panics where AddToMAC fails.
QemuMAC(id) == AddToMAC(QemuBaseMAC, id)

IDFromMAC(mac, base) == ToUint(mac - base)

\* ip.Mask: the first address of the network.
NetBase(c) == c.ip - (c.ip % c.size)

\* cidr.AddressRange: the last one.
Broadcast(c) == NetBase(c) + c.size - 1

\* cidr.Host: the n-th address, from the end if n is negative.
Host(c, n) ==
  IF n \in 0..(c.size - 1) THEN NetBase(c) + n
  ELSE IF n \in (-c.size)..(-1) THEN NetBase(c) + c.size + n
  ELSE NoAddr

\* cidr.Inc and cidr.Dec, which wrap around.
Inc(a) == (a + 1) % AddrSize
Dec(a) == (a - 1) % AddrSize

\* Mutant: the address is counted from the host's own.
HostIPFromGateway(c, id) == IF c.ip + id < AddrSize THEN c.ip + id ELSE NoAddr

\* AddDHCPHost: the address of an ID.
HostIP(c, id) == Host(c, ToInt(id))

\* Mutant: the search goes down to 0.
StartIDZero(wanted) == wanted

\* GetVMID: the first and the last ID of the search, as uint.
StartID(wanted) == IF wanted # 0 THEN wanted ELSE 2

\* Mutant: the broadcast address is taken for a host.
EndIDBroadcast(c, wanted) == IF wanted # 0 THEN wanted ELSE ToUint(c.size - 1)

EndID(c, wanted) == IF wanted # 0 THEN wanted ELSE ToUint(c.size - 2)

\* buildNetworkDHCP: the range of addresses to lease, ...
RangeStart(c) == Inc(c.ip)
RangeEnd(c) ==
  IF c.size > RangeLimit THEN Host(c, RangeLimit - 1) ELSE Dec(Broadcast(c))

\* ... and the entries: consecutive MAC addresses from the ID on, consecutive IP
\* addresses from the start of the range on, whatever the ID is.
DHCPHosts(c, mac, id, count) ==
  {<<AddToMAC(mac, ToUint(id + i)), (RangeStart(c) + i) % AddrSize>> :
     i \in 0..(count - 1)}
=============================================================================
