----------------------------- MODULE RootPorts -----------------------------
(***************************************************************************)
(* The PCIe root ports of a domain: which of them 01 gives the identity of *)
(* a root port of the host, which of them 04 keeps, and what 04 makes of   *)
(* the devices behind them.  A PCI bus is the index of the controller that *)
(* provides it and has one device or none.                                 *)
(***************************************************************************)
EXTENDS Integers, SequencesExt

CONSTANTS HostPorts   \* host root port (its BDF, a number) -> [role, width]

ASSUME HostPortsAssumption ==
  /\ DOMAIN HostPorts \subseteq Nat /\ IsFiniteSet(DOMAIN HostPorts)
  /\ \A h \in DOMAIN HostPorts : HostPorts[h].width \in Nat \ {0}

\* ROOT_PORT_ROLE_ORDER
RoleOrder == <<"gpu", "nvme", "nic", "usb", "audio", "other", "empty">>
TurnOfRole(role) == CHOOSE n \in DOMAIN RoleOrder : RoleOrder[n] = role

(* What is on a bus: nothing, a graphics card, an NVMe drive or the xHCI of *)
(* the host's chipset passed through, an emulated USB controller, a device  *)
(* 04 removes (virtio-serial, rng, balloon, ...), or an emulated display.   *)
RoleOf == [none |-> "empty", card |-> "gpu", drive |-> "nvme", pch |-> "usb",
           usb |-> "usb", serial |-> "other", video |-> "gpu"]
Kinds == DOMAIN RoleOf
PassedThrough == {"card", "drive", "pch"}

FirstFiller == 5   \* ports below this index always stay

\* A domain has `ports`, `bridges` (both sets of indexes) and `device`, which
\* gives the kind of the device on each bus that may have one.
Used(d) == {b \in DOMAIN d.device : d.device[b] # "none"}
FillerLimit(d) == Max(d.bridges \cup {0})

KeptPorts(d) ==
  {i \in d.ports : i < FirstFiller \/ i \in Used(d) \/ i < FillerLimit(d)}

\* The role of what is on bus i.
PortRole(d, i) == IF i \in DOMAIN d.device THEN RoleOf[d.device[i]] ELSE "empty"

-----------------------------------------------------------------------------
(* 01: the ports of the domain as it is, and a host port for each.         *)

\* Mutant: only ports with a device are listed beside the first ones.
ListedPortsInUse(d) ==
  [i \in {j \in d.ports : j < FirstFiller \/ j \in Used(d)} |-> PortRole(d, i)]

\* list_kept_guest_root_ports
ListedPorts(d) == [i \in KeptPorts(d) |-> PortRole(d, i)]

\* host_root_port_rank: 9 is for ports that will not do.
Bucket(role, h) ==
  LET host == HostPorts[h].role
      width == HostPorts[h].width
  IN CASE host = role -> 0
       [] host # role /\ role = "gpu" ->
            IF width >= 8 THEN 1 ELSE IF width >= 4 THEN 2 ELSE 9
       [] host # role /\ role = "nvme" -> IF width >= 4 THEN 1 ELSE 9
       [] host # role /\ role = "nic" ->
            IF host = "empty" /\ width <= 1 THEN 1 ELSE IF width <= 4 THEN 2 ELSE 3
       [] host # role /\ role = "empty" ->
            IF width <= 1 THEN 1 ELSE IF width <= 4 THEN 2 ELSE 3
       [] OTHER -> IF host = "empty" THEN 1 ELSE IF width <= 4 THEN 2 ELSE 3

WidthRank(role, h) ==
  LET width == HostPorts[h].width
  IN CASE role = "gpu" -> -width
       [] role = "nvme" -> IF width > 4 THEN width - 4 ELSE 4 - width
       [] OTHER -> width

RanksBefore(role, g, h) ==
  \/ Bucket(role, g) < Bucket(role, h)
  \/ /\ Bucket(role, g) = Bucket(role, h)
     /\ \/ WidthRank(role, g) < WidthRank(role, h)
        \/ WidthRank(role, g) = WidthRank(role, h) /\ g < h

First(role, free) == CHOOSE h \in free : \A g \in free \ {h} : RanksBefore(role, h, g)

\* The order in which ports choose, by role and then by number.
ChoosesBefore(roles, i, j) ==
  \/ TurnOfRole(roles[i]) < TurnOfRole(roles[j])
  \/ roles[i] = roles[j] /\ i < j

\* Mutant: a chosen port stays among those that remain.
TakenNone(assigned) == {}

Taken(assigned) == Range(assigned)

Order(roles) ==
  [n \in 1..Cardinality(DOMAIN roles) |->
     CHOOSE i \in DOMAIN roles :
       Cardinality({j \in DOMAIN roles : ChoosesBefore(roles, j, i)}) = n - 1]

\* A port takes the free host port that ranks first for its role.  A port
\* without one fails the run of 01; here the result has no entry for it.
Turn(roles, port, assigned) ==
  LET suited == {h \in DOMAIN HostPorts \ Taken(assigned) : Bucket(roles[port], h) < 9}
  IN IF suited = {} THEN assigned
     ELSE [i \in DOMAIN assigned \cup {port} |->
             IF i = port THEN First(roles[port], suited) ELSE assigned[i]]

\* assign_root_port_identities: one port after the other.
Assign(roles) ==
  LET last == Cardinality(DOMAIN roles)
      f[n \in 0..last] ==
        IF n = 0 THEN [i \in {} |-> 0] ELSE Turn(roles, Order(roles)[n], f[n - 1])
  IN f[last]

-----------------------------------------------------------------------------
(* 04: the devices and controllers it defines the domain with.             *)

Hostdevs(d) == {d.device[b] : b \in Used(d)} \cap PassedThrough

\* profile_xhci_replaced_by_hostdev
XhciReplaced(d) == "pch" \in Hostdevs(d)

\* set_devices up to normalize_pcie_root_ports: the emulated USB controllers
\* go, one comes back on bus 0 unless the real one is passed through.
Stripped(d) ==
  [d EXCEPT !.device = [b \in DOMAIN d.device |->
     IF d.device[b] \in {"serial", "usb"} THEN "none" ELSE d.device[b]]]

\* Bridges with nothing behind them go first ...
WithoutEmptyBridges(d) == [d EXCEPT !.bridges = d.bridges \cap Used(d)]

\* Mutant: an empty bridge still counts when the ports are chosen.
NormalizedTogether(d) ==
  [d EXCEPT !.ports = KeptPorts(d), !.bridges = d.bridges \cap Used(d)]

\* ... and then the ports that are not needed.
Normalized(d) ==
  LET e == WithoutEmptyBridges(d)
  IN [e EXCEPT !.ports = KeptPorts(e)]

\* With a graphics card passed through the emulated displays go, too.
Transformed(d, cardProfiled) ==
  LET e == Normalized(Stripped(d))
  IN IF cardProfiled
     THEN [e EXCEPT !.device = [b \in DOMAIN e.device |->
             IF e.device[b] = "video" THEN "none" ELSE e.device[b]]]
     ELSE e

\* libvirt wants the indexes contiguous and adds root ports that are missing.
Defined(d) ==
  [d EXCEPT !.ports = 1..Max(d.ports \cup d.bridges \cup {0}) \ d.bridges]
=============================================================================
