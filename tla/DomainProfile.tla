--------------------------- MODULE DomainProfile ---------------------------
(***************************************************************************)
(* 01 and 04 against the XML of the domain.  01 records the memory and the *)
(* PCIe topology it reads from the domain in an identity; 04 reads the     *)
(* domain again, perhaps much later, transforms it, refuses it when it is  *)
(* not the one of the identity, and defines the transformed domain, which  *)
(* is what the next run of 01 or 04 reads.  The owner edits it in between. *)
(* Both stages are run to their end here; ArtifactPipeline interleaves     *)
(* their steps on files.                                                   *)
(***************************************************************************)
EXTENDS MemoryLayout, RootPorts

CONSTANTS Bays,       \* buses the owner attaches devices to
          Domains,    \* PCIe topologies the owner starts from
          Totals,     \* memory sizes of the domain, in 4 GiB
          MaxEdits    \* bound: edits of the domain

ASSUME BaysAssumption == Bays \subseteq Nat \ {0}
\* Bus 0 is the root complex; every controller has an index of its own.
ASSUME DomainsAssumption ==
  \A d \in Domains :
    /\ d \in [ports : SUBSET (Nat \ {0}), bridges : SUBSET (Nat \ {0}),
              device : [Bays -> Kinds]]
    /\ IsFiniteSet(d.ports) /\ IsFiniteSet(d.bridges) /\ d.ports \cap d.bridges = {}
ASSUME TotalsAssumption == Totals \subseteq 1..128
ASSUME MaxEditsAssumption == MaxEdits \in Nat

VARIABLES
  domain,    \* the domain: ports, bridges, device (see RootPorts)
  memory,    \* its <memory>
  blocked,   \* what is in the way of any profile: "cpus", the host has no CPU
             \* for each vCPU and one more; "xhci", "hda", a device that 04
             \* leaves alone has the address on bus 0 this one is to get
  profile,   \* identity-hardware.json: what 01 recorded of the domain
  edited,    \* has the owner changed the domain since 01 recorded it?
  edits,     \* edits so far
  added,     \* ports libvirt added when 04 defined the domain
  outcome    \* how the last run of 01 or 04 on this domain ended: "none",
             \* "recorded", "no layout", "no port", "applied" or a refusal

vars == <<domain, memory, blocked, profile, edited, edits, added, outcome>>

NoProfile == [memory |-> 0]

\* The checks of apply_profile in their order.
CheckOrder == [memory |-> 1, cpus |-> 2, xhci |-> 3, hda |-> 4,
               hostdevs |-> 5, role |-> 6, unprofiled |-> 7]
Refusals == DOMAIN CheckOrder

\* A device is on a bus the domain has, a host device on one bus only.
Possible(d) ==
  /\ Used(d) \subseteq d.ports \cup d.bridges
  /\ \A a, b \in Used(d) : a # b /\ d.device[a] \in PassedThrough
                             => d.device[a] # d.device[b]

Init ==
  /\ domain \in {d \in Domains : Possible(d)}
  /\ memory \in Totals
  /\ blocked = {}
  /\ profile = NoProfile
  /\ edited = FALSE
  /\ edits = 0
  /\ added = {}
  /\ outcome = "none"

-----------------------------------------------------------------------------

Layouts == [t \in Totals |-> ChooseLayout(t)]

\* build_record: the memory first, then the root ports.
Generate ==
  LET roles == ListedPorts(domain)
      hosts == Assign(roles)
  IN /\ outcome' = IF Layouts[memory] = NoLayout THEN "no layout"
                   ELSE IF roles = <<>> \/ DOMAIN hosts # DOMAIN roles THEN "no port"
                   ELSE "recorded"
     /\ IF outcome' = "recorded"
        THEN /\ profile' = [memory |-> memory, layout |-> Layouts[memory],
                            role |-> roles, host |-> hosts,
                            hostdevs |-> Hostdevs(domain)]
             /\ edited' = FALSE
             /\ added' = {}
        ELSE UNCHANGED <<profile, edited, added>>
     /\ UNCHANGED <<domain, memory, blocked, edits>>

\* validate_profiled_root_ports: a USB port may be empty when the emulated
\* controller is on bus 0 now.
RoleAccepted(d, p, i) ==
  \/ PortRole(d, i) = p.role[i]
  \/ p.role[i] = "usb" /\ PortRole(d, i) = "empty" /\ ~XhciReplaced(d)

\* What apply_profile objects to in the transformed domain d.  "memory" stands
\* for all that 01 recorded of the XML and 04 compares: vCPUs and their topology,
\* disks and adapters, too.  A passed through USB controller may come and go.
Objections(d, m, p, way) ==
  {r \in Refusals :
     \/ r = "memory" /\ m # p.memory
     \/ r = "cpus" /\ "cpus" \in way
     \/ r = "xhci" /\ "xhci" \in way /\ ~XhciReplaced(d)
     \/ r = "hda" /\ "hda" \in way
     \/ r = "hostdevs" /\ Hostdevs(d) \ {"pch"} # p.hostdevs \ {"pch"}
     \/ r = "role" /\ \E i \in d.ports \cap DOMAIN p.role : ~RoleAccepted(d, p, i)
     \/ r = "unprofiled" /\ ~(d.ports \subseteq DOMAIN p.role)}

\* The first objection ends the run.
Verdict(d, m, p, way) ==
  LET objections == Objections(d, m, p, way)
  IN IF objections = {} THEN "applied"
     ELSE CHOOSE r \in objections : \A q \in objections : CheckOrder[r] <= CheckOrder[q]

Apply ==
  /\ profile # NoProfile
  /\ LET result == Transformed(domain, "card" \in profile.hostdevs)
     IN /\ outcome' = Verdict(result, memory, profile, blocked)
        /\ IF outcome' = "applied"
           THEN domain' = Defined(result) /\ added' = domain'.ports \ result.ports
           ELSE UNCHANGED <<domain, added>>
  /\ UNCHANGED <<memory, blocked, profile, edited, edits>>

\* virsh edit, virt-manager: a device on a bus is replaced, attached, detached.
EditDevice(b, kind) ==
  /\ edits < MaxEdits
  /\ domain' = [domain EXCEPT !.device[b] = kind]
  /\ domain' # domain /\ Possible(domain')
  /\ edits' = edits + 1
  /\ edited' = TRUE
  /\ outcome' = "none"
  /\ UNCHANGED <<memory, blocked, profile, added>>

EditMemory(m) ==
  /\ edits < MaxEdits
  /\ m # memory
  /\ memory' = m
  /\ edits' = edits + 1
  /\ edited' = TRUE
  /\ outcome' = "none"
  /\ UNCHANGED <<domain, blocked, profile, added>>

Toggled(x) == IF x \in blocked THEN blocked \ {x} ELSE blocked \cup {x}

\* A device is put on bus 0, where the profile's controller belongs, or taken off.
EditRootBus(controller) ==
  /\ edits < MaxEdits
  /\ blocked' = Toggled(controller)
  /\ edits' = edits + 1
  /\ edited' = TRUE
  /\ outcome' = "none"
  /\ UNCHANGED <<domain, memory, profile, added>>

\* No edit: the process 04 runs in gets another affinity mask.
ChangeCpus ==
  /\ blocked' = Toggled("cpus")
  /\ outcome' = "none"
  /\ UNCHANGED <<domain, memory, profile, edited, edits, added>>

Next ==
  \/ Generate
  \/ Apply
  \/ \E b \in Bays, kind \in Kinds : EditDevice(b, kind)
  \/ \E m \in Totals : EditMemory(m)
  \/ \E c \in {"xhci", "hda"} : EditRootBus(c)
  \/ ChangeCpus

Spec == Init /\ [][Next]_vars

-----------------------------------------------------------------------------

\* Devices 04 takes away from the bus 01 saw them on, and leaves the bus empty
\* for: the emulated USB controller counts when nothing comes back on bus 0.
TakenAway(d) ==
  {b \in Used(d) :
     \/ d.device[b] = "serial"
     \/ d.device[b] = "usb" /\ \E c \in Used(d) : d.device[c] = "pch"
     \/ d.device[b] = "video" /\ \E c \in Used(d) : d.device[c] = "card"}

(* 04 accepts the domain 01 has just recorded, and the domain it defined
   itself.  What it refuses such a domain for is not in the profile: too few
   CPUs, or a device where the USB or audio controller belongs; or it is a
   device 04 removes that was alone behind a port it keeps, or a port libvirt
   has added.  01 lists the ports before and 04 after the transformation:
   whatever bridges and fillers there are, 04 keeps no port that 01 did not
   list.                                                                    *)
RefusalExplained ==
  outcome \in Refusals /\ ~edited
    => \/ outcome = "cpus" /\ "cpus" \in blocked
       \/ outcome = "xhci" /\ "xhci" \in blocked /\ ~XhciReplaced(domain)
       \/ outcome = "hda" /\ "hda" \in blocked
       \/ outcome = "role" /\ TakenAway(domain) # {}
       \/ outcome = "unprofiled" /\ added # {}

(* Applying again without an edit changes nothing, unless libvirt has added a
   port without an identity or a display was taken from behind a bridge: what
   04 defined is accepted and transformed to itself.                        *)
ReapplyIsNoop ==
  [][outcome = "applied" /\ ~edited /\ added \subseteq DOMAIN profile.role
       /\ domain.bridges \subseteq Used(domain) /\ Apply
         => outcome' = "applied" /\ domain' = domain]_vars

(* Every profiled port has a host port of its own that suits its role, and
   prefers no other: one that ranks before it went to a port with an earlier
   turn.                                                                    *)
IdentitiesAssigned ==
  outcome = "recorded" =>
    \A i \in DOMAIN profile.role :
      /\ profile.host[i] \in DOMAIN HostPorts
      /\ Bucket(profile.role[i], profile.host[i]) < 9
      /\ \A j \in DOMAIN profile.role \ {i} : profile.host[i] # profile.host[j]
      /\ \A h \in DOMAIN HostPorts :
           RanksBefore(profile.role[i], h, profile.host[i]) =>
             \E j \in DOMAIN profile.role :
               profile.host[j] = h /\ ChoosesBefore(profile.role, j, i)

\* The best of all layouts, found by comparing them all.
ReferenceLayouts ==
  [t \in Totals |-> {a \in AllLayouts(t) : \A b \in AllLayouts(t) \ {a} : Better(a, b)}]

(* The search of 01 keeps one layout for each amount and number of DIMMs and
   finds the best layout all the same, and none only when there is none.    *)
LayoutIsBest ==
  /\ outcome = "no layout" => ReferenceLayouts[memory] = {}
  /\ profile # NoProfile => ReferenceLayouts[profile.memory] = {profile.layout}

\* The type 20 ranges tile the mapped addresses, and each DIMM has its size.
Tiles(layout, ranges, parts) ==
  /\ \A m \in DOMAIN ranges : \A a \in ranges[m].first .. ranges[m].last :
       \E p \in parts : p.mapped = m /\ a \in p.first .. p.last
  /\ \A p \in parts :
       p.first >= ranges[p.mapped].first /\ p.last <= ranges[p.mapped].last
  /\ \A p, q \in parts : p # q => p.last < q.first \/ q.last < p.first
  /\ \A i \in DOMAIN layout :
       2 * layout[i] = Cardinality(UNION {p.first .. p.last : p \in {q \in parts : q.device = i}})

ExactTotals ==
  {t \in Totals : LET ranges == MappedRanges(t)
                  IN Tiles(Layouts[t], ranges, DeviceRanges(Layouts[t], ranges))}

(* Every address of the guest's memory belongs to one DIMM, also where a DIMM
   lies on both sides of the PCI hole.                                      *)
MemoryTablesExact ==
  profile # NoProfile => profile.memory \in ExactTotals

\* These refusals tell the owner to run 01 again.  When 01 has just run on this
\* domain, 04 does not refuse it with one of them.
RegenerateSuffices == ~edited => outcome \notin {"memory", "hostdevs", "role"}
=============================================================================
