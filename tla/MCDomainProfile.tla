-------------------------- MODULE MCDomainProfile --------------------------
EXTENDS DomainProfile

\* A laptop's DDR5 pool, with the vendors that differ in their sizes.
MCCatalog == [Samsung |-> {1, 2, 4, 8}, Micron |-> {2, 4, 8}, Crucial |-> {2, 4, 8, 16}]

MCHostPorts ==
  [h \in 1..8 |-> CASE h = 1 -> [role |-> "gpu", width |-> 16]
                    [] h = 2 -> [role |-> "nvme", width |-> 4]
                    [] h = 3 -> [role |-> "empty", width |-> 8]
                    [] h = 4 -> [role |-> "nic", width |-> 1]
                    [] h = 5 -> [role |-> "usb", width |-> 2]
                    [] OTHER -> [role |-> "empty", width |-> IF h = 6 THEN 4 ELSE 1]]

MCBays == {4, 5, 7}

\* Seven controllers, one of which may be a conventional bridge: a bridge with
\* a device, one without, one in the middle, one at the end.
MCControllers ==
  {[ports |-> 1..7 \ bridges, bridges |-> bridges] : bridges \in {{}, {4}, {6}, {7}}}

MCDomains ==
  {[ports |-> c.ports, bridges |-> c.bridges, device |-> device] :
     c \in MCControllers, device \in [MCBays -> Kinds]}
=============================================================================
