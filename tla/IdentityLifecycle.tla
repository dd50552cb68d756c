------------------------- MODULE IdentityLifecycle -------------------------
(***************************************************************************)
(* What the four stages promise together, with no files and no processes:  *)
(* 01 publishes identities one after the other, and applying gives EVERY   *)
(* part of the virtual machine the identity that is current at that        *)
(* moment.  Applying the current identity a second time works part by part *)
(* and may be cut short, which leaves a part with no identity.  A machine  *)
(* with parts of two identities, or one that changes to an identity that   *)
(* has been replaced since, is not a behaviour of this module.             *)
(***************************************************************************)
EXTENDS Naturals

CONSTANT Parts   \* the parts of a machine that carry the identity

VARIABLES current,   \* the number of the published identity, 0 before the first
          adopted,   \* the identity of the defined machine, 0 before the first
          machine    \* the identity in each part of it, 0 for a part that is missing

vars == <<current, adopted, machine>>

Init ==
  /\ current = 0
  /\ adopted = 0
  /\ machine = [p \in Parts |-> 0]

\* A run of 01: a later identity replaces the published one.
Publish ==
  /\ current' > current
  /\ UNCHANGED <<adopted, machine>>

\* A run of 02, 03 and 04: all parts change together.
Adopt ==
  /\ adopted' = current
  /\ machine' = [p \in Parts |-> current]
  /\ UNCHANGED current

\* 04 on the machine that has the current identity: one part is written again,
\* or lost on the way.
Rewrite(p) ==
  /\ adopted # 0
  /\ adopted = current
  /\ \E i \in {0, adopted} : machine' = [machine EXCEPT ![p] = i]
  /\ UNCHANGED <<current, adopted>>

Next == Publish \/ Adopt \/ \E p \in Parts : Rewrite(p)

Spec == Init /\ [][Next]_vars
=============================================================================
