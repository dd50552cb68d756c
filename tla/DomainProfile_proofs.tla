------------------------ MODULE DomainProfile_proofs ------------------------
(***************************************************************************)
(* Proofs about DomainProfile, for every topology the owner starts from,   *)
(* every set of host ports and any number of edits, and about the memory   *)
(* of MemoryLayout, for every catalog of DIMMs.                            *)
(***************************************************************************)
EXTENDS DomainProfile, SequenceTheorems, FiniteSetTheorems, TLAPS

-----------------------------------------------------------------------------
\* Finite sets in an order.  R is a set of pairs.

StrictOrder(R, S) ==
  /\ \A x \in S : <<x, x>> \notin R
  /\ \A x, y, z \in S : <<x, y>> \in R /\ <<y, z>> \in R => <<x, z>> \in R
  /\ \A x, y \in S : x # y => <<x, y>> \in R \/ <<y, x>> \in R

\* What comes before x.
Below(R, S, x) == {y \in S : <<y, x>> \in R}

\* An element has fewer before it than there are.
LEMMA RankInRange ==
  ASSUME NEW S, IsFiniteSet(S), NEW R, StrictOrder(R, S), NEW x \in S
  PROVE  /\ IsFiniteSet(Below(R, S, x))
         /\ Cardinality(Below(R, S, x)) \in 0..(Cardinality(S) - 1)
<1>1. Below(R, S, x) \in SUBSET (S \ {x})
  BY DEF Below, StrictOrder
<1>2. IsFiniteSet(S \ {x}) /\ Cardinality(S \ {x}) = Cardinality(S) - 1
  BY FS_RemoveElement
<1>3. IsFiniteSet(Below(R, S, x)) /\ Cardinality(Below(R, S, x)) <= Cardinality(S) - 1
  BY <1>1, <1>2, FS_Subset
<1>4. QED
  BY <1>3, FS_CardinalityType

\* Of two elements, the later one has more before it.
LEMMA RankIncreases ==
  ASSUME NEW S, IsFiniteSet(S), NEW R, StrictOrder(R, S),
         NEW x \in S, NEW y \in S, <<x, y>> \in R
  PROVE  Cardinality(Below(R, S, x)) < Cardinality(Below(R, S, y))
<1>1. x \notin Below(R, S, x) /\ IsFiniteSet(Below(R, S, x))
        /\ IsFiniteSet(Below(R, S, y))
  BY RankInRange DEF Below, StrictOrder
<1>2. Cardinality(Below(R, S, x) \cup {x}) = Cardinality(Below(R, S, x)) + 1
  BY <1>1, FS_AddElement
<1>3. Below(R, S, x) \cup {x} \in SUBSET Below(R, S, y)
  BY DEF Below, StrictOrder
<1>4. Cardinality(Below(R, S, x) \cup {x}) <= Cardinality(Below(R, S, y))
  BY <1>1, <1>3, FS_Subset
<1>5. QED
  BY <1>1, <1>2, <1>4, FS_CardinalityType

\* Two elements with as many before them are the same.
LEMMA RankDecides ==
  ASSUME NEW S, IsFiniteSet(S), NEW R, StrictOrder(R, S), NEW x \in S, NEW y \in S,
         Cardinality(Below(R, S, x)) = Cardinality(Below(R, S, y))
  PROVE  x = y
<1>1. Cardinality(Below(R, S, x)) \in Nat /\ Cardinality(Below(R, S, y)) \in Nat
  BY RankInRange, FS_CardinalityType
<1>2. <<x, y>> \notin R /\ <<y, x>> \notin R
  BY <1>1, RankIncreases
<1>3. QED
  BY <1>2 DEF StrictOrder

\* Every number below the size of the set is the rank of an element.
LEMMA RankExists ==
  ASSUME NEW S, IsFiniteSet(S), NEW R, StrictOrder(R, S),
         NEW n \in 0..(Cardinality(S) - 1)
  PROVE  \E x \in S : Cardinality(Below(R, S, x)) = n
<1> DEFINE Ranks == 0..(Cardinality(S) - 1)
           r == [x \in S |-> Cardinality(Below(R, S, x))]
<1>1. Cardinality(S) \in Nat
  BY FS_CardinalityType
<1>2. IsFiniteSet(Ranks) /\ Cardinality(Ranks) = Cardinality(S)
  BY <1>1, FS_Interval
<1>3. r \in [S -> Ranks]
  BY RankInRange
<1>4. \A x, y \in S : r[x] = r[y] => x = y
  BY RankDecides
<1>5. r \in Injection(S, Ranks)
  BY <1>3, <1>4 DEF Injection, IsInjective
<1>6. r \in Surjection(S, Ranks)
  BY <1>2, <1>5, FS_Injection
<1>7. QED
  BY <1>6 DEF Surjection

\* A finite set that is not empty has a first element.
LEMMA FirstExists ==
  ASSUME NEW S, IsFiniteSet(S), NEW R, StrictOrder(R, S), S # {}
  PROVE  \E x \in S : \A y \in S \ {x} : <<x, y>> \in R
<1>1. Cardinality(S) \in Nat /\ Cardinality(S) # 0
  BY FS_CardinalityType, FS_EmptySet
<1>2. PICK x \in S : Cardinality(Below(R, S, x)) = 0
  BY <1>1, RankExists
<1>3. Below(R, S, x) = {}
  BY <1>2, RankInRange, FS_EmptySet
<1>4. QED
  BY <1>3 DEF Below, StrictOrder

\* A set of numbers that is not empty has a smallest one.
LEMMA SmallestExists ==
  ASSUME NEW T \in SUBSET Nat, T # {}
  PROVE  \E x \in T : \A y \in T : x <= y
<1>1. PICK t \in T : TRUE
  OBVIOUS
<1> DEFINE S == {x \in T : x <= t}
           R == {p \in S \X S : p[1] < p[2]}
<1>2. S \in SUBSET (0..t) /\ IsFiniteSet(0..t)
  <2>1. t \in Nat /\ 0 \in Int /\ t \in Int
    OBVIOUS
  <2>2. \A x \in S : x \in 0..t
    BY <2>1
  <2>3. QED
    BY <2>1, <2>2, FS_Interval
<1>3. IsFiniteSet(S) /\ S # {} /\ S \in SUBSET Nat
  BY <1>1, <1>2, FS_Subset
<1>4. \A x, y \in S : <<x, y>> \in R <=> x < y
  OBVIOUS
<1>5. \A x \in T : x \in S \/ x > t
  OBVIOUS
<1>6. \A x \in S : x \in T /\ x <= t
  OBVIOUS
<1> HIDE DEF R, S
<1>7. StrictOrder(R, S)
  BY <1>3, <1>4 DEF StrictOrder
<1>8. PICK x \in S : \A y \in S \ {x} : <<x, y>> \in R
  BY <1>3, <1>7, FirstExists, Zenon
<1>9. ASSUME NEW y \in T PROVE x <= y
  <2>1. x \in Nat /\ y \in Nat /\ t \in Nat /\ x <= t
    BY <1>3, <1>6
  <2>2. CASE y \in S \ {x}
    <3>1. x < y
      BY <1>4, <1>8, <2>2
    <3>2. QED
      BY <2>1, <3>1
  <2>3. CASE y = x
    BY <2>1, <2>3
  <2>4. CASE y > t
    BY <2>1, <2>4
  <2>5. QED
    BY <1>5, <2>2, <2>3, <2>4
<1>10. QED
  BY <1>6, <1>9

\* Max finds the largest of finitely many indexes.
LEMMA MaxIs ==
  ASSUME NEW S \in SUBSET Nat, IsFiniteSet(S)
  PROVE  /\ Max(S \cup {0}) \in S \cup {0}
         /\ \A y \in S \cup {0} : y <= Max(S \cup {0})
<1> DEFINE T == S \cup {0}
           R == {p \in T \X T : p[1] > p[2]}
<1>1. IsFiniteSet(T) /\ T # {} /\ T \in SUBSET Nat
  BY FS_AddElement
<1>2. \A x, y \in T : <<x, y>> \in R <=> x > y
  OBVIOUS
<1> HIDE DEF R, T
<1>3. StrictOrder(R, T)
  BY <1>1, <1>2 DEF StrictOrder
<1>4. PICK x \in T : \A y \in T \ {x} : <<x, y>> \in R
  BY <1>1, <1>3, FirstExists, Zenon
<1>5. ASSUME NEW y \in T PROVE x >= y
  <2>1. CASE y = x
    BY <1>1, <2>1
  <2>2. CASE y # x
    <3>1. <<x, y>> \in R
      BY <1>4, <2>2
    <3>2. x > y
      BY <1>2, <3>1
    <3>3. QED
      BY <1>1, <3>2
  <2>3. QED
    BY <2>1, <2>2
<1>6. Max(T) \in T /\ \A y \in T : Max(T) >= y
  BY <1>5 DEF Max
<1>7. QED
  BY <1>1, <1>6 DEF T

\* Fewer indexes have no larger one.
LEMMA MaxMonotone ==
  ASSUME NEW S \in SUBSET Nat, IsFiniteSet(S), NEW T \in SUBSET S
  PROVE  Max(T \cup {0}) <= Max(S \cup {0})
<1>1. IsFiniteSet(T) /\ T \in SUBSET Nat
  BY FS_Subset
<1>2. Max(T \cup {0}) \in S \cup {0}
  BY <1>1, MaxIs
<1>3. QED
  BY <1>2, MaxIs
-----------------------------------------------------------------------------
\* What the transformation does to a domain.

\* A domain has finitely many controllers, each with an index of its own.
Controlled(d) ==
  /\ d \in [ports : SUBSET (Nat \ {0}), bridges : SUBSET (Nat \ {0}),
            device : [Bays -> Kinds]]
  /\ IsFiniteSet(d.ports) /\ IsFiniteSet(d.bridges) /\ d.ports \cap d.bridges = {}

\* The kind of device that 04 takes away.
Unwanted(kind, cardProfiled) ==
  kind \in {"serial", "usb"} \/ (cardProfiled /\ kind = "video")

\* The transformed domain, part by part.
LEMMA TransformedIs ==
  ASSUME NEW d, Controlled(d), NEW c
  PROVE  LET r == Transformed(d, c)
             used == Used(Stripped(d))
         IN /\ r \in [ports : SUBSET (Nat \ {0}), bridges : SUBSET (Nat \ {0}),
                      device : [Bays -> Kinds]]
            /\ r.bridges = d.bridges \cap used
            /\ r.ports = {i \in d.ports : \/ i < FirstFiller \/ i \in used
                                          \/ i < FillerLimit(r)}
            /\ r.device = [b \in Bays |-> IF Unwanted(d.device[b], c) THEN "none"
                                          ELSE d.device[b]]
            /\ used = {b \in Bays : d.device[b] \notin {"none", "serial", "usb"}}
<1> DEFINE s == Stripped(d)
           e == WithoutEmptyBridges(s)
           n == Normalized(s)
           r == Transformed(d, c)
           used == {b \in Bays : d.device[b] \notin {"none", "serial", "usb"}}
           Type == [ports : SUBSET (Nat \ {0}), bridges : SUBSET (Nat \ {0}),
                    device : [Bays -> Kinds]]
<1>1. d \in Type /\ d.device \in [Bays -> Kinds] /\ "none" \in Kinds
  BY DEF Controlled, Kinds, RoleOf
<1>2. /\ s \in Type /\ s.ports = d.ports /\ s.bridges = d.bridges
      /\ s.device = [b \in Bays |-> IF d.device[b] \in {"serial", "usb"} THEN "none"
                                    ELSE d.device[b]]
  BY <1>1 DEF Stripped
<1>3. Used(s) = used
  BY <1>1, <1>2 DEF Used
<1> HIDE DEF s
<1>4. /\ e \in Type /\ e.ports = d.ports /\ e.bridges = d.bridges \cap used
      /\ e.device = s.device
  BY <1>2, <1>3 DEF WithoutEmptyBridges
<1> HIDE DEF e
<1>5. Used(e) = used
  BY <1>3, <1>4 DEF Used
<1>6. KeptPorts(e) = {i \in d.ports : i < FirstFiller \/ i \in used \/ i < FillerLimit(e)}
  BY <1>4, <1>5 DEF KeptPorts
<1>7. n = [e EXCEPT !.ports = KeptPorts(e)]
  BY DEF Normalized, e
<1>8. /\ n \in Type /\ n.ports = KeptPorts(e) /\ n.bridges = e.bridges
      /\ n.device = e.device
  BY <1>4, <1>6, <1>7
<1>9. r = IF c THEN [n EXCEPT !.device = [b \in DOMAIN n.device |->
                       IF n.device[b] = "video" THEN "none" ELSE n.device[b]]]
          ELSE n
  BY DEF Transformed, s
<1> HIDE DEF n, r
<1>10. /\ r \in Type /\ r.ports = n.ports /\ r.bridges = n.bridges
       /\ r.device = [b \in Bays |-> IF c /\ n.device[b] = "video" THEN "none"
                                     ELSE n.device[b]]
  <2>1. CASE c
    BY <1>1, <1>8, <1>9, <2>1
  <2>2. CASE ~c
    BY <1>8, <1>9, <2>2
  <2>3. QED
    BY <2>1, <2>2
<1>11. FillerLimit(r) = FillerLimit(e)
  BY <1>8, <1>10 DEF FillerLimit
<1>12. r.device = [b \in Bays |-> IF Unwanted(d.device[b], c) THEN "none"
                                  ELSE d.device[b]]
  BY <1>2, <1>4, <1>8, <1>10 DEF Unwanted
<1>13. QED
  BY <1>3, <1>4, <1>6, <1>8, <1>10, <1>11, <1>12 DEF s, r

\* What the parts of the transformed domain amount to.
LEMMA TransformedKeeps ==
  ASSUME NEW d, Controlled(d), Possible(d), NEW c
  PROVE  LET r == Transformed(d, c)
         IN /\ Controlled(r) /\ Possible(r)
            /\ Hostdevs(r) = Hostdevs(d)
            /\ Used(r) \subseteq Used(d)
            /\ FillerLimit(r) \in Nat /\ FillerLimit(d) \in Nat
            /\ FillerLimit(r) <= FillerLimit(d)
            /\ r.ports \subseteq KeptPorts(d)
<1> DEFINE r == Transformed(d, c)
           used == Used(Stripped(d))
<1>1. /\ r \in [ports : SUBSET (Nat \ {0}), bridges : SUBSET (Nat \ {0}),
                device : [Bays -> Kinds]]
      /\ r.bridges = d.bridges \cap used
      /\ r.ports = {i \in d.ports : i < FirstFiller \/ i \in used \/ i < FillerLimit(r)}
      /\ r.device = [b \in Bays |-> IF Unwanted(d.device[b], c) THEN "none"
                                    ELSE d.device[b]]
      /\ used = {b \in Bays : d.device[b] \notin {"none", "serial", "usb"}}
  BY TransformedIs
<1> HIDE DEF r, used
<1>2. d.device \in [Bays -> Kinds] /\ d.ports \subseteq Nat /\ d.bridges \in SUBSET Nat
        /\ IsFiniteSet(d.bridges) /\ IsFiniteSet(d.ports)
  BY DEF Controlled
<1>3. Used(r) \subseteq used /\ used \subseteq Used(d)
  <2>1. ASSUME NEW b \in Used(r) PROVE b \in used
    <3>1. b \in DOMAIN r.device /\ r.device[b] # "none"
      BY DEF Used
    <3>2. b \in Bays
      BY <1>1, <3>1
    <3>3. r.device[b] = IF Unwanted(d.device[b], c) THEN "none" ELSE d.device[b]
      BY <1>1, <3>2
    <3>4. d.device[b] \notin {"none", "serial", "usb"}
      BY <3>1, <3>3 DEF Unwanted
    <3>5. QED
      BY <1>1, <3>2, <3>4
  <2>2. used \subseteq Used(d)
    BY <1>1, <1>2 DEF Used
  <2>3. QED
    BY <2>1, <2>2
<1>4. /\ r.bridges \in SUBSET d.bridges /\ r.ports \in SUBSET d.ports
      /\ IsFiniteSet(r.bridges) /\ IsFiniteSet(r.ports)
  BY <1>1, <1>2, FS_Subset
<1>5. Controlled(r)
  BY <1>1, <1>4 DEF Controlled
<1>6. /\ FillerLimit(r) \in Nat /\ FillerLimit(d) \in Nat
      /\ FillerLimit(r) <= FillerLimit(d)
  <2>1. FillerLimit(r) <= FillerLimit(d)
    BY <1>2, <1>4, MaxMonotone DEF FillerLimit
  <2>2. FillerLimit(r) \in r.bridges \cup {0} /\ FillerLimit(d) \in d.bridges \cup {0}
    BY <1>2, <1>4, MaxIs DEF FillerLimit
  <2>3. QED
    BY <1>2, <1>4, <2>1, <2>2
<1>7. r.ports \subseteq KeptPorts(d)
  BY <1>1, <1>2, <1>3, <1>6 DEF KeptPorts
<1>8. Used(r) \subseteq r.ports \cup r.bridges
  BY <1>1, <1>3 DEF Possible
<1>9. \A b \in Used(r) : b \in Used(d) /\ r.device[b] = d.device[b]
  BY <1>1, <1>2 DEF Used
<1>10. Possible(r)
  BY <1>8, <1>9 DEF Possible
<1>11. \A b \in Used(d) : d.device[b] \in PassedThrough
                           => b \in Used(r) /\ r.device[b] = d.device[b]
  BY <1>1, <1>2 DEF Used, PassedThrough, Unwanted
<1>12. Hostdevs(r) = Hostdevs(d)
  BY <1>9, <1>11 DEF Hostdevs
<1>13. QED
  BY <1>3, <1>5, <1>6, <1>7, <1>9, <1>10, <1>12 DEF r

\* The last controller of a domain.
Top(d) == Max(d.ports \cup d.bridges \cup {0})

\* libvirt adds ports without a device, below the last controller.
LEMMA DefinedIs ==
  ASSUME NEW r, Controlled(r), Possible(r)
  PROVE  LET e == Defined(r)
         IN /\ Controlled(e) /\ Possible(e)
            /\ e.bridges = r.bridges /\ e.device = r.device
            /\ e.ports = 1..Top(r) \ r.bridges /\ r.ports \subseteq e.ports
            /\ Top(e) = Top(r) /\ Top(r) \in r.ports \cup r.bridges \cup {0}
<1> DEFINE e == Defined(r)
           S == r.ports \cup r.bridges
           T == e.ports \cup e.bridges
<1>1. /\ e.bridges = r.bridges /\ e.device = r.device
      /\ e.ports = 1..Top(r) \ r.bridges
      /\ e = [ports |-> e.ports, bridges |-> e.bridges, device |-> e.device]
  BY DEF Controlled, Defined, Top
<1> HIDE DEF e
<1>2. S \in SUBSET Nat /\ IsFiniteSet(S) /\ r.ports \subseteq Nat \ {0}
        /\ r.bridges \subseteq Nat \ {0} /\ r.device \in [Bays -> Kinds]
  BY FS_Union DEF Controlled
<1>3. Top(r) \in S \cup {0} /\ \A y \in S \cup {0} : y <= Top(r)
  BY <1>2, MaxIs DEF Top
<1>4. Top(r) \in Nat
  BY <1>2, <1>3
<1>5. r.ports \subseteq e.ports
  BY <1>1, <1>2, <1>3, <1>4 DEF Controlled
<1>6. IsFiniteSet(e.ports) /\ e.ports \subseteq Nat \ {0}
  <2>1. IsFiniteSet(1..Top(r)) /\ e.ports \in SUBSET (1..Top(r))
    BY <1>1, <1>4, FS_Interval
  <2>2. QED
    BY <1>1, <1>4, <2>1, FS_Subset
<1>7. Controlled(e)
  BY <1>1, <1>2, <1>6 DEF Controlled
<1>8. T \in SUBSET Nat /\ IsFiniteSet(T)
  BY <1>1, <1>2, <1>6, FS_Union DEF Controlled
<1>9. Top(e) \in T \cup {0} /\ \A y \in T \cup {0} : y <= Top(e)
  BY <1>8, MaxIs DEF Top
<1>10. \A y \in T \cup {0} : y <= Top(r)
  BY <1>1, <1>2, <1>3, <1>4
<1>11. Top(r) \in T \cup {0}
  BY <1>1, <1>3, <1>5
<1>12. Top(e) = Top(r)
  <2>1. Top(e) \in Nat /\ Top(e) <= Top(r) /\ Top(r) <= Top(e)
    BY <1>8, <1>9, <1>10, <1>11
  <2>2. QED
    BY <1>4, <2>1
<1>13. Possible(e)
  BY <1>1, <1>5 DEF Possible, Used
<1>14. QED
  BY <1>1, <1>3, <1>5, <1>7, <1>12, <1>13 DEF e
-----------------------------------------------------------------------------
\* The inductive invariant.

WellFormed == Controlled(domain) /\ Possible(domain)

\* The profile still describes the domain.
Fresh == profile # NoProfile /\ ~edited

\* Its memory, and the devices passed through.
SameMachine ==
  Fresh => memory = profile.memory /\ Hostdevs(domain) = profile.hostdevs

\* Listed ports that libvirt did not add have what was listed, or have lost
\* the emulated USB controller.
RolesStand ==
  Fresh => \A i \in (domain.ports \cap DOMAIN profile.role) \ added :
             RoleAccepted(domain, profile, i)

\* 04 would keep no port that was neither listed nor added,
KeptAreListed == Fresh => KeptPorts(domain) \ added \subseteq DOMAIN profile.role

\* what was added has no device,
AddedUnused == Fresh => added \cap Used(domain) = {}

\* and a listed port that 04 keeps for its place is not one of those.
ListedStay ==
  Fresh => \A i \in DOMAIN profile.role :
             i < FirstFiller \/ i < FillerLimit(domain) => i \in domain.ports \ added

\* What 04 defined has no device that 04 takes away, no gap between its
\* controllers, and 04 keeps the last one.
Settled ==
  outcome = "applied" =>
    /\ \A b \in Bays : ~Unwanted(domain.device[b], "card" \in profile.hostdevs)
    /\ domain.ports = 1..Top(domain) \ domain.bridges
    /\ Fresh => Top(domain) \in KeptPorts(domain) \cup domain.bridges \cup {0}

\* Ports are listed by their indexes.
ListedAreIndexes == Fresh => DOMAIN profile.role \subseteq Nat

\* Nothing is in the way of what 04 has just defined.
Unobstructed ==
  outcome = "applied" =>
    /\ "cpus" \notin blocked /\ "hda" \notin blocked
    /\ "xhci" \in blocked => XhciReplaced(domain)

Inv == WellFormed /\ SameMachine /\ RolesStand /\ KeptAreListed /\ AddedUnused
         /\ ListedStay /\ ListedAreIndexes /\ Settled /\ Unobstructed

\* What 04 makes of the domain before it looks at the profile.
Result == Transformed(domain, "card" \in profile.hostdevs)

\* The bridges of a domain decide which ports are kept for their place only.
LEMMA LimitInNat ==
  ASSUME NEW d, Controlled(d)
  PROVE  FillerLimit(d) \in Nat
<1>1. d.bridges \in SUBSET Nat /\ IsFiniteSet(d.bridges)
  BY DEF Controlled
<1>2. QED
  BY <1>1, MaxIs DEF FillerLimit

\* 04 gives the reason of its first objection, and applies when it has none.
LEMMA VerdictIs ==
  ASSUME NEW d, NEW m, NEW p, NEW way
  PROVE  /\ Verdict(d, m, p, way) \in Objections(d, m, p, way) \cup {"applied"}
         /\ Verdict(d, m, p, way) = "applied" <=> Objections(d, m, p, way) = {}
<1> DEFINE objections == Objections(d, m, p, way)
<1>1. /\ objections \subseteq Refusals /\ "applied" \notin Refusals
      /\ \A r \in Refusals : CheckOrder[r] \in Nat
  BY DEF Objections, Refusals, CheckOrder
<1>2. Verdict(d, m, p, way) =
        IF objections = {} THEN "applied"
        ELSE CHOOSE r \in objections : \A q \in objections : CheckOrder[r] <= CheckOrder[q]
  BY DEF Verdict
<1> HIDE DEF objections
<1>3. ASSUME objections # {}
      PROVE  \E r \in objections : \A q \in objections : CheckOrder[r] <= CheckOrder[q]
  <2> DEFINE T == {CheckOrder[r] : r \in objections}
  <2>1. T \in SUBSET Nat /\ T # {}
    BY <1>1, <1>3
  <2>2. PICK x \in T : \A y \in T : x <= y
    <3> HIDE DEF T
    <3>1. QED
      BY <2>1, SmallestExists
  <2>3. QED
    BY <2>2
<1>4. QED
  BY <1>1, <1>2, <1>3 DEF objections

\* How a run of 04 ends is none of the ends of a run of 01.
LEMMA VerdictsOf04 ==
  ASSUME NEW d, NEW m, NEW p, NEW way
  PROVE  Verdict(d, m, p, way) \notin {"none", "recorded", "no layout", "no port"}
BY VerdictIs DEF Objections, Refusals, CheckOrder

\* With the memory and the passed through devices of the profile, 04 objects to
\* the ports and to what is in its way.
LEMMA ObjectionsLeft ==
  ASSUME NEW d, NEW m, NEW p, NEW way, m = p.memory, Hostdevs(d) = p.hostdevs,
         NEW r \in Objections(d, m, p, way)
  PROVE  \/ r = "cpus" /\ "cpus" \in way
         \/ r = "xhci" /\ "xhci" \in way /\ ~XhciReplaced(d)
         \/ r = "hda" /\ "hda" \in way
         \/ r = "role" /\ \E i \in d.ports \cap DOMAIN p.role : ~RoleAccepted(d, p, i)
         \/ r = "unprofiled" /\ ~(d.ports \subseteq DOMAIN p.role)
BY DEF Objections

\* 04 applies only when nothing is in its way, every port is listed and each
\* has what was listed.
LEMMA AppliedMeans ==
  ASSUME NEW d, NEW m, NEW p, NEW way, Verdict(d, m, p, way) = "applied"
  PROVE  /\ d.ports \subseteq DOMAIN p.role
         /\ \A i \in d.ports : RoleAccepted(d, p, i)
         /\ "cpus" \notin way /\ "hda" \notin way
         /\ "xhci" \in way => XhciReplaced(d)
<1>1. Objections(d, m, p, way) = {}
  BY VerdictIs
<1>2. {"cpus", "xhci", "hda", "role", "unprofiled"} \subseteq Refusals
  BY DEF Refusals, CheckOrder
<1>3. d.ports \subseteq DOMAIN p.role
  BY <1>1, <1>2 DEF Objections
<1>4. \A i \in d.ports \cap DOMAIN p.role : RoleAccepted(d, p, i)
  BY <1>1, <1>2 DEF Objections
<1>5. "cpus" \notin way /\ "hda" \notin way /\ ("xhci" \in way => XhciReplaced(d))
  BY <1>1, <1>2 DEF Objections
<1>6. QED
  BY <1>3, <1>4, <1>5

\* The ports 04 keeps: the first ones, those with a device that stays, and
\* those before the last bridge that stays.
LEMMA ResultPortsAre ==
  ASSUME Inv
  PROVE  /\ Result.ports = {i \in domain.ports : \/ i < FirstFiller
                                                \/ i \in Used(Stripped(domain))
                                                \/ i < FillerLimit(Result)}
         /\ Used(Stripped(domain)) =
              {b \in Bays : domain.device[b] \notin {"none", "serial", "usb"}}
<1>1. Controlled(domain)
  BY DEF Inv, WellFormed
<1>2. Result.ports = {i \in domain.ports : \/ i < FirstFiller
                                          \/ i \in Used(Stripped(domain))
                                          \/ i < FillerLimit(Result)}
  BY <1>1, TransformedIs, Zenon DEF Result
<1>3. Used(Stripped(domain)) =
        {b \in Bays : domain.device[b] \notin {"none", "serial", "usb"}}
  BY <1>1, TransformedIs, Zenon
<1>4. QED
  BY <1>2, <1>3

\* A port that libvirt added and that was not listed is the only one that 04
\* keeps without a profile.
LEMMA ResultPorts ==
  ASSUME Inv, Fresh
  PROVE  /\ Result.ports \subseteq domain.ports
         /\ Result.ports \cap added \cap DOMAIN profile.role = {}
         /\ Result.ports \ added \subseteq DOMAIN profile.role
<1> DEFINE c == "card" \in profile.hostdevs
<1>1. /\ Result.ports = {i \in domain.ports : \/ i < FirstFiller
                                              \/ i \in Used(Stripped(domain))
                                              \/ i < FillerLimit(Result)}
      /\ Used(Stripped(domain)) = {b \in Bays : domain.device[b] \notin {"none", "serial", "usb"}}
  BY ResultPortsAre
<1>2. /\ Result.ports \subseteq KeptPorts(domain)
      /\ FillerLimit(Result) \in Nat /\ FillerLimit(domain) \in Nat
      /\ FillerLimit(Result) <= FillerLimit(domain)
  BY TransformedKeeps DEF Inv, WellFormed, Result
<1>3. Used(Stripped(domain)) \subseteq Used(domain)
  BY <1>1 DEF Used, Inv, WellFormed, Controlled
<1>4. domain.ports \subseteq Nat
  BY DEF Inv, WellFormed, Controlled
<1>5. ASSUME NEW i \in Result.ports, i \in added, i \in DOMAIN profile.role
      PROVE  FALSE
  <2>1. i \notin Used(domain)
    BY <1>5 DEF Inv, AddedUnused
  <2>2. i < FirstFiller \/ i < FillerLimit(domain)
    BY <1>1, <1>2, <1>3, <1>4, <2>1
  <2>3. QED
    BY <1>5, <2>2 DEF Inv, ListedStay
<1>6. Result.ports \ added \subseteq DOMAIN profile.role
  BY <1>2 DEF Inv, KeptAreListed
<1>7. QED
  BY <1>1, <1>5, <1>6

\* Whatever 04 does to the devices, it looks for the same host devices.
LEMMA ResultDevices ==
  ASSUME Inv
  PROVE  /\ Controlled(Result) /\ Possible(Result)
         /\ Hostdevs(Result) = Hostdevs(domain)
         /\ XhciReplaced(Result) <=> XhciReplaced(domain)
         /\ Result.bridges = domain.bridges \cap Used(Stripped(domain))
         /\ Result.device = [b \in Bays |-> IF Unwanted(domain.device[b],
                                                        "card" \in profile.hostdevs)
                                            THEN "none" ELSE domain.device[b]]
<1>1. /\ Controlled(Result) /\ Possible(Result)
      /\ Hostdevs(Result) = Hostdevs(domain)
  BY TransformedKeeps DEF Inv, WellFormed, Result
<1>2. /\ Result.bridges = domain.bridges \cap Used(Stripped(domain))
      /\ Result.device = [b \in Bays |-> IF Unwanted(domain.device[b],
                                                     "card" \in profile.hostdevs)
                                         THEN "none" ELSE domain.device[b]]
  BY TransformedIs DEF Inv, WellFormed, Result
<1>3. QED
  BY <1>1, <1>2 DEF XhciReplaced

\* A role that stood before the transformation is accepted after it, unless 04
\* takes a device from its bus.
LEMMA RoleStaysAccepted ==
  ASSUME Inv, Fresh, NEW i, RoleAccepted(domain, profile, i),
         i \notin TakenAway(domain)
  PROVE  RoleAccepted(Result, profile, i)
<1> DEFINE c == "card" \in profile.hostdevs
<1>1. /\ XhciReplaced(Result) <=> XhciReplaced(domain)
      /\ Result.device = [b \in Bays |-> IF Unwanted(domain.device[b], c) THEN "none"
                                         ELSE domain.device[b]]
      /\ domain.device \in [Bays -> Kinds]
  BY ResultDevices DEF Inv, WellFormed, Controlled
<1>2. /\ RoleOf["none"] = "empty" /\ RoleOf["usb"] = "usb"
  BY DEF RoleOf
<1>3. CASE i \notin Bays
  <2>1. PortRole(Result, i) = PortRole(domain, i)
    BY <1>1, <1>3 DEF PortRole
  <2>2. QED
    BY <1>1, <2>1 DEF RoleAccepted
<1>4. CASE i \in Bays /\ ~Unwanted(domain.device[i], c)
  <2>1. PortRole(Result, i) = PortRole(domain, i)
    BY <1>1, <1>4 DEF PortRole
  <2>2. QED
    BY <1>1, <2>1 DEF RoleAccepted
<1>5. CASE i \in Bays /\ Unwanted(domain.device[i], c)
  <2>1. i \in Used(domain)
    BY <1>1, <1>5 DEF Used, Unwanted
  <2>2. (c <=> \E b \in Used(domain) : domain.device[b] = "card")
          /\ (XhciReplaced(domain) <=> \E b \in Used(domain) : domain.device[b] = "pch")
    <3>1. profile.hostdevs = Hostdevs(domain)
      BY DEF Inv, SameMachine
    <3>2. QED
      BY <3>1 DEF Hostdevs, XhciReplaced, PassedThrough
  <2>3. domain.device[i] = "usb" /\ ~XhciReplaced(domain)
    BY <1>5, <2>1, <2>2 DEF TakenAway, Unwanted
  <2>4. PortRole(domain, i) = "usb" /\ PortRole(Result, i) = "empty"
    BY <1>1, <1>2, <1>5, <2>3 DEF PortRole
  <2>5. profile.role[i] = "usb"
    BY <2>4 DEF RoleAccepted
  <2>6. QED
    BY <1>1, <2>3, <2>4, <2>5 DEF RoleAccepted
<1>6. QED
  BY <1>3, <1>4, <1>5

\* Why 04 refuses a domain that 01 recorded and nobody edited.
LEMMA RefusedForAReason ==
  ASSUME Inv, Fresh, NEW r, r = Verdict(Result, memory, profile, blocked)
  PROVE  \/ r = "applied"
         \/ r = "cpus" /\ "cpus" \in blocked
         \/ r = "xhci" /\ "xhci" \in blocked /\ ~XhciReplaced(domain)
         \/ r = "hda" /\ "hda" \in blocked
         \/ r = "role" /\ TakenAway(domain) # {}
         \/ r = "unprofiled" /\ added # {}
<1>1. /\ Hostdevs(Result) = profile.hostdevs /\ memory = profile.memory
      /\ XhciReplaced(Result) <=> XhciReplaced(domain)
  BY ResultDevices DEF Inv, SameMachine
<1>2. \/ r = "applied"
      \/ r = "cpus" /\ "cpus" \in blocked
      \/ r = "xhci" /\ "xhci" \in blocked /\ ~XhciReplaced(Result)
      \/ r = "hda" /\ "hda" \in blocked
      \/ r = "role" /\ \E i \in Result.ports \cap DOMAIN profile.role :
                           ~RoleAccepted(Result, profile, i)
      \/ r = "unprofiled" /\ ~(Result.ports \subseteq DOMAIN profile.role)
  <2>1. r \in Objections(Result, memory, profile, blocked) \cup {"applied"}
    BY VerdictIs
  <2>2. QED
    BY <1>1, <2>1, ObjectionsLeft
<1>3. ASSUME NEW i \in Result.ports \cap DOMAIN profile.role, TakenAway(domain) = {}
      PROVE  RoleAccepted(Result, profile, i)
  <2>1. i \in (domain.ports \cap DOMAIN profile.role) \ added
    BY ResultPorts
  <2>2. RoleAccepted(domain, profile, i)
    BY <2>1 DEF Inv, RolesStand
  <2>3. QED
    BY <1>3, <2>2, RoleStaysAccepted
<1>4. added = {} => Result.ports \subseteq DOMAIN profile.role
  BY ResultPorts
<1>5. QED
  BY <1>1, <1>2, <1>3, <1>4
-----------------------------------------------------------------------------
\* The invariant holds.

\* What a run of 04 does, in terms of the transformed domain.
LEMMA ApplyIs ==
  ASSUME Apply
  PROVE  /\ profile # NoProfile
         /\ outcome' = Verdict(Result, memory, profile, blocked)
         /\ UNCHANGED <<memory, blocked, profile, edited, edits>>
         /\ outcome' = "applied" => /\ domain' = Defined(Result)
                                    /\ added' = domain'.ports \ Result.ports
         /\ outcome' # "applied" => UNCHANGED <<domain, added>>
BY DEF Apply, Result

\* A run of 01 replaces the profile, or changes nothing but its outcome.
LEMMA GenerateIs ==
  ASSUME Generate
  PROVE  /\ outcome' \in {"no layout", "no port", "recorded"}
         /\ UNCHANGED <<domain, memory, blocked, edits>>
         /\ outcome' # "recorded" => UNCHANGED <<profile, edited, added>>
         /\ outcome' = "recorded" =>
              /\ profile'.memory = memory /\ profile'.hostdevs = Hostdevs(domain)
              /\ profile'.role = ListedPorts(domain)
              /\ profile'.host = Assign(ListedPorts(domain))
              /\ DOMAIN Assign(ListedPorts(domain)) = DOMAIN ListedPorts(domain)
              /\ added' = {}
<1> DEFINE roles == ListedPorts(domain)
           hosts == Assign(roles)
<1>1. /\ outcome' = IF Layouts[memory] = NoLayout THEN "no layout"
                    ELSE IF roles = <<>> \/ DOMAIN hosts # DOMAIN roles THEN "no port"
                    ELSE "recorded"
      /\ UNCHANGED <<domain, memory, blocked, edits>>
      /\ outcome' # "recorded" => UNCHANGED <<profile, edited, added>>
  BY DEF Generate
<1>2. outcome' = "recorded" =>
        /\ profile' = [memory |-> memory, layout |-> Layouts[memory], role |-> roles,
                       host |-> hosts, hostdevs |-> Hostdevs(domain)]
        /\ added' = {}
  BY DEF Generate
<1> HIDE DEF roles, hosts
<1>3. outcome' \in {"no layout", "no port", "recorded"}
  BY <1>1
<1>4. outcome' = "recorded" => DOMAIN hosts = DOMAIN roles
  BY <1>1
<1>5. outcome' = "recorded" =>
        /\ profile'.memory = memory /\ profile'.hostdevs = Hostdevs(domain)
        /\ profile'.role = roles /\ profile'.host = hosts /\ added' = {}
  BY <1>2
<1>6. QED
  BY <1>1, <1>3, <1>4, <1>5 DEF roles, hosts

\* The domains the owner starts from.
LEMMA InitInv == Init => Inv
<1> SUFFICES ASSUME Init PROVE Inv
  OBVIOUS
<1>1. Controlled(domain) /\ Possible(domain)
  BY DomainsAssumption DEF Init, Controlled
<1>2. profile = NoProfile /\ outcome = "none"
  BY DEF Init
<1>3. QED
  BY <1>1, <1>2 DEF Inv, WellFormed, SameMachine, RolesStand, KeptAreListed,
                    AddedUnused, ListedStay, ListedAreIndexes, Settled, Unobstructed,
                    Fresh

\* 01 describes the domain as it is.
LEMMA GenerateInv ==
  ASSUME Inv, Generate
  PROVE  Inv'
<1>1. /\ UNCHANGED <<domain, memory>> /\ outcome' \in {"no layout", "no port", "recorded"}
      /\ WellFormed' /\ Settled' /\ Unobstructed'
  BY GenerateIs DEF Inv, WellFormed, Controlled, Possible, Used, Settled, Unobstructed
<1>2. CASE outcome' # "recorded"
  <2>1. UNCHANGED <<profile, edited, added>>
    BY <1>2, GenerateIs
  <2>2. Fresh' <=> Fresh
    BY <2>1 DEF Fresh
  <2>3. SameMachine' /\ KeptAreListed' /\ AddedUnused' /\ ListedStay' /\ ListedAreIndexes'
    BY <1>1, <2>1, <2>2
       DEF Inv, SameMachine, KeptAreListed, AddedUnused, ListedStay, ListedAreIndexes
  <2>4. RolesStand'
    BY <1>1, <2>1, <2>2 DEF Inv, RolesStand
  <2>5. QED
    BY <1>1, <2>3, <2>4 DEF Inv
<1>3. CASE outcome' = "recorded"
  <2>1. /\ profile'.memory = memory /\ profile'.hostdevs = Hostdevs(domain)
        /\ profile'.role = ListedPorts(domain) /\ added' = {}
    BY <1>3, GenerateIs
  <2>2. /\ DOMAIN profile'.role = KeptPorts(domain)
        /\ \A i \in KeptPorts(domain) : profile'.role[i] = PortRole(domain, i)
    BY <2>1 DEF ListedPorts
  <2>3. KeptPorts(domain) \subseteq domain.ports
    BY DEF KeptPorts
  <2>4. SameMachine'
    BY <1>1, <2>1 DEF SameMachine
  <2>5. RolesStand'
    BY <1>1, <2>1, <2>2 DEF RolesStand, RoleAccepted
  <2>6. KeptAreListed' /\ AddedUnused' /\ ListedStay' /\ ListedAreIndexes'
    BY <1>1, <2>1, <2>2, <2>3
       DEF KeptAreListed, AddedUnused, ListedStay, ListedAreIndexes, Inv, WellFormed,
           Controlled
  <2>7. QED
    BY <1>1, <2>4, <2>5, <2>6 DEF Inv
<1>4. QED
  BY <1>2, <1>3

\* A bus without a device in the transformed domain has the role "empty"; the
\* roles depend on the devices only.
LEMMA SameDevices ==
  ASSUME NEW d, NEW e, d.device = e.device
  PROVE  /\ Used(d) = Used(e) /\ Hostdevs(d) = Hostdevs(e)
         /\ \A i : PortRole(d, i) = PortRole(e, i)
         /\ \A p, i : RoleAccepted(d, p, i) <=> RoleAccepted(e, p, i)
<1>1. /\ Used(d) = Used(e) /\ \A i : PortRole(d, i) = PortRole(e, i)
  BY DEF Used, PortRole
<1>2. Hostdevs(d) = Hostdevs(e)
  BY <1>1 DEF Hostdevs
<1>3. QED
  BY <1>1, <1>2 DEF RoleAccepted, XhciReplaced

\* The last controller of what 04 makes is one that 04 keeps again.
LEMMA LastStays ==
  ASSUME Inv, Fresh, NEW e, e = Defined(Result),
         \A i \in Result.ports : i \in DOMAIN profile.role /\ RoleAccepted(Result, profile, i)
  PROVE  Top(e) \in KeptPorts(e) \cup e.bridges \cup {0}
<1>1. /\ Controlled(Result) /\ Possible(Result)
      /\ Result.device = [b \in Bays |-> IF Unwanted(domain.device[b],
                                                     "card" \in profile.hostdevs)
                                         THEN "none" ELSE domain.device[b]]
  BY ResultDevices
<1>2. /\ e.bridges = Result.bridges /\ e.device = Result.device
      /\ Result.ports \subseteq e.ports
      /\ Top(e) = Top(Result) /\ Top(Result) \in Result.ports \cup Result.bridges \cup {0}
  BY <1>1, DefinedIs
<1>3. Controlled(domain) /\ domain.device \in [Bays -> Kinds]
  BY DEF Inv, WellFormed, Controlled
<1>4. Result.ports = {i \in domain.ports : \/ i < FirstFiller
                                          \/ i \in Used(Stripped(domain))
                                          \/ i < FillerLimit(Result)}
  BY ResultPortsAre
<1>5. Used(Stripped(domain)) = {b \in Bays : domain.device[b] \notin {"none", "serial", "usb"}}
  BY ResultPortsAre
<1>6. ~(Top(Result) < FillerLimit(Result))
  <2> DEFINE S == Result.ports \cup Result.bridges
  <2>1. S \in SUBSET Nat /\ IsFiniteSet(S) /\ Result.bridges \in SUBSET S
    BY <1>1, FS_Union DEF Controlled
  <2>2. FillerLimit(Result) <= Top(Result)
    BY <2>1, MaxMonotone DEF FillerLimit, Top
  <2>3. Top(Result) \in Nat
    BY <1>2, <2>1
  <2>4. QED
    BY <1>1, <2>2, <2>3, LimitInNat
<1>7. ASSUME NEW i \in Result.ports, i = Top(Result)
      PROVE  i \in KeptPorts(e)
  <2>1. i < FirstFiller \/ i \in Used(Stripped(domain))
    BY <1>4, <1>6, <1>7
  <2>2. CASE i < FirstFiller
    BY <1>2, <2>2 DEF KeptPorts
  <2>3. CASE i \in Used(Stripped(domain))
    <3>1. i \in Bays /\ domain.device[i] \notin {"none", "serial", "usb"}
      BY <1>5, <2>3
    <3>2. CASE Unwanted(domain.device[i], "card" \in profile.hostdevs)
      <4>1. domain.device[i] = "video" /\ i \in Used(domain)
        BY <1>3, <3>1, <3>2 DEF Unwanted, Used
      <4>2. i \in (domain.ports \cap DOMAIN profile.role) \ added
        BY <1>4, <1>7, <4>1 DEF Inv, AddedUnused
      <4>3. RoleAccepted(domain, profile, i) /\ RoleAccepted(Result, profile, i)
        BY <1>7, <4>2 DEF Inv, RolesStand
      <4>4. PortRole(domain, i) = "gpu"
        BY <1>3, <3>1, <4>1 DEF PortRole, RoleOf
      <4>5. PortRole(Result, i) = "empty"
        BY <1>1, <3>1, <3>2 DEF PortRole, RoleOf
      <4>6. QED
        BY <4>3, <4>4, <4>5 DEF RoleAccepted
    <3>3. CASE ~Unwanted(domain.device[i], "card" \in profile.hostdevs)
      <4>1. e.device[i] # "none" /\ i \in DOMAIN e.device
        BY <1>1, <1>2, <3>1, <3>3
      <4>2. i \in Used(e)
        BY <4>1 DEF Used
      <4>3. QED
        BY <1>2, <4>2 DEF KeptPorts
    <3>4. QED
      BY <3>2, <3>3
  <2>4. QED
    BY <2>1, <2>2, <2>3
<1>8. QED
  BY <1>2, <1>7

\* 04 defines a domain that the profile describes.
LEMMA AppliedInv ==
  ASSUME Inv, Apply, outcome' = "applied"
  PROVE  Inv'
<1> DEFINE c == "card" \in profile.hostdevs
<1>1. /\ Verdict(Result, memory, profile, blocked) = "applied"
      /\ UNCHANGED <<memory, blocked, profile, edited>>
      /\ domain' = Defined(Result) /\ added' = domain'.ports \ Result.ports
  BY ApplyIs
<1>2. \A i \in Result.ports : i \in DOMAIN profile.role /\ RoleAccepted(Result, profile, i)
  BY <1>1, AppliedMeans
<1>3. /\ Controlled(Result) /\ Possible(Result) /\ Hostdevs(Result) = Hostdevs(domain)
      /\ Result.device = [b \in Bays |-> IF Unwanted(domain.device[b], c) THEN "none"
                                         ELSE domain.device[b]]
  BY ResultDevices
<1>4. /\ Controlled(domain') /\ Possible(domain')
      /\ domain'.bridges = Result.bridges /\ domain'.device = Result.device
      /\ domain'.ports = 1..Top(Result) \ Result.bridges
      /\ Result.ports \subseteq domain'.ports /\ Top(domain') = Top(Result)
  BY <1>1, <1>3, DefinedIs
<1>5. /\ Used(domain') = Used(Result) /\ Hostdevs(domain') = Hostdevs(domain)
      /\ \A i : RoleAccepted(domain', profile, i) <=> RoleAccepted(Result, profile, i)
  BY <1>3, <1>4, SameDevices
<1>6. WellFormed'
  BY <1>4 DEF WellFormed
<1>7. SameMachine'
  BY <1>1, <1>5 DEF SameMachine, Fresh, Inv
<1>8. RolesStand'
  BY <1>1, <1>2, <1>5 DEF RolesStand
<1>9. KeptAreListed'
  BY <1>1, <1>2 DEF KeptAreListed, KeptPorts
<1>10. AddedUnused'
  BY <1>1, <1>3, <1>4, <1>5 DEF AddedUnused, Possible
<1>11. ListedStay'
  <2>1. SUFFICES ASSUME Fresh, NEW i \in DOMAIN profile.role,
                        i < FirstFiller \/ i < FillerLimit(domain')
                 PROVE  i \in Result.ports
    BY <1>1, <1>4 DEF ListedStay, Fresh
  <2>2. FillerLimit(domain') = FillerLimit(Result)
    BY <1>4 DEF FillerLimit
  <2>3. /\ Controlled(domain) /\ Possible(domain)
    BY DEF Inv, WellFormed
  <2>4. /\ FillerLimit(Result) \in Nat /\ FillerLimit(domain) \in Nat
        /\ FillerLimit(Result) <= FillerLimit(domain)
    BY <2>3, TransformedKeeps DEF Result
  <2>5. i \in domain.ports
    <3>1. CASE i < FirstFiller
      BY <2>1, <3>1 DEF Inv, ListedStay
    <3>2. CASE i < FillerLimit(Result)
      <4>1. DOMAIN profile.role \subseteq Nat
        BY <2>1 DEF Inv, ListedAreIndexes
      <4>2. QED
        BY <2>1, <2>4, <3>2, <4>1 DEF Inv, ListedStay
    <3>3. QED
      BY <2>1, <2>2, <3>1, <3>2
  <2>6. Result.ports = {j \in domain.ports : \/ j < FirstFiller
                                             \/ j \in Used(Stripped(domain))
                                             \/ j < FillerLimit(Result)}
    BY ResultPortsAre
  <2>7. QED
    BY <2>1, <2>2, <2>5, <2>6
<1>12. Settled'
  <2>1. ASSUME NEW b \in Bays PROVE ~Unwanted(domain'.device[b], c)
    BY <1>3, <1>4 DEF Unwanted
  <2>2. Fresh' => Top(domain') \in KeptPorts(domain') \cup domain'.bridges \cup {0}
    BY <1>1, <1>2, LastStays DEF Fresh
  <2>3. QED
    BY <1>1, <1>4, <2>1, <2>2 DEF Settled
<1>13. ListedAreIndexes'
  BY <1>1 DEF Inv, ListedAreIndexes, Fresh
<1>14. Unobstructed'
  <2>1. /\ "cpus" \notin blocked /\ "hda" \notin blocked
        /\ "xhci" \in blocked => XhciReplaced(Result)
    BY <1>1, AppliedMeans
  <2>2. Hostdevs(domain') = Hostdevs(Result)
    BY <1>3, <1>5
  <2>3. XhciReplaced(domain') <=> XhciReplaced(Result)
    BY <2>2 DEF XhciReplaced
  <2>4. QED
    BY <1>1, <2>1, <2>3 DEF Unobstructed
<1>15. QED
  BY <1>6, <1>7, <1>8, <1>9, <1>10, <1>11, <1>12, <1>13, <1>14 DEF Inv

\* An edit makes the profile stale, and keeps the domain one.
LEMMA EditInv ==
  ASSUME Inv, \/ \E b \in Bays, k \in Kinds : EditDevice(b, k)
              \/ \E m \in Totals : EditMemory(m)
              \/ \E c \in {"xhci", "hda"} : EditRootBus(c)
  PROVE  Inv'
<1>1. WellFormed'
  <2>1. ASSUME NEW b \in Bays, NEW k \in Kinds, EditDevice(b, k) PROVE WellFormed'
    <3>1. domain' = [domain EXCEPT !.device[b] = k] /\ Possible(domain')
      BY <2>1 DEF EditDevice
    <3>2. Controlled(domain)
      BY DEF Inv, WellFormed
    <3>3. /\ domain'.ports = domain.ports /\ domain'.bridges = domain.bridges
          /\ domain'.device = [domain.device EXCEPT ![b] = k]
          /\ domain' \in [ports : SUBSET (Nat \ {0}), bridges : SUBSET (Nat \ {0}),
                          device : [Bays -> Kinds]]
      BY <3>1, <3>2 DEF Controlled
    <3>4. QED
      BY <3>1, <3>2, <3>3 DEF WellFormed, Controlled
  <2>2. ASSUME NEW m \in Totals, EditMemory(m) PROVE WellFormed'
    BY <2>2 DEF EditMemory, Inv, WellFormed
  <2>3. ASSUME NEW c \in {"xhci", "hda"}, EditRootBus(c) PROVE WellFormed'
    BY <2>3 DEF EditRootBus, Inv, WellFormed
  <2>4. QED
    BY <2>1, <2>2, <2>3
<1>2. edited' = TRUE /\ outcome' = "none"
  BY DEF EditDevice, EditMemory, EditRootBus
<1>3. QED
  BY <1>1, <1>2 DEF Inv, SameMachine, RolesStand, KeptAreListed, AddedUnused,
                    ListedStay, ListedAreIndexes, Settled, Unobstructed, Fresh

\* Every step keeps the invariant.
LEMMA NextInv == Inv /\ [Next]_vars => Inv'
<1> SUFFICES ASSUME Inv, [Next]_vars PROVE Inv'
  OBVIOUS
<1>a. ASSUME UNCHANGED <<domain, memory, profile, edited, added>>,
             UNCHANGED <<outcome, blocked>> \/ outcome' # "applied"
      PROVE  Inv'
  <2>1. Fresh' <=> Fresh
    BY <1>a DEF Fresh
  <2>2. WellFormed' /\ SameMachine' /\ KeptAreListed' /\ AddedUnused' /\ ListedStay'
          /\ ListedAreIndexes'
    BY <1>a, <2>1
       DEF Inv, WellFormed, SameMachine, KeptAreListed, AddedUnused, ListedStay,
           ListedAreIndexes
  <2>3. RolesStand'
    BY <1>a, <2>1 DEF Inv, RolesStand
  <2>4. Settled' /\ Unobstructed'
    BY <1>a, <2>1 DEF Inv, Settled, Unobstructed
  <2>5. QED
    BY <2>2, <2>3, <2>4 DEF Inv
<1>1. CASE Generate
  BY <1>1, GenerateInv
<1>2. CASE Apply
  <2>1. CASE outcome' = "applied"
    BY <1>2, <2>1, AppliedInv
  <2>2. CASE outcome' # "applied"
    BY <1>2, <2>2, <1>a, ApplyIs
  <2>3. QED
    BY <2>1, <2>2
<1>3. CASE \/ \E b \in Bays, k \in Kinds : EditDevice(b, k)
           \/ \E m \in Totals : EditMemory(m)
           \/ \E c \in {"xhci", "hda"} : EditRootBus(c)
  BY <1>3, EditInv
<1>4. CASE ChangeCpus
  <2>1. UNCHANGED <<domain, memory, profile, edited, added>> /\ outcome' # "applied"
    BY <1>4 DEF ChangeCpus
  <2>2. QED
    BY <2>1, <1>a
<1>5. CASE UNCHANGED vars
  BY <1>5, <1>a DEF vars
<1>6. QED
  BY <1>1, <1>2, <1>3, <1>4, <1>5 DEF Next

\* The profile of an unedited domain describes it, also after 04 has defined
\* it anew.
THEOREM Invariant == Spec => []Inv
BY InitInv, NextInv, PTL DEF Spec
-----------------------------------------------------------------------------
\* What follows.

\* 04 refuses the domain 01 has just recorded, and the one it defined itself,
\* only for what is not in the profile (too few CPUs, a device at the address of
\* the USB or audio controller), for a device it removed from behind a port it
\* keeps, or for a port that libvirt added.
THEOREM ExplainedRefusal == Spec => []RefusalExplained
<1>1. Init => RefusalExplained
  BY DEF Init, RefusalExplained, Refusals, CheckOrder
<1>2. Inv /\ RefusalExplained /\ [Next]_vars => RefusalExplained'
  <2> SUFFICES ASSUME Inv, RefusalExplained, [Next]_vars PROVE RefusalExplained'
    OBVIOUS
  <2>1. CASE Generate
    BY <2>1, GenerateIs DEF RefusalExplained, Refusals, CheckOrder
  <2>2. CASE Apply
    <3>1. /\ profile # NoProfile /\ outcome' = Verdict(Result, memory, profile, blocked)
          /\ UNCHANGED <<blocked, edited>>
          /\ outcome' # "applied" => UNCHANGED <<domain, added>>
      BY <2>2, ApplyIs
    <3>2. SUFFICES ASSUME outcome' \in Refusals, ~edited
                   PROVE  \/ outcome' = "cpus" /\ "cpus" \in blocked
                          \/ outcome' = "xhci" /\ "xhci" \in blocked /\ ~XhciReplaced(domain)
                          \/ outcome' = "hda" /\ "hda" \in blocked
                          \/ outcome' = "role" /\ TakenAway(domain) # {}
                          \/ outcome' = "unprofiled" /\ added # {}
      <4>1. outcome' \in Refusals => outcome' # "applied"
        BY DEF Refusals, CheckOrder
      <4>2. domain' = domain => /\ TakenAway(domain') = TakenAway(domain)
                                /\ XhciReplaced(domain') = XhciReplaced(domain)
        OBVIOUS
      <4>3. QED
        BY <3>1, <4>1, <4>2 DEF RefusalExplained
    <3>3. outcome' # "applied"
      BY <3>2 DEF Refusals, CheckOrder
    <3>4. QED
      BY <3>1, <3>2, <3>3, RefusedForAReason DEF Fresh
  <2>3. CASE \/ \E b \in Bays, k \in Kinds : EditDevice(b, k)
             \/ \E m \in Totals : EditMemory(m)
             \/ \E c \in {"xhci", "hda"} : EditRootBus(c)
             \/ ChangeCpus
    <3>1. outcome' = "none"
      BY <2>3 DEF EditDevice, EditMemory, EditRootBus, ChangeCpus
    <3>2. QED
      BY <3>1 DEF RefusalExplained, Refusals, CheckOrder
  <2>4. CASE UNCHANGED vars
    BY <2>4 DEF vars, RefusalExplained, TakenAway, Used, XhciReplaced
  <2>5. QED
    BY <2>1, <2>2, <2>3, <2>4 DEF Next
<1>3. QED
  BY <1>1, <1>2, Invariant, PTL DEF Spec

\* The domain 04 defined is transformed to itself when every bridge has a
\* device still.
LEMMA ResultIsDomain ==
  ASSUME Inv, Fresh, outcome = "applied", domain.bridges \subseteq Used(domain)
  PROVE  /\ Result.device = domain.device /\ Result.bridges = domain.bridges
         /\ Result.ports = KeptPorts(domain)
         /\ Defined(Result) = domain
<1>1. Controlled(domain) /\ domain.device \in [Bays -> Kinds]
  BY DEF Inv, WellFormed, Controlled
<1>2. \A b \in Bays : ~Unwanted(domain.device[b], "card" \in profile.hostdevs)
  BY DEF Inv, Settled
<1>3. Result.device = domain.device
  BY <1>1, <1>2, ResultDevices
<1>4. Used(Stripped(domain)) = Used(domain)
  <2>1. \A b \in Bays : domain.device[b] \notin {"serial", "usb"}
    BY <1>2 DEF Unwanted
  <2>2. QED
    BY <1>1, <2>1, ResultPortsAre DEF Used
<1>5. Result.bridges = domain.bridges
  BY <1>4, ResultDevices
<1>6. Result.ports = KeptPorts(domain)
  BY <1>4, <1>5, ResultPortsAre DEF KeptPorts, FillerLimit
<1>7. Top(Result) = Top(domain)
  <2> DEFINE S == Result.ports \cup Result.bridges
             T == domain.ports \cup domain.bridges
  <2>1. T \in SUBSET Nat /\ IsFiniteSet(T) /\ S \in SUBSET T
    BY <1>1, <1>5, <1>6, FS_Union DEF Controlled, KeptPorts
  <2>2. Top(Result) <= Top(domain)
    BY <2>1, MaxMonotone DEF Top
  <2>3. Top(domain) \in S \cup {0}
    BY <1>5, <1>6 DEF Inv, Settled
  <2>4. S \in SUBSET Nat /\ IsFiniteSet(S)
    BY <2>1, FS_Subset
  <2>5. Top(Result) \in S \cup {0} /\ Top(domain) <= Top(Result)
    BY <2>3, <2>4, MaxIs DEF Top
  <2>6. Top(Result) \in Nat /\ Top(domain) \in Nat
    BY <2>3, <2>4, <2>5
  <2>7. QED
    BY <2>2, <2>5, <2>6
<1>8. domain.ports = 1..Top(domain) \ domain.bridges
  BY DEF Inv, Settled
<1>9. Controlled(Result)
  BY ResultDevices
<1>10. Defined(Result) = domain
  <2>1. Defined(Result) = [Result EXCEPT !.ports = 1..Top(Result) \ Result.bridges]
    BY DEF Defined, Top
  <2>2. 1..Top(Result) \ Result.bridges = domain.ports
    BY <1>5, <1>7, <1>8
  <2>3. QED
    BY <1>1, <1>3, <1>5, <1>9, <2>1, <2>2 DEF Controlled
<1>11. QED
  BY <1>3, <1>5, <1>6, <1>10

\* Applying again without an edit changes nothing.
THEOREM ReapplyNoop == Spec => ReapplyIsNoop
<1>1. Inv /\ [Next]_vars =>
        [outcome = "applied" /\ ~edited /\ added \subseteq DOMAIN profile.role
           /\ domain.bridges \subseteq Used(domain) /\ Apply
             => outcome' = "applied" /\ domain' = domain]_vars
  <2>1. SUFFICES ASSUME Inv, outcome = "applied", ~edited,
                        added \subseteq DOMAIN profile.role,
                        domain.bridges \subseteq Used(domain), Apply
                 PROVE  outcome' = "applied" /\ domain' = domain
    OBVIOUS
  <2>2. Fresh /\ outcome' = Verdict(Result, memory, profile, blocked)
          /\ (outcome' = "applied" => domain' = Defined(Result))
    BY <2>1, ApplyIs DEF Fresh
  <2>3. /\ Result.device = domain.device /\ Result.ports = KeptPorts(domain)
        /\ Defined(Result) = domain
    BY <2>1, <2>2, ResultIsDomain
  <2>4. memory = profile.memory /\ Hostdevs(Result) = profile.hostdevs
    BY <2>1, <2>2, ResultDevices DEF Inv, SameMachine
  <2>5. ASSUME NEW i \in Result.ports \cap DOMAIN profile.role
        PROVE  RoleAccepted(Result, profile, i)
    <3>1. i \in (domain.ports \cap DOMAIN profile.role) \ added
      BY <2>1, <2>2, ResultPorts
    <3>2. RoleAccepted(domain, profile, i)
      BY <2>1, <2>2, <3>1 DEF Inv, RolesStand
    <3>3. QED
      BY <2>3, <3>2, SameDevices
  <2>6. Result.ports \subseteq DOMAIN profile.role
    BY <2>1, <2>2, ResultPorts
  <2>7. Verdict(Result, memory, profile, blocked) = "applied"
    <3>1. /\ "cpus" \notin blocked /\ "hda" \notin blocked
          /\ "xhci" \in blocked => XhciReplaced(Result)
      BY <2>1, ResultDevices DEF Inv, Unobstructed
    <3>2. Objections(Result, memory, profile, blocked) = {}
      BY <2>4, <2>5, <2>6, <3>1, ObjectionsLeft
    <3>3. QED
      BY <3>2, VerdictIs
  <2>8. QED
    BY <2>2, <2>3, <2>7
<1>2. QED
  BY <1>1, Invariant, PTL DEF Spec, ReapplyIsNoop
-----------------------------------------------------------------------------
\* The assignment of host ports.

Roles == {"gpu", "nvme", "nic", "usb", "audio", "other", "empty"}

\* Every role has a turn of its own.
LEMMA TurnsDiffer ==
  /\ \A a \in Roles : TurnOfRole(a) \in Nat
  /\ \A a, b \in Roles : TurnOfRole(a) = TurnOfRole(b) => a = b
<1>1. DOMAIN RoleOrder = 1..7
  BY DEF RoleOrder
<1>2. \A a \in Roles : \E n \in DOMAIN RoleOrder : RoleOrder[n] = a
  <2>1. /\ RoleOrder[1] = "gpu" /\ RoleOrder[2] = "nvme" /\ RoleOrder[3] = "nic"
        /\ RoleOrder[4] = "usb" /\ RoleOrder[5] = "audio" /\ RoleOrder[6] = "other"
        /\ RoleOrder[7] = "empty"
    BY DEF RoleOrder
  <2>2. QED
    BY <1>1, <2>1 DEF Roles
<1>3. \A a \in Roles : TurnOfRole(a) \in DOMAIN RoleOrder /\ RoleOrder[TurnOfRole(a)] = a
  BY <1>2, Zenon DEF TurnOfRole
<1>4. QED
  BY <1>1, <1>3

\* Finitely many ports with a role each.
RoleList(roles) ==
  /\ DOMAIN roles \in SUBSET Nat /\ IsFiniteSet(DOMAIN roles)
  /\ \A i \in DOMAIN roles : roles[i] \in Roles

\* The ports choose one after the other: the pairs of ports in that order.
Turns(roles) == {p \in (DOMAIN roles) \X (DOMAIN roles) : ChoosesBefore(roles, p[1], p[2])}

\* A pair of ports is one of those exactly when the first chooses before.
LEMMA TurnsAre ==
  ASSUME NEW roles, NEW i \in DOMAIN roles, NEW j \in DOMAIN roles
  PROVE  <<i, j>> \in Turns(roles) <=> ChoosesBefore(roles, i, j)
<1>1. <<i, j>> \in (DOMAIN roles) \X (DOMAIN roles)
  OBVIOUS
<1>2. <<i, j>> \in Turns(roles) <=> ChoosesBefore(roles, <<i, j>>[1], <<i, j>>[2])
  BY <1>1, Zenon DEF Turns
<1>3. <<i, j>>[1] = i
  OBVIOUS
<1>4. <<i, j>>[2] = j
  OBVIOUS
<1>5. QED
  BY <1>2, <1>3, <1>4

\* No two ports choose at once.
LEMMA TurnsOrdered ==
  ASSUME NEW roles, RoleList(roles)
  PROVE  StrictOrder(Turns(roles), DOMAIN roles)
<1> DEFINE D == DOMAIN roles
           t == [i \in D |-> TurnOfRole(roles[i])]
<1>1. \A i, j \in D : <<i, j>> \in Turns(roles) <=> ChoosesBefore(roles, i, j)
  BY TurnsAre
<1>2. \A i \in D : i \in Nat /\ t[i] \in Nat
  BY TurnsDiffer DEF RoleList
<1>3. \A i, j \in D : t[i] = t[j] <=> roles[i] = roles[j]
  BY TurnsDiffer DEF RoleList
<1>4. \A i, j \in D : ChoosesBefore(roles, i, j) <=> t[i] < t[j] \/ (t[i] = t[j] /\ i < j)
  BY <1>3 DEF ChoosesBefore
<1> HIDE DEF t
<1>5. \A i, j \in D : <<i, j>> \in Turns(roles) <=> t[i] < t[j] \/ (t[i] = t[j] /\ i < j)
  BY <1>1, <1>4
<1> HIDE DEF D
<1>6. StrictOrder(Turns(roles), D)
  <2>1. \A i \in D : <<i, i>> \notin Turns(roles)
    BY <1>2, <1>5
  <2>2. ASSUME NEW i \in D, NEW j \in D, NEW k \in D,
               <<i, j>> \in Turns(roles), <<j, k>> \in Turns(roles)
        PROVE  <<i, k>> \in Turns(roles)
    BY <1>2, <1>5, <2>2
  <2>3. \A i, j \in D : i # j => <<i, j>> \in Turns(roles) \/ <<j, i>> \in Turns(roles)
    BY <1>2, <1>5
  <2>4. QED
    BY <2>1, <2>2, <2>3 DEF StrictOrder
<1>7. QED
  BY <1>6 DEF D

\* Order lists every port once, in the order in which the ports choose.
LEMMA OrderIs ==
  ASSUME NEW roles, RoleList(roles)
  PROVE  LET last == Cardinality(DOMAIN roles)
         IN /\ last \in Nat
            /\ \A n \in 1..last : Order(roles)[n] \in DOMAIN roles
            /\ \A n, m \in 1..last :
                 n < m => /\ ChoosesBefore(roles, Order(roles)[n], Order(roles)[m])
                          /\ Order(roles)[n] # Order(roles)[m]
<1> DEFINE D == DOMAIN roles
           R == Turns(roles)
           last == Cardinality(D)
           order == Order(roles)
<1>1. last \in Nat /\ IsFiniteSet(D)
  BY FS_CardinalityType DEF RoleList
<1>2. StrictOrder(R, D)
  BY TurnsOrdered
<1>3. \A i \in D : Below(R, D, i) = {j \in D : ChoosesBefore(roles, j, i)}
  BY TurnsAre DEF Below
<1>4. ASSUME NEW n \in 1..last
      PROVE  order[n] \in D /\ Cardinality(Below(R, D, order[n])) = n - 1
  <2>1. n - 1 \in 0..(last - 1)
    BY <1>1
  <2>2. \E i \in D : Cardinality(Below(R, D, i)) = n - 1
    BY <1>1, <1>2, <2>1, RankExists
  <2>3. \E i \in D : Cardinality({j \in D : ChoosesBefore(roles, j, i)}) = n - 1
    BY <1>3, <2>2
  <2>4. order[n] = CHOOSE i \in D : Cardinality({j \in D : ChoosesBefore(roles, j, i)}) = n - 1
    BY DEF Order
  <2>5. order[n] \in D /\ Cardinality({j \in D : ChoosesBefore(roles, j, order[n])}) = n - 1
    BY <2>3, <2>4, Zenon
  <2>6. QED
    BY <1>3, <2>5
<1> HIDE DEF order
<1>5. ASSUME NEW n \in 1..last, NEW m \in 1..last, n < m
      PROVE  ChoosesBefore(roles, order[n], order[m]) /\ order[n] # order[m]
  <2>1. n - 1 < m - 1 /\ n - 1 # m - 1
    BY <1>1, <1>5
  <2>2. order[n] # order[m]
    BY <1>4, <2>1
  <2>3. <<order[m], order[n]>> \notin R
    <3>1. SUFFICES ASSUME <<order[m], order[n]>> \in R PROVE FALSE
      OBVIOUS
    <3>2. Cardinality(Below(R, D, order[m])) < Cardinality(Below(R, D, order[n]))
      BY <1>1, <1>2, <1>4, <3>1, RankIncreases
    <3>3. m - 1 < n - 1
      BY <1>4, <3>2
    <3>4. QED
      BY <1>1, <2>1, <3>3
  <2>4. <<order[n], order[m]>> \in R
    BY <1>2, <1>4, <2>2, <2>3 DEF StrictOrder
  <2>5. QED
    BY <2>2, <2>4 DEF Turns
<1>6. QED
  BY <1>1, <1>4, <1>5 DEF order

\* How well a host port suits a role is a number, and so is its width.
LEMMA RanksAre ==
  ASSUME NEW role, NEW h \in DOMAIN HostPorts
  PROVE  Bucket(role, h) \in 0..9 /\ WidthRank(role, h) \in Int
<1> DEFINE host == HostPorts[h].role
           width == HostPorts[h].width
<1>1. width \in Int
  BY HostPortsAssumption
<1> HIDE DEF width, host
<1>2. Bucket(role, h) \in 0..9
  <2>1. Bucket(role, h) \in {0, 1, 2, 3, 9}
    <3>1. CASE host = role
      BY <3>1 DEF Bucket, host
    <3>2. CASE host # role /\ role \in {"gpu", "nvme", "nic", "empty"}
      BY <3>2 DEF Bucket, host
    <3>3. CASE host # role /\ role \notin {"gpu", "nvme", "nic", "empty"}
      BY <3>3 DEF Bucket, host
    <3>4. QED
      BY <3>1, <3>2, <3>3
  <2>2. QED
    BY <2>1
<1>3. WidthRank(role, h) \in Int
  BY <1>1 DEF WidthRank, width
<1>4. QED
  BY <1>2, <1>3

\* The pairs of host ports of which the first ranks before the second.
Ranks(role) ==
  {p \in (DOMAIN HostPorts) \X (DOMAIN HostPorts) : RanksBefore(role, p[1], p[2])}

\* A pair of host ports is one of those exactly when the first ranks before.
LEMMA RankPairs ==
  ASSUME NEW role, NEW g \in DOMAIN HostPorts, NEW h \in DOMAIN HostPorts
  PROVE  <<g, h>> \in Ranks(role) <=> RanksBefore(role, g, h)
<1>1. <<g, h>> \in (DOMAIN HostPorts) \X (DOMAIN HostPorts)
  OBVIOUS
<1>2. <<g, h>> \in Ranks(role) <=> RanksBefore(role, <<g, h>>[1], <<g, h>>[2])
  BY <1>1, Zenon DEF Ranks
<1>3. <<g, h>>[1] = g
  OBVIOUS
<1>4. <<g, h>>[2] = h
  OBVIOUS
<1>5. QED
  BY <1>2, <1>3, <1>4

\* For every role no two host ports rank the same.
LEMMA RanksOrdered ==
  ASSUME NEW role, NEW S \in SUBSET (DOMAIN HostPorts)
  PROVE  StrictOrder(Ranks(role), S)
<1> DEFINE D == DOMAIN HostPorts
           b == [h \in D |-> Bucket(role, h)]
           w == [h \in D |-> WidthRank(role, h)]
<1>1. \A h \in D : h \in Nat /\ b[h] \in Int /\ w[h] \in Int
  BY RanksAre, HostPortsAssumption
<1>2. \A g, h \in D : RanksBefore(role, g, h) <=>
        \/ b[g] < b[h]
        \/ b[g] = b[h] /\ (w[g] < w[h] \/ (w[g] = w[h] /\ g < h))
  BY DEF RanksBefore
<1>3. \A g, h \in D : <<g, h>> \in Ranks(role) <=>
        \/ b[g] < b[h]
        \/ b[g] = b[h] /\ (w[g] < w[h] \/ (w[g] = w[h] /\ g < h))
  BY <1>2, RankPairs
<1> HIDE DEF b, w
<1>4. \A h \in S : h \in D
  OBVIOUS
<1> HIDE DEF D
<1>5. \A x \in S : <<x, x>> \notin Ranks(role)
  BY <1>1, <1>3, <1>4
<1>6. ASSUME NEW x \in S, NEW y \in S, NEW z \in S,
             <<x, y>> \in Ranks(role), <<y, z>> \in Ranks(role)
      PROVE  <<x, z>> \in Ranks(role)
  <2>1. /\ b[x] \in Int /\ b[y] \in Int /\ b[z] \in Int
        /\ w[x] \in Int /\ w[y] \in Int /\ w[z] \in Int
        /\ x \in Nat /\ y \in Nat /\ z \in Nat
    BY <1>1, <1>4
  <2>2. b[x] < b[y] \/ (b[x] = b[y] /\ (w[x] < w[y] \/ (w[x] = w[y] /\ x < y)))
    BY <1>3, <1>4, <1>6
  <2>3. b[y] < b[z] \/ (b[y] = b[z] /\ (w[y] < w[z] \/ (w[y] = w[z] /\ y < z)))
    BY <1>3, <1>4, <1>6
  <2>4. b[x] < b[z] \/ (b[x] = b[z] /\ (w[x] < w[z] \/ (w[x] = w[z] /\ x < z)))
    BY <2>1, <2>2, <2>3
  <2>5. QED
    BY <1>3, <1>4, <2>4
<1>7. \A x, y \in S : x # y => <<x, y>> \in Ranks(role) \/ <<y, x>> \in Ranks(role)
  BY <1>1, <1>3, <1>4
<1>8. QED
  BY <1>5, <1>6, <1>7 DEF StrictOrder

\* The first of some host ports is one of them, and none of them ranks before it.
LEMMA FirstIs ==
  ASSUME NEW role, NEW S \in SUBSET (DOMAIN HostPorts), S # {}
  PROVE  /\ First(role, S) \in S
         /\ \A h \in S : ~RanksBefore(role, h, First(role, S))
<1>1. IsFiniteSet(S)
  BY FS_Subset, HostPortsAssumption
<1>2. StrictOrder(Ranks(role), S)
  BY RanksOrdered
<1>3. \E x \in S : \A y \in S \ {x} : <<x, y>> \in Ranks(role)
  BY <1>1, <1>2, FirstExists, Zenon
<1>4. \E x \in S : \A y \in S \ {x} : RanksBefore(role, x, y)
  BY <1>3, RankPairs
<1>5. /\ First(role, S) \in S
      /\ \A y \in S \ {First(role, S)} : RanksBefore(role, First(role, S), y)
  BY <1>4, Zenon DEF First
<1> DEFINE f == First(role, S)
<1> HIDE DEF f
<1>6. ASSUME NEW h \in S, RanksBefore(role, h, f) PROVE FALSE
  <2>1. <<h, f>> \in Ranks(role)
    BY <1>5, <1>6, RankPairs DEF f
  <2>2. h # f
    BY <1>2, <2>1 DEF StrictOrder
  <2>3. <<f, h>> \in Ranks(role)
    BY <1>5, <2>2, RankPairs DEF f
  <2>4. QED
    BY <1>2, <1>5, <2>1, <2>3 DEF StrictOrder, f
<1>7. QED
  BY <1>5, <1>6 DEF f

\* What is right of an assignment after n turns.
Good(roles, a, n) ==
  /\ \A i \in DOMAIN a : \E k \in 1..n : i = Order(roles)[k]
  /\ \A i \in DOMAIN a : a[i] \in DOMAIN HostPorts /\ Bucket(roles[i], a[i]) < 9
  /\ \A i, j \in DOMAIN a : i # j => a[i] # a[j]
  /\ \A i \in DOMAIN a, h \in DOMAIN HostPorts :
       RanksBefore(roles[i], h, a[i]) =>
         \E j \in DOMAIN a : a[j] = h /\ ChoosesBefore(roles, j, i)

\* A turn keeps an assignment right.
LEMMA TurnKeeps ==
  ASSUME NEW roles, RoleList(roles), NEW n \in 1..Cardinality(DOMAIN roles),
         NEW a, Good(roles, a, n - 1)
  PROVE  Good(roles, Turn(roles, Order(roles)[n], a), n)
<1> DEFINE p == Order(roles)[n]
           role == roles[p]
           suited == {h \in DOMAIN HostPorts \ Taken(a) : Bucket(role, h) < 9}
           c == [i \in DOMAIN a \cup {p} |-> IF i = p THEN First(role, suited) ELSE a[i]]
<1>1. Cardinality(DOMAIN roles) \in Nat
  BY OrderIs
<1>2. n \in Nat /\ n - 1 < n /\ 1..(n - 1) \subseteq 1..n /\ n \in 1..n
  BY <1>1
<1>3. \A i \in DOMAIN a : i # p /\ ChoosesBefore(roles, i, p)
  <2>1. SUFFICES ASSUME NEW i \in DOMAIN a
                 PROVE  i # p /\ ChoosesBefore(roles, i, p)
    OBVIOUS
  <2>2. PICK k \in 1..(n - 1) : i = Order(roles)[k]
    BY DEF Good
  <2>3. k \in 1..Cardinality(DOMAIN roles) /\ k < n
    BY <1>1
  <2>4. QED
    BY <2>2, <2>3, OrderIs
<1>4. CASE suited = {}
  <2>1. Turn(roles, p, a) = a
    BY <1>4 DEF Turn
  <2>2. Good(roles, a, n)
    BY <1>2 DEF Good
  <2>3. QED
    BY <2>1, <2>2
<1>5. CASE suited # {}
  <2>1. Turn(roles, p, a) = c
    BY <1>5 DEF Turn
  <2>2. suited \in SUBSET (DOMAIN HostPorts)
    OBVIOUS
  <2>3. /\ First(role, suited) \in suited
        /\ \A h \in suited : ~RanksBefore(role, h, First(role, suited))
    BY <1>5, <2>2, FirstIs
  <2>4. /\ DOMAIN c = DOMAIN a \cup {p} /\ c[p] = First(role, suited)
        /\ \A i \in DOMAIN a : c[i] = a[i]
    BY <1>3
  <2>5. /\ c[p] \in DOMAIN HostPorts /\ Bucket(role, c[p]) < 9
        /\ \A i \in DOMAIN a : c[p] # a[i]
    BY <2>3, <2>4 DEF Taken, Range
  <2>6. ASSUME NEW h \in DOMAIN HostPorts, RanksBefore(role, h, c[p])
        PROVE  \E j \in DOMAIN a : a[j] = h
    <3>1. h \notin suited
      BY <2>3, <2>4, <2>6
    <3>2. Bucket(role, h) <= Bucket(role, c[p])
      BY <2>5, <2>6, RanksAre DEF RanksBefore
    <3>3. Bucket(role, h) < 9
      BY <2>5, <3>2, RanksAre
    <3>4. h \in Taken(a)
      BY <3>1, <3>3
    <3>5. QED
      BY <3>4 DEF Taken, Range
  <2> HIDE DEF c, suited
  <2>7. \A i \in DOMAIN c : \E k \in 1..n : i = Order(roles)[k]
    BY <1>2, <2>4 DEF Good
  <2>8. \A i \in DOMAIN c : c[i] \in DOMAIN HostPorts /\ Bucket(roles[i], c[i]) < 9
    BY <2>4, <2>5 DEF Good
  <2>9. \A i, j \in DOMAIN c : i # j => c[i] # c[j]
    BY <2>4, <2>5 DEF Good
  <2>10. ASSUME NEW i \in DOMAIN c, NEW h \in DOMAIN HostPorts,
                RanksBefore(roles[i], h, c[i])
         PROVE  \E j \in DOMAIN c : c[j] = h /\ ChoosesBefore(roles, j, i)
    <3>1. CASE i = p
      BY <1>3, <2>4, <2>6, <2>10, <3>1
    <3>2. CASE i \in DOMAIN a
      <4>1. RanksBefore(roles[i], h, a[i])
        BY <2>4, <2>10, <3>2
      <4>2. PICK j \in DOMAIN a : a[j] = h /\ ChoosesBefore(roles, j, i)
        BY <3>2, <4>1 DEF Good
      <4>3. QED
        BY <2>4, <4>2
    <3>3. QED
      BY <2>4, <3>1, <3>2
  <2>11. Good(roles, c, n)
    BY <2>7, <2>8, <2>9, <2>10 DEF Good
  <2>12. QED
    BY <2>1, <2>11
<1>6. QED
  BY <1>4, <1>5

\* What Assign makes of the assignments g for its turn n.
Step(roles, g, n) ==
  IF n = 0 THEN [i \in {} |-> 0] ELSE Turn(roles, Order(roles)[n], g[n - 1])

\* The function Assign defines turn by turn exists, whatever the number of turns.
LEMMA TurnsExist ==
  ASSUME NEW roles, NEW last \in Nat
  PROVE  \E f : f = [n \in 0..last |-> Step(roles, f, n)]
<1> DEFINE P(k) == \E f : f = [n \in 0..k |-> Step(roles, f, n)]
           T == {k \in Nat : ~P(k)}
<1>1. SUFFICES ASSUME T # {} PROVE FALSE
  OBVIOUS
<1>2. PICK k \in T : \A l \in T : k <= l
  BY <1>1, SmallestExists
<1>3. k \in Nat /\ ~P(k)
  BY <1>2
<1>4. CASE k = 0
  <2> DEFINE f == [n \in 0..0 |-> [i \in {} |-> 0]]
  <2>1. \A n \in 0..0 : Step(roles, f, n) = [i \in {} |-> 0]
    BY DEF Step
  <2>2. f = [n \in 0..0 |-> Step(roles, f, n)]
    BY <2>1
  <2>3. QED
    BY <1>3, <1>4, <2>2
<1>5. CASE k # 0
  <2>1. k - 1 \in Nat /\ k - 1 \notin T
    BY <1>2, <1>3, <1>5
  <2>2. PICK g : g = [n \in 0..(k - 1) |-> Step(roles, g, n)]
    BY <2>1
  <2> DEFINE f == [n \in 0..k |-> IF n = k THEN Step(roles, g, k) ELSE g[n]]
  <2>3. ASSUME NEW n \in 0..k PROVE f[n] = Step(roles, f, n)
    <3>1. CASE n = 0
      <4>1. n \in 0..(k - 1) /\ n # k
        BY <1>3, <1>5, <3>1
      <4>2. f[n] = g[n] /\ g[n] = Step(roles, g, n)
        BY <2>2, <4>1
      <4>3. QED
        BY <3>1, <4>2 DEF Step
    <3>2. CASE n # 0
      <4>1. n - 1 \in 0..k /\ n - 1 # k
        BY <1>3, <3>2
      <4>2. f[n - 1] = g[n - 1]
        BY <4>1
      <4>3. Step(roles, f, n) = Step(roles, g, n)
        BY <3>2, <4>2 DEF Step
      <4>4. CASE n = k
        BY <4>3, <4>4
      <4>5. CASE n # k
        <5>1. n \in 0..(k - 1)
          BY <1>3, <4>5
        <5>2. f[n] = g[n] /\ g[n] = Step(roles, g, n)
          BY <2>2, <4>5, <5>1
        <5>3. QED
          BY <4>3, <5>2
      <4>6. QED
        BY <4>4, <4>5
    <3>3. QED
      BY <3>1, <3>2
  <2>4. f = [n \in 0..k |-> Step(roles, f, n)]
    BY <2>3
  <2>5. QED
    BY <1>3, <2>4
<1>6. QED
  BY <1>4, <1>5

\* Every port that Assign gives a host port has one of its own that suits it,
\* and what it would rather have went to a port that chose before.
LEMMA AssignIsGood ==
  ASSUME NEW roles, RoleList(roles)
  PROVE  Good(roles, Assign(roles), Cardinality(DOMAIN roles))
<1> DEFINE last == Cardinality(DOMAIN roles)
           f == CHOOSE f : f = [n \in 0..last |-> Step(roles, f, n)]
<1>1. last \in Nat
  BY OrderIs
<1>2. \E g : g = [n \in 0..last |-> Step(roles, g, n)]
  BY <1>1, TurnsExist
<1>3. f = [n \in 0..last |-> Step(roles, f, n)]
  BY <1>2, Zenon
<1>4. Assign(roles) = f[last]
  BY Zenon DEF Assign, Step
<1> HIDE DEF f
<1>5. \A n \in 0..last : f[n] = Step(roles, f, n)
  BY <1>3
<1> DEFINE T == {n \in Nat : n <= last /\ ~Good(roles, f[n], n)}
<1>6. ASSUME T # {} PROVE FALSE
  <2>1. PICK n \in T : \A m \in T : n <= m
    BY <1>6, SmallestExists
  <2>2. n \in 0..last /\ ~Good(roles, f[n], n)
    BY <1>1, <2>1
  <2>3. CASE n = 0
    <3>1. f[n] = [i \in {} |-> 0]
      BY <1>5, <2>2, <2>3 DEF Step
    <3>2. DOMAIN f[n] = {}
      BY <3>1
    <3>3. QED
      BY <2>2, <3>2 DEF Good
  <2>4. CASE n # 0
    <3>1. n - 1 \in Nat /\ n - 1 <= last /\ n - 1 \notin T /\ n \in 1..last
      BY <1>1, <2>1, <2>2, <2>4
    <3>2. Good(roles, f[n - 1], n - 1)
      BY <3>1
    <3>3. f[n] = Turn(roles, Order(roles)[n], f[n - 1])
      BY <1>5, <2>2, <2>4 DEF Step
    <3>4. QED
      BY <2>2, <3>1, <3>2, <3>3, TurnKeeps
  <2>5. QED
    BY <2>3, <2>4
<1>7. Good(roles, f[last], last)
  BY <1>1, <1>6
<1>8. QED
  BY <1>4, <1>7

\* Every port 01 records has the identity of a host port of its own that suits
\* its role, and prefers only those that went to ports with an earlier turn.
THEOREM AssignedInTurn == Spec => []IdentitiesAssigned
<1>1. Init => IdentitiesAssigned
  BY DEF Init, IdentitiesAssigned
<1>2. Inv /\ IdentitiesAssigned /\ [Next]_vars => IdentitiesAssigned'
  <2> SUFFICES ASSUME Inv, IdentitiesAssigned, [Next]_vars PROVE IdentitiesAssigned'
    OBVIOUS
  <2>1. CASE Generate
    <3>1. SUFFICES ASSUME outcome' = "recorded" PROVE IdentitiesAssigned'
      BY DEF IdentitiesAssigned
    <3> DEFINE roles == ListedPorts(domain)
    <3>2. /\ profile'.role = roles /\ profile'.host = Assign(roles)
          /\ DOMAIN Assign(roles) = DOMAIN roles
      BY <2>1, <3>1 DEF Generate
    <3>3. RoleList(roles)
      <4>1. DOMAIN roles = KeptPorts(domain)
        BY DEF ListedPorts
      <4>2. KeptPorts(domain) \subseteq domain.ports
        BY DEF KeptPorts
      <4>3. domain.ports \in SUBSET Nat /\ IsFiniteSet(domain.ports)
        BY DEF Inv, WellFormed, Controlled
      <4>4. \A i : PortRole(domain, i) \in Roles
        BY DEF Inv, WellFormed, Controlled, PortRole, Roles, RoleOf, Kinds
      <4>5. \A i \in DOMAIN roles : roles[i] \in Roles
        BY <4>1, <4>4 DEF ListedPorts
      <4>6. QED
        BY <4>1, <4>2, <4>3, <4>5, FS_Subset DEF RoleList
    <3> HIDE DEF roles
    <3>4. Good(roles, Assign(roles), Cardinality(DOMAIN roles))
      BY <3>3, AssignIsGood
    <3>5. QED
      BY <3>2, <3>4 DEF Good, IdentitiesAssigned
  <2>2. CASE Apply
    <3>1. outcome' # "recorded"
      BY <2>2, ApplyIs, VerdictsOf04
    <3>2. QED
      BY <3>1 DEF IdentitiesAssigned
  <2>3. CASE \E b \in Bays, k \in Kinds : EditDevice(b, k)
    BY <2>3 DEF EditDevice, IdentitiesAssigned
  <2>4. CASE \E m \in Totals : EditMemory(m)
    BY <2>4 DEF EditMemory, IdentitiesAssigned
  <2>5. CASE (\E c \in {"xhci", "hda"} : EditRootBus(c)) \/ ChangeCpus \/ UNCHANGED vars
    BY <2>5 DEF EditRootBus, ChangeCpus, vars, IdentitiesAssigned
  <2>6. QED
    BY <2>1, <2>2, <2>3, <2>4, <2>5 DEF Next
<1>3. QED
  BY <1>1, <1>2, Invariant, PTL DEF Spec
-----------------------------------------------------------------------------
\* Offsets.

\* What Offset makes of the sums f for its length k.
SumStep(lengths, f, k) == IF k = 0 THEN 0 ELSE f[k - 1] + lengths[k]

\* The sums that Offset takes exist.
LEMMA SumsExist ==
  ASSUME NEW lengths, NEW last \in Nat
  PROVE  \E f : f = [k \in 0..last |-> SumStep(lengths, f, k)]
<1> DEFINE Next1(f, k) == SumStep(lengths, f, k)
           P(k) == \E f : f = [n \in 0..k |-> Next1(f, n)]
           T == {k \in Nat : ~P(k)}
<1>1. SUFFICES ASSUME T # {} PROVE FALSE
  OBVIOUS
<1>2. PICK k \in T : \A l \in T : k <= l
  BY <1>1, SmallestExists
<1>3. k \in Nat /\ ~P(k)
  BY <1>2
<1>4. CASE k = 0
  <2> DEFINE f == [n \in 0..0 |-> 0]
  <2>1. f = [n \in 0..0 |-> Next1(f, n)]
    BY DEF SumStep
  <2>2. QED
    BY <1>3, <1>4, <2>1
<1>5. CASE k # 0
  <2>1. k - 1 \in Nat /\ k - 1 \notin T
    BY <1>2, <1>3, <1>5
  <2>2. PICK g : g = [n \in 0..(k - 1) |-> Next1(g, n)]
    BY <2>1
  <2> DEFINE f == [n \in 0..k |-> IF n = k THEN Next1(g, k) ELSE g[n]]
  <2>3. ASSUME NEW n \in 0..k PROVE f[n] = Next1(f, n)
    <3>1. CASE n = k
      <4>1. k - 1 \in 0..k /\ k - 1 # k
        BY <1>3, <1>5
      <4>2. f[k - 1] = g[k - 1]
        BY <4>1
      <4>3. QED
        BY <1>5, <3>1, <4>2 DEF SumStep
    <3>2. CASE n # k
      <4>1. n \in 0..(k - 1)
        BY <1>3, <3>2
      <4>2. f[n] = Next1(g, n)
        BY <2>2, <3>2, <4>1
      <4>3. CASE n = 0
        BY <4>2, <4>3 DEF SumStep
      <4>4. CASE n # 0
        <5>1. n - 1 \in 0..k /\ n - 1 # k
          BY <1>3, <4>1, <4>4
        <5>2. f[n - 1] = g[n - 1]
          BY <5>1
        <5>3. QED
          BY <4>2, <4>4, <5>2 DEF SumStep
      <4>5. QED
        BY <4>3, <4>4
    <3>3. QED
      BY <3>1, <3>2
  <2>4. f = [n \in 0..k |-> Next1(f, n)]
    BY <2>3
  <2>5. QED
    BY <1>3, <2>4
<1>6. QED
  BY <1>4, <1>5

\* The first length begins at 0, every other where the one before it ends.
LEMMA OffsetIs ==
  ASSUME NEW lengths, Len(lengths) \in Nat
  PROVE  /\ Offset(lengths, 1) = 0
         /\ \A n \in 1..Len(lengths) : Offset(lengths, n + 1) = Offset(lengths, n) + lengths[n]
<1> DEFINE last == Len(lengths)
           f == CHOOSE f : f = [k \in 0..last |-> SumStep(lengths, f, k)]
<1>1. f = [k \in 0..last |-> SumStep(lengths, f, k)]
  <2>1. \E g : g = [k \in 0..last |-> SumStep(lengths, g, k)]
    BY SumsExist
  <2>2. QED
    BY <2>1, Zenon
<1>2. \A n : Offset(lengths, n) = f[n - 1]
  BY Zenon DEF Offset, SumStep
<1> HIDE DEF f
<1>3. f[0] = 0
  BY <1>1 DEF SumStep
<1>4. \A n \in 1..last : f[n] = f[n - 1] + lengths[n]
  BY <1>1 DEF SumStep
<1>5. Offset(lengths, 1) = 0
  <2>1. Offset(lengths, 1) = f[1 - 1] /\ 1 - 1 = 0
    BY <1>2
  <2>2. QED
    BY <1>3, <2>1
<1>6. ASSUME NEW n \in 1..last PROVE Offset(lengths, n + 1) = Offset(lengths, n) + lengths[n]
  <2>1. Offset(lengths, n + 1) = f[(n + 1) - 1] /\ (n + 1) - 1 = n
    BY <1>2
  <2>2. QED
    BY <1>2, <1>4, <2>1
<1>7. QED
  BY <1>5, <1>6

\* Lengths are natural numbers here.
LEMMA OffsetInNat ==
  ASSUME NEW lengths \in Seq(Nat), NEW n \in 1..(Len(lengths) + 1)
  PROVE  Offset(lengths, n) \in Nat
<1>1. Len(lengths) \in Nat /\ \A k \in 1..Len(lengths) : lengths[k] \in Nat
  BY LenProperties
<1> DEFINE T == {k \in Nat : k \in 1..(Len(lengths) + 1) /\ Offset(lengths, k) \notin Nat}
<1>2. SUFFICES ASSUME T # {} PROVE FALSE
  BY <1>1
<1>3. PICK k \in T : \A l \in T : k <= l
  BY <1>2, SmallestExists
<1>4. CASE k = 1
  BY <1>1, <1>3, <1>4, OffsetIs
<1>5. CASE k # 1
  <2>1. k - 1 \in 1..Len(lengths) /\ k - 1 \notin T /\ (k - 1) + 1 = k
    BY <1>1, <1>3, <1>5
  <2>2. Offset(lengths, k - 1) \in Nat
    <3>1. k - 1 \in Nat /\ k - 1 \in 1..(Len(lengths) + 1)
      BY <1>1, <2>1
    <3>2. QED
      BY <2>1, <3>1
  <2>3. Offset(lengths, k) = Offset(lengths, k - 1) + lengths[k - 1]
    BY <1>1, <2>1, OffsetIs
  <2>4. QED
    BY <1>1, <1>3, <2>1, <2>2, <2>3
<1>6. QED
  BY <1>4, <1>5

\* Offsets do not decrease.
LEMMA OffsetMonotone ==
  ASSUME NEW lengths \in Seq(Nat), NEW n \in 1..(Len(lengths) + 1),
         NEW m \in 1..(Len(lengths) + 1), n <= m
  PROVE  Offset(lengths, n) <= Offset(lengths, m)
<1>1. Len(lengths) \in Nat /\ \A k \in 1..Len(lengths) : lengths[k] \in Nat
  BY LenProperties
<1> DEFINE T == {k \in Nat : k \in n..(Len(lengths) + 1)
                              /\ ~(Offset(lengths, n) <= Offset(lengths, k))}
<1>2. SUFFICES ASSUME T # {} PROVE FALSE
  BY <1>1
<1>3. PICK k \in T : \A l \in T : k <= l
  BY <1>2, SmallestExists
<1>4. Offset(lengths, n) \in Nat
  BY OffsetInNat
<1>5. k # n /\ k \in n..(Len(lengths) + 1)
  <2>1. k \in n..(Len(lengths) + 1) /\ ~(Offset(lengths, n) <= Offset(lengths, k))
    BY <1>3
  <2>2. QED
    BY <1>4, <2>1
<1>6. /\ k - 1 \in 1..Len(lengths) /\ k - 1 \notin T /\ (k - 1) + 1 = k
      /\ k - 1 \in n..(Len(lengths) + 1)
  <2>1. n \in Nat \ {0} /\ k \in Nat /\ n < k /\ k <= Len(lengths) + 1
    BY <1>1, <1>5
  <2>2. /\ k - 1 \in 1..Len(lengths) /\ k - 1 \in Nat /\ k - 1 < k /\ (k - 1) + 1 = k
        /\ k - 1 \in n..(Len(lengths) + 1)
    BY <1>1, <2>1
  <2>3. ~(k <= k - 1)
    BY <2>1
  <2>4. k - 1 \notin T
    BY <1>3, <2>3
  <2>5. QED
    BY <2>2, <2>4
<1>7. Offset(lengths, n) <= Offset(lengths, k - 1)
  <2>1. k - 1 \in Nat
    BY <1>1, <1>6
  <2>2. QED
    BY <1>6, <2>1
<1>8. Offset(lengths, k) = Offset(lengths, k - 1) + lengths[k - 1]
  BY <1>1, <1>6, OffsetIs
<1>9. Offset(lengths, k - 1) \in Nat /\ lengths[k - 1] \in Nat
  <2>1. k - 1 \in 1..(Len(lengths) + 1)
    BY <1>1, <1>6
  <2>2. QED
    BY <1>1, <1>6, <2>1, OffsetInNat
<1>10. QED
  BY <1>3, <1>4, <1>7, <1>8, <1>9

\* Every address below the end belongs to one of the lengths.
LEMMA OffsetLocates ==
  ASSUME NEW lengths \in Seq(Nat), NEW x \in Nat, x < Offset(lengths, Len(lengths) + 1)
  PROVE  \E n \in 1..Len(lengths) :
           Offset(lengths, n) <= x /\ x < Offset(lengths, n + 1)
<1>1. Len(lengths) \in Nat /\ \A k \in 1..Len(lengths) : lengths[k] \in Nat
  BY LenProperties
<1> DEFINE T == {k \in Nat : k \in 1..(Len(lengths) + 1) /\ x < Offset(lengths, k)}
<1>2. Len(lengths) + 1 \in T
  BY <1>1
<1>3. PICK k \in T : \A l \in T : k <= l
  BY <1>2, SmallestExists
<1>4. k # 1
  BY <1>1, <1>3, OffsetIs
<1>5. k - 1 \in 1..Len(lengths) /\ k - 1 \notin T /\ (k - 1) + 1 = k
  BY <1>1, <1>3, <1>4
<1>6. Offset(lengths, k - 1) \in Nat /\ Offset(lengths, k) \in Nat
  BY <1>1, <1>3, <1>5, OffsetInNat
<1>7. Offset(lengths, k - 1) <= x /\ x < Offset(lengths, k)
  BY <1>1, <1>3, <1>5, <1>6
<1>8. QED
  BY <1>5, <1>7
-----------------------------------------------------------------------------
\* Layouts.

\* Such a sequence as one.
LEMMA LayoutIsSeq ==
  ASSUME NEW n \in Nat, NEW S, NEW a \in [1..n -> S]
  PROVE  a \in Seq(S) /\ Len(a) = n /\ DOMAIN a = 1..n
<1>1. a \in Seq(S)
  BY SeqDef
<1>2. DOMAIN a = 1..n /\ DOMAIN a = 1..Len(a) /\ Len(a) \in Nat
  BY <1>1, LenProperties
<1>3. Len(a) = n
  BY <1>2
<1>4. QED
  BY <1>1, <1>2, <1>3

\* A DIMM is not larger than one before it.
LEMMA LargestFirst ==
  ASSUME NEW n \in Nat, NEW a \in [1..n -> Nat], \A i \in 2..n : a[i - 1] >= a[i],
         NEW i \in 1..n, NEW j \in 1..n, i <= j
  PROVE  a[i] >= a[j]
<1> DEFINE T == {k \in Nat : k \in i..n /\ ~(a[i] >= a[k])}
<1>0. j \in Nat /\ j \in i..n
  OBVIOUS
<1>1. SUFFICES ASSUME T # {} PROVE FALSE
  BY <1>0
<1>2. PICK k \in T : \A l \in T : k <= l
  BY <1>1, SmallestExists
<1>3. k \in i..n /\ k # i
  BY <1>2
<1>4. k - 1 \in i..n /\ k - 1 \notin T /\ k - 1 \in Nat /\ k \in 2..n
  BY <1>2, <1>3
<1>5. a[i] >= a[k - 1] /\ a[k - 1] >= a[k]
  BY <1>4
<1>6. a[i] \in Nat /\ a[k - 1] \in Nat /\ a[k] \in Nat
  BY <1>3, <1>4
<1>7. QED
  BY <1>2, <1>5, <1>6

\* A sequence of n sizes with s at place k.
With(a, n, k, s) ==
  [i \in 1..(n + 1) |-> IF i < k THEN a[i] ELSE IF i = k THEN s ELSE a[i - 1]]

\* What an insertion at a place makes of a sequence.
LEMMA InsertedAt ==
  ASSUME NEW n \in Nat, NEW a \in [1..n -> Nat], NEW k \in 1..(n + 1), NEW s \in Nat
  PROVE  InsertAt(a, k, s) = With(a, n, k, s)
<1> DEFINE p == SubSeq(a, 1, k - 1)
           q == SubSeq(a, k, Len(a))
<1>1. a \in Seq(Nat) /\ Len(a) = n
  BY LayoutIsSeq
<1>2. /\ p \in Seq(Nat) /\ Len(p) = k - 1
      /\ \A i \in 1..(k - 1) : p[i] = a[i]
  <2>1. \A i \in 1..(k - 1) : a[i] \in Nat
    OBVIOUS
  <2>2. 1 \in Int /\ k - 1 \in Int
    OBVIOUS
  <2>3. /\ p \in Seq(Nat) /\ Len(p) = IF 1 <= k - 1 THEN (k - 1) - 1 + 1 ELSE 0
        /\ \A i \in 1..((k - 1) - 1 + 1) : p[i] = a[1 + i - 1]
    BY <2>1, <2>2, SubSeqProperties
  <2>4. QED
    BY <2>3
<1>3. /\ q \in Seq(Nat) /\ Len(q) = n + 1 - k
      /\ \A i \in 1..(n + 1 - k) : q[i] = a[k + i - 1]
  <2>1. \A i \in k..n : a[i] \in Nat
    OBVIOUS
  <2>2. k \in Int /\ n \in Int
    OBVIOUS
  <2>3. /\ q \in Seq(Nat) /\ Len(q) = IF k <= n THEN n - k + 1 ELSE 0
        /\ \A i \in 1..(n - k + 1) : q[i] = a[k + i - 1]
    BY <1>1, <2>1, <2>2, SubSeqProperties
  <2>4. QED
    BY <2>3
<1>4. <<s>> \in Seq(Nat) /\ Len(<<s>>) = 1 /\ <<s>>[1] = s
  OBVIOUS
<1> HIDE DEF p, q
<1> DEFINE r == p \o <<s>>
<1>5. /\ r \in Seq(Nat) /\ Len(r) = k
      /\ \A i \in 1..(k - 1) : r[i] = p[i]
      /\ r[k] = s
  <2>1. /\ r \in Seq(Nat) /\ Len(r) = (k - 1) + 1
        /\ \A i \in 1..((k - 1) + 1) : r[i] = IF i <= k - 1 THEN p[i] ELSE <<s>>[i - (k - 1)]
    BY <1>2, <1>4, ConcatProperties
  <2> HIDE DEF r
  <2>2. k \in 1..((k - 1) + 1) /\ ~(k <= k - 1) /\ k - (k - 1) = 1
    OBVIOUS
  <2>3. r[k] = s
    BY <1>4, <2>1, <2>2
  <2>4. QED
    BY <2>1, <2>3
<1> HIDE DEF r
<1> DEFINE c == r \o q
<1>6. /\ c \in Seq(Nat) /\ Len(c) = n + 1
      /\ \A i \in 1..(n + 1) : c[i] = IF i <= k THEN r[i] ELSE q[i - k]
  <2>0. /\ c \in Seq(Nat) /\ Len(c) = Len(r) + Len(q)
        /\ \A i \in 1..(Len(r) + Len(q)) : c[i] = IF i <= Len(r) THEN r[i] ELSE q[i - Len(r)]
    BY <1>3, <1>5, ConcatProperties, Zenon
  <2> HIDE DEF c
  <2>1. /\ c \in Seq(Nat) /\ Len(c) = k + (n + 1 - k)
        /\ \A i \in 1..(k + (n + 1 - k)) : c[i] = IF i <= k THEN r[i] ELSE q[i - k]
    BY <1>3, <1>5, <2>0
  <2>2. k + (n + 1 - k) = n + 1
    OBVIOUS
  <2>3. QED
    BY <2>1, <2>2
<1> HIDE DEF c
<1>7. c \in [1..(n + 1) -> Nat]
  BY <1>6, LenProperties
<1>8. ASSUME NEW i \in 1..(n + 1)
      PROVE  c[i] = IF i < k THEN a[i] ELSE IF i = k THEN s ELSE a[i - 1]
  <2>1. CASE i < k
    <3>1. i \in 1..(k - 1) /\ i <= k
      BY <2>1
    <3>2. c[i] = r[i] /\ r[i] = p[i] /\ p[i] = a[i]
      BY <1>2, <1>5, <1>6, <3>1
    <3>3. QED
      BY <2>1, <3>2
  <2>2. CASE i = k
    BY <1>5, <1>6, <2>2
  <2>3. CASE i > k
    <3>1. i - k \in 1..(n + 1 - k) /\ k + (i - k) - 1 = i - 1 /\ ~(i <= k) /\ ~(i < k) /\ i # k
      BY <2>3
    <3>2. c[i] = q[i - k]
      BY <1>6, <3>1
    <3>3. q[i - k] = a[i - 1]
      BY <1>3, <3>1
    <3>4. QED
      BY <3>1, <3>2, <3>3
  <2>4. QED
    BY <2>1, <2>2, <2>3
<1>9. c = With(a, n, k, s)
  BY <1>7, <1>8 DEF With
<1>10. InsertAt(a, k, s) = c
  BY DEF InsertAt, p, q, r, c
<1>11. QED
  BY <1>9, <1>10
-----------------------------------------------------------------------------
\* Largest first.
Descending(a, n) == \A i \in 2..n : a[i - 1] >= a[i]

\* A size is inserted behind those that are not smaller.
LEMMA InsertIs ==
  ASSUME NEW n \in Nat, NEW a \in [1..n -> Nat], Descending(a, n), NEW s \in Nat
  PROVE  \E k \in 1..(n + 1) :
           /\ Insert(a, s) = With(a, n, k, s)
           /\ \A i \in 1..(k - 1) : a[i] >= s
           /\ \A i \in k..n : a[i] < s
<1> DEFINE P == {i \in DOMAIN a : a[i] >= s}
           T == {i \in Nat : i \in 1..(n + 1) /\ i \notin P}
<1>1. DOMAIN a = 1..n
  OBVIOUS
<1>2. n + 1 \in T
  BY <1>1
<1>3. PICK k \in T : \A l \in T : k <= l
  BY <1>2, SmallestExists
<1>4. k \in 1..(n + 1) /\ k \notin P
  BY <1>3
<1>5. \A i \in 1..(k - 1) : i \in P
  <2>1. SUFFICES ASSUME NEW i \in 1..(k - 1), i \notin P PROVE FALSE
    OBVIOUS
  <2>2. i \in Nat /\ i \in 1..(n + 1) /\ ~(k <= i)
    BY <1>4, <2>1
  <2>3. QED
    BY <1>3, <2>1, <2>2
<1>6. \A i \in k..n : a[i] < s
  <2>1. SUFFICES ASSUME NEW i \in k..n PROVE a[i] < s
    OBVIOUS
  <2>2. k \in 1..n /\ i \in 1..n /\ k <= i
    BY <1>4
  <2>3. a[k] \in Nat /\ a[i] \in Nat /\ ~(a[k] >= s)
    BY <1>4, <2>2
  <2>4. a[k] >= a[i]
    BY <2>2, LargestFirst DEF Descending
  <2>5. QED
    BY <2>3, <2>4
<1>7. P = 1..(k - 1)
  <2>1. ASSUME NEW i \in P PROVE i \in 1..(k - 1)
    <3>1. i \in 1..n /\ a[i] >= s /\ a[i] \in Nat
      BY <2>1
    <3>2. ~(i \in k..n)
      BY <1>6, <3>1
    <3>3. QED
      BY <1>4, <3>1, <3>2
  <2>2. QED
    BY <1>5, <2>1
<1>11. \A i \in 1..(k - 1) : a[i] >= s
  BY <1>5
<1>9. Insert(a, s) = InsertAt(a, Cardinality(P) + 1, s)
  BY DEF Insert
<1> HIDE DEF P, T
<1>8. Cardinality(P) = k - 1
  <2>1. 1 \in Int /\ k - 1 \in Int /\ k \in Nat /\ k >= 1
    BY <1>4
  <2>2. Cardinality(1..(k - 1)) = IF 1 > k - 1 THEN 0 ELSE (k - 1) - 1 + 1
    BY <2>1, FS_Interval
  <2>3. QED
    BY <1>7, <2>1, <2>2
<1>10. Insert(a, s) = With(a, n, k, s)
  <2>1. (k - 1) + 1 = k
    BY <1>4
  <2>2. Insert(a, s) = InsertAt(a, k, s)
    BY <1>8, <1>9, <2>1
  <2>3. InsertAt(a, k, s) = With(a, n, k, s)
    BY <1>4, InsertedAt
  <2>4. QED
    BY <2>2, <2>3
<1>12. QED
  BY <1>4, <1>6, <1>10, <1>11

\* The lengths before the place count as before, those behind it with s.
LEMMA OffsetsWith ==
  ASSUME NEW n \in Nat, NEW a \in [1..n -> Nat], NEW k \in 1..(n + 1), NEW s \in Nat
  PROVE  Amount(With(a, n, k, s)) = Amount(a) + s
<1> DEFINE b == With(a, n, k, s)
<1>1. a \in Seq(Nat) /\ Len(a) = n
  BY LayoutIsSeq
<1>2. b \in [1..(n + 1) -> Nat]
  BY DEF With
<1>3. b \in Seq(Nat) /\ Len(b) = n + 1
  BY <1>2, LayoutIsSeq
<1>4. \A i \in 1..(n + 1) : b[i] = IF i < k THEN a[i] ELSE IF i = k THEN s ELSE a[i - 1]
  BY DEF With
<1> HIDE DEF b
<1>5. /\ Offset(a, 1) = 0 /\ Offset(b, 1) = 0
      /\ \A i \in 1..n : Offset(a, i + 1) = Offset(a, i) + a[i]
      /\ \A i \in 1..(n + 1) : Offset(b, i + 1) = Offset(b, i) + b[i]
  <2>1. n \in Nat /\ n + 1 \in Nat
    OBVIOUS
  <2>2. Offset(a, 1) = 0 /\ \A i \in 1..n : Offset(a, i + 1) = Offset(a, i) + a[i]
    BY <1>1, <2>1, OffsetIs
  <2>3. Offset(b, 1) = 0 /\ \A i \in 1..(n + 1) : Offset(b, i + 1) = Offset(b, i) + b[i]
    BY <1>3, <2>1, OffsetIs
  <2>4. QED
    BY <2>2, <2>3
<1>6. /\ \A i \in 1..(n + 1) : Offset(a, i) \in Nat
      /\ \A i \in 1..(n + 2) : Offset(b, i) \in Nat
  BY <1>1, <1>3, OffsetInNat
<1>7. \A j \in 1..k : Offset(b, j) = Offset(a, j)
  <2> DEFINE T == {j \in Nat : j \in 1..k /\ Offset(b, j) # Offset(a, j)}
  <2>1. SUFFICES ASSUME T # {} PROVE FALSE
    OBVIOUS
  <2>2. PICK j \in T : \A l \in T : j <= l
    BY <2>1, SmallestExists
  <2>3. j # 1 /\ j \in 1..k /\ Offset(b, j) # Offset(a, j)
    BY <1>5, <2>2
  <2>4. j - 1 \in 1..n /\ j - 1 \in 1..(n + 1) /\ j - 1 \notin T /\ j - 1 < k /\ (j - 1) + 1 = j
    BY <2>2, <2>3
  <2>5. Offset(b, j - 1) = Offset(a, j - 1) /\ b[j - 1] = a[j - 1]
    BY <1>4, <2>3, <2>4
  <2>6. Offset(a, j) = Offset(a, j - 1) + a[j - 1] /\ Offset(b, j) = Offset(b, j - 1) + b[j - 1]
    BY <1>5, <2>4
  <2>7. QED
    BY <2>3, <2>5, <2>6
<1>8. \A j \in (k + 1)..(n + 2) : Offset(b, j) = Offset(a, j - 1) + s
  <2> DEFINE T == {j \in Nat : j \in (k + 1)..(n + 2) /\ Offset(b, j) # Offset(a, j - 1) + s}
  <2>1. SUFFICES ASSUME T # {} PROVE FALSE
    OBVIOUS
  <2>2. PICK j \in T : \A l \in T : j <= l
    BY <2>1, SmallestExists
  <2>3. j \in (k + 1)..(n + 2) /\ Offset(b, j) # Offset(a, j - 1) + s
    BY <2>2
  <2>4. j - 1 \in 1..(n + 1) /\ (j - 1) + 1 = j
    BY <2>3
  <2>5. Offset(b, j) = Offset(b, j - 1) + b[j - 1]
    BY <1>5, <2>4
  <2>6. CASE j = k + 1
    <3>1. j - 1 = k
      BY <2>6
    <3>2. b[j - 1] = s
      BY <1>4, <2>4, <3>1
    <3>3. Offset(b, j - 1) = Offset(a, j - 1)
      BY <1>7, <3>1
    <3>4. QED
      BY <2>3, <2>5, <3>2, <3>3
  <2>7. CASE j # k + 1
    <3>1. /\ j - 1 \in (k + 1)..(n + 2) /\ j - 1 \notin T
          /\ j - 2 \in 1..n /\ (j - 2) + 1 = j - 1 /\ (j - 1) - 1 = j - 2
          /\ ~(j - 1 < k) /\ j - 1 # k
      BY <2>2, <2>3, <2>7
    <3>2. Offset(b, j - 1) = Offset(a, j - 2) + s
      BY <2>4, <3>1
    <3>3. b[j - 1] = a[j - 2]
      BY <1>4, <2>4, <3>1
    <3>4. Offset(a, j - 1) = Offset(a, j - 2) + a[j - 2]
      BY <1>5, <3>1
    <3>5. Offset(a, j - 2) \in Nat /\ a[j - 2] \in Nat
      BY <1>6, <3>1
    <3>6. QED
      BY <2>3, <2>5, <3>2, <3>3, <3>4, <3>5
  <2>8. QED
    BY <2>6, <2>7
<1>9. n + 2 \in (k + 1)..(n + 2) /\ (n + 2) - 1 = n + 1 /\ (n + 1) + 1 = n + 2
  OBVIOUS
<1>10. Offset(b, n + 2) = Offset(a, n + 1) + s
  BY <1>8, <1>9
<1>11. QED
  BY <1>1, <1>3, <1>9, <1>10 DEF Amount, b

\* Is a DIMM one of the smallest?
One(s) == IF s = 1 THEN 1 ELSE 0

\* The number of the smallest DIMMs grows by those that are inserted.
LEMMA SmallestWith ==
  ASSUME NEW n \in Nat, NEW a \in [1..n -> Nat \ {0}], NEW k \in 1..(n + 1),
         NEW s \in Nat \ {0},
         \A i \in 1..(k - 1) : a[i] >= s, \A i \in k..n : a[i] < s
  PROVE  /\ Smallest(a) \in Nat
         /\ Smallest(With(a, n, k, s)) = Smallest(a) + One(s)
<1> DEFINE b == With(a, n, k, s)
           A == {i \in 1..n : a[i] = 1}
           B == {i \in 1..(n + 1) : b[i] = 1}
<1>1. Smallest(a) = Cardinality(A) /\ Smallest(b) = Cardinality(B)
  BY DEF Smallest, With
<1>2. \A i \in 1..(n + 1) : b[i] = IF i < k THEN a[i] ELSE IF i = k THEN s ELSE a[i - 1]
  BY DEF With
<1> HIDE DEF b
<1>3. IsFiniteSet(A) /\ Cardinality(A) \in Nat
  <2>1. IsFiniteSet(1..n) /\ A \in SUBSET (1..n)
    BY FS_Interval
  <2>2. IsFiniteSet(A)
    BY <2>1, FS_Subset
  <2>3. QED
    BY <2>2, FS_CardinalityType
<1>4. CASE s = 1
  <2>1. k = n + 1
    <3>1. SUFFICES ASSUME k # n + 1 PROVE FALSE
      OBVIOUS
    <3>2. k \in k..n /\ k \in 1..n
      BY <3>1
    <3>3. a[k] < 1 /\ a[k] \in Nat \ {0}
      BY <1>4, <3>2
    <3>4. QED
      BY <3>3
  <2>2. B = A \cup {n + 1}
    <3>1. b[n + 1] = 1
      BY <1>2, <1>4, <2>1
    <3>2. \A i \in 1..n : b[i] = a[i]
      BY <1>2, <2>1
    <3>3. QED
      BY <3>1, <3>2
  <2>3. n + 1 \notin A
    OBVIOUS
  <2> HIDE DEF A, B
  <2>4. Cardinality(B) = Cardinality(A) + 1
    BY <1>3, <2>2, <2>3, FS_AddElement
  <2>5. QED
    BY <1>1, <1>3, <1>4, <2>4 DEF b, One
<1>5. CASE s # 1
  <2> DEFINE f == [i \in A |-> i + 1]
  <2>1. \A i \in A : i >= k /\ i \in 1..n /\ i + 1 \in 1..(n + 1) /\ b[i + 1] = 1
    <3>1. SUFFICES ASSUME NEW i \in A PROVE i >= k /\ i \in 1..n /\ i + 1 \in 1..(n + 1) /\ b[i + 1] = 1
      OBVIOUS
    <3>2. i \in 1..n /\ a[i] = 1
      OBVIOUS
    <3>3. i >= k
      <4>1. SUFFICES ASSUME ~(i >= k) PROVE FALSE
        OBVIOUS
      <4>2. i \in 1..(k - 1)
        BY <3>2, <4>1
      <4>3. a[i] >= s
        BY <4>2
      <4>4. QED
        BY <1>5, <3>2, <4>3
    <3>4. i + 1 \in 1..(n + 1) /\ ~(i + 1 < k) /\ i + 1 # k /\ (i + 1) - 1 = i
      BY <3>2, <3>3
    <3>5. QED
      BY <1>2, <3>2, <3>3, <3>4
  <2>2. \A j \in B : j - 1 \in A /\ (j - 1) + 1 = j
    <3>1. SUFFICES ASSUME NEW j \in B PROVE j - 1 \in A /\ (j - 1) + 1 = j
      OBVIOUS
    <3>2. j \in 1..(n + 1) /\ b[j] = 1
      OBVIOUS
    <3>3. j # k
      BY <1>2, <1>5, <3>2
    <3>4. ~(j < k)
      <4>1. SUFFICES ASSUME j < k PROVE FALSE
        OBVIOUS
      <4>2. j \in 1..(k - 1) /\ a[j] = 1
        BY <1>2, <3>2, <4>1
      <4>3. a[j] >= s
        BY <4>2
      <4>4. QED
        BY <1>5, <4>2, <4>3
    <3>5. j - 1 \in 1..n /\ a[j - 1] = 1
      BY <1>2, <3>2, <3>3, <3>4
    <3>6. QED
      BY <3>2, <3>5
  <2>3. f \in Bijection(A, B)
    <3>1. f \in [A -> B]
      BY <2>1
    <3>2. \A x, y \in A : f[x] = f[y] => x = y
      BY <2>1
    <3>3. \A j \in B : \E i \in A : f[i] = j
      BY <2>2
    <3> HIDE DEF A, B, f
    <3>4. QED
      BY <3>1, <3>2, <3>3 DEF Bijection, Injection, Surjection, IsInjective
  <2> HIDE DEF A, B, f
  <2>4. Cardinality(B) = Cardinality(A)
    BY <1>3, <2>3, FS_Bijection DEF ExistsBijection
  <2>5. QED
    BY <1>1, <1>3, <1>5, <2>4 DEF b, One
<1>6. QED
  BY <1>4, <1>5
-----------------------------------------------------------------------------
\* Layouts in an order.

\* Larger orders sequences of one length: none is larger than itself ...
LEMMA LargerIrreflexive ==
  ASSUME NEW n \in Nat, NEW a \in [1..n -> Nat]
  PROVE  ~Larger(a, a)
<1>1. \A i \in 1..n : ~(a[i] > a[i])
  <2>1. \A i \in 1..n : a[i] \in Nat
    OBVIOUS
  <2>2. QED
    BY <2>1
<1>2. QED
  BY <1>1 DEF Larger

\* ... what a larger one is larger than is smaller, too ...
LEMMA LargerTransitive ==
  ASSUME NEW n \in Nat, NEW a \in [1..n -> Nat], NEW b \in [1..n -> Nat],
         NEW c \in [1..n -> Nat], Larger(a, b), Larger(b, c)
  PROVE  Larger(a, c)
<1>1. PICK i \in 1..n : a[i] > b[i] /\ \A j \in 1..(i - 1) : a[j] = b[j]
  BY DEF Larger
<1>2. PICK k \in 1..n : b[k] > c[k] /\ \A j \in 1..(k - 1) : b[j] = c[j]
  BY DEF Larger
<1>3. \A j \in 1..n : a[j] \in Nat /\ b[j] \in Nat /\ c[j] \in Nat
  OBVIOUS
<1>4. CASE i <= k
  <2>1. a[i] > c[i]
    <3>1. CASE i = k
      BY <1>1, <1>2, <1>3, <3>1
    <3>2. CASE i < k
      <4>1. i \in 1..(k - 1)
        BY <3>2
      <4>2. b[i] = c[i]
        BY <1>2, <4>1
      <4>3. QED
        BY <1>1, <4>2
    <3>3. QED
      BY <1>4, <3>1, <3>2
  <2>2. \A j \in 1..(i - 1) : a[j] = c[j]
    <3>1. \A j \in 1..(i - 1) : j \in 1..(k - 1)
      BY <1>4
    <3>2. QED
      BY <1>1, <1>2, <3>1
  <2>3. QED
    BY <2>1, <2>2 DEF Larger
<1>5. CASE k < i
  <2>1. k \in 1..(i - 1)
    BY <1>5
  <2>2. a[k] > c[k]
    BY <1>1, <1>2, <2>1
  <2>3. \A j \in 1..(k - 1) : a[j] = c[j]
    <3>1. \A j \in 1..(k - 1) : j \in 1..(i - 1)
      BY <1>5
    <3>2. QED
      BY <1>1, <1>2, <3>1
  <2>4. QED
    BY <2>2, <2>3 DEF Larger
<1>6. QED
  BY <1>4, <1>5

\* ... and of two one is larger.
LEMMA LargerTotal ==
  ASSUME NEW n \in Nat, NEW a \in [1..n -> Nat], NEW b \in [1..n -> Nat], a # b
  PROVE  Larger(a, b) \/ Larger(b, a)
<1> DEFINE T == {i \in Nat : i \in 1..n /\ a[i] # b[i]}
<1>1. T # {}
  <2>1. PICK i \in 1..n : a[i] # b[i]
    OBVIOUS
  <2>2. i \in T
    BY <2>1
  <2>3. QED
    BY <2>2
<1>2. PICK i \in T : \A j \in T : i <= j
  BY <1>1, SmallestExists
<1>3. i \in 1..n /\ a[i] # b[i] /\ a[i] \in Nat /\ b[i] \in Nat
  BY <1>2
<1>4. \A j \in 1..(i - 1) : a[j] = b[j]
  <2>1. SUFFICES ASSUME NEW j \in 1..(i - 1), a[j] # b[j] PROVE FALSE
    OBVIOUS
  <2>2. j \in Nat /\ j \in 1..n /\ ~(i <= j)
    BY <1>3
  <2>3. j \in T
    BY <2>1, <2>2
  <2>4. QED
    BY <1>2, <2>2, <2>3
<1>5. a[i] > b[i] \/ b[i] > a[i]
  BY <1>3
<1>6. QED
  BY <1>3, <1>4, <1>5 DEF Larger

\* The number of smallest DIMMs is one.
LEMMA SmallestInNat ==
  ASSUME NEW n \in Nat, NEW a \in [1..n -> Nat]
  PROVE  Smallest(a) \in Nat
<1>1. {i \in DOMAIN a : a[i] = 1} \in SUBSET (1..n)
  OBVIOUS
<1>2. IsFiniteSet({i \in DOMAIN a : a[i] = 1})
  BY <1>1, FS_Interval, FS_Subset
<1>3. QED
  BY <1>2, FS_CardinalityType DEF Smallest

\* Layouts with any number of DIMMs.
Sequences == UNION {[1..n -> Nat] : n \in Nat}

\* The order of choose_layout: no layout is better than itself ...
LEMMA BetterIrreflexive ==
  ASSUME NEW a \in Sequences
  PROVE  ~Better(a, a)
<1>1. PICK n \in Nat : a \in [1..n -> Nat]
  BY DEF Sequences
<1>2. Smallest(a) \in Nat /\ Len(a) \in Nat /\ ~Larger(a, a)
  BY <1>1, SmallestInNat, LayoutIsSeq, LargerIrreflexive
<1>3. QED
  BY <1>2 DEF Better

\* ... and what a better one is better than is worse, too ...
LEMMA BetterTransitive ==
  ASSUME NEW a \in Sequences, NEW b \in Sequences, NEW c \in Sequences,
         Better(a, b), Better(b, c)
  PROVE  Better(a, c)
<1>1. PICK n \in Nat : a \in [1..n -> Nat]
  BY DEF Sequences
<1>2. PICK m \in Nat : b \in [1..m -> Nat]
  BY DEF Sequences
<1>3. PICK l \in Nat : c \in [1..l -> Nat]
  BY DEF Sequences
<1>4. /\ Smallest(a) \in Nat /\ Smallest(b) \in Nat /\ Smallest(c) \in Nat
      /\ Len(a) = n /\ Len(b) = m /\ Len(c) = l
  BY <1>1, <1>2, <1>3, SmallestInNat, LayoutIsSeq
<1>5. n = m /\ m = l /\ Larger(a, b) /\ Larger(b, c) => Larger(a, c)
  BY <1>1, <1>2, <1>3, LargerTransitive
<1> DEFINE x == Smallest(a)
           y == Smallest(b)
           z == Smallest(c)
           p == TwoEqual(a)
           q == TwoEqual(b)
           r == TwoEqual(c)
<1>6. x < y \/ (x = y /\ ((p /\ ~q) \/ ((p <=> q) /\ (n < m \/ (n = m /\ Larger(a, b))))))
  BY <1>4 DEF Better
<1>7. y < z \/ (y = z /\ ((q /\ ~r) \/ ((q <=> r) /\ (m < l \/ (m = l /\ Larger(b, c))))))
  BY <1>4 DEF Better
<1>8. x < z \/ (x = z /\ ((p /\ ~r) \/ ((p <=> r) /\ (n < l \/ (n = l /\ Larger(a, c))))))
  <2>1. x \in Nat /\ y \in Nat /\ z \in Nat
    BY <1>4
  <2> HIDE DEF x, y, z, p, q, r
  <2>2. x <= y /\ y <= z /\ x <= z
    BY <1>6, <1>7, <2>1
  <2>3. CASE x < y \/ y < z
    BY <2>1, <2>2, <2>3
  <2>4. CASE x = y /\ y = z
    <3>1. (p /\ ~q) \/ ((p <=> q) /\ (n < m \/ (n = m /\ Larger(a, b))))
      BY <1>6, <2>1, <2>4
    <3>2. (q /\ ~r) \/ ((q <=> r) /\ (m < l \/ (m = l /\ Larger(b, c))))
      BY <1>7, <2>1, <2>4
    <3>3. n < m \/ n = m \/ n > m
      OBVIOUS
    <3>4. (n < m \/ (n = m /\ Larger(a, b))) /\ (m < l \/ (m = l /\ Larger(b, c)))
             => n < l \/ (n = l /\ Larger(a, c))
      BY <1>5
    <3>5. (p /\ ~r) \/ ((p <=> r) /\ (n < l \/ (n = l /\ Larger(a, c))))
      BY <3>1, <3>2, <3>4, Zenon
    <3>6. QED
      BY <2>4, <3>5
  <2>5. QED
    BY <2>1, <2>2, <2>3, <2>4
<1>9. QED
  BY <1>4, <1>8 DEF Better

\* ... and of two layouts one is the better.
LEMMA BetterTotal ==
  ASSUME NEW a \in Sequences, NEW b \in Sequences, a # b
  PROVE  Better(a, b) \/ Better(b, a)
<1>1. PICK n \in Nat : a \in [1..n -> Nat]
  BY DEF Sequences
<1>2. PICK m \in Nat : b \in [1..m -> Nat]
  BY DEF Sequences
<1>3. Smallest(a) \in Nat /\ Smallest(b) \in Nat /\ Len(a) = n /\ Len(b) = m
  BY <1>1, <1>2, SmallestInNat, LayoutIsSeq
<1>4. n = m => Larger(a, b) \/ Larger(b, a)
  BY <1>1, <1>2, LargerTotal
<1>5. QED
  BY <1>3, <1>4 DEF Better

\* Among layouts of one length the order of the kept ones is the same, but for
\* the two equal DIMMs.
LEMMA PreferredOrders ==
  ASSUME NEW n \in Nat, NEW a \in [1..n -> Nat], NEW b \in [1..n -> Nat],
         NEW c \in [1..n -> Nat]
  PROVE  /\ ~Preferred(a, a)
         /\ Preferred(a, b) /\ Preferred(b, c) => Preferred(a, c)
         /\ a # b => Preferred(a, b) \/ Preferred(b, a)
<1>1. Smallest(a) \in Nat /\ Smallest(b) \in Nat /\ Smallest(c) \in Nat
  BY SmallestInNat
<1>2. ~Larger(a, a)
  BY LargerIrreflexive
<1>3. Larger(a, b) /\ Larger(b, c) => Larger(a, c)
  BY LargerTransitive
<1>4. a # b => Larger(a, b) \/ Larger(b, a)
  BY LargerTotal
<1>5. ~Preferred(a, a)
  BY <1>1, <1>2 DEF Preferred
<1>6. Preferred(a, b) /\ Preferred(b, c) => Preferred(a, c)
  BY <1>1, <1>3 DEF Preferred
<1>7. a # b => Preferred(a, b) \/ Preferred(b, a)
  BY <1>1, <1>4 DEF Preferred
<1>8. QED
  BY <1>5, <1>6, <1>7
-----------------------------------------------------------------------------
\* The layouts of one length.

\* There are finitely many sequences of n numbers up to u.
LEMMA FinitelyMany ==
  ASSUME NEW n \in Nat, NEW u \in Nat
  PROVE  IsFiniteSet([1..n -> 1..u])
<1> DEFINE F == [1..n -> 1..u]
           G == SUBSET ((1..n) \X (1..u))
           graph == [f \in F |-> {<<i, f[i]>> : i \in 1..n}]
<1>1. IsFiniteSet(G)
  <2>1. IsFiniteSet(1..n) /\ IsFiniteSet(1..u)
    BY FS_Interval
  <2>2. IsFiniteSet((1..n) \X (1..u))
    BY <2>1, FS_Product
  <2>3. QED
    BY <2>2, FS_SUBSET
<1>2. graph \in [F -> G]
  OBVIOUS
<1>3. ASSUME NEW f \in F, NEW g \in F, graph[f] = graph[g] PROVE f = g
  <2>1. ASSUME NEW i \in 1..n PROVE f[i] = g[i]
    <3>1. <<i, f[i]>> \in graph[f]
      OBVIOUS
    <3>2. <<i, f[i]>> \in {<<j, g[j]>> : j \in 1..n}
      BY <1>3, <3>1
    <3>3. PICK j \in 1..n : <<i, f[i]>> = <<j, g[j]>>
      BY <3>2
    <3>4. QED
      BY <3>3
  <2>2. QED
    BY <2>1
<1> HIDE DEF F, G, graph
<1>4. graph \in Injection(F, G)
  BY <1>2, <1>3 DEF Injection, IsInjective
<1>5. IsFiniteSet(F)
  BY <1>1, <1>4, FS_Injection
<1>6. QED
  BY <1>5 DEF F

\* No size is larger than all together.
LEMMA SizesBounded ==
  ASSUME NEW n \in Nat, NEW a \in [1..n -> Nat]
  PROVE  Amount(a) \in Nat /\ \A i \in 1..n : a[i] <= Amount(a)
<1>1. a \in Seq(Nat) /\ Len(a) = n
  BY LayoutIsSeq
<1>2. \A i \in 1..(n + 1) : Offset(a, i) \in Nat
  BY <1>1, OffsetInNat
<1>3. Amount(a) = Offset(a, n + 1) /\ n + 1 \in 1..(n + 1)
  BY <1>1 DEF Amount
<1>4. ASSUME NEW i \in 1..n PROVE a[i] <= Amount(a)
  <2>1. i \in 1..(n + 1) /\ i + 1 \in 1..(n + 1) /\ i + 1 <= n + 1
    OBVIOUS
  <2>2. Offset(a, i + 1) = Offset(a, i) + a[i]
    BY <1>1, OffsetIs
  <2>3. Offset(a, i + 1) <= Offset(a, n + 1)
    BY <1>1, <1>3, <2>1, OffsetMonotone
  <2>4. Offset(a, i) \in Nat /\ Offset(a, i + 1) \in Nat /\ Offset(a, n + 1) \in Nat /\ a[i] \in Nat
    BY <1>2, <1>3, <2>1
  <2>5. QED
    BY <1>3, <2>2, <2>3, <2>4
<1>5. QED
  BY <1>2, <1>3, <1>4

\* The layouts that n DIMMs of these sizes make of an amount.
LayoutsOf(sizes, n, u) ==
  {a \in [1..n -> sizes] : Descending(a, n) /\ Amount(a) = u}

\* There are finitely many.
LEMMA LayoutsFinite ==
  ASSUME NEW sizes \in SUBSET (Nat \ {0}), NEW n \in Nat, NEW u \in Nat
  PROVE  IsFiniteSet(LayoutsOf(sizes, n, u)) /\ LayoutsOf(sizes, n, u) \in SUBSET [1..n -> 1..u]
<1>1. ASSUME NEW a \in LayoutsOf(sizes, n, u) PROVE a \in [1..n -> 1..u]
  <2>1. a \in [1..n -> sizes] /\ Amount(a) = u
    BY DEF LayoutsOf
  <2>2. a \in [1..n -> Nat] /\ \A i \in 1..n : a[i] \in Nat \ {0}
    BY <2>1
  <2>3. \A i \in 1..n : a[i] <= u
    BY <2>1, <2>2, SizesBounded
  <2>4. \A i \in 1..n : a[i] \in 1..u
    BY <2>2, <2>3
  <2>5. QED
    BY <2>1, <2>4
<1>2. LayoutsOf(sizes, n, u) \in SUBSET [1..n -> 1..u]
  BY <1>1
<1>3. QED
  BY <1>2, FinitelyMany, FS_Subset

\* Pairs of layouts of which a search keeps the first.
Kept(S) == {p \in S \X S : Preferred(p[1], p[2])}

\* Of some layouts of one length one is kept before all others.
LEMMA PreferredExists ==
  ASSUME NEW n \in Nat, NEW S \in SUBSET [1..n -> Nat], IsFiniteSet(S), S # {}
  PROVE  \E b \in S : \A a \in S \ {b} : Preferred(b, a)
<1>1. \A a, b \in S : <<a, b>> \in Kept(S) <=> Preferred(a, b)
  BY DEF Kept
<1>2. \A a \in S : a \in [1..n -> Nat]
  OBVIOUS
<1>3. \A a, b, c \in S :
        /\ ~Preferred(a, a)
        /\ Preferred(a, b) /\ Preferred(b, c) => Preferred(a, c)
        /\ a # b => Preferred(a, b) \/ Preferred(b, a)
  BY <1>2, PreferredOrders
<1>4. StrictOrder(Kept(S), S)
  BY <1>1, <1>3 DEF StrictOrder
<1>5. \E b \in S : \A a \in S \ {b} : <<b, a>> \in Kept(S)
  BY <1>4, FirstExists, Zenon
<1>6. QED
  BY <1>1, <1>5

\* It is the one that is chosen.
LEMMA LeastPreferred ==
  ASSUME NEW n \in Nat, NEW S \in SUBSET [1..n -> Nat],
         NEW b \in S, \A a \in S \ {b} : Preferred(b, a)
  PROVE  Least(S, Preferred) = b
<1> DEFINE c == CHOOSE c \in S : \A a \in S \ {c} : Preferred(c, a)
<1>1. c \in S /\ \A a \in S \ {c} : Preferred(c, a)
  BY Zenon
<1>2. Least(S, Preferred) = c
  BY DEF Least
<1> HIDE DEF c
<1>3. SUFFICES ASSUME c # b PROVE FALSE
  BY <1>2
<1>4. Preferred(c, b) /\ Preferred(b, c)
  BY <1>1, <1>3
<1>5. b \in [1..n -> Nat] /\ c \in [1..n -> Nat]
  BY <1>1
<1>6. QED
  BY <1>4, <1>5, PreferredOrders

\* The same for layouts of any length and the order of the final choice.
LEMMA BetterExists ==
  ASSUME NEW S \in SUBSET Sequences, IsFiniteSet(S), S # {}
  PROVE  \E b \in S : \A a \in S \ {b} : Better(b, a)
<1> DEFINE R == {p \in S \X S : Better(p[1], p[2])}
<1>1. \A a, b \in S : <<a, b>> \in R <=> Better(a, b)
  OBVIOUS
<1>2. \A a \in S : a \in Sequences
  OBVIOUS
<1>3. \A a, b, c \in S :
        /\ ~Better(a, a)
        /\ Better(a, b) /\ Better(b, c) => Better(a, c)
        /\ a # b => Better(a, b) \/ Better(b, a)
  BY <1>2, BetterIrreflexive, BetterTransitive, BetterTotal
<1> HIDE DEF R
<1>4. StrictOrder(R, S)
  BY <1>1, <1>3 DEF StrictOrder
<1>5. \E b \in S : \A a \in S \ {b} : <<b, a>> \in R
  BY <1>4, FirstExists, Zenon
<1>6. QED
  BY <1>1, <1>5

\* The best one is the one that is chosen.
LEMMA LeastBetter ==
  ASSUME NEW S \in SUBSET Sequences,
         NEW b \in S, \A a \in S \ {b} : Better(b, a)
  PROVE  Least(S, Better) = b
<1> DEFINE c == CHOOSE c \in S : \A a \in S \ {c} : Better(c, a)
<1>1. c \in S /\ \A a \in S \ {c} : Better(c, a)
  BY Zenon
<1>2. Least(S, Better) = c
  BY DEF Least
<1> HIDE DEF c
<1>3. SUFFICES ASSUME c # b PROVE FALSE
  BY <1>2
<1>4. Better(c, b) /\ Better(b, c)
  BY <1>1, <1>3
<1>5. b \in Sequences /\ c \in Sequences
  BY <1>1
<1>6. QED
  BY <1>4, <1>5, BetterIrreflexive, BetterTransitive
-----------------------------------------------------------------------------
\* One DIMM more.

\* Where all up to a place are not smaller than s, b is as a.
Leading(a, n, s, b) ==
  \A i \in 1..n : (\A j \in 1..i : a[j] >= s) => \A j \in 1..i : b[j] = a[j]

\* What an insertion into a layout is, and that it is a layout.
LEMMA InsertLayout ==
  ASSUME NEW sizes \in SUBSET (Nat \ {0}), NEW n \in Nat, NEW u \in Nat,
         NEW a \in LayoutsOf(sizes, n, u), NEW s \in sizes
  PROVE  /\ Insert(a, s) \in LayoutsOf(sizes, n + 1, u + s)
         /\ Smallest(Insert(a, s)) = Smallest(a) + One(s)
         /\ Leading(a, n, s, Insert(a, s))
<1>1. a \in [1..n -> sizes] /\ Descending(a, n) /\ Amount(a) = u
  BY DEF LayoutsOf
<1>2. s \in Nat /\ s \in Nat \ {0} /\ a \in [1..n -> Nat] /\ a \in [1..n -> Nat \ {0}]
  BY <1>1
<1>3. PICK k \in 1..(n + 1) :
        /\ Insert(a, s) = With(a, n, k, s)
        /\ \A i \in 1..(k - 1) : a[i] >= s
        /\ \A i \in k..n : a[i] < s
  BY <1>1, <1>2, InsertIs
<1> DEFINE b == With(a, n, k, s)
<1>4. /\ b \in [1..(n + 1) -> sizes]
      /\ \A i \in 1..(n + 1) : b[i] = IF i < k THEN a[i] ELSE IF i = k THEN s ELSE a[i - 1]
  BY <1>1 DEF With
<1>5. Amount(b) = u + s
  BY <1>1, <1>2, OffsetsWith
<1>6. Smallest(b) = Smallest(a) + One(s)
  BY <1>2, <1>3, SmallestWith
<1> HIDE DEF b
<1>7. Descending(b, n + 1)
  <2>1. SUFFICES ASSUME NEW i \in 2..(n + 1) PROVE b[i - 1] >= b[i]
    BY DEF Descending
  <2>2. i \in 1..(n + 1) /\ i - 1 \in 1..(n + 1) /\ i - 1 \in 1..n
    OBVIOUS
  <2>3. CASE i < k
    <3>1. b[i] = a[i] /\ b[i - 1] = a[i - 1] /\ i \in 2..n
      BY <1>4, <2>2, <2>3
    <3>2. QED
      BY <1>1, <3>1 DEF Descending
  <2>4. CASE i = k
    <3>1. b[i] = s /\ b[i - 1] = a[i - 1] /\ i - 1 \in 1..(k - 1)
      BY <1>4, <2>2, <2>4
    <3>2. QED
      BY <1>3, <3>1
  <2>5. CASE i = k + 1
    <3>1. b[i] = a[i - 1] /\ b[i - 1] = s /\ i - 1 \in k..n
      BY <1>4, <2>2, <2>5
    <3>2. a[i - 1] < s /\ a[i - 1] \in Nat
      BY <1>2, <1>3, <2>2, <3>1
    <3>3. QED
      BY <1>2, <3>1, <3>2
  <2>6. CASE i > k + 1
    <3>1. b[i] = a[i - 1] /\ b[i - 1] = a[(i - 1) - 1] /\ i - 1 \in 2..n
      BY <1>4, <2>2, <2>6
    <3>2. QED
      BY <1>1, <3>1 DEF Descending
  <2>7. QED
    BY <2>3, <2>4, <2>5, <2>6
<1>8. ASSUME NEW i \in 1..n, \A j \in 1..i : a[j] >= s, NEW j \in 1..i
      PROVE  b[j] = a[j]
  <2>1. i < k
    <3>1. SUFFICES ASSUME ~(i < k) PROVE FALSE
      OBVIOUS
    <3>2. i \in k..n /\ i \in 1..i
      BY <3>1
    <3>3. a[i] < s /\ a[i] >= s /\ a[i] \in Nat
      BY <1>2, <1>3, <1>8, <3>2
    <3>4. QED
      BY <1>2, <3>3
  <2>2. j \in 1..(n + 1) /\ j < k
    BY <2>1
  <2>3. QED
    BY <1>4, <2>2
<1>9. b \in LayoutsOf(sizes, n + 1, u + s)
  BY <1>4, <1>5, <1>7 DEF LayoutsOf
<1>10. Insert(a, s) = b
  BY <1>3 DEF b
<1> HIDE DEF b
<1>11. QED
  BY <1>6, <1>8, <1>9, <1>10 DEF Leading

\* Without its last DIMM a layout is one that the DIMM is inserted into.
LEMMA WithoutLast ==
  ASSUME NEW sizes \in SUBSET (Nat \ {0}), NEW n \in Nat, NEW u \in Nat,
         NEW b \in LayoutsOf(sizes, n + 1, u)
  PROVE  \E s \in sizes : \E a \in LayoutsOf(sizes, n, u - s) :
           u - s \in Nat /\ (\A i \in 1..n : a[i] >= s) /\ Insert(a, s) = b
<1> DEFINE s == b[n + 1]
           a == [i \in 1..n |-> b[i]]
<1>1. b \in [1..(n + 1) -> sizes] /\ Descending(b, n + 1) /\ Amount(b) = u
  BY DEF LayoutsOf
<1>2. s \in sizes /\ s \in Nat /\ s \in Nat \ {0} /\ b \in [1..(n + 1) -> Nat]
  <2>1. n + 1 \in 1..(n + 1)
    OBVIOUS
  <2>2. QED
    BY <1>1, <2>1
<1>3. /\ a \in [1..n -> sizes] /\ a \in [1..n -> Nat]
      /\ \A i \in 1..n : a[i] = b[i]
  <2>1. \A i \in 1..n : i \in 1..(n + 1)
    OBVIOUS
  <2>2. \A i \in 1..n : b[i] \in sizes
    BY <1>1, <2>1
  <2> HIDE DEF s
  <2>3. a \in [1..n -> sizes] /\ \A i \in 1..n : a[i] = b[i]
    BY <2>2
  <2>4. QED
    BY <2>3
<1> HIDE DEF a
<1>4. Descending(a, n)
  <2>1. \A i \in 2..n : i - 1 \in 1..n /\ i \in 1..n /\ i \in 2..(n + 1)
    OBVIOUS
  <2>2. QED
    BY <1>1, <1>3, <2>1 DEF Descending
<1>5. \A i \in 1..n : a[i] >= s
  <2>1. n + 1 \in Nat /\ n + 1 \in 1..(n + 1) /\ \A i \in 1..n : i \in 1..(n + 1) /\ i <= n + 1
    OBVIOUS
  <2>2. QED
    BY <1>1, <1>2, <1>3, <2>1, LargestFirst DEF Descending
<1>6. PICK k \in 1..(n + 1) :
        /\ Insert(a, s) = With(a, n, k, s)
        /\ \A i \in 1..(k - 1) : a[i] >= s
        /\ \A i \in k..n : a[i] < s
  BY <1>2, <1>3, <1>4, InsertIs
<1>7. k = n + 1
  <2>1. SUFFICES ASSUME k # n + 1 PROVE FALSE
    OBVIOUS
  <2>2. k \in k..n /\ k \in 1..n
    BY <2>1
  <2>3. a[k] < s /\ a[k] >= s /\ a[k] \in Nat
    BY <1>3, <1>5, <1>6, <2>2
  <2>4. QED
    BY <1>2, <2>3
<1>8. With(a, n, k, s) = b
  <2> DEFINE c == With(a, n, k, s)
  <2>1. /\ c \in [1..(n + 1) -> sizes]
        /\ \A i \in 1..(n + 1) : c[i] = IF i < k THEN a[i] ELSE IF i = k THEN s ELSE a[i - 1]
    BY <1>2, <1>3 DEF With
  <2> HIDE DEF c
  <2>2. ASSUME NEW i \in 1..(n + 1) PROVE c[i] = b[i]
    <3>1. CASE i = n + 1
      BY <1>7, <2>1, <3>1
    <3>2. CASE i # n + 1
      <4>1. i \in 1..n /\ i < k
        BY <1>7, <3>2
      <4>2. QED
        BY <1>3, <2>1, <4>1
    <3>3. QED
      BY <3>1, <3>2
  <2>3. c = b
    BY <1>1, <2>1, <2>2
  <2>4. QED
    BY <2>3 DEF c
<1>9. u = Amount(a) + s
  <2>1. Amount(With(a, n, k, s)) = Amount(a) + s
    BY <1>2, <1>3, OffsetsWith
  <2>2. QED
    BY <1>1, <1>8, <2>1
<1>10. Amount(a) \in Nat
  BY <1>3, SizesBounded
<1>11. Amount(a) = u - s /\ u - s \in Nat
  BY <1>2, <1>9, <1>10
<1>12. a \in LayoutsOf(sizes, n, u - s)
  BY <1>3, <1>4, <1>11 DEF LayoutsOf
<1>13. s \in sizes /\ Insert(a, s) = b
  BY <1>2, <1>6, <1>8
<1> HIDE DEF s
<1>14. QED
  BY <1>5, <1>11, <1>12, <1>13

\* The preferred one of two layouts stays it when both get the same DIMM, and
\* none of the other has a smaller one.
LEMMA InsertKeepsOrder ==
  ASSUME NEW sizes \in SUBSET (Nat \ {0}), NEW n \in Nat, NEW u \in Nat,
         NEW a \in LayoutsOf(sizes, n, u), NEW b \in LayoutsOf(sizes, n, u),
         NEW s \in sizes, \A i \in 1..n : b[i] >= s, Preferred(a, b)
  PROVE  Preferred(Insert(a, s), Insert(b, s))
<1> DEFINE c == Insert(a, s)
           d == Insert(b, s)
<1>1. a \in [1..n -> Nat] /\ b \in [1..n -> Nat] /\ s \in Nat
  BY DEF LayoutsOf
<1>2. /\ c \in [1..(n + 1) -> Nat] /\ d \in [1..(n + 1) -> Nat]
      /\ Smallest(c) = Smallest(a) + One(s) /\ Smallest(d) = Smallest(b) + One(s)
      /\ Leading(a, n, s, c) /\ Leading(b, n, s, d)
  <2>1. /\ Insert(a, s) \in LayoutsOf(sizes, n + 1, u + s)
        /\ Smallest(Insert(a, s)) = Smallest(a) + One(s)
        /\ Leading(a, n, s, Insert(a, s))
    BY InsertLayout, Zenon
  <2>2. /\ Insert(b, s) \in LayoutsOf(sizes, n + 1, u + s)
        /\ Smallest(Insert(b, s)) = Smallest(b) + One(s)
        /\ Leading(b, n, s, Insert(b, s))
    BY InsertLayout, Zenon
  <2>3. LayoutsOf(sizes, n + 1, u + s) \subseteq [1..(n + 1) -> Nat]
    BY DEF LayoutsOf
  <2> HIDE DEF c, d
  <2>5. QED
    BY <2>1, <2>2, <2>3 DEF c, d
<1> HIDE DEF c, d
<1>3. Smallest(a) \in Nat /\ Smallest(b) \in Nat /\ One(s) \in Nat
  BY <1>1, SmallestInNat DEF One
<1>4. CASE Smallest(a) < Smallest(b)
  <2>1. Smallest(c) < Smallest(d)
    BY <1>2, <1>3, <1>4
  <2>2. QED
    BY <2>1 DEF Preferred, c, d
<1>5. CASE Smallest(a) = Smallest(b) /\ Larger(a, b)
  <2>1. PICK i \in 1..n : a[i] > b[i] /\ \A j \in 1..(i - 1) : a[j] = b[j]
    BY <1>1, <1>5 DEF Larger
  <2>2. \A j \in 1..i : j \in 1..n /\ a[j] >= s /\ b[j] >= s
    <3>1. SUFFICES ASSUME NEW j \in 1..i PROVE j \in 1..n /\ a[j] >= s /\ b[j] >= s
      OBVIOUS
    <3>2. j \in 1..n /\ (j = i \/ j \in 1..(i - 1))
      OBVIOUS
    <3>3. b[j] >= s /\ b[j] \in Nat /\ a[j] \in Nat
      BY <1>1, <3>2
    <3>4. a[j] >= b[j]
      BY <2>1, <3>2, <3>3
    <3>5. QED
      BY <1>1, <3>2, <3>3, <3>4
  <2>3. \A j \in 1..i : c[j] = a[j] /\ d[j] = b[j]
    BY <1>2, <2>2 DEF Leading
  <2>4. i \in 1..i /\ i \in 1..(n + 1) /\ \A j \in 1..(i - 1) : j \in 1..i
    OBVIOUS
  <2>5. c[i] > d[i] /\ \A j \in 1..(i - 1) : c[j] = d[j]
    BY <2>1, <2>3, <2>4
  <2>6. DOMAIN c = 1..(n + 1) /\ DOMAIN d = 1..(n + 1)
    BY <1>2
  <2>7. Larger(c, d)
    BY <2>4, <2>5, <2>6 DEF Larger
  <2>8. Smallest(c) = Smallest(d)
    BY <1>2, <1>5
  <2>9. QED
    BY <2>7, <2>8 DEF Preferred, c, d
<1>6. QED
  BY <1>4, <1>5 DEF Preferred
-----------------------------------------------------------------------------
\* The search.

\* For each amount that n DIMMs can make, the state has the preferred layout.
StateOk(state, sizes, n, total) ==
  /\ \A u \in DOMAIN state :
       /\ u \in 0..total /\ state[u] \in LayoutsOf(sizes, n, u)
       /\ \A a \in LayoutsOf(sizes, n, u) \ {state[u]} : Preferred(state[u], a)
  /\ \A u \in 0..total : LayoutsOf(sizes, n, u) # {} => u \in DOMAIN state

\* No DIMM makes nothing.
LEMMA NoDimm ==
  ASSUME NEW sizes \in SUBSET (Nat \ {0}), NEW total \in Nat
  PROVE  StateOk([u \in {0} |-> NoLayout], sizes, 0, total)
<1> DEFINE state == [u \in {0} |-> NoLayout]
<1>1. \A a \in [1..0 -> sizes] : a = NoLayout
  BY DEF NoLayout
<1>2. NoLayout \in [1..0 -> sizes]
  BY DEF NoLayout
<1>3. Amount(NoLayout) = 0
  <2>1. NoLayout \in [1..0 -> Nat] /\ 0 \in Nat
    BY DEF NoLayout
  <2>2. Len(NoLayout) = 0
    BY <2>1, LayoutIsSeq
  <2>3. Offset(NoLayout, 1) = 0
    BY <2>2, OffsetIs
  <2>4. Len(NoLayout) + 1 = 1
    BY <2>2
  <2>5. QED
    BY <2>3, <2>4 DEF Amount
<1>4. NoLayout \in LayoutsOf(sizes, 0, 0)
  BY <1>2, <1>3 DEF LayoutsOf, Descending
<1>5. \A u : LayoutsOf(sizes, 0, u) \subseteq {NoLayout}
  BY <1>1 DEF LayoutsOf
<1>6. \A u : LayoutsOf(sizes, 0, u) # {} => u = 0
  BY <1>1, <1>3 DEF LayoutsOf
<1>7. DOMAIN state = {0} /\ state[0] = NoLayout
  OBVIOUS
<1> HIDE DEF state
<1>8. StateOk(state, sizes, 0, total)
  <2>1. ASSUME NEW u \in DOMAIN state
        PROVE  /\ u \in 0..total /\ state[u] \in LayoutsOf(sizes, 0, u)
               /\ \A a \in LayoutsOf(sizes, 0, u) \ {state[u]} : Preferred(state[u], a)
    <3>1. u = 0 /\ u \in 0..total
      BY <1>7
    <3>2. LayoutsOf(sizes, 0, u) \ {state[u]} = {}
      BY <1>5, <1>7, <3>1
    <3>3. QED
      BY <1>4, <1>7, <3>1, <3>2
  <2>2. QED
    BY <1>6, <1>7, <2>1 DEF StateOk
<1>9. QED
  BY <1>8 DEF state

\* A DIMM more makes layouts, and among them the preferred one.
LEMMA ProposalsHaveBest ==
  ASSUME NEW sizes \in SUBSET (Nat \ {0}), NEW total \in Nat, NEW n \in Nat,
         NEW before, StateOk(before, sizes, n, total), NEW u \in 0..total
  PROVE  /\ Proposals(before, sizes, u) \subseteq LayoutsOf(sizes, n + 1, u)
         /\ LayoutsOf(sizes, n + 1, u) # {} =>
              \E b \in Proposals(before, sizes, u) :
                \A a \in LayoutsOf(sizes, n + 1, u) \ {b} : Preferred(b, a)
<1>1. Proposals(before, sizes, u) \subseteq LayoutsOf(sizes, n + 1, u)
  <2>1. SUFFICES ASSUME NEW s \in sizes, u - s \in DOMAIN before
                 PROVE  Insert(before[u - s], s) \in LayoutsOf(sizes, n + 1, u)
    BY DEF Proposals
  <2>2. before[u - s] \in LayoutsOf(sizes, n, u - s) /\ u - s \in 0..total
    BY <2>1 DEF StateOk
  <2>3. u - s \in Nat /\ (u - s) + s = u
    BY <2>2
  <2>4. Insert(before[u - s], s) \in LayoutsOf(sizes, n + 1, (u - s) + s)
    BY <2>2, <2>3, InsertLayout
  <2>5. QED
    BY <2>3, <2>4
<1>2. ASSUME LayoutsOf(sizes, n + 1, u) # {}
      PROVE  \E b \in Proposals(before, sizes, u) :
               \A a \in LayoutsOf(sizes, n + 1, u) \ {b} : Preferred(b, a)
  <2> DEFINE S == LayoutsOf(sizes, n + 1, u)
  <2>1. IsFiniteSet(S) /\ S \in SUBSET [1..(n + 1) -> Nat] /\ n + 1 \in Nat
    <3>1. n + 1 \in Nat /\ u \in Nat
      OBVIOUS
    <3>2. S \in SUBSET [1..(n + 1) -> Nat]
      BY DEF LayoutsOf
    <3>3. QED
      BY <3>1, <3>2, LayoutsFinite
  <2> HIDE DEF S
  <2>2. PICK b \in S : \A a \in S \ {b} : Preferred(b, a)
    <3> DEFINE m == n + 1
    <3>1. m \in Nat
      BY <2>1
    <3>2. S \in SUBSET [1..m -> Nat]
      BY <2>1
    <3>3. IsFiniteSet(S)
      BY <2>1
    <3>4. S # {}
      BY <1>2 DEF S
    <3> HIDE DEF m
    <3>5. \E b \in S : \A a \in S \ {b} : Preferred(b, a)
      BY <3>1, <3>2, <3>3, <3>4, PreferredExists, Zenon
    <3>6. QED
      BY <3>5
  <2>3. PICK s \in sizes : \E f \in LayoutsOf(sizes, n, u - s) :
          u - s \in Nat /\ (\A i \in 1..n : f[i] >= s) /\ Insert(f, s) = b
    <3>1. b \in LayoutsOf(sizes, n + 1, u) /\ u \in Nat
      BY <2>2 DEF S
    <3>2. QED
      BY <3>1, WithoutLast
  <2>4. PICK f \in LayoutsOf(sizes, n, u - s) :
          u - s \in Nat /\ (\A i \in 1..n : f[i] >= s) /\ Insert(f, s) = b
    BY <2>3
  <2>5. u - s \in DOMAIN before
    <3>1. s \in Nat /\ u - s \in 0..total
      BY <2>4
    <3>2. QED
      BY <2>4, <3>1 DEF StateOk
  <2> DEFINE a == before[u - s]
  <2>6. a \in LayoutsOf(sizes, n, u - s) /\ (a = f \/ Preferred(a, f))
    BY <2>4, <2>5 DEF StateOk
  <2>7. Insert(a, s) \in Proposals(before, sizes, u)
    BY <2>4, <2>5 DEF Proposals
  <2>8. Insert(a, s) \in S
    BY <1>1, <2>7 DEF S
  <2> HIDE DEF a
  <2>9. Insert(a, s) = b
    <3>1. CASE a = f
      BY <2>4, <3>1
    <3>2. CASE Preferred(a, f)
      <4>1. Preferred(Insert(a, s), b)
        <5>1. Preferred(Insert(a, s), Insert(f, s))
          BY <2>4, <2>6, <3>2, InsertKeepsOrder
        <5>2. QED
          BY <2>4, <5>1
      <4>2. SUFFICES ASSUME Insert(a, s) # b PROVE FALSE
        OBVIOUS
      <4>3. Preferred(b, Insert(a, s))
        BY <2>2, <2>8, <4>2
      <4>4. b \in [1..(n + 1) -> Nat] /\ Insert(a, s) \in [1..(n + 1) -> Nat]
        BY <2>1, <2>2, <2>8
      <4>5. QED
        BY <2>1, <4>1, <4>3, <4>4, PreferredOrders
    <3>3. QED
      BY <2>6, <3>1, <3>2
  <2>10. b \in Proposals(before, sizes, u)
    BY <2>7, <2>9
  <2>11. QED
    BY <2>2, <2>10 DEF S
<1>3. QED
  BY <1>1, <1>2

\* The states stay right with a DIMM more.
LEMMA OneMoreOk ==
  ASSUME NEW sizes \in SUBSET (Nat \ {0}), NEW total \in Nat, NEW n \in Nat,
         NEW before, StateOk(before, sizes, n, total)
  PROVE  StateOk(OneMore(before, sizes, total), sizes, n + 1, total)
<1> DEFINE state == OneMore(before, sizes, total)
<1>1. /\ DOMAIN state = {u \in 0..total : Proposals(before, sizes, u) # {}}
      /\ \A u \in DOMAIN state : state[u] = Least(Proposals(before, sizes, u), Preferred)
  BY DEF OneMore
<1> HIDE DEF state
<1>2. ASSUME NEW u \in DOMAIN state
      PROVE  /\ u \in 0..total /\ state[u] \in LayoutsOf(sizes, n + 1, u)
             /\ \A a \in LayoutsOf(sizes, n + 1, u) \ {state[u]} : Preferred(state[u], a)
  <2> DEFINE P == Proposals(before, sizes, u)
             S == LayoutsOf(sizes, n + 1, u)
  <2>1. u \in 0..total /\ P # {}
    BY <1>1
  <2>2. P \subseteq S /\ (S # {} => \E b \in P : \A a \in S \ {b} : Preferred(b, a))
    BY <2>1, ProposalsHaveBest
  <2>3. S \in SUBSET [1..(n + 1) -> Nat] /\ n + 1 \in Nat
    <3>1. [1..(n + 1) -> sizes] \subseteq [1..(n + 1) -> Nat]
      OBVIOUS
    <3>2. S \subseteq [1..(n + 1) -> sizes]
      BY DEF LayoutsOf
    <3>3. QED
      BY <3>1, <3>2
  <2>4. state[u] = Least(P, Preferred)
    BY <1>1
  <2> HIDE DEF P, S
  <2>5. PICK b \in P : \A a \in S \ {b} : Preferred(b, a)
    BY <2>1, <2>2
  <2>6. P \in SUBSET [1..(n + 1) -> Nat] /\ \A a \in P \ {b} : Preferred(b, a)
    BY <2>2, <2>3, <2>5
  <2>7. Least(P, Preferred) = b
    BY <2>3, <2>6, LeastPreferred
  <2>8. state[u] = b /\ b \in S
    BY <2>2, <2>4, <2>5, <2>7
  <2>9. QED
    BY <2>1, <2>5, <2>8 DEF S
<1>3. ASSUME NEW u \in 0..total, LayoutsOf(sizes, n + 1, u) # {}
      PROVE  u \in DOMAIN state
  <2>1. \E b \in Proposals(before, sizes, u) : TRUE
    BY <1>3, ProposalsHaveBest
  <2>2. QED
    BY <1>1, <2>1
<1>4. StateOk(state, sizes, n + 1, total)
  BY <1>2, <1>3 DEF StateOk
<1>5. QED
  BY <1>4 DEF state

\* What StatesOf makes of the states f for n DIMMs.
StateStep(f, sizes, total, n) ==
  IF n = 0 THEN [u \in {0} |-> NoLayout] ELSE OneMore(f[n - 1], sizes, total)

IsSearch(f, sizes, total, last) == f = [n \in 0..last |-> StateStep(f, sizes, total, n)]

\* The function that StatesOf defines exists, for any number of DIMMs.
LEMMA StatesExist ==
  ASSUME NEW sizes, NEW total, NEW last \in Nat
  PROVE  \E f : IsSearch(f, sizes, total, last)
<1> DEFINE P(k) == \E f : IsSearch(f, sizes, total, k)
           T == {k \in Nat : ~P(k)}
<1>1. SUFFICES ASSUME T # {} PROVE FALSE
  OBVIOUS
<1>2. PICK k \in T : \A l \in T : k <= l
  BY <1>1, SmallestExists
<1>3. k \in Nat /\ ~P(k)
  BY <1>2
<1>4. CASE k = 0
  <2> DEFINE f == [n \in 0..0 |-> [u \in {0} |-> NoLayout]]
  <2>1. \A n \in 0..0 : StateStep(f, sizes, total, n) = [u \in {0} |-> NoLayout]
    BY DEF StateStep
  <2>2. f = [n \in 0..0 |-> StateStep(f, sizes, total, n)]
    BY <2>1
  <2>3. QED
    BY <1>3, <1>4, <2>2 DEF IsSearch
<1>5. CASE k # 0
  <2>1. k - 1 \in Nat /\ k - 1 \notin T
    BY <1>2, <1>3, <1>5
  <2>2. PICK g : g = [n \in 0..(k - 1) |-> StateStep(g, sizes, total, n)]
    BY <2>1 DEF IsSearch
  <2> DEFINE f == [n \in 0..k |-> IF n = k THEN StateStep(g, sizes, total, k) ELSE g[n]]
  <2>3. ASSUME NEW n \in 0..k PROVE f[n] = StateStep(f, sizes, total, n)
    <3>1. CASE n = 0
      <4>1. n \in 0..(k - 1) /\ n # k
        BY <1>3, <1>5, <3>1
      <4>2. f[n] = g[n] /\ g[n] = StateStep(g, sizes, total, n)
        BY <2>2, <4>1
      <4>3. QED
        BY <3>1, <4>2 DEF StateStep
    <3>2. CASE n # 0
      <4>1. n - 1 \in 0..k /\ n - 1 # k
        BY <1>3, <3>2
      <4>2. f[n - 1] = g[n - 1]
        BY <4>1
      <4>3. StateStep(f, sizes, total, n) = StateStep(g, sizes, total, n)
        BY <3>2, <4>2 DEF StateStep
      <4>4. CASE n = k
        BY <4>3, <4>4
      <4>5. CASE n # k
        <5>1. n \in 0..(k - 1)
          BY <1>3, <4>5
        <5>2. f[n] = g[n] /\ g[n] = StateStep(g, sizes, total, n)
          BY <2>2, <4>5, <5>1
        <5>3. QED
          BY <4>3, <5>2
      <4>6. QED
        BY <4>4, <4>5
    <3>3. QED
      BY <3>1, <3>2
  <2>4. f = [n \in 0..k |-> StateStep(f, sizes, total, n)]
    BY <2>3
  <2>5. QED
    BY <1>3, <2>4 DEF IsSearch
<1>6. QED
  BY <1>4, <1>5

\* The search keeps the preferred layout of every amount and number of DIMMs.
LEMMA StatesAre ==
  ASSUME NEW sizes \in SUBSET (Nat \ {0}), NEW total \in Nat, MaxDimms(total) \in Nat
  PROVE  /\ DOMAIN StatesOf(sizes, total) = 0..MaxDimms(total)
         /\ \A n \in 0..MaxDimms(total) : StateOk(StatesOf(sizes, total)[n], sizes, n, total)
<1> DEFINE last == MaxDimms(total)
<1>0. last \in Nat
  OBVIOUS
<1> HIDE DEF last
<1>1. \E g : IsSearch(g, sizes, total, last)
  BY <1>0, StatesExist
<1> DEFINE f == CHOOSE f : f = [n \in 0..last |-> StateStep(f, sizes, total, n)]
<1>2. f = [n \in 0..last |-> StateStep(f, sizes, total, n)]
  BY <1>1, Zenon DEF IsSearch
<1>3. StatesOf(sizes, total) = f
  BY Zenon DEF StatesOf, StateStep, last
<1> HIDE DEF f
<1>4. DOMAIN f = 0..last /\ \A n \in 0..last : f[n] = StateStep(f, sizes, total, n)
  BY <1>2
<1> DEFINE T == {n \in Nat : n <= last /\ ~StateOk(f[n], sizes, n, total)}
<1>5. ASSUME T # {} PROVE FALSE
  <2>1. PICK n \in T : \A m \in T : n <= m
    BY <1>5, SmallestExists
  <2>2. n \in 0..last /\ ~StateOk(f[n], sizes, n, total)
    BY <2>1
  <2>3. CASE n = 0
    <3>1. f[n] = [u \in {0} |-> NoLayout]
      BY <1>4, <2>2, <2>3 DEF StateStep
    <3>2. QED
      BY <2>2, <2>3, <3>1, NoDimm
  <2>4. CASE n # 0
    <3>1. n - 1 \in Nat /\ n - 1 <= last /\ n - 1 < n /\ (n - 1) + 1 = n
      BY <1>0, <2>2, <2>4
    <3>2. n - 1 \notin T
      BY <1>0, <2>1, <2>2, <3>1
    <3>3. StateOk(f[n - 1], sizes, n - 1, total)
      BY <3>1, <3>2
    <3>4. f[n] = OneMore(f[n - 1], sizes, total)
      BY <1>4, <2>2, <2>4 DEF StateStep
    <3>5. StateOk(f[n], sizes, (n - 1) + 1, total)
      BY <3>1, <3>3, <3>4, OneMoreOk
    <3>6. QED
      BY <2>2, <3>1, <3>5
  <2>5. QED
    BY <2>3, <2>4
<1>6. \A n \in 0..last : StateOk(f[n], sizes, n, total)
  BY <1>5
<1>7. QED
  BY <1>3, <1>4, <1>6 DEF last
-----------------------------------------------------------------------------
\* The choice.

\* The slots of the host bound the DIMMs.
LEMMA DimmsBounded ==
  ASSUME NEW t \in Nat
  PROVE  MaxDimms(t) \in Nat
BY HostSlotsAssumption DEF MaxDimms

\* All layouts are those of some vendor with some number of DIMMs.
LEMMA AllLayoutsAre ==
  ASSUME NEW t \in Nat, NEW b
  PROVE  b \in AllLayouts(t) <=>
           \E v \in DOMAIN Catalog : \E n \in 1..MaxDimms(t) : b \in LayoutsOf(Catalog[v], n, t)
<1> DEFINE Sizes == UNION {Catalog[v] : v \in DOMAIN Catalog}
<1>1. MaxDimms(t) \in Nat
  BY DimmsBounded
<1>2. ASSUME b \in AllLayouts(t)
      PROVE  \E v \in DOMAIN Catalog : \E n \in 1..MaxDimms(t) : b \in LayoutsOf(Catalog[v], n, t)
  <2>1. PICK n \in 1..MaxDimms(t) : b \in [1..n -> Sizes]
    BY <1>2 DEF AllLayouts
  <2>2. n \in Nat
    BY <1>1
  <2>3. PICK v \in DOMAIN Catalog : \A i \in DOMAIN b : b[i] \in Catalog[v]
    BY <1>2 DEF AllLayouts
  <2>4. (\A i \in 2..Len(b) : b[i - 1] >= b[i]) /\ Amount(b) = t
    BY <1>2 DEF AllLayouts
  <2>5. Len(b) = n /\ DOMAIN b = 1..n
    BY <2>1, <2>2, LayoutIsSeq
  <2> HIDE DEF Sizes
  <2>6. b \in [1..n -> Catalog[v]]
    BY <2>1, <2>3, <2>5
  <2>7. b \in LayoutsOf(Catalog[v], n, t)
    BY <2>4, <2>5, <2>6 DEF LayoutsOf, Descending
  <2>8. QED
    BY <2>7
<1>3. ASSUME NEW v \in DOMAIN Catalog, NEW n \in 1..MaxDimms(t), b \in LayoutsOf(Catalog[v], n, t)
      PROVE  b \in AllLayouts(t)
  <2>1. b \in [1..n -> Catalog[v]] /\ Descending(b, n) /\ Amount(b) = t /\ n \in Nat
    BY <1>1, <1>3 DEF LayoutsOf
  <2>2. Len(b) = n /\ DOMAIN b = 1..n
    BY <2>1, LayoutIsSeq
  <2>3. Catalog[v] \subseteq Sizes
    OBVIOUS
  <2>4. b \in [1..n -> Sizes]
    <3> HIDE DEF Sizes
    <3>1. QED
      BY <2>1, <2>3
  <2>5. b \in UNION {[1..m -> Sizes] : m \in 1..MaxDimms(t)}
    BY <2>4
  <2>6. \A i \in DOMAIN b : b[i] \in Catalog[v]
    BY <2>1, <2>2
  <2>7. \A i \in 2..Len(b) : b[i - 1] >= b[i]
    BY <2>1, <2>2 DEF Descending
  <2>8. QED
    BY <2>1, <2>5, <2>6, <2>7 DEF AllLayouts
<1>4. QED
  BY <1>2, <1>3

\* There are finitely many.
LEMMA AllLayoutsFinite ==
  ASSUME NEW t \in Nat
  PROVE  IsFiniteSet(AllLayouts(t)) /\ AllLayouts(t) \subseteq Sequences
<1> DEFINE N == 1..MaxDimms(t)
           F == {[1..n -> 1..t] : n \in N}
           g == [n \in N |-> [1..n -> 1..t]]
<1>1. N \subseteq Nat /\ IsFiniteSet(N)
  BY DimmsBounded, FS_Interval
<1>2. g \in Surjection(N, F)
  BY DEF Surjection
<1>3. IsFiniteSet(F)
  BY <1>1, <1>2, FS_Surjection
<1>4. \A S \in F : IsFiniteSet(S)
  BY <1>1, FinitelyMany
<1>5. IsFiniteSet(UNION F)
  BY <1>3, <1>4, FS_UNION
<1>6. ASSUME NEW b \in AllLayouts(t) PROVE b \in UNION F /\ b \in Sequences
  <2>1. PICK v \in DOMAIN Catalog : \E n \in N : b \in LayoutsOf(Catalog[v], n, t)
    BY AllLayoutsAre
  <2>2. PICK n \in N : b \in LayoutsOf(Catalog[v], n, t)
    BY <2>1
  <2>3. Catalog[v] \in SUBSET (Nat \ {0}) /\ n \in Nat
    BY <1>1, CatalogAssumption
  <2>4. b \in [1..n -> 1..t]
    BY <2>2, <2>3, LayoutsFinite
  <2>5. b \in [1..n -> Nat]
    BY <2>4
  <2>6. QED
    BY <2>3, <2>4, <2>5 DEF Sequences
<1> HIDE DEF F
<1>7. AllLayouts(t) \in SUBSET (UNION F)
  BY <1>6
<1>8. QED
  BY <1>5, <1>6, <1>7, FS_Subset

\* What two equal DIMMs make.
LEMMA TwoEqualMake ==
  ASSUME NEW b \in [1..2 -> Nat], b[1] = b[2]
  PROVE  Amount(b) = b[1] + b[1] /\ b = <<b[1], b[1]>> /\ TwoEqual(b)
<1>1. Len(b) = 2 /\ b \in Seq(Nat)
  BY LayoutIsSeq
<1>2. Offset(b, 1) = 0 /\ \A n \in 1..2 : Offset(b, n + 1) = Offset(b, n) + b[n]
  <2>1. Len(b) \in Nat
    BY <1>1
  <2>2. /\ Offset(b, 1) = 0
        /\ \A n \in 1..Len(b) : Offset(b, n + 1) = Offset(b, n) + b[n]
    BY <2>1, OffsetIs
  <2>3. QED
    BY <1>1, <2>2
<1>3. 1 \in 1..2 /\ 2 \in 1..2 /\ 1 + 1 = 2 /\ 2 + 1 = 3 /\ b[1] \in Nat
  OBVIOUS
<1>4. Offset(b, 2) = 0 + b[1] /\ Offset(b, 3) = Offset(b, 2) + b[2]
  BY <1>2, <1>3
<1>5. Amount(b) = b[1] + b[1]
  BY <1>1, <1>3, <1>4 DEF Amount
<1>6. b = <<b[1], b[1]>>
  BY <1>3
<1>7. QED
  BY <1>1, <1>5, <1>6 DEF TwoEqual

\* What a search finds, and what two equal DIMMs make, are layouts.
LEMMA CandidatesAreLayouts ==
  ASSUME NEW t \in Nat \ {0}
  PROVE  Candidates(t) \subseteq AllLayouts(t)
<1>0. t \in Nat /\ MaxDimms(t) \in Nat
  BY DimmsBounded
<1>1. ASSUME NEW v \in DOMAIN Catalog, NEW n \in DOMAIN StatesOf(Catalog[v], t),
             t \in DOMAIN StatesOf(Catalog[v], t)[n]
      PROVE  StatesOf(Catalog[v], t)[n][t] \in AllLayouts(t)
  <2> DEFINE states == StatesOf(Catalog[v], t)
  <2>1. Catalog[v] \in SUBSET (Nat \ {0})
    BY CatalogAssumption
  <2>2. n \in 0..MaxDimms(t) /\ StateOk(states[n], Catalog[v], n, t)
    BY <1>0, <2>1, StatesAre
  <2> HIDE DEF states
  <2>3. states[n][t] \in LayoutsOf(Catalog[v], n, t)
    BY <1>1, <2>2 DEF StateOk, states
  <2>4. n # 0
    <3>1. SUFFICES ASSUME n = 0 PROVE FALSE
      OBVIOUS
    <3>2. StateOk([u \in {0} |-> NoLayout], Catalog[v], 0, t)
      BY <1>0, <2>1, NoDimm
    <3>3. t \in 0..t /\ LayoutsOf(Catalog[v], 0, t) # {}
      BY <1>0, <2>3, <3>1
    <3>4. t \in DOMAIN [u \in {0} |-> NoLayout]
      BY <3>2, <3>3 DEF StateOk
    <3>5. QED
      BY <3>4
  <2>5. n \in 1..MaxDimms(t)
    BY <1>0, <2>2, <2>4
  <2>6. states[n][t] \in AllLayouts(t)
    BY <1>0, <2>3, <2>5, AllLayoutsAre
  <2>7. QED
    BY <2>6 DEF states
<1>2. ASSUME NEW v \in DOMAIN Catalog, NEW h, h \in Catalog[v], t = 2 * h, MaxDimms(t) >= 2
      PROVE  <<h, h>> \in AllLayouts(t)
  <2>1. h \in Nat /\ Catalog[v] \in SUBSET (Nat \ {0})
    BY <1>2, CatalogAssumption
  <2> DEFINE b == <<h, h>>
  <2>2. b \in [1..2 -> Catalog[v]] /\ b \in [1..2 -> Nat] /\ b[1] = h /\ b[2] = h
    BY <1>2, <2>1
  <2> HIDE DEF b
  <2>3. Amount(b) = t
    <3>1. Amount(b) = b[1] + b[1]
      BY <2>2, TwoEqualMake
    <3>2. QED
      BY <1>2, <2>1, <2>2, <3>1
  <2>4. Descending(b, 2)
    <3>1. \A i \in 2..2 : i = 2 /\ i - 1 = 1
      OBVIOUS
    <3>2. h >= h
      BY <2>1
    <3>3. QED
      BY <2>2, <3>1, <3>2 DEF Descending
  <2>5. b \in LayoutsOf(Catalog[v], 2, t)
    BY <2>2, <2>3, <2>4 DEF LayoutsOf
  <2>6. 2 \in 1..MaxDimms(t)
    BY <1>0, <1>2
  <2>7. b \in AllLayouts(t)
    BY <1>0, <2>5, <2>6, AllLayoutsAre
  <2>8. QED
    BY <2>7 DEF b
<1>3. ASSUME NEW b \in Candidates(t) PROVE b \in AllLayouts(t)
  <2> DEFINE h == t \div 2
  <2>1. PICK v \in DOMAIN Catalog :
          \/ \E n \in DOMAIN StatesOf(Catalog[v], t) :
               /\ t \in DOMAIN StatesOf(Catalog[v], t)[n]
               /\ b = StatesOf(Catalog[v], t)[n][t]
          \/ MaxDimms(t) >= 2 /\ t = 2 * h /\ h \in Catalog[v] /\ b = <<h, h>>
    BY DEF Candidates
  <2> HIDE DEF h
  <2>2. QED
    BY <1>1, <1>2, <2>1
<1>4. QED
  BY <1>3

\* The best of all layouts is among the candidates.
LEMMA BestIsCandidate ==
  ASSUME NEW t \in Nat \ {0}, NEW b \in AllLayouts(t),
         \A a \in AllLayouts(t) \ {b} : Better(b, a)
  PROVE  b \in Candidates(t)
<1>0. t \in Nat /\ MaxDimms(t) \in Nat
  BY DimmsBounded
<1>1. PICK v \in DOMAIN Catalog : \E n \in 1..MaxDimms(t) : b \in LayoutsOf(Catalog[v], n, t)
  BY <1>0, AllLayoutsAre
<1>2. PICK n \in 1..MaxDimms(t) : b \in LayoutsOf(Catalog[v], n, t)
  BY <1>1
<1>3. Catalog[v] \in SUBSET (Nat \ {0}) /\ n \in Nat /\ n \in 0..MaxDimms(t)
  BY <1>0, CatalogAssumption
<1>4. b \in [1..n -> Catalog[v]] /\ b \in [1..n -> Nat] /\ Amount(b) = t
  BY <1>2, <1>3 DEF LayoutsOf
<1>5. Len(b) = n /\ DOMAIN b = 1..n
  BY <1>3, <1>4, LayoutIsSeq
<1>6. CASE TwoEqual(b)
  <2> DEFINE h == t \div 2
  <2>1. n = 2 /\ b[1] = b[2] /\ b[1] \in Catalog[v] /\ b[1] \in Nat
    BY <1>3, <1>4, <1>5, <1>6 DEF TwoEqual
  <2>2. t = b[1] + b[1] /\ b = <<b[1], b[1]>>
    BY <1>4, <2>1, TwoEqualMake
  <2>3. h = b[1] /\ t = 2 * h
    <3>1. ASSUME NEW x \in Nat, t = x + x PROVE t \div 2 = x /\ t = 2 * x
      BY <1>0, <3>1
    <3>2. QED
      BY <2>1, <2>2, <3>1
  <2>4. MaxDimms(t) >= 2
    BY <1>0, <2>1
  <2>5. h \in Catalog[v] /\ b = <<h, h>>
    BY <2>1, <2>2, <2>3
  <2>6. QED
    BY <2>3, <2>4, <2>5 DEF Candidates
<1>7. CASE ~TwoEqual(b)
  <2> DEFINE states == StatesOf(Catalog[v], t)
             c == states[n][t]
  <2>1. n \in DOMAIN states /\ StateOk(states[n], Catalog[v], n, t)
    BY <1>0, <1>3, StatesAre
  <2>2. t \in 0..t /\ LayoutsOf(Catalog[v], n, t) # {}
    BY <1>0, <1>2
  <2>3. t \in DOMAIN states[n]
    BY <2>1, <2>2 DEF StateOk
  <2>4. c \in LayoutsOf(Catalog[v], n, t) /\ (c = b \/ Preferred(c, b))
    BY <1>2, <2>1, <2>3 DEF StateOk
  <2>5. c \in Candidates(t)
    BY <2>1, <2>3 DEF Candidates
  <2> HIDE DEF states, c
  <2>6. c = b
    <3>1. SUFFICES ASSUME c # b PROVE FALSE
      OBVIOUS
    <3>2. c \in AllLayouts(t)
      BY <1>0, <1>2, <2>4, AllLayoutsAre
    <3>3. Better(b, c)
      BY <3>1, <3>2
    <3>4. c \in [1..n -> Nat]
      BY <1>3, <2>4 DEF LayoutsOf
    <3>5. Len(c) = Len(b)
      BY <1>3, <1>5, <3>4, LayoutIsSeq
    <3>6. Better(c, b)
      BY <1>7, <2>4, <3>1, <3>5 DEF Preferred, Better
    <3>7. b \in Sequences /\ c \in Sequences
      BY <1>3, <1>4, <3>4 DEF Sequences
    <3>8. QED
      BY <3>3, <3>6, <3>7, BetterIrreflexive, BetterTransitive
  <2>7. QED
    BY <2>5, <2>6
<1>8. QED
  BY <1>6, <1>7

\* What choose_layout returns is the best layout, and nothing only when there
\* is none.
LEMMA ChosenIsBest ==
  ASSUME NEW t \in Nat \ {0}
  PROVE  /\ ChooseLayout(t) = NoLayout => AllLayouts(t) = {}
         /\ ChooseLayout(t) # NoLayout =>
              /\ ChooseLayout(t) \in AllLayouts(t)
              /\ {a \in AllLayouts(t) : \A b \in AllLayouts(t) \ {a} : Better(a, b)}
                   = {ChooseLayout(t)}
<1> DEFINE A == AllLayouts(t)
<1>1. IsFiniteSet(A) /\ A \in SUBSET Sequences /\ t \in Nat
  BY AllLayoutsFinite
<1>2. Candidates(t) \subseteq A
  BY CandidatesAreLayouts
<1>3. CASE A = {}
  BY <1>2, <1>3 DEF ChooseLayout
<1>4. CASE A # {}
  <2> HIDE DEF A
  <2>1. PICK b \in A : \A a \in A \ {b} : Better(b, a)
    BY <1>1, <1>4, BetterExists, Zenon
  <2>2. b \in Candidates(t)
    BY <2>1, BestIsCandidate DEF A
  <2> DEFINE C == Candidates(t)
  <2>3. C \in SUBSET Sequences /\ b \in C /\ \A a \in C \ {b} : Better(b, a)
    BY <1>1, <1>2, <2>1, <2>2
  <2> HIDE DEF C
  <2>4. Least(C, Better) = b
    BY <2>3, LeastBetter
  <2>5. ChooseLayout(t) = b
    BY <2>3, <2>4 DEF ChooseLayout, C
  <2>6. b # NoLayout
    <3>1. PICK v \in DOMAIN Catalog : \E n \in 1..MaxDimms(t) : b \in LayoutsOf(Catalog[v], n, t)
      BY <1>1, AllLayoutsAre DEF A
    <3>2. PICK n \in 1..MaxDimms(t) : b \in LayoutsOf(Catalog[v], n, t)
      BY <3>1
    <3>3. n \in Nat \ {0} /\ b \in [1..n -> Catalog[v]]
      BY <1>1, <3>2, DimmsBounded DEF LayoutsOf
    <3>4. 1 \in DOMAIN b
      BY <3>3
    <3>5. QED
      BY <3>4 DEF NoLayout
  <2>7. ASSUME NEW a \in A, a # b PROVE ~\A c \in A \ {a} : Better(a, c)
    <3>1. SUFFICES ASSUME \A c \in A \ {a} : Better(a, c) PROVE FALSE
      OBVIOUS
    <3>2. Better(a, b) /\ Better(b, a)
      BY <2>1, <2>7, <3>1
    <3>3. a \in Sequences /\ b \in Sequences
      BY <1>1
    <3>4. QED
      BY <3>2, <3>3, BetterIrreflexive, BetterTransitive
  <2>8. {a \in A : \A c \in A \ {a} : Better(a, c)} = {b}
    BY <2>1, <2>7
  <2>9. QED
    BY <2>5, <2>6, <2>8 DEF A
<1>5. QED
  BY <1>3, <1>4

\* What 01 has recorded, and refused to record, of the memory.
MemoryRecorded ==
  /\ memory \in Totals
  /\ outcome = "no layout" => Layouts[memory] = NoLayout
  /\ profile # NoProfile =>
       /\ profile.memory \in Totals /\ profile.layout = Layouts[profile.memory]
       /\ profile.layout # NoLayout

\* It is so in every state: only 01 records, and it records what it chose.
LEMMA MemoryRecordedHolds == Spec => []MemoryRecorded
<1>1. Init => MemoryRecorded
  BY DEF Init, MemoryRecorded
<1>2. MemoryRecorded /\ [Next]_vars => MemoryRecorded'
  <2> SUFFICES ASSUME MemoryRecorded, [Next]_vars PROVE MemoryRecorded'
    OBVIOUS
  <2>1. CASE Generate
    <3> DEFINE roles == ListedPorts(domain)
               hosts == Assign(roles)
    <3>1. /\ outcome' = IF Layouts[memory] = NoLayout THEN "no layout"
                        ELSE IF roles = <<>> \/ DOMAIN hosts # DOMAIN roles THEN "no port"
                        ELSE "recorded"
          /\ IF outcome' = "recorded"
             THEN profile' = [memory |-> memory, layout |-> Layouts[memory],
                              role |-> roles, host |-> hosts, hostdevs |-> Hostdevs(domain)]
             ELSE profile' = profile
          /\ memory' = memory
      BY <2>1 DEF Generate
    <3> HIDE DEF roles, hosts
    <3>2. Layouts' = Layouts
      OBVIOUS
    <3>3. CASE outcome' = "recorded"
      <4>1. Layouts[memory] # NoLayout
        BY <3>1, <3>3
      <4>2. profile'.memory = memory /\ profile'.layout = Layouts[memory]
        BY <3>1, <3>3
      <4>3. QED
        BY <3>1, <3>3, <4>1, <4>2 DEF MemoryRecorded
    <3>4. CASE outcome' # "recorded"
      BY <3>1, <3>4 DEF MemoryRecorded
    <3>5. QED
      BY <3>3, <3>4
  <2>2. CASE Apply
    <3>1. outcome' # "no layout" /\ UNCHANGED <<memory, profile>>
      BY <2>2, ApplyIs, VerdictsOf04
    <3>2. QED
      BY <3>1 DEF MemoryRecorded
  <2>3. CASE \E b \in Bays, k \in Kinds : EditDevice(b, k)
    BY <2>3 DEF EditDevice, MemoryRecorded
  <2>4. CASE \E m \in Totals : EditMemory(m)
    BY <2>4 DEF EditMemory, MemoryRecorded
  <2>5. CASE (\E c \in {"xhci", "hda"} : EditRootBus(c)) \/ ChangeCpus \/ UNCHANGED vars
    BY <2>5 DEF EditRootBus, ChangeCpus, vars, MemoryRecorded
  <2>6. QED
    BY <2>1, <2>2, <2>3, <2>4, <2>5 DEF Next
<1>3. QED
  BY <1>1, <1>2, PTL DEF Spec

\* The search of 01 finds the best layout of all, whatever the sizes sold and
\* the slots, though it keeps one for each amount and number of DIMMs.
THEOREM BestLayout == Spec => []LayoutIsBest
<1>1. MemoryRecorded => LayoutIsBest
  <2> SUFFICES ASSUME MemoryRecorded PROVE LayoutIsBest
    OBVIOUS
  <2>1. \A t \in Totals : t \in Nat \ {0} /\ Layouts[t] = ChooseLayout(t)
    BY TotalsAssumption DEF Layouts
  <2>2. \A t \in Totals :
          ReferenceLayouts[t] = {a \in AllLayouts(t) : \A b \in AllLayouts(t) \ {a} : Better(a, b)}
    BY DEF ReferenceLayouts
  <2>3. ASSUME outcome = "no layout" PROVE ReferenceLayouts[memory] = {}
    <3>1. memory \in Totals /\ ChooseLayout(memory) = NoLayout
      BY <2>1, <2>3 DEF MemoryRecorded
    <3>2. AllLayouts(memory) = {}
      BY <2>1, <3>1, ChosenIsBest
    <3>3. QED
      BY <2>2, <3>1, <3>2
  <2>4. ASSUME profile # NoProfile
        PROVE  ReferenceLayouts[profile.memory] = {profile.layout}
    <3> DEFINE t == profile.memory
    <3>1. t \in Totals /\ profile.layout = ChooseLayout(t) /\ ChooseLayout(t) # NoLayout
      BY <2>1, <2>4 DEF MemoryRecorded
    <3>2. {a \in AllLayouts(t) : \A b \in AllLayouts(t) \ {a} : Better(a, b)} = {ChooseLayout(t)}
      BY <2>1, <3>1, ChosenIsBest
    <3>3. QED
      BY <2>2, <3>1, <3>2
  <2>5. QED
    BY <2>3, <2>4 DEF LayoutIsBest
<1>2. QED
  BY <1>1, MemoryRecordedHolds, PTL
-----------------------------------------------------------------------------
\* The tables.

\* The lengths of the DIMMs in the units of addresses.
Doubled(a) == [i \in DOMAIN a |-> 2 * a[i]]

\* They begin at twice the offsets of the sizes.
LEMMA OffsetDoubled ==
  ASSUME NEW n \in Nat, NEW a \in [1..n -> Nat]
  PROVE  /\ Doubled(a) \in [1..n -> Nat] /\ \A i \in 1..n : Doubled(a)[i] = 2 * a[i]
         /\ \A i \in 1..(n + 1) : Offset(Doubled(a), i) = 2 * Offset(a, i)
<1> DEFINE b == Doubled(a)
           T == {i \in Nat : i \in 1..(n + 1) /\ ~(Offset(b, i) = 2 * Offset(a, i))}
<1>1. b \in [1..n -> Nat] /\ \A i \in 1..n : b[i] = 2 * a[i]
  BY DEF Doubled
<1> HIDE DEF b
<1>2. a \in Seq(Nat) /\ b \in Seq(Nat) /\ Len(a) = n /\ Len(b) = n
  BY <1>1, LayoutIsSeq
<1>3. /\ Offset(a, 1) = 0
      /\ \A i \in 1..n : Offset(a, i + 1) = Offset(a, i) + a[i]
  BY <1>2, OffsetIs
<1>4. /\ Offset(b, 1) = 0
      /\ \A i \in 1..n : Offset(b, i + 1) = Offset(b, i) + b[i]
  BY <1>2, OffsetIs
<1>5. \A i \in 1..(n + 1) : Offset(a, i) \in Nat
  BY <1>2, OffsetInNat
<1>6. ASSUME T # {} PROVE FALSE
  <2>1. PICK k \in T : \A l \in T : k <= l
    BY <1>6, SmallestExists
  <2>2. k # 1
    BY <1>3, <1>4, <2>1
  <2>3. k - 1 \in 1..n /\ k - 1 \in Nat /\ k - 1 \in 1..(n + 1) /\ k - 1 < k /\ (k - 1) + 1 = k
    BY <2>1, <2>2
  <2>4. k - 1 \notin T
    BY <2>1, <2>3
  <2>5. Offset(b, k - 1) = 2 * Offset(a, k - 1)
    BY <2>3, <2>4
  <2>6. Offset(a, k) = Offset(a, k - 1) + a[k - 1] /\ Offset(b, k) = Offset(b, k - 1) + 2 * a[k - 1]
    BY <1>1, <1>3, <1>4, <2>3
  <2>7. Offset(a, k - 1) \in Nat /\ a[k - 1] \in Nat
    BY <1>5, <2>3
  <2>8. Offset(b, k) = 2 * Offset(a, k)
    BY <2>5, <2>6, <2>7
  <2>9. QED
    BY <2>1, <2>8
<1>7. \A i \in 1..(n + 1) : Offset(b, i) = 2 * Offset(a, i)
  BY <1>6
<1>8. QED
  BY <1>1, <1>7 DEF b

\* The two ranges and where they begin when laid end to end.
LEMMA RangesAre ==
  ASSUME NEW t \in Nat \ {0}
  PROVE  LET r == MappedRanges(t)
             l == Lengths(r)
         IN /\ DOMAIN r = {1, 2}
            /\ r[1].first = 0 /\ r[1].last = 0 /\ r[2].first = 2 /\ r[2].last = 2 * t
            /\ Offset(l, 1) = 0 /\ Offset(l, 2) = 1 /\ Offset(l, 3) = 2 * t
<1> DEFINE r == MappedRanges(t)
           l == Lengths(r)
<1>1. /\ DOMAIN r = {1, 2}
      /\ r[1].first = 0 /\ r[1].last = 0 /\ r[2].first = 2 /\ r[2].last = 2 * t
  BY DEF MappedRanges
<1> HIDE DEF r
<1>2. Length(r[1]) = 1 /\ Length(r[2]) = 2 * t - 1 /\ 2 * t - 1 \in Nat
  BY <1>1 DEF Length
<1>3. l \in [1..2 -> Nat] /\ l[1] = 1 /\ l[2] = 2 * t - 1
  <2>1. {1, 2} = 1..2
    OBVIOUS
  <2>2. DOMAIN l = {1, 2} /\ l[1] = 1 /\ l[2] = 2 * t - 1
    BY <1>1, <1>2 DEF Lengths
  <2>3. l = [m \in {1, 2} |-> l[m]]
    BY <1>1 DEF Lengths
  <2>4. QED
    BY <1>2, <2>1, <2>2, <2>3
<1> HIDE DEF l
<1>4. Len(l) = 2
  BY <1>3, LayoutIsSeq
<1>5. /\ Offset(l, 1) = 0
      /\ \A m \in 1..2 : Offset(l, m + 1) = Offset(l, m) + l[m]
  <2>1. Len(l) \in Nat
    BY <1>4
  <2>2. /\ Offset(l, 1) = 0
        /\ \A m \in 1..Len(l) : Offset(l, m + 1) = Offset(l, m) + l[m]
    BY <2>1, OffsetIs
  <2>3. QED
    BY <1>4, <2>2
<1>6. 1 \in 1..2 /\ 2 \in 1..2 /\ 1 + 1 = 2 /\ 2 + 1 = 3
  OBVIOUS
<1>7. Offset(l, 2) = Offset(l, 1) + 1 /\ Offset(l, 3) = Offset(l, 2) + (2 * t - 1)
  BY <1>3, <1>5, <1>6
<1>8. Offset(l, 2) = 1 /\ Offset(l, 3) = 2 * t
  BY <1>5, <1>7
<1>9. QED
  BY <1>1, <1>5, <1>8 DEF l, r

\* What DeviceRanges makes of its definitions.
LEMMA DeviceRangesAre ==
  ASSUME NEW a, NEW r
  PROVE  LET From(i, m) == LargerOf(Offset(Doubled(a), i), Offset(Lengths(r), m))
             End(i, m) == SmallerOf(Offset(Doubled(a), i + 1), Offset(Lengths(r), m + 1))
         IN DeviceRanges(a, r) =
              {[device |-> p[1], mapped |-> p[2],
                first |-> r[p[2]].first - Offset(Lengths(r), p[2]) + From(p[1], p[2]),
                last |-> r[p[2]].first - Offset(Lengths(r), p[2]) + End(p[1], p[2]) - 1] :
                p \in {q \in (DOMAIN a) \X (DOMAIN r) : From(q[1], q[2]) < End(q[1], q[2])}}
BY DEF DeviceRanges, Parts, Doubled

\* Where the n DIMMs of a layout begin and end when they are laid end to end.
Starts(a, n) == [i \in 1..(n + 1) |-> Offset(Doubled(a), i)]

\* What is known of that.
Ends(a, n, t, D) ==
  /\ D \in [1..(n + 1) -> Nat]
  /\ D[1] = 0 /\ D[n + 1] = 2 * t
  /\ \A i \in 1..n : a[i] \in Nat \ {0} /\ D[i + 1] = D[i] + 2 * a[i]
  /\ \A i, j \in 1..(n + 1) : i <= j => D[i] <= D[j]
  /\ \A x \in Nat : x < 2 * t => \E i \in 1..n : D[i] <= x /\ x < D[i + 1]

\* The first address of DIMM i behind the PCI hole, and its part there.
Beyond(D, i) == IF i = 1 THEN 2 ELSE D[i] + 1
PartBeyond(D, i) == [device |-> i, mapped |-> 2, first |-> Beyond(D, i), last |-> D[i + 1]]
PartBelow == [device |-> 1, mapped |-> 1, first |-> 0, last |-> 0]

\* The DIMMs of a layout follow each other up to its amount.
LEMMA EndsOf ==
  ASSUME NEW n \in Nat, NEW t \in Nat, NEW a \in [1..n -> Nat \ {0}], Amount(a) = t
  PROVE  Ends(a, n, t, Starts(a, n))
<1> DEFINE b == Doubled(a)
           D == [i \in 1..(n + 1) |-> Offset(b, i)]
<1>1. /\ a \in [1..n -> Nat] /\ b \in [1..n -> Nat] /\ \A i \in 1..n : b[i] = 2 * a[i]
      /\ \A i \in 1..(n + 1) : Offset(b, i) = 2 * Offset(a, i)
  BY OffsetDoubled
<1> HIDE DEF b
<1>2. a \in Seq(Nat) /\ Len(a) = n /\ b \in Seq(Nat) /\ Len(b) = n
  BY <1>1, LayoutIsSeq
<1>3. /\ Offset(b, 1) = 0
      /\ \A i \in 1..n : Offset(b, i + 1) = Offset(b, i) + b[i]
  BY <1>2, OffsetIs
<1>4. \A i \in 1..(n + 1) : Offset(b, i) \in Nat
  BY <1>2, OffsetInNat
<1>5. \A i, j \in 1..(n + 1) : i <= j => Offset(b, i) <= Offset(b, j)
  BY <1>2, OffsetMonotone
<1>6. 1 \in 1..(n + 1) /\ n + 1 \in 1..(n + 1) /\ \A i \in 1..n : i \in 1..(n + 1) /\ i + 1 \in 1..(n + 1)
  OBVIOUS
<1>7. Offset(b, n + 1) = 2 * t
  BY <1>1, <1>2, <1>6 DEF Amount
<1>8. D \in [1..(n + 1) -> Nat] /\ \A i \in 1..(n + 1) : D[i] = Offset(b, i)
  BY <1>4
<1>9. ASSUME NEW x \in Nat, x < 2 * t PROVE \E i \in 1..n : D[i] <= x /\ x < D[i + 1]
  <2>1. \E i \in 1..n : Offset(b, i) <= x /\ x < Offset(b, i + 1)
    <3>1. x < Offset(b, Len(b) + 1)
      BY <1>2, <1>7, <1>9
    <3>2. QED
      BY <1>2, <3>1, OffsetLocates
  <2>2. PICK i \in 1..n : Offset(b, i) <= x /\ x < Offset(b, i + 1)
    BY <2>1
  <2>3. D[i] = Offset(b, i) /\ D[i + 1] = Offset(b, i + 1)
    BY <1>6, <1>8
  <2>4. QED
    BY <2>2, <2>3
<1> HIDE DEF D
<1>10. D[1] = 0 /\ D[n + 1] = 2 * t
  BY <1>3, <1>6, <1>7, <1>8
<1>11. ASSUME NEW i \in 1..n PROVE a[i] \in Nat \ {0} /\ D[i + 1] = D[i] + 2 * a[i]
  BY <1>1, <1>3, <1>6, <1>8
<1>12. \A i, j \in 1..(n + 1) : i <= j => D[i] <= D[j]
  BY <1>5, <1>8
<1>13. Ends(a, n, t, D)
  BY <1>8, <1>9, <1>10, <1>11, <1>12 DEF Ends
<1>14. QED
  BY <1>13 DEF D, b, Starts

\* Where the parts lie.
LEMMA EndsOrdered ==
  ASSUME NEW n \in Nat \ {0}, NEW t \in Nat, NEW a, NEW D, Ends(a, n, t, D), NEW i \in 1..n
  PROVE  /\ D[i] \in Nat /\ D[i + 1] \in Nat /\ a[i] \in Nat \ {0}
         /\ D[i + 1] = D[i] + 2 * a[i] /\ D[i + 1] >= D[i] + 2 /\ D[i + 1] <= 2 * t
         /\ i = 1 => D[i] = 0
         /\ i # 1 => D[i] >= 2
         /\ \A j \in 1..n : i < j => D[i + 1] <= D[j]
<1>1. i \in 1..(n + 1) /\ i + 1 \in 1..(n + 1) /\ n + 1 \in 1..(n + 1) /\ i + 1 <= n + 1
        /\ 2 \in 1..(n + 1) /\ 1 \in 1..n /\ 1 + 1 = 2
  OBVIOUS
<1>2. D[i] \in Nat /\ D[i + 1] \in Nat /\ D[i + 1] <= 2 * t /\ D[2] \in Nat
  BY <1>1 DEF Ends
<1>3. D[i + 1] = D[i] + 2 * a[i] /\ a[i] \in Nat \ {0}
  BY DEF Ends
<1>4. D[2] = D[1] + 2 * a[1] /\ D[1] = 0 /\ a[1] \in Nat \ {0}
  BY <1>1 DEF Ends
<1>5. i # 1 => 2 <= i
  OBVIOUS
<1>6. i # 1 => D[2] <= D[i]
  BY <1>1, <1>5 DEF Ends
<1>7. D[2] >= 2
  BY <1>2, <1>4
<1>8. ASSUME NEW j \in 1..n, i < j PROVE D[i + 1] <= D[j]
  <2>1. j \in 1..(n + 1) /\ i + 1 <= j
    BY <1>8
  <2>2. QED
    BY <1>1, <2>1 DEF Ends
<1>9. i # 1 => D[i] >= 2
  <2>1. i # 1 => D[i] \in Nat /\ D[2] \in Nat /\ D[2] <= D[i]
    BY <1>2, <1>6
  <2>2. QED
    BY <1>7, <2>1
<1>10. D[i + 1] >= D[i] + 2
  BY <1>2, <1>3
<1>11. QED
  BY <1>2, <1>3, <1>4, <1>8, <1>9, <1>10

\* What lies behind the hole.
LEMMA BeyondIs ==
  ASSUME NEW n \in Nat \ {0}, NEW t \in Nat, NEW a, NEW D, Ends(a, n, t, D), NEW i \in 1..n
  PROVE  /\ D[i] < 1 <=> i = 1
         /\ (IF i = 1 THEN 1 ELSE D[i]) < D[i + 1]
         /\ Beyond(D, i) \in Nat /\ Beyond(D, i) >= 2
         /\ \A j \in 1..n : i < j => D[i + 1] < Beyond(D, j)
<1>1. /\ D[i] \in Nat /\ D[i + 1] \in Nat /\ D[i + 1] >= D[i] + 2
      /\ i = 1 => D[i] = 0
      /\ i # 1 => D[i] >= 2
      /\ \A j \in 1..n : i < j => D[i + 1] <= D[j]
  BY EndsOrdered
<1>2. ASSUME NEW j \in 1..n, i < j PROVE D[i + 1] < Beyond(D, j)
  <2>1. D[j] \in Nat
    BY EndsOrdered
  <2>2. j # 1
    BY <1>2
  <2>3. D[i + 1] <= D[j] /\ Beyond(D, j) = D[j] + 1
    BY <1>1, <1>2, <2>2 DEF Beyond
  <2>4. QED
    BY <1>1, <2>1, <2>3
<1>3. CASE i = 1
  <2>1. D[i] = 0 /\ Beyond(D, i) = 2
    BY <1>1, <1>3 DEF Beyond
  <2>2. D[i] < 1 /\ 1 < D[i + 1]
    BY <1>1, <2>1
  <2>3. (IF i = 1 THEN 1 ELSE D[i]) = 1
    BY <1>3
  <2>4. Beyond(D, i) \in Nat /\ Beyond(D, i) >= 2
    BY <2>1
  <2>5. QED
    BY <1>2, <1>3, <2>2, <2>3, <2>4
<1>4. CASE i # 1
  <2>1. D[i] >= 2 /\ Beyond(D, i) = D[i] + 1
    BY <1>1, <1>4 DEF Beyond
  <2>2. ~(D[i] < 1) /\ D[i] < D[i + 1] /\ D[i] + 1 \in Nat /\ D[i] + 1 >= 2
    BY <1>1, <2>1
  <2>3. (IF i = 1 THEN 1 ELSE D[i]) = D[i]
    BY <1>4
  <2>4. Beyond(D, i) \in Nat /\ Beyond(D, i) >= 2
    BY <2>1, <2>2
  <2>5. QED
    BY <1>2, <1>4, <2>2, <2>3, <2>4
<1>5. QED
  BY <1>3, <1>4

\* The first DIMM lies on both sides of the hole, the others behind it.
LEMMA PartsAre ==
  ASSUME NEW n \in Nat \ {0}, NEW t \in Nat \ {0}, NEW a \in [1..n -> Nat \ {0}],
         NEW D, Ends(a, n, t, D), \A i \in 1..(n + 1) : D[i] = Offset(Doubled(a), i)
  PROVE  DeviceRanges(a, MappedRanges(t))
           = {PartBelow} \cup {PartBeyond(D, i) : i \in 1..n}
<1> DEFINE r == MappedRanges(t)
           l == Lengths(r)
           From(i, m) == LargerOf(Offset(Doubled(a), i), Offset(l, m))
           End(i, m) == SmallerOf(Offset(Doubled(a), i + 1), Offset(l, m + 1))
           Q == {q \in (DOMAIN a) \X (DOMAIN r) : From(q[1], q[2]) < End(q[1], q[2])}
           part(p) == [device |-> p[1], mapped |-> p[2],
                       first |-> r[p[2]].first - Offset(l, p[2]) + From(p[1], p[2]),
                       last |-> r[p[2]].first - Offset(l, p[2]) + End(p[1], p[2]) - 1]
<1>1. /\ DOMAIN r = {1, 2}
      /\ r[1].first = 0 /\ r[1].last = 0 /\ r[2].first = 2 /\ r[2].last = 2 * t
      /\ Offset(l, 1) = 0 /\ Offset(l, 2) = 1 /\ Offset(l, 3) = 2 * t
  BY RangesAre
<1>2. DeviceRanges(a, r) = {part(p) : p \in Q}
  BY DeviceRangesAre
<1>3. DOMAIN a = 1..n
  OBVIOUS
<1>4. \A i \in 1..n : Offset(Doubled(a), i) = D[i] /\ Offset(Doubled(a), i + 1) = D[i + 1]
  <2>1. \A i \in 1..n : i \in 1..(n + 1) /\ i + 1 \in 1..(n + 1)
    OBVIOUS
  <2>2. QED
    BY <2>1
<1> HIDE DEF r, l
<1>5. ASSUME NEW i \in 1..n
      PROVE  /\ D[i] \in Nat /\ D[i + 1] \in Nat /\ D[i + 1] >= D[i] + 2 /\ D[i + 1] <= 2 * t
             /\ i = 1 => D[i] = 0
             /\ i # 1 => D[i] >= 2
  BY EndsOrdered
<1>6. ASSUME NEW i \in 1..n
      PROVE  /\ From(i, 1) = D[i] /\ End(i, 1) = 1
             /\ From(i, 2) = (IF i = 1 THEN 1 ELSE D[i]) /\ End(i, 2) = D[i + 1]
  <2>1. /\ D[i] \in Nat /\ D[i + 1] \in Nat /\ D[i + 1] >= D[i] + 2 /\ D[i + 1] <= 2 * t
        /\ i = 1 => D[i] = 0
        /\ i # 1 => D[i] >= 2
    BY <1>5
  <2>2. Offset(Doubled(a), i) = D[i] /\ Offset(Doubled(a), i + 1) = D[i + 1]
    BY <1>4
  <2>3. 1 + 1 = 2 /\ 2 + 1 = 3
    OBVIOUS
  <2>4. From(i, 1) = LargerOf(D[i], 0) /\ End(i, 1) = SmallerOf(D[i + 1], 1)
    BY <1>1, <2>2, <2>3
  <2>5. From(i, 2) = LargerOf(D[i], 1) /\ End(i, 2) = SmallerOf(D[i + 1], 2 * t)
    BY <1>1, <2>2, <2>3
  <2>6. LargerOf(D[i], 0) = D[i] /\ SmallerOf(D[i + 1], 1) = 1
    BY <2>1 DEF LargerOf, SmallerOf
  <2>7. LargerOf(D[i], 1) = (IF i = 1 THEN 1 ELSE D[i])
    BY <2>1 DEF LargerOf
  <2>8. SmallerOf(D[i + 1], 2 * t) = D[i + 1]
    <3>1. \A x, y \in Nat : x <= y => SmallerOf(x, y) = x
      BY DEF SmallerOf
    <3>2. 2 * t \in Nat
      OBVIOUS
    <3>3. QED
      BY <2>1, <3>1, <3>2
  <2>9. QED
    BY <2>4, <2>5, <2>6, <2>7, <2>8
<1> HIDE DEF From, End
<1>7. ASSUME NEW i \in 1..n
      PROVE  /\ <<i, 1>> \in Q <=> i = 1
             /\ <<i, 2>> \in Q
             /\ part(<<i, 2>>) = PartBeyond(D, i)
  <2>1. /\ D[i] \in Nat /\ D[i + 1] \in Nat /\ D[i + 1] >= D[i] + 2
        /\ i = 1 => D[i] = 0
        /\ i # 1 => D[i] >= 2
    BY <1>5
  <2>2. <<i, 1>> \in Q <=> D[i] < 1
    BY <1>1, <1>3, <1>6
  <2>3. <<i, 2>> \in Q <=> (IF i = 1 THEN 1 ELSE D[i]) < D[i + 1]
    BY <1>1, <1>3, <1>6
  <2>4. part(<<i, 2>>) = [device |-> i, mapped |-> 2,
                          first |-> 2 - 1 + (IF i = 1 THEN 1 ELSE D[i]),
                          last |-> 2 - 1 + D[i + 1] - 1]
    BY <1>1, <1>6
  <2>5. 2 - 1 + (IF i = 1 THEN 1 ELSE D[i]) = Beyond(D, i) /\ 2 - 1 + D[i + 1] - 1 = D[i + 1]
    BY <2>1 DEF Beyond
  <2>6. (D[i] < 1 <=> i = 1) /\ (IF i = 1 THEN 1 ELSE D[i]) < D[i + 1]
    BY BeyondIs
  <2>7. part(<<i, 2>>) = PartBeyond(D, i)
    BY <2>4, <2>5 DEF PartBeyond
  <2> HIDE DEF part, Q
  <2>8. QED
    BY <2>2, <2>3, <2>6, <2>7
<1>8. 1 \in 1..n /\ part(<<1, 1>>) = PartBelow
  <2>1. 1 \in 1..n
    OBVIOUS
  <2>2. From(1, 1) = 0 /\ End(1, 1) = 1
    BY <1>5, <1>6, <2>1
  <2>3. part(<<1, 1>>) = [device |-> 1, mapped |-> 1, first |-> 0 - 0 + 0, last |-> 0 - 0 + 1 - 1]
    BY <1>1, <2>2
  <2>4. QED
    BY <2>1, <2>3 DEF PartBelow
<1>9. \A q \in Q : \E i \in 1..n : q = <<i, 1>> \/ q = <<i, 2>>
  BY <1>1, <1>3
<1> HIDE DEF Q, part
<1>10. {part(p) : p \in Q} = {PartBelow} \cup {PartBeyond(D, i) : i \in 1..n}
  <2>1. ASSUME NEW p \in Q PROVE part(p) \in {PartBelow} \cup {PartBeyond(D, i) : i \in 1..n}
    <3>1. PICK i \in 1..n : p = <<i, 1>> \/ p = <<i, 2>>
      BY <1>9
    <3>2. CASE p = <<i, 1>>
      <4>1. i = 1
        BY <1>7, <3>2
      <4>2. part(p) = PartBelow
        BY <1>8, <3>2, <4>1
      <4>3. QED
        BY <4>2
    <3>3. CASE p = <<i, 2>>
      <4>1. part(p) = PartBeyond(D, i)
        BY <1>7, <3>3
      <4>2. QED
        BY <4>1
    <3>4. QED
      BY <3>1, <3>2, <3>3
  <2>2. PartBelow \in {part(p) : p \in Q}
    BY <1>7, <1>8
  <2>3. \A i \in 1..n : PartBeyond(D, i) \in {part(p) : p \in Q}
    BY <1>7
  <2>4. QED
    BY <2>1, <2>2, <2>3
<1>11. QED
  BY <1>2, <1>10 DEF r

\* Every mapped address is in a part.
LEMMA PartsCover ==
  ASSUME NEW n \in Nat \ {0}, NEW t \in Nat \ {0}, NEW a, NEW D, Ends(a, n, t, D),
         NEW x \in 2..(2 * t)
  PROVE  \E i \in 1..n : x \in Beyond(D, i)..D[i + 1]
<1>1. x \in Nat /\ x - 1 \in Nat /\ x - 1 < 2 * t /\ x >= 2
  OBVIOUS
<1>2. PICK i \in 1..n : D[i] <= x - 1 /\ x - 1 < D[i + 1]
  BY <1>1 DEF Ends
<1>3. D[i] \in Nat /\ D[i + 1] \in Nat
  BY EndsOrdered
<1>4. Beyond(D, i) <= x /\ x <= D[i + 1] /\ Beyond(D, i) \in Nat
  BY <1>1, <1>2, <1>3 DEF Beyond
<1>5. x \in Beyond(D, i)..D[i + 1]
  BY <1>1, <1>3, <1>4
<1>6. QED
  BY <1>5

\* The addresses of a DIMM.
AddressesOf(parts, i) ==
  UNION {p.first .. p.last : p \in {q \in parts : q.device = i}}

\* The parts of a DIMM have its size.
LEMMA PartsMeasure ==
  ASSUME NEW n \in Nat \ {0}, NEW t \in Nat \ {0}, NEW a, NEW D, Ends(a, n, t, D),
         NEW i \in 1..n, NEW parts,
         parts = {PartBelow} \cup {PartBeyond(D, j) : j \in 1..n}
  PROVE  2 * a[i] = Cardinality(AddressesOf(parts, i))
<1> DEFINE U == UNION {p.first .. p.last : p \in {q \in parts : q.device = i}}
<1>1. /\ D[i] \in Nat /\ D[i + 1] \in Nat /\ a[i] \in Nat \ {0}
      /\ D[i + 1] = D[i] + 2 * a[i]
      /\ i = 1 => D[i] = 0
      /\ i # 1 => D[i] >= 2
  BY EndsOrdered
<1>2. \A j : PartBeyond(D, j).device = j /\ PartBeyond(D, j).first = Beyond(D, j)
               /\ PartBeyond(D, j).last = D[j + 1]
  BY DEF PartBeyond
<1>3. PartBelow.device = 1 /\ PartBelow.first = 0 /\ PartBelow.last = 0
  BY DEF PartBelow
<1> DEFINE P == {q \in parts : q.device = i}
<1>4. CASE i = 1
  <2>1. P = {PartBelow, PartBeyond(D, i)}
    BY <1>2, <1>3, <1>4
  <2> HIDE DEF P
  <2>2. U = (0..0) \cup (2..D[i + 1])
    <3>1. PartBeyond(D, i).first = 2 /\ PartBeyond(D, i).last = D[i + 1]
      BY <1>2, <1>4 DEF Beyond
    <3>2. U = (PartBelow.first .. PartBelow.last)
                \cup (PartBeyond(D, i).first .. PartBeyond(D, i).last)
      BY <2>1 DEF P
    <3>3. QED
      BY <1>3, <3>1, <3>2
  <2> HIDE DEF U
  <2>3. IsFiniteSet(0..0) /\ Cardinality(0..0) = 1
    <3>1. 0..0 = {0}
      OBVIOUS
    <3>2. IsFiniteSet({0}) /\ Cardinality({0}) = 1
      BY FS_Singleton
    <3>3. QED
      BY <3>1, <3>2
  <2>4. IsFiniteSet(2..D[i + 1]) /\ Cardinality(2..D[i + 1]) = D[i + 1] - 1
    <3>1. 2 \in Int /\ D[i + 1] \in Int /\ ~(2 > D[i + 1])
      BY <1>1, <1>4
    <3>2. /\ IsFiniteSet(2..D[i + 1])
          /\ Cardinality(2..D[i + 1]) = IF 2 > D[i + 1] THEN 0 ELSE D[i + 1] - 2 + 1
      BY <3>1, FS_Interval
    <3>3. QED
      BY <1>1, <3>1, <3>2
  <2>5. Cardinality((0..0) \cap (2..D[i + 1])) = 0
    <3>1. (0..0) \cap (2..D[i + 1]) = {}
      BY <1>1
    <3>2. QED
      BY <3>1, FS_EmptySet
  <2>6. Cardinality(U) = 1 + (D[i + 1] - 1) - 0
    <3> DEFINE A == 0..0
               B == 2..D[i + 1]
    <3>1. IsFiniteSet(A) /\ IsFiniteSet(B) /\ U = A \cup B
      BY <2>2, <2>3, <2>4
    <3>2. Cardinality(A) = 1 /\ Cardinality(B) = D[i + 1] - 1 /\ Cardinality(A \cap B) = 0
      BY <2>3, <2>4, <2>5
    <3> HIDE DEF A, B
    <3>3. Cardinality(A \cup B) = Cardinality(A) + Cardinality(B) - Cardinality(A \cap B)
      BY <3>1, FS_Union
    <3>4. QED
      BY <3>1, <3>2, <3>3
  <2>7. Cardinality(U) = 2 * a[i]
    BY <1>1, <1>4, <2>6
  <2>8. QED
    BY <2>7 DEF U, AddressesOf
<1>5. CASE i # 1
  <2>1. P = {PartBeyond(D, i)}
    BY <1>2, <1>3, <1>5
  <2> HIDE DEF P
  <2>2. U = (D[i] + 1)..D[i + 1]
    <3>1. PartBeyond(D, i).first = D[i] + 1 /\ PartBeyond(D, i).last = D[i + 1]
      BY <1>2, <1>5 DEF Beyond
    <3>2. U = PartBeyond(D, i).first .. PartBeyond(D, i).last
      BY <2>1 DEF P
    <3>3. QED
      BY <3>1, <3>2
  <2> HIDE DEF U
  <2>3. D[i] + 1 \in Int /\ D[i + 1] \in Int /\ ~(D[i] + 1 > D[i + 1])
    BY <1>1
  <2>4. Cardinality((D[i] + 1)..D[i + 1])
          = IF D[i] + 1 > D[i + 1] THEN 0 ELSE D[i + 1] - (D[i] + 1) + 1
    BY <2>3, FS_Interval
  <2>5. Cardinality(U) = D[i + 1] - (D[i] + 1) + 1
    BY <2>2, <2>3, <2>4
  <2>6. Cardinality(U) = 2 * a[i]
    BY <1>1, <2>5
  <2>7. QED
    BY <2>6 DEF U, AddressesOf
<1>6. QED
  BY <1>4, <1>5

\* The parts tile the ranges.
LEMMA PartsTile ==
  ASSUME NEW n \in Nat \ {0}, NEW t \in Nat \ {0}, NEW a \in [1..n -> Nat \ {0}],
         Amount(a) = t
  PROVE  Tiles(a, MappedRanges(t), DeviceRanges(a, MappedRanges(t)))
<1> DEFINE r == MappedRanges(t)
           D == Starts(a, n)
           parts == DeviceRanges(a, r)
<1>1. /\ DOMAIN r = {1, 2}
      /\ r[1].first = 0 /\ r[1].last = 0 /\ r[2].first = 2 /\ r[2].last = 2 * t
  BY RangesAre
<1>2. Ends(a, n, t, D)
  BY EndsOf
<1>3. parts = {PartBelow} \cup {PartBeyond(D, i) : i \in 1..n}
  <2>1. \A i \in 1..(n + 1) : D[i] = Offset(Doubled(a), i)
    BY DEF Starts
  <2> HIDE DEF D
  <2>2. QED
    BY <1>2, <2>1, PartsAre
<1>4. DOMAIN a = 1..n
  OBVIOUS
<1> HIDE DEF r, D, parts
<1>5. \A i : /\ PartBeyond(D, i).device = i /\ PartBeyond(D, i).mapped = 2
             /\ PartBeyond(D, i).first = Beyond(D, i) /\ PartBeyond(D, i).last = D[i + 1]
  BY DEF PartBeyond
<1>6. PartBelow.device = 1 /\ PartBelow.mapped = 1 /\ PartBelow.first = 0 /\ PartBelow.last = 0
  BY DEF PartBelow
<1>7. ASSUME NEW p \in parts PROVE p = PartBelow \/ \E i \in 1..n : p = PartBeyond(D, i)
  BY <1>3
<1>8. ASSUME NEW m \in DOMAIN r, NEW x \in r[m].first .. r[m].last
      PROVE  \E p \in parts : p.mapped = m /\ x \in p.first .. p.last
  <2>1. CASE m = 1
    <3>1. x \in 0..0
      BY <1>1, <1>8, <2>1
    <3>2. PartBelow \in parts /\ x \in PartBelow.first .. PartBelow.last
      BY <1>3, <1>6, <3>1
    <3>3. QED
      BY <1>6, <2>1, <3>2
  <2>2. CASE m = 2
    <3>1. x \in 2..(2 * t)
      BY <1>1, <1>8, <2>2
    <3>2. PICK i \in 1..n : x \in Beyond(D, i)..D[i + 1]
      BY <1>2, <3>1, PartsCover
    <3>3. PartBeyond(D, i) \in parts
            /\ x \in PartBeyond(D, i).first .. PartBeyond(D, i).last
      BY <1>3, <1>5, <3>2
    <3>4. QED
      BY <1>5, <2>2, <3>3
  <2>3. QED
    BY <1>1, <2>1, <2>2
<1>9. ASSUME NEW i \in 1..n
      PROVE  /\ Beyond(D, i) \in Nat /\ Beyond(D, i) >= 2
             /\ D[i + 1] \in Nat /\ D[i + 1] <= 2 * t
             /\ \A j \in 1..n : i < j => D[i + 1] < Beyond(D, j)
  <2>1. D[i + 1] \in Nat /\ D[i + 1] <= 2 * t
    BY <1>2, EndsOrdered
  <2>2. /\ Beyond(D, i) \in Nat /\ Beyond(D, i) >= 2
        /\ \A j \in 1..n : i < j => D[i + 1] < Beyond(D, j)
    BY <1>2, BeyondIs
  <2>3. QED
    BY <2>1, <2>2
<1>10. ASSUME NEW p \in parts
       PROVE  p.first >= r[p.mapped].first /\ p.last <= r[p.mapped].last
  <2>1. CASE p = PartBelow
    BY <1>1, <1>6, <2>1
  <2>2. CASE \E i \in 1..n : p = PartBeyond(D, i)
    <3>1. PICK i \in 1..n : p = PartBeyond(D, i)
      BY <2>2
    <3>2. p.mapped = 2 /\ p.first = Beyond(D, i) /\ p.last = D[i + 1]
      BY <1>5, <3>1
    <3>3. QED
      BY <1>1, <1>9, <3>2
  <2>3. QED
    BY <1>7, <2>1, <2>2
<1>11. ASSUME NEW p \in parts, NEW q \in parts, p # q
       PROVE  p.last < q.first \/ q.last < p.first
  <2>1. ASSUME NEW i \in 1..n PROVE PartBelow.last < PartBeyond(D, i).first
    <3>1. Beyond(D, i) \in Nat /\ Beyond(D, i) >= 2
      BY <1>9
    <3>2. 0 < Beyond(D, i)
      BY <3>1
    <3>3. QED
      BY <1>5, <1>6, <3>2
  <2>2. ASSUME NEW i \in 1..n, NEW j \in 1..n, i # j
        PROVE  PartBeyond(D, i).last < PartBeyond(D, j).first
                 \/ PartBeyond(D, j).last < PartBeyond(D, i).first
    <3>1. i < j \/ j < i
      BY <2>2
    <3>2. D[i + 1] < Beyond(D, j) \/ D[j + 1] < Beyond(D, i)
      BY <1>9, <3>1
    <3>3. QED
      BY <1>5, <3>2
  <2>3. QED
    BY <1>7, <1>11, <2>1, <2>2
<1>12. ASSUME NEW i \in DOMAIN a
       PROVE  2 * a[i] = Cardinality(AddressesOf(parts, i))
  <2>1. i \in 1..n
    BY <1>4
  <2>2. QED
    BY <1>2, <1>3, <2>1, PartsMeasure
<1>13. Tiles(a, r, parts)
  BY <1>8, <1>10, <1>11, <1>12 DEF Tiles, AddressesOf
<1>14. QED
  BY <1>13 DEF r, parts

\* The type 20 tables of every layout that 01 records give each address of the
\* guest's memory to one DIMM, and each DIMM its size.
THEOREM TablesExact == Spec => []MemoryTablesExact
<1>1. MemoryRecorded => MemoryTablesExact
  <2> SUFFICES ASSUME MemoryRecorded, profile # NoProfile PROVE profile.memory \in ExactTotals
    BY DEF MemoryTablesExact
  <2> DEFINE t == profile.memory
             a == ChooseLayout(t)
  <2>1. t \in Totals /\ Layouts[t] = a /\ a # NoLayout
    BY DEF MemoryRecorded, Layouts
  <2> HIDE DEF a, t
  <2>2. t \in Nat \ {0}
    <3>1. \A x \in Totals : x \in Nat \ {0}
      BY TotalsAssumption
    <3>2. QED
      BY <2>1, <3>1
  <2>3. a \in AllLayouts(t)
    BY <2>1, <2>2, ChosenIsBest DEF a
  <2>4. PICK v \in DOMAIN Catalog : \E n \in 1..MaxDimms(t) : a \in LayoutsOf(Catalog[v], n, t)
    BY <2>2, <2>3, AllLayoutsAre
  <2>5. PICK n \in 1..MaxDimms(t) : a \in LayoutsOf(Catalog[v], n, t)
    BY <2>4
  <2>6. n \in Nat \ {0} /\ Catalog[v] \in SUBSET (Nat \ {0})
    BY <2>2, CatalogAssumption, DimmsBounded
  <2>7. a \in [1..n -> Nat \ {0}] /\ Amount(a) = t
    BY <2>5, <2>6 DEF LayoutsOf
  <2>8. Tiles(a, MappedRanges(t), DeviceRanges(a, MappedRanges(t)))
    BY <2>2, <2>6, <2>7, PartsTile
  <2>9. t \in ExactTotals
    BY <2>1, <2>8 DEF ExactTotals
  <2>10. QED
    BY <2>9 DEF t
<1>2. QED
  BY <1>1, MemoryRecordedHolds, PTL
=============================================================================
