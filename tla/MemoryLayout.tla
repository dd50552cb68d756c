---------------------------- MODULE MemoryLayout ----------------------------
(***************************************************************************)
(* How 01 divides the memory of a domain into DIMMs of one vendor and maps *)
(* them around the PCI hole of q35.  Sizes of DIMMs are in units of 4 GiB, *)
(* addresses in units of 2 GiB: every boundary the code computes is a      *)
(* multiple of these.  A layout is a sequence of sizes, largest first.     *)
(***************************************************************************)
EXTENDS Integers, SequencesExt

CONSTANTS Catalog,     \* vendor -> the sizes it sells (MEMORY_CATALOG)
          HostSlots    \* slots of the memory array of the host (Type 16)

ASSUME CatalogAssumption ==
  /\ DOMAIN Catalog # {}
  /\ \A v \in DOMAIN Catalog : Catalog[v] \subseteq Nat \ {0}
ASSUME HostSlotsAssumption == HostSlots \in 1..16

NoLayout == <<>>

\* Where the n-th of a sequence of lengths begins when they follow each other.
Offset(lengths, n) ==
  LET sum[k \in 0..Len(lengths)] == IF k = 0 THEN 0 ELSE sum[k - 1] + lengths[k]
  IN sum[n - 1]

\* What the DIMMs of a layout make together.
Amount(layout) == Offset(layout, Len(layout) + 1)

\* values.count(4096)
Smallest(layout) == Cardinality({i \in DOMAIN layout : layout[i] = 1})

\* Of two sequences, the one with the larger value at the first difference:
\* a smaller tuple of negated values.
Larger(a, b) ==
  \E i \in DOMAIN a \cap DOMAIN b :
    a[i] > b[i] /\ \A j \in 1..(i - 1) : a[j] = b[j]

\* sorted((*layout, size), reverse=True): a layout is sorted already.
Insert(layout, size) ==
  InsertAt(layout, Cardinality({i \in DOMAIN layout : layout[i] >= size}) + 1, size)

\* The proposal a state keeps: fewest smallest DIMMs, then the larger ones.
Preferred(a, b) ==
  \/ Smallest(a) < Smallest(b)
  \/ Smallest(a) = Smallest(b) /\ Larger(a, b)

\* The key of the final choice among layouts of any length.
TwoEqual(layout) == Len(layout) = 2 /\ layout[1] = layout[2]
Better(a, b) ==
  \/ Smallest(a) < Smallest(b)
  \/ /\ Smallest(a) = Smallest(b)
     /\ \/ TwoEqual(a) /\ ~TwoEqual(b)
        \/ /\ TwoEqual(a) <=> TwoEqual(b)
           /\ \/ Len(a) < Len(b)
              \/ Len(a) = Len(b) /\ Larger(a, b)

Least(layouts, less(_, _)) ==
  CHOOSE a \in layouts : \A b \in layouts \ {a} : less(a, b)

\* `limit`: a DIMM takes a slot and has at least one unit.
MaxDimms(total) == IF HostSlots < total THEN HostSlots ELSE total

\* The layouts that a DIMM more makes of those kept so far.
Proposals(before, sizes, u) ==
  {Insert(before[u - s], s) : s \in {x \in sizes : u - x \in DOMAIN before}}

\* One of them is kept for each amount.
OneMore(before, sizes, total) ==
  [u \in {x \in 0..total : Proposals(before, sizes, x) # {}} |->
     Least(Proposals(before, sizes, u), Preferred)]

\* states: the layout kept for each amount that n DIMMs of a vendor can make.
StatesOf(sizes, total) ==
  LET f[n \in 0..MaxDimms(total)] ==
        IF n = 0 THEN [u \in {0} |-> NoLayout] ELSE OneMore(f[n - 1], sizes, total)
  IN f

\* Mutant: the sizes of all vendors are taken together.
CandidatesOfAll(total) ==
  LET states == StatesOf(UNION {Catalog[v] : v \in DOMAIN Catalog}, total)
  IN {states[n][total] : n \in {m \in DOMAIN states : total \in DOMAIN states[m]}}

Candidates(total) ==
  UNION {LET states == StatesOf(Catalog[v], total)
             half == total \div 2
         IN {states[n][total] : n \in {m \in DOMAIN states : total \in DOMAIN states[m]}}
            \cup (IF MaxDimms(total) >= 2 /\ total = 2 * half /\ half \in Catalog[v]
                  THEN {<<half, half>>} ELSE {})
         : v \in DOMAIN Catalog}

\* choose_layout, which fails when no vendor has a layout.
ChooseLayout(total) ==
  IF Candidates(total) = {} THEN NoLayout ELSE Least(Candidates(total), Better)

\* What choose_layout is to return, without its search: the best of all
\* layouts that DIMMs of one vendor make in the slots of the host.
AllLayouts(total) ==
  {layout \in UNION {[1..n -> UNION {Catalog[v] : v \in DOMAIN Catalog}] :
                       n \in 1..MaxDimms(total)} :
     /\ \A i \in 2..Len(layout) : layout[i - 1] >= layout[i]
     /\ \E v \in DOMAIN Catalog : \A i \in DOMAIN layout : layout[i] \in Catalog[v]
     /\ Amount(layout) = total}

-----------------------------------------------------------------------------

\* q35_ranges: below 2 GiB, and the rest from 4 GiB on.
MappedRanges(total) == <<[first |-> 0, last |-> 0], [first |-> 2, last |-> 2 * total]>>

Length(range) == range.last - range.first + 1

SmallerOf(a, b) == IF a < b THEN a ELSE b
LargerOf(a, b) == IF a < b THEN b ELSE a

Lengths(ranges) == [m \in DOMAIN ranges |-> Length(ranges[m])]

\* The part of each DIMM in each range: DIMMs and ranges are both laid end to
\* end, and what they share is moved to where the range begins.
Parts(layout, ranges, Base(_)) ==
  LET dimms == [i \in DOMAIN layout |-> 2 * layout[i]]
      First(i, m) == LargerOf(Offset(dimms, i), Offset(Lengths(ranges), m))
      End(i, m) == SmallerOf(Offset(dimms, i + 1), Offset(Lengths(ranges), m + 1))
  IN {[device |-> p[1], mapped |-> p[2],
       first |-> Base(p[2]) + First(p[1], p[2]),
       last |-> Base(p[2]) + End(p[1], p[2]) - 1] :
        p \in {q \in (DOMAIN layout) \X (DOMAIN ranges) : First(q[1], q[2]) < End(q[1], q[2])}}

\* Mutant: what precedes a range in the DIMMs is not taken off its addresses.
DeviceRangesShifted(layout, ranges) ==
  Parts(layout, ranges, LAMBDA m : ranges[m].first)

\* device_ranges (Type 20)
DeviceRanges(layout, ranges) ==
  Parts(layout, ranges, LAMBDA m : ranges[m].first - Offset(Lengths(ranges), m))
=============================================================================
