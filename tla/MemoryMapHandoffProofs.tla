----------------------- MODULE MemoryMapHandoffProofs ----------------------
(* Proofs about MemoryMapHandoff and the loop of PhysMemMap it ends in,    *)
(* for every memory and every map the firmware may return, every size of a *)
(* frame, of an array, of a descriptor and of an entry, and any number of  *)
(* firmware events.                                                        *)
EXTENDS MemoryMapHandoff, TLAPS, FiniteSetTheorems, WellFoundedInduction

-----------------------------------------------------------------------------
(* The merging of the descriptors, PhysMemMap.                             *)

(* A descriptor's frames are natural numbers.                              *)
LEMMA DescriptorFrames ==
    ASSUME NEW d \in Descriptor
    PROVE  FirstFrame(d) \in Nat /\ EndFrame(d) \in Nat
           /\ FirstFrame(d) <= EndFrame(d) /\ PhysType(d) \in PhysMemoryType
  <1>1. d.PhysicalStart \in Nat /\ d.NumberOfPages \in Nat
    BY DEF Descriptor
  <1>2. FirstFrame(d) \in Nat
    BY <1>1, PageSizeAssumption DEF FirstFrame
  <1>3. QED
    BY <1>1, <1>2 DEF EndFrame, PhysType, PhysMemoryType

(* Every step of the loop keeps the types.                                 *)
LEMMA TypeStep == TypeOK /\ [Next]_vars => TypeOK'
  <1> SUFFICES ASSUME TypeOK, [Next]_vars PROVE TypeOK'
    OBVIOUS
  <1> USE DEF TypeOK
  <1>1. ASSUME HasNext
        PROVE  /\ ptr \in Descriptor /\ i + 1 \in 0 .. Len(entries)
               /\ FirstFrame(ptr) \in Nat /\ EndFrame(ptr) \in Nat
               /\ FirstFrame(ptr) <= EndFrame(ptr)
               /\ PhysType(ptr) \in PhysMemoryType
               /\ ptr.NumberOfPages \in Nat
    <2>1. ptr \in Descriptor /\ i + 1 \in 0 .. Len(entries)
      BY <1>1 DEF HasNext, ptr
    <2>2. QED
      BY <2>1, DescriptorFrames DEF Descriptor
  <1>2. CASE Extend
    BY <1>1, <1>2 DEF Extend
  <1>3. CASE CloseRun
    <2>1. Run \in Entry
      BY DEF Run, Entry
    <2>2. physmemmap' \in Seq(Entry)
      BY <1>3, <2>1 DEF CloseRun
    <2>3. phase' \in {"building", "done", "failed"}
      BY <1>3 DEF CloseRun
    <2>4. QED
      BY <1>1, <1>3, <2>2, <2>3 DEF CloseRun
  <1>4. CASE Finish
    BY <1>4 DEF Finish
  <1>5. CASE UNCHANGED vars
    BY <1>5 DEF vars
  <1>6. QED
    BY <1>2, <1>3, <1>4, <1>5 DEF Next

(* The loop's variables keep their types (main.c:990-1033).                *)
THEOREM TypeCorrect == Spec => []TypeOK
  <1>1. Init => TypeOK
    BY MapsAssumption DEF Init, TypeOK, PhysMemoryType, Entry
  <1>2. QED
    BY <1>1, TypeStep, PTL DEF Spec

(* No entry is written past the array's last slot, and a slot is left for  *)
(* the run being merged while the loop goes on (main.c:1015-1038).         *)
BoundInv == Len(physmemmap) < MaxEntries \/
            (phase = "failed" /\ Len(physmemmap) = MaxEntries)

(* The array is never written past its end (main.c:1015-1038).            *)
THEOREM NeverOverrun == Spec => []ArrayInBounds
  <1>1. Init => BoundInv
    BY MaxEntriesAssumption DEF Init, BoundInv
  <1>2. TypeOK /\ BoundInv /\ [Next]_vars => BoundInv'
    <2> SUFFICES ASSUME TypeOK, BoundInv, [Next]_vars PROVE BoundInv'
      OBVIOUS
    <2> USE MaxEntriesAssumption DEF BoundInv
    <2>1. Len(physmemmap) \in Nat
      BY DEF TypeOK
    <2>2. CASE Extend
      BY <2>2 DEF Extend, HasNext
    <2>3. CASE CloseRun
      <3>1. Len(physmemmap') = Len(physmemmap) + 1
        BY <2>3 DEF CloseRun, TypeOK
      <3>2. Len(physmemmap) < MaxEntries
        BY <2>3 DEF CloseRun, HasNext
      <3>3. phase' = IF Len(physmemmap') >= MaxEntries THEN "failed" ELSE phase
        BY <2>3 DEF CloseRun
      <3>4. QED
        BY <2>1, <3>1, <3>2, <3>3
    <2>4. CASE Finish
      BY <2>4 DEF Finish
    <2>5. CASE UNCHANGED vars
      BY <2>5 DEF vars
    <2>6. QED
      BY <2>2, <2>3, <2>4, <2>5 DEF Next
  <1>3. TypeOK /\ BoundInv => ArrayInBounds
    BY MaxEntriesAssumption DEF TypeOK, BoundInv, ArrayInBounds
  <1>4. QED
    BY <1>1, <1>2, <1>3, TypeCorrect, PTL DEF Spec

(* A descriptor holds frame f as a frame of type t.                        *)
Holds(d, f, t) == PhysType(d) = t /\ f >= FirstFrame(d) /\ f < EndFrame(d)

(* One more descriptor describes its own frames and no others.             *)
LEMMA DescribedGrows ==
    ASSUME NEW n \in Nat, NEW f, NEW t
    PROVE  Described(f, t, n + 1) <=>
               Described(f, t, n) \/ Holds(entries[n + 1], f, t)
  <1>1. \A k : k \in 1 .. n + 1 <=> k \in 1 .. n \/ k = n + 1
    OBVIOUS
  <1>2. QED
    BY <1>1, Zenon DEF Described, Holds

(* What the map says of a frame, after an entry is appended to it.         *)
LEMMA InMapGrows ==
    ASSUME TypeOK, physmemmap' = Append(physmemmap, Run), NEW f \in Nat, NEW t
    PROVE  InMap(f, t)' <=> InMap(f, t) \/ InRun(f, t)
  <1>1. /\ Len(physmemmap') = Len(physmemmap) + 1
        /\ Len(physmemmap) \in Nat
        /\ \A k \in 1 .. Len(physmemmap) : physmemmap'[k] = physmemmap[k]
        /\ physmemmap'[Len(physmemmap) + 1] = Run
    BY DEF TypeOK
  <1>2. start \in Nat /\ cursor \in Nat /\ start + (cursor - start) = cursor
    BY DEF TypeOK
  <1>3. InRun(f, t) <=> /\ Run.type = t /\ f >= Run.start_frame
                        /\ f < Run.start_frame + Run.frame_count
    BY <1>2 DEF InRun, Run
  <1>4. \A k : k \in 1 .. Len(physmemmap') <=>
               k \in 1 .. Len(physmemmap) \/ k = Len(physmemmap) + 1
    BY <1>1
  <1>5. QED
    BY <1>1, <1>3, <1>4, Zenon DEF InMap

(* The entries and the run being merged hold exactly the frames described  *)
(* so far, type by type (main.c:1007-1033).                                *)
CoverageInv == \A f \in Nat, t \in PhysMemoryType :
                   InMap(f, t) \/ InRun(f, t) <=> Described(f, t, i)

LEMMA CoverageStep == TypeOK /\ CoverageInv /\ [Next]_vars => CoverageInv'
  <1> SUFFICES ASSUME TypeOK, CoverageInv, [Next]_vars,
                      NEW f \in Nat, NEW t \in PhysMemoryType
               PROVE  InMap(f, t)' \/ InRun(f, t)' <=> Described(f, t, i)'
    BY DEF CoverageInv
  <1>1. InMap(f, t) \/ InRun(f, t) <=> Described(f, t, i)
    BY DEF CoverageInv
  <1>2. i \in Nat /\ start \in Nat /\ cursor \in Nat /\ start <= cursor
    BY DEF TypeOK
  <1>3. ASSUME HasNext
        PROVE  /\ ptr \in Descriptor /\ ptr = entries[i + 1]
               /\ FirstFrame(ptr) \in Nat /\ ptr.NumberOfPages \in Nat
    <2>1. ptr \in Descriptor
      BY <1>3 DEF HasNext, ptr, TypeOK
    <2>2. QED
      BY <2>1, DescriptorFrames DEF ptr, Descriptor
  <1>4. ASSUME HasNext, i' = i + 1, entries' = entries
        PROVE  Described(f, t, i)' <=> Described(f, t, i) \/ Holds(ptr, f, t)
    <2>1. Described(f, t, i)' <=> Described(f, t, i + 1)
      BY <1>4 DEF Described
    <2>2. QED
      BY <1>2, <1>3, <1>4, <2>1, DescribedGrows
  <1>5. CASE Extend
    <2>1. HasNext /\ Continues
      BY <1>5 DEF Extend
    <2>2. InMap(f, t)' <=> InMap(f, t)
      BY <1>5 DEF Extend, InMap
    <2>3. InRun(f, t)' <=> type = t /\ f >= start /\ f < cursor + ptr.NumberOfPages
      BY <1>5 DEF Extend, InRun
    <2>4. Holds(ptr, f, t) <=>
              type = t /\ f >= cursor /\ f < cursor + ptr.NumberOfPages
      BY <2>1 DEF Holds, Continues, EndFrame
    <2>5. InRun(f, t)' <=> InRun(f, t) \/ Holds(ptr, f, t)
      BY <1>2, <1>3, <2>1, <2>3, <2>4 DEF InRun
    <2>6. Described(f, t, i)' <=> Described(f, t, i) \/ Holds(ptr, f, t)
      BY <1>4, <1>5, <2>1 DEF Extend
    <2>7. QED
      BY <1>1, <2>2, <2>5, <2>6
  <1>6. CASE CloseRun
    <2>1. InMap(f, t)' <=> InMap(f, t) \/ InRun(f, t)
      BY <1>6, InMapGrows DEF CloseRun
    <2>2. InRun(f, t)' <=> Holds(ptr, f, t)
      BY <1>6 DEF CloseRun, InRun, Holds
    <2>3. Described(f, t, i)' <=> Described(f, t, i) \/ Holds(ptr, f, t)
      BY <1>4, <1>6 DEF CloseRun
    <2>4. QED
      BY <1>1, <2>1, <2>2, <2>3
  <1>7. CASE Finish
    BY <1>1, <1>7 DEF Finish, InMap, InRun, Described
  <1>8. CASE UNCHANGED vars
    BY <1>1, <1>8 DEF vars, InMap, InRun, Described
  <1>9. QED
    BY <1>5, <1>6, <1>7, <1>8 DEF Next

(* The map tells what the firmware told, for every map of the firmware.    *)
THEOREM MapCoverage == Spec => []Coverage
  <1>1. Init => CoverageInv
    BY DEF Init, CoverageInv, InMap, InRun, Described
  <1>2. CoverageInv => Coverage
    BY MaxFrameAssumption DEF CoverageInv, Coverage, Frame
  <1>3. QED
    BY <1>1, <1>2, CoverageStep, TypeCorrect, PTL DEF Spec

(* When the loop ends, only frames of the last run can be missing from the *)
(* array (main.c:1007-1041).                                               *)
DoneInv == phase = "done" => i = Len(entries)

LEMMA DoneStep == DoneInv /\ [Next]_vars => DoneInv'
  BY DEF DoneInv, Next, vars, Extend, CloseRun, Finish, HasNext

(* When the loop has ended, only frames of the last run can be missing     *)
(* (main.c:1007-1041).                                                     *)
THEOREM LostTail == Spec => []OnlyLastRunMissing
  <1>1. Init => CoverageInv /\ DoneInv
    BY DEF Init, CoverageInv, InMap, InRun, Described, DoneInv
  <1>2. CoverageInv /\ DoneInv => OnlyLastRunMissing
    BY MaxFrameAssumption DEF CoverageInv, DoneInv, OnlyLastRunMissing, Frame
  <1>3. QED
    BY <1>1, <1>2, DoneStep, CoverageStep, TypeCorrect, PTL DEF Spec

(* For descriptors that do not overlap no frame is free and reserved at    *)
(* once (main.c:995-1005).                                                 *)
THEOREM FreeOrReserved == Spec => []NeverBoth
  <1>1. Init => CoverageInv
    BY DEF Init, CoverageInv, InMap, InRun, Described
  <1>2. TypeOK /\ CoverageInv => NeverBoth
    <2> SUFFICES ASSUME TypeOK, CoverageInv, DisjointMap, NEW f \in Frame,
                        InMap(f, "PhysFree"), InMap(f, "PhysReserved")
                 PROVE  FALSE
      BY DEF NeverBoth
    <2>1. f \in Nat /\ i \in 0 .. Len(entries)
      BY MaxFrameAssumption DEF Frame, TypeOK
    <2>2. Described(f, "PhysFree", i) /\ Described(f, "PhysReserved", i)
      BY <2>1 DEF CoverageInv, PhysMemoryType
    <2>3. PICK j \in 1 .. i : Holds(entries[j], f, "PhysFree")
      BY <2>2 DEF Described, Holds
    <2>4. PICK k \in 1 .. i : Holds(entries[k], f, "PhysReserved")
      BY <2>2 DEF Described, Holds
    <2>5. j # k /\ j \in 1 .. Len(entries) /\ k \in 1 .. Len(entries)
      BY <2>1, <2>3, <2>4 DEF Holds
    <2>6. entries[j] \in Descriptor /\ entries[k] \in Descriptor
      BY <2>5 DEF TypeOK
    <2>7. /\ FirstFrame(entries[j]) \in Nat /\ EndFrame(entries[j]) \in Nat
          /\ FirstFrame(entries[k]) \in Nat /\ EndFrame(entries[k]) \in Nat
      BY <2>6, DescriptorFrames
    <2>8. \/ EndFrame(entries[j]) <= FirstFrame(entries[k])
          \/ EndFrame(entries[k]) <= FirstFrame(entries[j])
      BY <2>5 DEF DisjointMap
    <2>9. QED
      BY <2>1, <2>3, <2>4, <2>7, <2>8 DEF Holds
  <1>3. QED
    BY <1>1, <1>2, CoverageStep, TypeCorrect, PTL DEF Spec

(* Neighbouring entries could not have been one (main.c:1007-1033): the    *)
(* run being merged does not continue the last entry either.               *)
Mergeable(e, f) == e.type = f.type /\ e.start_frame + e.frame_count = f.start_frame

MaximalInv ==
    /\ \A k \in 1 .. Len(physmemmap) - 1 : ~Mergeable(physmemmap[k], physmemmap[k + 1])
    /\ Len(physmemmap) > 0 => ~Mergeable(physmemmap[Len(physmemmap)], Run)

LEMMA MaximalStep == TypeOK /\ MaximalInv /\ [Next]_vars => MaximalInv'
  <1> SUFFICES ASSUME TypeOK, MaximalInv, [Next]_vars PROVE MaximalInv'
    OBVIOUS
  <1>1. Len(physmemmap) \in Nat /\ start \in Nat /\ cursor \in Nat
    BY DEF TypeOK
  <1>2. CASE Extend
    <2>1. physmemmap' = physmemmap /\ start' = start /\ type' = type
      BY <1>2 DEF Extend
    <2>2. QED
      BY <2>1 DEF MaximalInv, Mergeable, Run
  <1>3. CASE CloseRun
    <2>1. /\ Len(physmemmap') = Len(physmemmap) + 1
          /\ \A k \in 1 .. Len(physmemmap) : physmemmap'[k] = physmemmap[k]
          /\ physmemmap'[Len(physmemmap) + 1] = Run
      BY <1>3 DEF CloseRun, TypeOK
    <2>2. ~Mergeable(Run, Run')
      BY <1>1, <1>3 DEF CloseRun, Continues, Mergeable, Run
    <2>3. ASSUME NEW k \in 1 .. Len(physmemmap') - 1
          PROVE  ~Mergeable(physmemmap'[k], physmemmap'[k + 1])
      <3>1. CASE k = Len(physmemmap)
        BY <1>1, <2>1, <3>1 DEF MaximalInv
      <3>2. CASE k # Len(physmemmap)
        <4>1. k \in 1 .. Len(physmemmap) - 1 /\ k + 1 \in 1 .. Len(physmemmap)
          BY <1>1, <2>1, <3>2
        <4>2. QED
          BY <2>1, <4>1 DEF MaximalInv
      <3>3. QED
        BY <3>1, <3>2
    <2>4. QED
      BY <1>1, <2>1, <2>2, <2>3 DEF MaximalInv
  <1>4. CASE Finish
    BY <1>4 DEF Finish, MaximalInv, Mergeable, Run
  <1>5. CASE UNCHANGED vars
    BY <1>5 DEF vars, MaximalInv, Mergeable, Run
  <1>6. QED
    BY <1>2, <1>3, <1>4, <1>5 DEF Next

(* No two neighbouring entries could have been merged (main.c:1007-1038).  *)
THEOREM NoEntryWasted == Spec => []EntriesMaximal
  <1>1. Init => MaximalInv
    BY DEF Init, MaximalInv
  <1>2. MaximalInv => EntriesMaximal
    BY DEF MaximalInv, EntriesMaximal, Mergeable
  <1>3. QED
    BY <1>1, <1>2, MaximalStep, TypeCorrect, PTL DEF Spec

-----------------------------------------------------------------------------
(* The hand-off.                                                           *)
(* A nonempty set of natural numbers has a least one.                      *)
LEMMA Least ==
    ASSUME NEW S \in SUBSET Nat, S # {}
    PROVE  \E m \in S : \A k \in S : m <= k
  <1> DEFINE R == OpToRel(<, Nat)
  <1>1. PICK m \in S : \A k \in S : ~ (<<k, m>> \in R)
    <2> HIDE DEF R
    <2>1. IsWellFoundedOn(R, Nat)
      BY NatLessThanWellFounded DEF R
    <2>2. QED
      BY <2>1, WFMin
  <1>2. \A k \in S : k \in Nat /\ m \in Nat
    OBVIOUS
  <1>3. \A k \in S : ~ (k < m)
    BY <1>1, <1>2 DEF OpToRel
  <1>4. QED
    BY <1>2, <1>3

(* Members of a set of numbers up to f are counted: the counts are those   *)
(* from 1 to the size of the set, each of a single member.                 *)
LEMMA UpTo ==
    ASSUME NEW N \in Nat, NEW S \in SUBSET (0 .. N), NEW f \in Nat
    PROVE  /\ IsFiniteSet(S) /\ Cardinality(S) \in Nat
           /\ IsFiniteSet(S \cap 0 .. f) /\ Cardinality(S \cap 0 .. f) \in Nat
           /\ Cardinality(S \cap 0 .. f) <= Cardinality(S)
  <1>1. IsFiniteSet(S)
    <2>1. IsFiniteSet(0 .. N)
      BY FS_Interval
    <2>2. QED
      BY <2>1, FS_Subset
  <1>2. S \cap 0 .. f \in SUBSET S
    OBVIOUS
  <1>3. IsFiniteSet(S \cap 0 .. f) /\ Cardinality(S \cap 0 .. f) <= Cardinality(S)
    BY <1>1, <1>2, FS_Subset
  <1>4. QED
    BY <1>1, <1>3, FS_CardinalityType

LEMMA Rank ==
    ASSUME NEW N \in Nat, NEW S \in SUBSET (0 .. N), NEW f \in S
    PROVE  /\ Cardinality(S \cap 0 .. f) \in 1 .. Cardinality(S)
           /\ \A g \in S : Cardinality(S \cap 0 .. g) = Cardinality(S \cap 0 .. f) => g = f
  <1>1. \A g \in S : g \in Nat /\ g <= N
    OBVIOUS
  <1>2. ASSUME NEW g \in S, NEW h \in S, g < h
        PROVE  Cardinality(S \cap 0 .. g) < Cardinality(S \cap 0 .. h)
    <2>1. h \notin S \cap 0 .. g /\ (S \cap 0 .. g) \cup {h} \subseteq S \cap 0 .. h
      BY <1>1, <1>2
    <2>2. IsFiniteSet(S \cap 0 .. g) /\ IsFiniteSet(S \cap 0 .. h)
          /\ Cardinality(S \cap 0 .. g) \in Nat /\ Cardinality(S \cap 0 .. h) \in Nat
      BY <1>1, UpTo
    <2>3. Cardinality((S \cap 0 .. g) \cup {h}) = Cardinality(S \cap 0 .. g) + 1
      BY <2>1, <2>2, FS_AddElement
    <2> DEFINE A == (S \cap 0 .. g) \cup {h}
               B == S \cap 0 .. h
    <2>4. A \in SUBSET B /\ IsFiniteSet(B)
      BY <2>1, <2>2
    <2>5. Cardinality(A) <= Cardinality(B)
      <3> HIDE DEF A, B
      <3>1. QED
        BY <2>4, FS_Subset
    <2>6. QED
      BY <2>2, <2>3, <2>5
  <1>3. Cardinality(S \cap 0 .. f) # 0
    <2>1. f \in Nat /\ f \in S \cap 0 .. f
      BY <1>1
    <2>2. IsFiniteSet(S \cap 0 .. f)
      BY <2>1, UpTo
    <2>3. QED
      BY <2>1, <2>2, FS_EmptySet
  <1>4. ASSUME NEW g \in S, g # f
        PROVE  Cardinality(S \cap 0 .. g) # Cardinality(S \cap 0 .. f)
    <2>1. Cardinality(S \cap 0 .. g) \in Nat /\ Cardinality(S \cap 0 .. f) \in Nat
      <3>1. f \in Nat /\ g \in Nat
        BY <1>1
      <3>2. QED
        BY <3>1, UpTo
    <2>2. g < f \/ f < g
      BY <1>1, <1>4
    <2>3. QED
      BY <1>2, <2>1, <2>2
  <1>5. /\ Cardinality(S \cap 0 .. f) \in Nat /\ Cardinality(S) \in Nat
        /\ Cardinality(S \cap 0 .. f) <= Cardinality(S)
    <2>1. f \in Nat
      BY <1>1
    <2>2. QED
      BY <2>1, UpTo
  <1>6. QED
    BY <1>3, <1>4, <1>5

LEMMA Nth ==
    ASSUME NEW N \in Nat, NEW S \in SUBSET (0 .. N), NEW n \in 1 .. Cardinality(S)
    PROVE  \E f \in S : Cardinality(S \cap 0 .. f) = n
  <1> DEFINE T == {g \in Nat : Cardinality(S \cap 0 .. g) >= n}
  <1>1. S \cap 0 .. N = S /\ n \in Nat /\ n <= Cardinality(S) /\ n >= 1
    <2>1. Cardinality(S) \in Nat
      BY UpTo
    <2>2. S \cap 0 .. N = S
      OBVIOUS
    <2>3. n \in Nat /\ n <= Cardinality(S) /\ n >= 1
      BY <2>1
    <2>4. QED
      BY <2>2, <2>3
  <1>2. N \in T
    BY <1>1
  <1>3. PICK f \in T : \A g \in T : f <= g
    BY <1>2, Least
  <1>4. f \in Nat /\ Cardinality(S \cap 0 .. f) >= n
    OBVIOUS
  <1>5. Cardinality(S \cap 0 .. f) \in Nat
    BY <1>4, UpTo
  <1>6. f \in S
    <2>1. SUFFICES ASSUME f \notin S PROVE FALSE
      OBVIOUS
    <2>2. CASE f = 0
      <3>1. S \cap 0 .. f = {}
        BY <2>1, <2>2
      <3>2. QED
        BY <1>1, <1>4, <3>1, FS_EmptySet
    <2>3. CASE f # 0
      <3>1. f - 1 \in Nat /\ S \cap 0 .. f = S \cap 0 .. f - 1
        BY <1>4, <2>1, <2>3
      <3>2. f - 1 \in T
        BY <1>4, <3>1
      <3>3. QED
        BY <1>3, <1>4, <3>2
    <2>4. QED
      BY <2>2, <2>3
  <1>7. Cardinality(S \cap 0 .. f) <= n
    <2>1. CASE f = 0
      <3>1. S \cap 0 .. f = {0}
        BY <1>6, <2>1
      <3>2. Cardinality(S \cap 0 .. f) = 1
        BY <3>1, FS_Singleton
      <3>3. QED
        BY <1>1, <3>2
    <2>2. CASE f # 0
      <3>1. f - 1 \in Nat /\ S \cap 0 .. f = (S \cap 0 .. f - 1) \cup {f}
        BY <1>4, <1>6, <2>2
      <3>2. IsFiniteSet(S \cap 0 .. f - 1) /\ Cardinality(S \cap 0 .. f - 1) \in Nat
        BY <3>1, UpTo
      <3>3. Cardinality(S \cap 0 .. f) <= Cardinality(S \cap 0 .. f - 1) + 1
        <4> DEFINE A == S \cap 0 .. f - 1
        <4>1. Cardinality(A \cup {f}) = IF f \in A THEN Cardinality(A) ELSE Cardinality(A) + 1
          BY <3>2, FS_AddElement
        <4>2. Cardinality(A) \in Nat /\ S \cap 0 .. f = A \cup {f}
          BY <3>1, <3>2
        <4> HIDE DEF A
        <4>3. Cardinality(S \cap 0 .. f) <= Cardinality(A) + 1
          BY <4>1, <4>2
        <4>4. QED
          BY <4>3 DEF A
      <3>4. f - 1 \notin T
        BY <1>3, <1>4
      <3>5. QED
        BY <1>1, <1>5, <3>1, <3>2, <3>3, <3>4
    <2>3. QED
      BY <2>1, <2>2
  <1>8. Cardinality(S \cap 0 .. f) = n
    BY <1>1, <1>4, <1>5, <1>7
  <1>9. QED
    BY <1>6, <1>8

(* A memory of the firmware.                                               *)
MemoryOK == memory \in [Frame -> EfiTypes \cup {Hole}]

(* A run reaches as far as its type does.                                  *)
LEMMA RunReaches ==
    ASSUME MemoryOK, NEW s \in Frame
    PROVE  /\ RunLength(s) \in 1 .. MaxFrame + 1 - s
           /\ \A k \in s .. s + RunLength(s) - 1 : memory[k] = memory[s]
           /\ s + RunLength(s) = MaxFrame + 1 \/ memory[s + RunLength(s)] # memory[s]
  <1> DEFINE T == {n \in Nat : n >= 1 /\ (s + n = MaxFrame + 1 \/ memory[s + n] # memory[s])}
  <1>1. s \in Nat /\ MaxFrame \in Nat /\ s <= MaxFrame
    BY MaxFrameAssumption DEF Frame
  <1>2. MaxFrame + 1 - s \in T
    BY <1>1
  <1>3. PICK n \in T : \A m \in T : n <= m
    BY <1>2, Least
  <1>4. n \in 1 .. MaxFrame + 1 - s
    <2>1. n \in Nat /\ n >= 1
      OBVIOUS
    <2>2. n <= MaxFrame + 1 - s
      BY <1>2, <1>3
    <2>3. QED
      BY <1>1, <2>1, <2>2
  <1>5. ASSUME NEW k \in s .. s + n - 1
        PROVE  memory[k] = memory[s]
    <2>1. CASE k = s
      BY <2>1
    <2>2. CASE k # s
      <3>1. k - s \in Nat /\ k - s >= 1 /\ k - s < n /\ s + (k - s) = k
            /\ s + (k - s) # MaxFrame + 1
        BY <1>1, <1>4, <2>2
      <3>2. k - s \notin T
        BY <1>3, <1>4, <3>1
      <3>3. QED
        BY <3>1, <3>2
    <2>3. QED
      BY <2>1, <2>2
  <1>6. s + n = MaxFrame + 1 \/ memory[s + n] # memory[s]
    OBVIOUS
  <1> DEFINE Reaches(m) == /\ \A k \in s .. s + m - 1 : memory[k] = memory[s]
                           /\ s + m = MaxFrame + 1 \/ memory[s + m] # memory[s]
  <1>7. \E m \in 1 .. MaxFrame + 1 - s : Reaches(m)
    BY <1>4, <1>5, <1>6
  <1>8. RunLength(s) = CHOOSE m \in 1 .. MaxFrame + 1 - s : Reaches(m)
    BY DEF RunLength
  <1> HIDE DEF Reaches
  <1>9. RunLength(s) \in 1 .. MaxFrame + 1 - s /\ Reaches(RunLength(s))
    BY <1>7, <1>8
  <1>10. QED
    BY <1>9 DEF Reaches

(* Every frame that is memory lies in the run that begins at some frame.   *)
LEMMA RunFound ==
    ASSUME MemoryOK, NEW f \in Frame, memory[f] # Hole
    PROVE  \E s \in RunStarts : s <= f /\ f < s + RunLength(s) /\ memory[s] = memory[f]
  <1> DEFINE T == {s \in Nat : s <= f /\ \A k \in s .. f : memory[k] = memory[f]}
  <1>1. f \in Nat /\ MaxFrame \in Nat /\ f <= MaxFrame
    BY MaxFrameAssumption DEF Frame
  <1>2. f \in T
    BY <1>1
  <1>3. PICK s \in T : \A k \in T : s <= k
    BY <1>2, Least
  <1>4. s \in Nat /\ s <= f /\ s \in Frame /\ memory[s] = memory[f]
    BY <1>1 DEF Frame
  <1>5. ASSUME s # 0 PROVE memory[s - 1] # memory[s]
    <2>1. SUFFICES ASSUME memory[s - 1] = memory[s] PROVE FALSE
      OBVIOUS
    <2>2. \A k \in s - 1 .. f : memory[k] = memory[f]
      BY <1>1, <1>4, <2>1
    <2>3. s - 1 \in T
      BY <1>1, <1>4, <1>5, <2>2
    <2>4. QED
      BY <1>3, <1>4, <2>3
  <1>6. s \in RunStarts
    BY <1>4, <1>5 DEF RunStarts
  <1>7. /\ RunLength(s) \in 1 .. MaxFrame + 1 - s
        /\ s + RunLength(s) = MaxFrame + 1 \/ memory[s + RunLength(s)] # memory[s]
    BY <1>4, RunReaches
  <1>8. f < s + RunLength(s)
    <2>1. SUFFICES ASSUME s + RunLength(s) <= f PROVE FALSE
      BY <1>1, <1>4, <1>7
    <2>2. s + RunLength(s) \in s .. f
      BY <1>1, <1>4, <1>7, <2>1
    <2>3. memory[s + RunLength(s)] = memory[f]
      BY <2>2
    <2>4. QED
      BY <1>1, <1>4, <1>7, <2>1, <2>3
  <1>9. QED
    BY <1>4, <1>6, <1>8

(* What GetMemoryMap writes: one descriptor for every run, with its place, *)
(* its length and its type.                                                *)
LEMMA FramesOfPages ==
    ASSUME NEW n \in Nat
    PROVE  (n * PageSize) \div PageSize = n /\ n * PageSize \in Nat
  BY PageSizeAssumption

LEMMA StartsCounted ==
    /\ MaxFrame \in Nat /\ RunStarts \in SUBSET (0 .. MaxFrame)
    /\ IsFiniteSet(RunStarts) /\ Cardinality(RunStarts) \in Nat
  <1>1. MaxFrame \in Nat /\ RunStarts \in SUBSET (0 .. MaxFrame)
    BY MaxFrameAssumption DEF RunStarts, Frame
  <1>2. QED
    BY <1>1, UpTo

DescribesRun(d, s) ==
    d = [Type |-> memory[s], PhysicalStart |-> s * PageSize, NumberOfPages |-> RunLength(s)]

LEMMA MapEntries ==
    ASSUME MemoryOK
    PROVE  /\ MemoryMap \in Seq(Descriptor)
           /\ Len(MemoryMap) = Cardinality(RunStarts)
           /\ \A n \in 1 .. Len(MemoryMap) : \E s \in RunStarts : DescribesRun(MemoryMap[n], s)
           /\ \A s \in RunStarts : \E n \in 1 .. Len(MemoryMap) : DescribesRun(MemoryMap[n], s)
  <1> DEFINE N == Cardinality(RunStarts)
             StartAt(n) == CHOOSE f \in RunStarts : Cardinality(RunStarts \cap 0 .. f) = n
             Entry0(s) == [Type |-> memory[s], PhysicalStart |-> s * PageSize,
                           NumberOfPages |-> RunLength(s)]
  <1>1. /\ MaxFrame \in Nat /\ RunStarts \in SUBSET (0 .. MaxFrame)
        /\ N \in Nat
    BY StartsCounted
  <1>2. MemoryMap = [n \in 1 .. N |-> Entry0(StartAt(n))]
    BY DEF MemoryMap
  <1>3. ASSUME NEW n \in 1 .. N
        PROVE  StartAt(n) \in RunStarts /\ Cardinality(RunStarts \cap 0 .. StartAt(n)) = n
    <2>1. \E f \in RunStarts : Cardinality(RunStarts \cap 0 .. f) = n
      BY <1>1, Nth
    <2>2. QED
      BY <2>1
  <1>4. ASSUME NEW s \in RunStarts
        PROVE  Entry0(s) \in Descriptor
    <2>1. s \in Frame /\ s \in Nat /\ memory[s] # Hole
      BY <1>1 DEF RunStarts, Frame
    <2>2. memory[s] \in EfiTypes
      BY <2>1 DEF MemoryOK
    <2>3. RunLength(s) \in Nat
      BY <1>1, <2>1, RunReaches
    <2>4. s * PageSize \in Nat
      BY <2>1, FramesOfPages
    <2>5. QED
      BY <2>2, <2>3, <2>4 DEF Descriptor
  <1>5. ASSUME NEW s \in RunStarts
        PROVE  \E n \in 1 .. N : StartAt(n) = s
    <2>1. /\ Cardinality(RunStarts \cap 0 .. s) \in 1 .. N
          /\ \A g \in RunStarts :
                 Cardinality(RunStarts \cap 0 .. g) = Cardinality(RunStarts \cap 0 .. s) => g = s
      BY <1>1, Rank
    <2>2. QED
      BY <1>3, <2>1
  <1> HIDE DEF Entry0, StartAt, N
  <1>6. MemoryMap \in Seq(Descriptor) /\ Len(MemoryMap) = N
        /\ \A n \in 1 .. N : MemoryMap[n] = Entry0(StartAt(n))
    <2>1. \A n \in 1 .. N : Entry0(StartAt(n)) \in Descriptor
      BY <1>3, <1>4
    <2>2. MemoryMap \in [1 .. N -> Descriptor]
      BY <1>2, <2>1
    <2>3. MemoryMap \in Seq(Descriptor) /\ Len(MemoryMap) = N
      BY <1>1, <2>2
    <2>4. \A n \in 1 .. N : MemoryMap[n] = Entry0(StartAt(n))
      BY <1>2
    <2>5. QED
      BY <2>3, <2>4
  <1>7. \A s \in RunStarts : \E n \in 1 .. N : MemoryMap[n] = Entry0(s)
    BY <1>5, <1>6
  <1>8. QED
    BY <1>3, <1>6, <1>7 DEF Entry0, N, DescribesRun

(* The descriptors tell of every frame whether it is memory, and of which  *)
(* kind.                                                                   *)
KindOf(f) == IF memory[f] = EfiConventionalMemory THEN "PhysFree" ELSE "PhysReserved"

LEMMA MapTells ==
    ASSUME MemoryOK, NEW f \in Frame, NEW t
    PROVE  (\E n \in 1 .. Len(MemoryMap) : Holds(MemoryMap[n], f, t))
              <=> memory[f] # Hole /\ t = KindOf(f)
  <1>1. ASSUME NEW d, NEW s \in RunStarts, DescribesRun(d, s)
        PROVE  /\ Holds(d, f, t) <=> t = KindOf(s) /\ s <= f /\ f < s + RunLength(s)
               /\ memory[s] # Hole
               /\ s <= f /\ f < s + RunLength(s) => memory[f] = memory[s]
    <2>1. s \in Frame /\ s \in Nat /\ f \in Nat /\ memory[s] # Hole
      BY MaxFrameAssumption DEF RunStarts, Frame
    <2>2. d.Type = memory[s] /\ d.PhysicalStart = s * PageSize /\ d.NumberOfPages = RunLength(s)
      BY <1>1 DEF DescribesRun
    <2>3. FirstFrame(d) = s /\ EndFrame(d) = s + RunLength(s) /\ PhysType(d) = KindOf(s)
      BY <2>1, <2>2, FramesOfPages DEF FirstFrame, EndFrame, PhysType, KindOf
    <2>4. RunLength(s) \in Nat /\ \A k \in s .. s + RunLength(s) - 1 : memory[k] = memory[s]
      <3>1. RunLength(s) \in 1 .. MaxFrame + 1 - s
            /\ \A k \in s .. s + RunLength(s) - 1 : memory[k] = memory[s]
        BY <2>1, RunReaches
      <3>2. QED
        BY <2>1, <3>1, MaxFrameAssumption
    <2>5. s <= f /\ f < s + RunLength(s) => memory[f] = memory[s]
      BY <2>1, <2>4
    <2>6. QED
      BY <2>1, <2>3, <2>5 DEF Holds
  <1>2. ASSUME NEW n \in 1 .. Len(MemoryMap), Holds(MemoryMap[n], f, t)
        PROVE  memory[f] # Hole /\ t = KindOf(f)
    <2>1. PICK s \in RunStarts : DescribesRun(MemoryMap[n], s)
      BY MapEntries
    <2>2. QED
      BY <1>1, <1>2, <2>1 DEF KindOf
  <1>3. ASSUME memory[f] # Hole, t = KindOf(f)
        PROVE  \E n \in 1 .. Len(MemoryMap) : Holds(MemoryMap[n], f, t)
    <2>1. PICK s \in RunStarts : s <= f /\ f < s + RunLength(s) /\ memory[s] = memory[f]
      BY <1>3, RunFound
    <2>2. PICK n \in 1 .. Len(MemoryMap) : DescribesRun(MemoryMap[n], s)
      BY MapEntries
    <2>3. QED
      BY <1>1, <1>3, <2>1, <2>2 DEF KindOf
  <1>4. QED
    BY <1>2, <1>3

(* The merging loop has not begun before the map is there.                 *)
NotBegun ==
    pc # "merge" =>
        /\ i = 0 /\ start = 0 /\ cursor = 0
        /\ physmemmap = <<>> /\ phase = "building"

HandoffTypeInv == HandoffTypeOK /\ NotBegun

LEMMA SizesTyped ==
    ASSUME HandoffTypeOK
    PROVE  /\ entry_size \in Nat /\ DescriptorSize \in Nat /\ DescriptorSize > 0
           /\ entry_size >= DescriptorSize /\ MapSize \in Nat
           /\ Cardinality(RunStarts) \in Nat
  <1>1. entry_size \in Nat /\ DescriptorSize \in Nat /\ DescriptorSize > 0
        /\ entry_size >= DescriptorSize
    BY SizesAssumption DEF HandoffTypeOK
  <1>2. Cardinality(RunStarts) \in Nat
    BY StartsCounted
  <1>3. QED
    BY <1>1, <1>2 DEF MapSize

LEMMA HandoffTypeStep == HandoffTypeInv /\ [HandoffNext]_allVars => HandoffTypeInv'
  <1> SUFFICES ASSUME HandoffTypeInv, [HandoffNext]_allVars PROVE HandoffTypeInv'
    OBVIOUS
  <1> USE DEF HandoffTypeInv
  <1>1. TypeOK /\ MemoryOK
    BY DEF HandoffTypeOK, MemoryOK
  <1>2. UNCHANGED vars => TypeOK'
    BY <1>1, TypeStep
  <1>3. CASE QuerySize
    <2>1. memmap_size' \in Nat
      BY <1>3, SizesTyped DEF QuerySize
    <2>2. QED
      BY <1>2, <1>3, <2>1 DEF QuerySize, HandoffTypeOK, NotBegun, firmware, vars
  <1>4. CASE Allocate
    <2>1. address' \in Frame /\ memory' \in [Frame -> EfiTypes \cup {Hole}]
      BY <1>1, <1>4, HandoffTypesAssumption DEF Allocate, MemoryOK
    <2>2. key' \in Nat /\ mapkey' \in 0 .. key'
      BY <1>4 DEF Allocate, HandoffTypeOK
    <2>3. QED
      BY <1>2, <1>4, <2>1, <2>2 DEF Allocate, HandoffTypeOK, NotBegun, vars
  <1>5. CASE Fetch
    <2>1. memmap_size' \in Nat
      BY <1>5, SizesTyped DEF Fetch
    <2>2. TypeOK'
      <3>1. entries' \in Seq(Descriptor)
        BY <1>1, <1>5, MapEntries DEF Fetch
      <3>2. i' = 0
        BY <1>5 DEF Fetch, NotBegun
      <3>3. QED
        BY <1>1, <1>5, <3>1, <3>2 DEF Fetch, TypeOK
    <2>3. mapkey' \in 0 .. key'
      BY <1>5 DEF Fetch, HandoffTypeOK, firmware
    <2>4. QED
      BY <1>5, <2>1, <2>2, <2>3 DEF Fetch, HandoffTypeOK, NotBegun, firmware
  <1>6. CASE FetchTooSmall
    BY <1>2, <1>6 DEF FetchTooSmall, HandoffTypeOK, NotBegun, firmware, vars
  <1>7. CASE CallFails
    BY <1>2, <1>7 DEF CallFails, HandoffTypeOK, NotBegun, firmware, vars
  <1>8. CASE Merge
    <2>1. TypeOK'
      BY <1>1, <1>8, TypeStep DEF Merge
    <2>2. QED
      BY <1>8, <2>1 DEF Merge, HandoffTypeOK, NotBegun, handoff, firmware
  <1>9. CASE FirmwareEvent
    <2>1. memory' \in [Frame -> EfiTypes \cup {Hole}]
      BY <1>1, <1>9, TypesAssumption, HandoffTypesAssumption DEF FirmwareEvent, MemoryOK
    <2>2. key' \in Nat /\ mapkey' \in 0 .. key' /\ events' \in 0 .. MaxEvents
      BY <1>9, SizesAssumption DEF FirmwareEvent, HandoffTypeOK
    <2>3. QED
      BY <1>2, <1>9, <2>1, <2>2 DEF FirmwareEvent, HandoffTypeOK, NotBegun, vars
  <1>10. CASE UNCHANGED allVars
    BY <1>2, <1>10 DEF allVars, HandoffTypeOK, NotBegun, handoff, firmware, vars
  <1>11. QED
    BY <1>3, <1>4, <1>5, <1>6, <1>7, <1>8, <1>9, <1>10 DEF HandoffNext, HandoffStep

LEMMA HandoffTypeInit == HandoffInit => HandoffTypeInv
  <1> SUFFICES ASSUME HandoffInit PROVE HandoffTypeInv
    OBVIOUS
  <1>1. TypeOK /\ NotBegun
    BY MapsAssumption DEF HandoffInit, Init, TypeOK, NotBegun, PhysMemoryType, Entry
  <1>2. 0 \in Frame /\ MaxEvents \in Nat
    BY MaxFrameAssumption, SizesAssumption DEF Frame
  <1>3. QED
    BY <1>1, <1>2, MemoriesAssumption DEF HandoffInit, HandoffTypeInv, HandoffTypeOK

(* The variables of the hand-off and of the loop it ends in keep their     *)
(* types (main.c:971-1033).                                                *)
THEOREM HandoffTypeCorrect == HandoffSpec => []HandoffTypeOK
  <1>1. HandoffTypeInv => HandoffTypeOK
    BY DEF HandoffTypeInv
  <1>2. QED
    BY <1>1, HandoffTypeInit, HandoffTypeStep, PTL DEF HandoffSpec

(* What is known of the loop at every step of the hand-off.                *)
LoopInv == CoverageInv /\ DoneInv

LEMMA LoopStep == HandoffTypeInv /\ LoopInv /\ [HandoffNext]_allVars => LoopInv'
  <1> SUFFICES ASSUME HandoffTypeInv, LoopInv, [HandoffNext]_allVars PROVE LoopInv'
    OBVIOUS
  <1>1. TypeOK
    BY DEF HandoffTypeInv, HandoffTypeOK
  <1>2. CASE [Next]_vars
    BY <1>1, <1>2, CoverageStep, DoneStep DEF LoopInv
  <1>3. CASE Fetch
    <2>1. /\ i' = 0 /\ start' = 0 /\ cursor' = 0 /\ physmemmap' = <<>>
          /\ phase' = "building"
      BY <1>3 DEF Fetch, HandoffTypeInv, NotBegun
    <2>2. QED
      BY <2>1 DEF LoopInv, CoverageInv, DoneInv, InMap, InRun, Described
  <1>4. CASE ~Fetch
    <2>1. [Next]_vars
      BY <1>4 DEF HandoffNext, HandoffStep, QuerySize, Allocate, FetchTooSmall,
                  CallFails, Merge, FirmwareEvent, allVars
    <2>2. QED
      BY <1>2, <2>1
  <1>5. QED
    BY <1>3, <1>4

LEMMA LoopInit == HandoffInit => LoopInv
  BY DEF HandoffInit, Init, LoopInv, CoverageInv, DoneInv, InMap, InRun, Described

(* The bytes of a map that fits the buffer lie on the buffer's pages.      *)
LEMMA PagesEnough ==
    ASSUME NEW a \in Nat, NEW n \in Nat, NEW f \in Nat,
           (f + 1) * PageSize > a * PageSize, f * PageSize < a * PageSize + n
    PROVE  f \in Block(a, Pages(n))
  <1>1. PageSize \in Nat /\ PageSize > 0
    BY PageSizeAssumption
  <1>2. f >= a
    <2>1. SUFFICES ASSUME f + 1 <= a PROVE FALSE
      OBVIOUS
    <2>2. (a - (f + 1)) * PageSize >= 0
      BY <1>1, <2>1
    <2>3. (a - (f + 1)) * PageSize = a * PageSize - (f + 1) * PageSize
      BY <1>1
    <2>4. a * PageSize \in Nat /\ (f + 1) * PageSize \in Nat
      BY <1>1
    <2>5. QED
      BY <2>2, <2>3, <2>4
  <1>3. Pages(n) \in Nat /\ n <= Pages(n) * PageSize
    <2>1. n + PageSize - 1 \in Nat
      BY <1>1
    <2>2. /\ Pages(n) \in Nat
          /\ (n + PageSize - 1) = PageSize * Pages(n) + ((n + PageSize - 1) % PageSize)
          /\ (n + PageSize - 1) % PageSize \in 0 .. PageSize - 1
      BY <1>1, <2>1 DEF Pages
    <2>3. PageSize * Pages(n) = Pages(n) * PageSize /\ Pages(n) * PageSize \in Nat
      BY <1>1, <2>2
    <2>4. QED
      BY <1>1, <2>2, <2>3
  <1>4. f < a + Pages(n)
    <2>1. SUFFICES ASSUME f >= a + Pages(n) PROVE FALSE
      BY <1>3
    <2>2. (f - (a + Pages(n))) * PageSize >= 0
      BY <1>1, <1>3, <2>1
    <2>3. (f - (a + Pages(n))) * PageSize = f * PageSize - (a * PageSize + Pages(n) * PageSize)
      BY <1>1, <1>3
    <2>4. /\ f * PageSize \in Nat /\ a * PageSize \in Nat /\ Pages(n) * PageSize \in Nat
      BY <1>1, <1>3
    <2>5. QED
      BY <1>3, <2>2, <2>3, <2>4
  <1>5. QED
    BY <1>2, <1>3, <1>4 DEF Block

(* What the loader owns stays the loader's: the frames it had before, and  *)
(* those of the map; the fetched map describes none of them as free.       *)
OwnedInv ==
    /\ \A f \in loaded : memory[f] = EfiLoaderData
    /\ pc \in {"fetch", "merge"} => \A f \in Buffer : memory[f] = EfiLoaderData
    /\ pc = "merge" => \A f \in loaded \cup Buffer : ~Described(f, "PhysFree", Len(entries))

LEMMA FetchDescribes ==
    ASSUME MemoryOK, Fetch, NEW f \in Frame
    PROVE  Described(f, "PhysFree", Len(entries))' <=> memory[f] = EfiConventionalMemory
  <1>1. Described(f, "PhysFree", Len(entries))'
            <=> \E n \in 1 .. Len(MemoryMap) : Holds(MemoryMap[n], f, "PhysFree")
    BY DEF Fetch, Described, Holds
  <1>2. (\E n \in 1 .. Len(MemoryMap) : Holds(MemoryMap[n], f, "PhysFree"))
            <=> memory[f] # Hole /\ "PhysFree" = KindOf(f)
    BY MapTells
  <1>3. QED
    BY <1>1, <1>2, HandoffTypesAssumption, TypesAssumption DEF KindOf

LEMMA OwnedStep == HandoffTypeInv /\ OwnedInv /\ [HandoffNext]_allVars => OwnedInv'
  <1> SUFFICES ASSUME HandoffTypeInv, OwnedInv, [HandoffNext]_allVars PROVE OwnedInv'
    OBVIOUS
  <1>1. /\ MemoryOK /\ loaded \subseteq Frame /\ memmap_size \in Nat /\ address \in Frame
        /\ Frame \subseteq Nat
    BY MaxFrameAssumption DEF HandoffTypeInv, HandoffTypeOK, MemoryOK, Frame
  <1>2. CASE QuerySize
    BY <1>2 DEF QuerySize, OwnedInv, firmware
  <1>3. CASE Allocate
    <2>1. PICK f \in Frame :
            /\ FitsAt(f, Pages(memmap_size)) /\ address' = f
            /\ memory' = [k \in Frame |-> IF k \in Block(f, Pages(memmap_size))
                                          THEN EfiLoaderData ELSE memory[k]]
      BY <1>3 DEF Allocate
    <2>2. \A k \in loaded' : memory'[k] = EfiLoaderData
      BY <1>1, <1>3, <2>1 DEF Allocate, OwnedInv
    <2>3. ASSUME NEW k \in Buffer' PROVE memory'[k] = EfiLoaderData
      <3>1. k \in Frame /\ k \in Nat /\ f \in Nat /\ memmap_size' = memmap_size
        BY <1>1, <1>3 DEF Buffer, Allocate
      <3>2. (k + 1) * PageSize > f * PageSize /\ k * PageSize < f * PageSize + memmap_size
        BY <2>1, <3>1 DEF Buffer
      <3>3. k \in Block(f, Pages(memmap_size))
        BY <1>1, <3>1, <3>2, PagesEnough
      <3>4. QED
        BY <2>1, <3>1, <3>3
    <2>4. pc' = "fetch"
      BY <1>3 DEF Allocate
    <2>5. QED
      BY <2>2, <2>3, <2>4 DEF OwnedInv
  <1>4. CASE Fetch
    <2>1. Buffer' \subseteq Buffer
      <3>1. memmap_size' \in Nat /\ memmap_size' <= memmap_size /\ address' = address
        BY <1>4, SizesTyped DEF Fetch, HandoffTypeInv
      <3>2. ASSUME NEW f \in Buffer' PROVE f \in Buffer
        <4>1. /\ f \in Frame /\ (f + 1) * PageSize > address * PageSize
              /\ f * PageSize < address * PageSize + memmap_size'
          BY <3>1 DEF Buffer
        <4>2. f * PageSize \in Nat /\ address * PageSize \in Nat
          BY <1>1, <4>1, FramesOfPages
        <4>3. QED
          BY <1>1, <3>1, <4>1, <4>2 DEF Buffer
      <3>3. QED
        BY <3>2
    <2>2. memory' = memory /\ loaded' = loaded
      BY <1>4 DEF Fetch, firmware
    <2>3. \A f \in (loaded \cup Buffer)' : f \in Frame /\ memory[f] = EfiLoaderData
      BY <1>1, <1>4, <2>1, <2>2 DEF OwnedInv, Fetch, Buffer
    <2>4. EfiLoaderData # EfiConventionalMemory
      BY HandoffTypesAssumption
    <2>5. \A f \in (loaded \cup Buffer)' : ~Described(f, "PhysFree", Len(entries))'
      BY <1>1, <1>4, <2>3, <2>4, FetchDescribes
    <2>6. QED
      BY <2>2, <2>3, <2>5 DEF OwnedInv
  <1>5. CASE FetchTooSmall
    BY <1>5 DEF FetchTooSmall, OwnedInv, firmware
  <1>6. CASE CallFails
    BY <1>6 DEF CallFails, OwnedInv, firmware
  <1>7. CASE Merge
    <2>1. entries' = entries
      BY <1>7 DEF Merge, Next, Extend, CloseRun, Finish
    <2>2. QED
      BY <1>7, <2>1 DEF Merge, OwnedInv, handoff, firmware, Buffer, Described
  <1>8. CASE FirmwareEvent
    <2>1. \A f \in Frame : memory[f] = EfiLoaderData => memory'[f] = EfiLoaderData
      BY <1>1, <1>8, HandoffTypesAssumption DEF FirmwareEvent, MemoryOK
    <2>2. Buffer' = Buffer /\ Buffer \subseteq Frame
      BY <1>8 DEF FirmwareEvent, Buffer
    <2>3. QED
      BY <1>1, <1>8, <2>1, <2>2 DEF FirmwareEvent, OwnedInv, Described, vars
  <1>9. CASE UNCHANGED allVars
    BY <1>9 DEF allVars, vars, handoff, firmware, OwnedInv, Buffer, Described
  <1>10. QED
    BY <1>2, <1>3, <1>4, <1>5, <1>6, <1>7, <1>8, <1>9 DEF HandoffNext, HandoffStep

(* No frame in use is given away (main.c:980-1033): the frames the loader  *)
(* allocated before and those the map lies on are never reported free.     *)
THEOREM InUseKept == HandoffSpec => []OwnFramesReserved
  <1>1. HandoffInit => OwnedInv
    BY DEF HandoffInit, OwnedInv
  <1>2. HandoffTypeInv /\ LoopInv /\ OwnedInv => OwnFramesReserved
    <2> SUFFICES ASSUME HandoffTypeInv, LoopInv, OwnedInv, pc = "merge",
                        NEW f \in loaded \cup Buffer
                 PROVE  ~InMap(f, "PhysFree") /\ ~InRun(f, "PhysFree")
      BY DEF OwnFramesReserved
    <2>1. f \in Nat /\ i \in 0 .. Len(entries) /\ entries \in Seq(Descriptor)
      BY MaxFrameAssumption DEF HandoffTypeInv, HandoffTypeOK, TypeOK, Frame, Buffer
    <2>2. ~Described(f, "PhysFree", Len(entries))
      BY DEF OwnedInv
    <2>3. ~Described(f, "PhysFree", i)
      BY <2>1, <2>2 DEF Described
    <2>4. QED
      BY <2>1, <2>3 DEF LoopInv, CoverageInv, PhysMemoryType
  <1>3. QED
    BY <1>1, <1>2, HandoffTypeInit, HandoffTypeStep, LoopInit, LoopStep, OwnedStep, PTL
       DEF HandoffSpec

(* As long as the key is the firmware's, the fetched map is true.          *)
FreshInv ==
    pc = "merge" /\ mapkey = key =>
        \A f \in Frame :
            Described(f, "PhysFree", Len(entries)) <=> memory[f] = EfiConventionalMemory

LEMMA FreshStep == HandoffTypeInv /\ FreshInv /\ [HandoffNext]_allVars => FreshInv'
  <1> SUFFICES ASSUME HandoffTypeInv, FreshInv, [HandoffNext]_allVars PROVE FreshInv'
    OBVIOUS
  <1>1. MemoryOK
    BY DEF HandoffTypeInv, HandoffTypeOK, MemoryOK
  <1>2. CASE QuerySize \/ Allocate \/ FetchTooSmall \/ CallFails
    BY <1>2 DEF QuerySize, Allocate, FetchTooSmall, CallFails, FreshInv
  <1>3. CASE Fetch
    BY <1>1, <1>3, FetchDescribes DEF Fetch, FreshInv, firmware
  <1>4. CASE Merge
    <2>1. entries' = entries
      BY <1>4 DEF Merge, Next, Extend, CloseRun, Finish
    <2>2. QED
      BY <1>4, <2>1 DEF Merge, FreshInv, handoff, firmware, Described
  <1>5. CASE FirmwareEvent
    <2>1. key' = key + 1 /\ mapkey' = mapkey /\ key \in Nat /\ mapkey \in 0 .. key
      BY <1>5 DEF FirmwareEvent, HandoffTypeInv, HandoffTypeOK
    <2>2. mapkey' # key'
      BY <2>1
    <2>3. QED
      BY <2>2 DEF FreshInv
  <1>6. CASE UNCHANGED allVars
    BY <1>6 DEF allVars, vars, handoff, firmware, FreshInv, Described
  <1>7. QED
    BY <1>2, <1>3, <1>4, <1>5, <1>6 DEF HandoffNext, HandoffStep

(* The key tells whether the map is still true (main.c:984-1041): a        *)
(* finished map whose key is current reports exactly the free frames free. *)
THEOREM KeyTells == HandoffSpec => []FreshMapExact
  <1>1. HandoffInit => FreshInv
    BY DEF HandoffInit, FreshInv
  <1>2. LoopInv /\ FreshInv => FreshMapExact
    BY MaxFrameAssumption DEF LoopInv, CoverageInv, DoneInv, FreshInv, FreshMapExact,
                              PhysMemoryType, Frame
  <1>3. QED
    BY <1>1, <1>2, HandoffTypeInit, HandoffTypeStep, LoopInit, LoopStep, FreshStep, PTL
       DEF HandoffSpec

(* Cutting the buffer out of free memory begins a run at each of its ends  *)
(* that has a free neighbour, and no other.                                *)
LEMMA NewStarts ==
    ASSUME MemoryOK, NEW f \in Frame, NEW n \in Nat \ {0}, FitsAt(f, n),
           NEW m, m = [k \in Frame |-> IF k \in Block(f, n) THEN EfiLoaderData ELSE memory[k]],
           NEW k \in Frame, m[k] # Hole, k = 0 \/ m[k - 1] # m[k]
    PROVE  \/ k \in RunStarts
           \/ k = f /\ f - 1 \in Frame /\ m[f - 1] = EfiConventionalMemory
           \/ k = f + n /\ f + n \in Frame /\ m[f + n] = EfiConventionalMemory
  <1>1. /\ f \in Nat /\ k \in Nat /\ f <= MaxFrame /\ k <= MaxFrame /\ MaxFrame \in Nat
        /\ n \in Nat /\ n >= 1
    BY MaxFrameAssumption DEF Frame
  <1>2. \A g \in Frame : m[g] = IF g >= f /\ g < f + n THEN EfiLoaderData ELSE memory[g]
    BY <1>1, MaxFrameAssumption DEF Block, Frame
  <1>3. \A g \in Frame : g >= f /\ g < f + n => memory[g] = EfiConventionalMemory
    BY <1>1, MaxFrameAssumption DEF FitsAt, Block, Frame
  <1>4. EfiConventionalMemory # Hole /\ EfiLoaderData # Hole
        /\ EfiLoaderData # EfiConventionalMemory
    BY HandoffTypesAssumption, TypesAssumption
  <1>5. k # 0 => k - 1 \in Frame
    BY <1>1 DEF Frame
  <1>6. CASE k < f \/ k > f + n
    <2>1. m[k] = memory[k] /\ (k # 0 => m[k - 1] = memory[k - 1])
      BY <1>1, <1>2, <1>5, <1>6
    <2>2. QED
      BY <2>1 DEF RunStarts
  <1>7. CASE k = f
    <2>1. m[k] = EfiLoaderData /\ memory[k] = EfiConventionalMemory
      BY <1>1, <1>2, <1>3, <1>7
    <2>2. k # 0 => m[k - 1] = memory[k - 1]
      BY <1>1, <1>2, <1>5, <1>7
    <2>3. QED
      BY <1>4, <1>5, <1>7, <2>1, <2>2 DEF RunStarts
  <1>8. CASE k > f /\ k < f + n
    <2>1. m[k] = EfiLoaderData /\ m[k - 1] = EfiLoaderData /\ k # 0
      BY <1>1, <1>2, <1>5, <1>8
    <2>2. QED
      BY <2>1
  <1>9. CASE k = f + n
    <2>1. m[k] = memory[k] /\ m[k - 1] = EfiLoaderData /\ memory[k - 1] = EfiConventionalMemory
          /\ k # 0
      BY <1>1, <1>2, <1>3, <1>5, <1>9
    <2>2. QED
      BY <1>9, <2>1 DEF RunStarts
  <1>10. QED
    BY <1>1, <1>6, <1>7, <1>8, <1>9

(* T has at most one more member than S for each of x and y that is in G.  *)
OneForEach(T, S, G, a, b, x, y) ==
    \A k \in T : k \in S \/ (k = a /\ x \in G) \/ (k = b /\ y \in G)

LEMMA OneEach ==
    ASSUME NEW S, IsFiniteSet(S), NEW T, NEW a, NEW b, NEW x, NEW y, x # y,
           NEW G \in SUBSET {x, y}, OneForEach(T, S, G, a, b, x, y)
    PROVE  Cardinality(T) <= Cardinality(S) + Cardinality(G)
  <1>1. ASSUME NEW A, IsFiniteSet(A), T \subseteq A
        PROVE  Cardinality(T) <= Cardinality(A) /\ Cardinality(A) \in Nat /\ Cardinality(T) \in Nat
    BY <1>1, FS_Subset, FS_CardinalityType
  <1>2. ASSUME NEW A, IsFiniteSet(A), NEW z
        PROVE  IsFiniteSet(A \cup {z}) /\ Cardinality(A \cup {z}) <= Cardinality(A) + 1
    <2>1. Cardinality(A) \in Nat
      BY <1>2, FS_CardinalityType
    <2>2. /\ IsFiniteSet(A \cup {z})
          /\ Cardinality(A \cup {z}) = IF z \in A THEN Cardinality(A) ELSE Cardinality(A) + 1
      BY <1>2, FS_AddElement
    <2>3. QED
      BY <2>1, <2>2
  <1>3. Cardinality(S) \in Nat
    BY FS_CardinalityType
  <1>4. CASE x \in G /\ y \in G
    <2>1. Cardinality({x} \cup {y}) = 2
      <3>1. IsFiniteSet({x}) /\ Cardinality({x}) = 1 /\ y \notin {x}
        BY FS_Singleton
      <3>2. Cardinality({x} \cup {y}) = Cardinality({x}) + 1
        BY <3>1, FS_AddElement
      <3>3. QED
        BY <3>1, <3>2
    <2>2. G = {x} \cup {y}
      BY <1>4
    <2> DEFINE A == S \cup {a}
               B == A \cup {b}
    <2>3. T \subseteq B
      BY DEF OneForEach
    <2>4. IsFiniteSet(A) /\ Cardinality(A) <= Cardinality(S) + 1
      BY <1>2
    <2> HIDE DEF A
    <2>5. IsFiniteSet(B) /\ Cardinality(B) <= Cardinality(A) + 1
      BY <1>2, <2>4
    <2> HIDE DEF B
    <2>6. Cardinality(T) <= Cardinality(B) /\ Cardinality(B) \in Nat /\ Cardinality(T) \in Nat
      BY <1>1, <2>3, <2>5
    <2>7. Cardinality(A) \in Nat
      BY <2>4, FS_CardinalityType
    <2>8. QED
      BY <1>3, <2>1, <2>2, <2>4, <2>5, <2>6, <2>7
  <1>5. ASSUME NEW z \in {a, b}, NEW g, G = {g}, T \subseteq S \cup {z}
        PROVE  Cardinality(T) <= Cardinality(S) + Cardinality(G)
    <2>1. Cardinality(G) = 1
      BY <1>5, FS_Singleton
    <2> DEFINE A == S \cup {z}
    <2>2. IsFiniteSet(A) /\ Cardinality(A) <= Cardinality(S) + 1 /\ T \subseteq A
      BY <1>2, <1>5
    <2> HIDE DEF A
    <2>3. Cardinality(T) <= Cardinality(A) /\ Cardinality(A) \in Nat /\ Cardinality(T) \in Nat
      BY <1>1, <2>2
    <2>4. QED
      BY <1>3, <2>1, <2>2, <2>3
  <1>6. CASE x \in G /\ y \notin G
    <2>1. G = {x} /\ T \subseteq S \cup {a}
      BY <1>6 DEF OneForEach
    <2>2. QED
      BY <1>5, <2>1
  <1>7. CASE x \notin G /\ y \in G
    <2>1. G = {y} /\ T \subseteq S \cup {b}
      BY <1>7 DEF OneForEach
    <2>2. QED
      BY <1>5, <2>1
  <1>8. CASE x \notin G /\ y \notin G
    <2>1. G = {} /\ T \subseteq S
      BY <1>8 DEF OneForEach
    <2>2. Cardinality(G) = 0
      BY <2>1, FS_EmptySet
    <2>3. QED
      BY <1>1, <1>3, <2>1, <2>2
  <1>9. QED
    BY <1>4, <1>6, <1>7, <1>8

LEMMA StartsAfterAllocate ==
    ASSUME HandoffTypeInv, Allocate, memmap_size > 0
    PROVE  /\ Cardinality(RunStarts)' <= Cardinality(RunStarts) + Cardinality(FreeNeighbours)'
           /\ Cardinality(RunStarts)' \in Nat /\ Cardinality(FreeNeighbours)' \in Nat
  <1> DEFINE n == Pages(memmap_size)
             S == RunStarts
             T == RunStarts'
             G == FreeNeighbours'
  <1>1. PICK f \in Frame :
          /\ FitsAt(f, n) /\ address' = f
          /\ memory' = [k \in Frame |-> IF k \in Block(f, n) THEN EfiLoaderData ELSE memory[k]]
    BY DEF Allocate
  <1>2. /\ MemoryOK /\ memmap_size \in Nat /\ f \in Nat /\ f \in Int
        /\ memmap_size' = memmap_size
    BY MaxFrameAssumption DEF HandoffTypeInv, HandoffTypeOK, MemoryOK, Frame, Allocate
  <1>3. n \in Nat \ {0}
    <2>1. PageSize \in Nat /\ PageSize > 0
      BY PageSizeAssumption
    <2>2. memmap_size + PageSize - 1 \in Nat /\ memmap_size + PageSize - 1 >= PageSize
      BY <1>2, <2>1
    <2>3. QED
      BY <2>1, <2>2 DEF Pages
  <1>4. OneForEach(T, S, G, f, f + n, f - 1, f + n)
    <2> SUFFICES ASSUME NEW k \in T
                 PROVE  \/ k \in S
                        \/ k = f /\ f - 1 \in G
                        \/ k = f + n /\ f + n \in G
      BY DEF OneForEach
    <2>1. k \in Frame /\ memory'[k] # Hole /\ (k = 0 \/ memory'[k - 1] # memory'[k])
      BY DEF RunStarts
    <2>2. \A g : g \in G <=> /\ g = f - 1 \/ g = f + n
                            /\ g \in Frame /\ memory'[g] = EfiConventionalMemory
      BY <1>1, <1>2 DEF FreeNeighbours, Pages
    <2> HIDE DEF n, G
    <2>3. \/ k \in RunStarts
          \/ k = f /\ f - 1 \in Frame /\ memory'[f - 1] = EfiConventionalMemory
          \/ k = f + n /\ f + n \in Frame /\ memory'[f + n] = EfiConventionalMemory
      BY <1>1, <1>2, <1>3, <2>1, NewStarts
    <2>4. QED
      BY <2>2, <2>3
  <1>5. G \in SUBSET {f - 1, f + n}
    BY <1>1, <1>2 DEF FreeNeighbours, Pages
  <1>6. IsFiniteSet(S) /\ IsFiniteSet(T) /\ Cardinality(T) \in Nat
    <2>1. MaxFrame \in Nat /\ T \in SUBSET (0 .. MaxFrame)
      BY MaxFrameAssumption DEF RunStarts, Frame
    <2>2. QED
      BY <2>1, StartsCounted, UpTo
  <1>7. IsFiniteSet(G) /\ Cardinality(G) \in Nat
    <2>1. IsFiniteSet({f - 1} \cup {f + n})
      BY FS_Singleton, FS_AddElement
    <2>2. G \in SUBSET ({f - 1} \cup {f + n})
      BY <1>5
    <2> HIDE DEF G
    <2>3. IsFiniteSet(G)
      BY <2>1, <2>2, FS_Subset
    <2>4. QED
      BY <2>3, FS_CardinalityType
  <1>8. f - 1 # f + n
    BY <1>2, <1>3
  <1> HIDE DEF n, S, T, G
  <1>9. Cardinality(T) <= Cardinality(S) + Cardinality(G)
    BY <1>4, <1>5, <1>6, <1>8, OneEach
  <1>10. QED
    BY <1>6, <1>7, <1>9 DEF S, T, G

(* The room in the buffer, as long as the firmware changes nothing itself: *)
(* two descriptors are spare when it is allocated, and allocating it adds  *)
(* one entry for each free neighbour.                                      *)
RoomInv ==
    events = 0 =>
        /\ pc = "allocate" => memmap_size = MapSize + DescriptorSize * 2
        /\ pc \in {"fetch", "toosmall"} =>
              MapSize + DescriptorSize * 2
                  <= memmap_size + Cardinality(FreeNeighbours) * entry_size
        /\ pc = "toosmall" => MapSize > memmap_size

LEMMA Scaled ==
    ASSUME NEW a \in Nat, NEW b \in Nat, NEW c \in Nat, NEW e \in Nat, a <= b + c
    PROVE  a * e <= b * e + c * e
  <1>1. ((b + c) - a) * e >= 0
    OBVIOUS
  <1>2. ((b + c) - a) * e = (b * e + c * e) - a * e
    OBVIOUS
  <1>3. a * e \in Nat /\ b * e \in Nat /\ c * e \in Nat
    OBVIOUS
  <1>4. QED
    BY <1>1, <1>2, <1>3

LEMMA RoomStep == HandoffTypeInv /\ RoomInv /\ [HandoffNext]_allVars => RoomInv'
  <1> SUFFICES ASSUME HandoffTypeInv, RoomInv, [HandoffNext]_allVars, events' = 0
               PROVE  RoomInv'
    BY DEF RoomInv
  <1>1. /\ HandoffTypeOK /\ entry_size \in Nat /\ DescriptorSize \in Nat /\ DescriptorSize > 0
        /\ MapSize \in Nat /\ Cardinality(RunStarts) \in Nat
    BY SizesTyped DEF HandoffTypeInv
  <1>2. ASSUME memory' = memory, entry_size' = entry_size
        PROVE  MapSize' = MapSize
    BY <1>2 DEF MapSize, RunStarts
  <1>3. ASSUME memory' = memory, address' = address, memmap_size' = memmap_size
        PROVE  FreeNeighbours' = FreeNeighbours
    BY <1>3 DEF FreeNeighbours
  <1>4. CASE QuerySize
    BY <1>2, <1>4 DEF QuerySize, RoomInv, firmware
  <1>5. CASE Allocate
    <2>1. /\ events = 0 /\ pc = "allocate" /\ pc' = "fetch"
          /\ memmap_size' = memmap_size /\ entry_size' = entry_size
      BY <1>5 DEF Allocate
    <2>2. memmap_size = MapSize + DescriptorSize * 2 /\ memmap_size > 0
      BY <1>1, <2>1 DEF RoomInv
    <2>3. /\ Cardinality(RunStarts)' <= Cardinality(RunStarts) + Cardinality(FreeNeighbours)'
          /\ Cardinality(RunStarts)' \in Nat /\ Cardinality(FreeNeighbours)' \in Nat
      BY <1>5, <2>2, StartsAfterAllocate
    <2> DEFINE c == Cardinality(RunStarts)'
               g == Cardinality(FreeNeighbours)'
    <2>4. c * entry_size <= Cardinality(RunStarts) * entry_size + g * entry_size
      BY <1>1, <2>3, Scaled
    <2>5. MapSize' = c * entry_size /\ MapSize = Cardinality(RunStarts) * entry_size
      BY <2>1 DEF MapSize
    <2>6. c * entry_size \in Nat /\ g * entry_size \in Nat
      BY <1>1, <2>3
    <2> HIDE DEF c, g
    <2>7. MapSize' + DescriptorSize * 2 <= memmap_size' + g * entry_size
      BY <1>1, <2>1, <2>2, <2>4, <2>5, <2>6
    <2>8. MapSize' + DescriptorSize * 2
              <= memmap_size' + Cardinality(FreeNeighbours)' * entry_size'
      BY <2>1, <2>7 DEF g
    <2>9. QED
      BY <2>1, <2>8 DEF RoomInv
  <1>6. CASE Fetch
    BY <1>6 DEF Fetch, RoomInv
  <1>7. CASE FetchTooSmall
    BY <1>2, <1>3, <1>7 DEF FetchTooSmall, RoomInv, firmware
  <1>8. CASE CallFails
    BY <1>8 DEF CallFails, RoomInv
  <1>9. CASE Merge
    BY <1>9 DEF Merge, RoomInv, handoff
  <1>10. CASE FirmwareEvent
    BY <1>1, <1>10 DEF FirmwareEvent, HandoffTypeOK
  <1>11. CASE UNCHANGED allVars
    BY <1>2, <1>3, <1>11 DEF allVars, handoff, firmware, RoomInv
  <1>12. QED
    BY <1>4, <1>5, <1>6, <1>7, <1>8, <1>9, <1>10, <1>11 DEF HandoffNext, HandoffStep

(* What the two spare descriptors are enough for (main.c:977-984): while    *)
(* the firmware changes nothing itself, the buffer is too small only if     *)
(* the entries for its free neighbours take more than the spare room.      *)
THEOREM SpareRoom == HandoffSpec => []SlackSuffices
  <1>1. HandoffInit => RoomInv
    BY DEF HandoffInit, RoomInv
  <1>2. HandoffTypeInv /\ RoomInv => SlackSuffices
    <2> SUFFICES ASSUME HandoffTypeInv, RoomInv, pc = "toosmall", events = 0
                 PROVE  Cardinality(FreeNeighbours) * entry_size > DescriptorSize * 2
      BY DEF SlackSuffices
    <2>1. /\ MapSize \in Nat /\ entry_size \in Nat /\ DescriptorSize \in Nat
          /\ memmap_size \in Nat
      BY SizesTyped DEF HandoffTypeInv, HandoffTypeOK
    <2>2. Cardinality(FreeNeighbours) \in Nat
      <3>1. IsFiniteSet(0 .. MaxFrame)
        BY MaxFrameAssumption, FS_Interval
      <3>2. FreeNeighbours \in SUBSET (0 .. MaxFrame)
        BY DEF FreeNeighbours, Frame
      <3>3. QED
        BY <3>1, <3>2, FS_Subset, FS_CardinalityType
    <2> DEFINE g == Cardinality(FreeNeighbours) * entry_size
    <2>3. g \in Nat
      BY <2>1, <2>2
    <2>4. MapSize + DescriptorSize * 2 <= memmap_size + g /\ MapSize > memmap_size
      BY DEF RoomInv
    <2> HIDE DEF g
    <2>5. g > DescriptorSize * 2
      BY <2>1, <2>3, <2>4
    <2>6. QED
      BY <2>5 DEF g
  <1>3. QED
    BY <1>1, <1>2, HandoffTypeInit, HandoffTypeStep, RoomStep, PTL DEF HandoffSpec
=============================================================================
