----------------------------- MODULE PhysMemMap ----------------------------
(***************************************************************************)
(* The physical memory map of the boot information (main.c:986-1041): the  *)
(* firmware's memory descriptors are walked once and merged into runs of   *)
(* free or reserved frames, in an array of PHYS_MEMMAP_ENTRY_COUNT slots.  *)
(* The run being merged is kept in start, cursor and type; it is written   *)
(* to the array when a descriptor does not continue it.                    *)
(***************************************************************************)
EXTENDS Integers, Sequences, FiniteSets

CONSTANTS
    PageSize,           \* addresses in a frame
    MaxFrame,           \* the last frame a descriptor may name
    MaxEntries,         \* PHYS_MEMMAP_ENTRY_COUNT
    EfiTypes,           \* the firmware's memory types
    EfiConventionalMemory,
    MemoryMaps          \* the memory maps the firmware may return

Frame == 0 .. MaxFrame

Descriptor == [Type : EfiTypes, PhysicalStart : Nat, NumberOfPages : Nat]

ASSUME PageSizeAssumption   == PageSize \in Nat \ {0}
ASSUME MaxFrameAssumption   == MaxFrame \in Nat
ASSUME MaxEntriesAssumption == MaxEntries \in Nat \ {0}
ASSUME TypesAssumption      == EfiConventionalMemory \in EfiTypes
ASSUME MapsAssumption       == \A m \in MemoryMaps : m \in Seq(Descriptor)

VARIABLES
    entries,        \* the firmware's descriptors
    i,              \* descriptors consumed
    start, cursor,  \* the run being merged: its first frame, its end
    type,           \* and its type
    physmemmap,     \* the used part of the array
    phase           \* "building", "done", or "failed": the error return

vars == <<entries, i, start, cursor, type, physmemmap, phase>>

PhysMemoryType == {"PhysFree", "PhysReserved"}

Entry == [start_frame : Nat, frame_count : Int, type : PhysMemoryType]
----------------------------------------------------------------------------
(* What a descriptor says: its first frame, the frame behind it, its kind. *)
FirstFrame(d) == d.PhysicalStart \div PageSize

SizeAsEnd(d) == d.NumberOfPages     \* plausible bug: the start is not added

EndFrame(d) == FirstFrame(d) + d.NumberOfPages

PhysType(d) == IF d.Type = EfiConventionalMemory THEN "PhysFree"
                                                 ELSE "PhysReserved"

HasNext == phase = "building" /\ i < Len(entries)
ptr     == entries[i + 1]

(* Plausible bugs: the place of a descriptor alone decides; its type alone; *)
(* its place is compared with the beginning of the run.                    *)
ContinuesPlace == FirstFrame(ptr) = cursor
ContinuesType  == PhysType(ptr) = type
ContinuesStart == FirstFrame(ptr) = start /\ PhysType(ptr) = type

Continues == FirstFrame(ptr) = cursor /\ PhysType(ptr) = type

Run == [start_frame |-> start, frame_count |-> cursor - start, type |-> type]
----------------------------------------------------------------------------
Init ==
    /\ entries \in MemoryMaps
    /\ i = 0
    /\ start = 0 /\ cursor = 0 /\ type = "PhysReserved"
    /\ physmemmap = <<>>
    /\ phase = "building"

(* Lines 1007-1012: the descriptor continues the run.                      *)
Extend ==
    /\ HasNext /\ Continues
    /\ cursor' = cursor + ptr.NumberOfPages
    /\ i' = i + 1
    /\ UNCHANGED <<entries, start, type, physmemmap, phase>>

(* Lines 1013-1033: it does not; the run is written and a new one begins.  *)
(* The test of lines 1035-1038 sees the array full right after that.       *)
CloseRunUnchecked ==    \* plausible bug: the test comes one entry too late
    /\ HasNext /\ ~Continues
    /\ physmemmap' = Append(physmemmap, Run)
    /\ start' = FirstFrame(ptr) /\ cursor' = EndFrame(ptr)
    /\ type' = PhysType(ptr)
    /\ i' = i + 1
    /\ phase' = IF Len(physmemmap') > MaxEntries THEN "failed" ELSE phase
    /\ UNCHANGED entries

CloseRunKeepsStart ==   \* plausible bug: start is not moved to the new run
    /\ HasNext /\ ~Continues
    /\ physmemmap' = Append(physmemmap, Run)
    /\ cursor' = EndFrame(ptr)
    /\ type' = PhysType(ptr)
    /\ i' = i + 1
    /\ phase' = IF Len(physmemmap') >= MaxEntries THEN "failed" ELSE phase
    /\ UNCHANGED <<entries, start>>

CloseRun ==
    /\ HasNext /\ ~Continues
    /\ physmemmap' = Append(physmemmap, Run)
    /\ start' = FirstFrame(ptr) /\ cursor' = EndFrame(ptr)
    /\ type' = PhysType(ptr)
    /\ i' = i + 1
    /\ phase' = IF Len(physmemmap') >= MaxEntries THEN "failed" ELSE phase
    /\ UNCHANGED entries

(* Line 1041.  The run being merged is not written.                        *)
Finish ==
    /\ phase = "building" /\ i = Len(entries)
    /\ phase' = "done"
    /\ UNCHANGED <<entries, i, start, cursor, type, physmemmap>>

Next == Extend \/ CloseRun \/ Finish

Spec == Init /\ [][Next]_vars
----------------------------------------------------------------------------
(* Properties *)

(* Types of the loop's variables (main.c:990-1033). *)
TypeOK ==
    /\ entries \in Seq(Descriptor)
    /\ i \in 0 .. Len(entries)
    /\ start \in Nat /\ cursor \in Nat /\ start <= cursor
    /\ type \in PhysMemoryType
    /\ physmemmap \in Seq(Entry)
    /\ phase \in {"building", "done", "failed"}

(* The array is never written past its last slot (main.c:1015-1038): while *)
(* the loop goes on a slot is left for the run being merged.               *)
ArrayInBounds ==
    /\ Len(physmemmap) <= MaxEntries
    /\ Len(physmemmap) = MaxEntries => phase = "failed"

InMap(f, t) ==
    \E k \in 1 .. Len(physmemmap) :
        /\ physmemmap[k].type = t
        /\ f >= physmemmap[k].start_frame
        /\ f < physmemmap[k].start_frame + physmemmap[k].frame_count

InRun(f, t) == type = t /\ f >= start /\ f < cursor

Described(f, t, n) ==   \* by the first n descriptors
    \E k \in 1 .. n : /\ PhysType(entries[k]) = t
                      /\ f >= FirstFrame(entries[k])
                      /\ f < EndFrame(entries[k])

(* The map tells what the firmware told (main.c:1007-1033): at every step  *)
(* the entries and the run being merged hold, type by type, the frames of  *)
(* the descriptors consumed, none lost and none added, in whatever order   *)
(* and with whatever holes the descriptors come.                           *)
Coverage ==
    \A f \in Frame, t \in PhysMemoryType :
        InMap(f, t) \/ InRun(f, t) <=> Described(f, t, i)

(* What the loop leaves out (main.c:1007-1041): when it ends, a frame the  *)
(* firmware described is missing from the array only if it belongs to the  *)
(* last run, which no line writes.                                         *)
OnlyLastRunMissing ==
    phase = "done" =>
        \A f \in Frame, t \in PhysMemoryType :
            Described(f, t, Len(entries)) /\ ~InMap(f, t) => InRun(f, t)

(* A frame is never free and reserved at once (main.c:995-1005) when the   *)
(* firmware's descriptors do not overlap.                                  *)
DisjointMap ==
    \A j, k \in 1 .. Len(entries) :
        j # k => \/ EndFrame(entries[j]) <= FirstFrame(entries[k])
                 \/ EndFrame(entries[k]) <= FirstFrame(entries[j])
NeverBoth ==
    DisjointMap => \A f \in Frame : ~(InMap(f, "PhysFree") /\ InMap(f, "PhysReserved"))

(* The slots are used well (main.c:1007-1033): no two neighbouring entries *)
(* could have been one.                                                    *)
EntriesMaximal ==
    \A k \in 1 .. Len(physmemmap) - 1 :
        LET e == physmemmap[k]
            f == physmemmap[k + 1]
        IN  ~(e.type = f.type /\ e.start_frame + e.frame_count = f.start_frame)

=============================================================================
