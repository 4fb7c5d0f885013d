-------------------------- MODULE MemoryMapHandoff -------------------------
(***************************************************************************)
(* How efi_main obtains the firmware's memory map (main.c:971-988): it asks *)
(* for its size, adds room for two descriptors, allocates a buffer, which  *)
(* changes the map, and fetches the map.  PhysMemMap then merges it.       *)
(*                                                                         *)
(* The firmware is the other actor: it owns memory, and its own events may *)
(* allocate and free frames at any time, because boot services are still   *)
(* running.                                                                *)
(***************************************************************************)
EXTENDS PhysMemMap

CONSTANTS
    EfiLoaderData, EfiBootServicesData,
    Hole,               \* no memory at this frame
    DescriptorSize,     \* sizeof(EFI_MEMORY_DESCRIPTOR)
    EntrySizes,         \* distances of two entries the firmware may use
    Memories,           \* memory as the hand-off finds it
    MaxEvents           \* bound on the firmware's own (de)allocations

ASSUME HandoffTypesAssumption ==
    /\ {EfiLoaderData, EfiBootServicesData} \subseteq EfiTypes \ {EfiConventionalMemory}
    /\ EfiLoaderData # EfiBootServicesData /\ Hole \notin EfiTypes
ASSUME SizesAssumption ==
    /\ DescriptorSize \in Nat \ {0} /\ MaxEvents \in Nat
    /\ \A s \in EntrySizes : s \in Nat /\ s >= DescriptorSize
ASSUME MemoriesAssumption == Memories \subseteq [Frame -> EfiTypes \cup {Hole}]

VARIABLES
    memory,             \* frame -> its type in the firmware's books
    key,                \* changes with every change of memory
    events,             \* the firmware's own changes so far
    entry_size,         \* of the firmware's entries
    loaded,             \* frames the loader allocated before
    memmap_size, address, mapkey,
    pc                  \* "query", "allocate", "fetch", "merge"; or the
                        \* error return: "toosmall" at the fetch, "aborted"

firmware  == <<memory, key, events, entry_size, loaded>>
handoff   == <<firmware, memmap_size, address, mapkey, pc>>
allVars   == <<vars, handoff>>

RunStarts == {f \in Frame : memory[f] # Hole /\ (f = 0 \/ memory[f - 1] # memory[f])}

RunLength(f) ==
    CHOOSE n \in 1 .. MaxFrame + 1 - f :
        /\ \A k \in f .. f + n - 1 : memory[k] = memory[f]
        /\ f + n = MaxFrame + 1 \/ memory[f + n] # memory[f]

(* What GetMemoryMap writes, and the size it needs for it.                 *)
MemoryMap ==
    [n \in 1 .. Cardinality(RunStarts) |->
        LET f == CHOOSE f \in RunStarts : Cardinality(RunStarts \cap 0 .. f) = n
        IN  [Type |-> memory[f], PhysicalStart |-> f * PageSize,
             NumberOfPages |-> RunLength(f)]]
MapSize == Cardinality(RunStarts) * entry_size

Block(f, n) == f .. f + n - 1
FitsAt(f, n) ==
    \A k \in Block(f, n) : k \in Frame /\ memory[k] = EfiConventionalMemory

(* Line 980.                                                               *)
RoundedDown(size) == size \div PageSize     \* plausible bug: no rounding up

Pages(size) == (size + PageSize - 1) \div PageSize
----------------------------------------------------------------------------
HandoffInit ==
    /\ Init
    /\ memory \in Memories
    /\ loaded = {f \in Frame : memory[f] = EfiLoaderData}
    /\ entry_size \in EntrySizes
    /\ key = 0 /\ events = 0
    /\ memmap_size = 0 /\ address = 0 /\ mapkey = 0
    /\ pc = "query"

QuerySizeOneSpare ==    \* plausible bug: room for one more descriptor only
    /\ pc = "query"
    /\ memmap_size' = MapSize + DescriptorSize
    /\ pc' = "allocate"
    /\ UNCHANGED <<vars, firmware, address, mapkey>>

(* Lines 971-978: the firmware has nowhere to write and says how much it   *)
(* needs.                                                                  *)
QuerySize ==
    /\ pc = "query"
    /\ memmap_size' = MapSize + DescriptorSize * 2
    /\ pc' = "allocate"
    /\ UNCHANGED <<vars, firmware, address, mapkey>>

(* Lines 979-980.                                                          *)
Allocate ==
    /\ pc = "allocate"
    /\ \E f \in Frame :
        /\ FitsAt(f, Pages(memmap_size))
        /\ address' = f
        /\ memory' = [k \in Frame |-> IF k \in Block(f, Pages(memmap_size))
                                      THEN EfiLoaderData ELSE memory[k]]
    /\ key' = key + 1
    /\ pc' = "fetch"
    /\ UNCHANGED <<vars, events, entry_size, loaded, memmap_size, mapkey>>

(* Lines 981-988, and the firmware's test of the size it is given.         *)
Fetch ==
    /\ pc = "fetch" /\ MapSize <= memmap_size
    /\ memmap_size' = MapSize
    /\ entries' = MemoryMap
    /\ mapkey' = key
    /\ pc' = "merge"
    /\ UNCHANGED <<i, start, cursor, type, physmemmap, phase, firmware, address>>

FetchTooSmall ==
    /\ pc = "fetch" /\ MapSize > memmap_size
    /\ pc' = "toosmall"
    /\ UNCHANGED <<vars, firmware, memmap_size, address, mapkey>>

(* Every one of the three calls may fail for reasons of its own.           *)
CallFails ==
    /\ pc \in {"query", "allocate", "fetch"}
    /\ pc' = "aborted"
    /\ UNCHANGED <<vars, firmware, memmap_size, address, mapkey>>

Merge == pc = "merge" /\ Next /\ UNCHANGED handoff

HandoffStep == QuerySize \/ Allocate \/ Fetch \/ FetchTooSmall \/ CallFails \/ Merge

(* An event of the firmware allocates a frame or gives one back.           *)
FirmwareEvent ==
    /\ events < MaxEvents
    /\ \E f \in Frame, swap \in {<<EfiConventionalMemory, EfiBootServicesData>>,
                                 <<EfiBootServicesData, EfiConventionalMemory>>} :
        /\ memory[f] = swap[1]
        /\ memory' = [memory EXCEPT ![f] = swap[2]]
    /\ key' = key + 1 /\ events' = events + 1
    /\ UNCHANGED <<vars, entry_size, loaded, memmap_size, address, mapkey, pc>>

HandoffNext == HandoffStep \/ FirmwareEvent

HandoffSpec == HandoffInit /\ [][HandoffNext]_allVars
----------------------------------------------------------------------------
(* Properties *)

(* Types, with those of the merging loop (main.c:971-1033). *)
HandoffTypeOK ==
    /\ TypeOK
    /\ memory \in [Frame -> EfiTypes \cup {Hole}]
    /\ loaded \subseteq Frame /\ entry_size \in EntrySizes
    /\ key \in Nat /\ events \in 0 .. MaxEvents /\ mapkey \in 0 .. key
    /\ memmap_size \in Nat /\ address \in Frame
    /\ pc \in {"query", "allocate", "fetch", "merge", "toosmall", "aborted"}

(* The frames on which the bytes of the map lie.                           *)
Buffer ==
    {f \in Frame : /\ (f + 1) * PageSize > address * PageSize
                   /\ f * PageSize < address * PageSize + memmap_size}

(* The free frames right before and behind the buffer.                     *)
FreeNeighbours ==
    {f \in {address - 1, address + Pages(memmap_size)} :
        f \in Frame /\ memory[f] = EfiConventionalMemory}

(* What the two spare descriptors are enough for (main.c:977-984): while    *)
(* the firmware changes nothing itself, the fetch finds the buffer too     *)
(* small only if the buffer was cut out of free memory on so many sides    *)
(* that the entries for what is left there take more than the spare room,  *)
(* which is counted in the structure and not in the firmware's entries.    *)
SlackSuffices ==
    pc = "toosmall" /\ events = 0 =>
        Cardinality(FreeNeighbours) * entry_size > DescriptorSize * 2

(* No frame in use is given away (main.c:980-1033): whatever the firmware  *)
(* does meanwhile, the frames the loader allocated before and the frames   *)
(* the memory map lies on are never reported free.                         *)
OwnFramesReserved ==
    pc = "merge" =>
        \A f \in loaded \cup Buffer : ~InMap(f, "PhysFree") /\ ~InRun(f, "PhysFree")

(* The key tells whether the map is still true (main.c:984-1041): as long  *)
(* as it is the firmware's current key, the finished map reports exactly   *)
(* the firmware's free frames as free, but for the run that is not written. *)
FreshMapExact ==
    pc = "merge" /\ phase = "done" /\ mapkey = key =>
        \A f \in Frame :
            InMap(f, "PhysFree") \/ InRun(f, "PhysFree")
                <=> memory[f] = EfiConventionalMemory

=============================================================================
