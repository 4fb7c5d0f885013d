------------------------- MODULE MCMemoryMapHandoff ------------------------
(* Seven frames of 128 bytes, each free, the loader's, the firmware's or a *)
(* hole; descriptors of 40 bytes in entries of 40, as the UEFI structure,  *)
(* of 48, as the reference firmware has them, or of 96, more than the      *)
(* spare room, as the interface allows.                                    *)
EXTENDS MemoryMapHandoff

MCNoMap == {<<>>}      \* the map is not there before it is fetched

MCMemories ==
    {m \in [Frame -> EfiTypes \cup {Hole}] :
        /\ m[0] = EfiBootServicesData
        /\ Cardinality({f \in Frame : m[f] = EfiLoaderData}) = 1
        /\ Cardinality({f \in Frame : m[f] = Hole}) <= 1}
=============================================================================
