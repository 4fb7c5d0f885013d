---------------------------- MODULE MCPhysMemMap ---------------------------
(* Memory maps of up to four descriptors of one or two frames, in order or *)
(* not, with holes and without; frames of two addresses.                   *)
EXTENDS PhysMemMap

MCDescriptor ==
    {[Type |-> t, PhysicalStart |-> 2 * f, NumberOfPages |-> n] :
        t \in EfiTypes, f \in 0 .. 4, n \in {1, 2}}

MCShort ==
    {[Type |-> t, PhysicalStart |-> 2 * f, NumberOfPages |-> 1] :
        t \in EfiTypes \ {"EfiBootServicesData"}, f \in 0 .. 3}

MCMemoryMaps ==
    {<<a>> : a \in MCDescriptor} \cup {<<a, b>> : a, b \in MCDescriptor}
        \cup {<<a, b, c, d>> : a, b, c, d \in MCShort}
=============================================================================
