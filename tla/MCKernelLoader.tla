--------------------------- MODULE MCKernelLoader --------------------------
(* Kernel files for KernelLoader, as link.ld lays them out: pages of two   *)
(* words, tables of two entries, the kernel in the upper half (pages 8 to  *)
(* 15, addresses 16 to 31).                                                *)
EXTENDS KernelLoader

Seg(v, m, o, f, a) ==
    [type |-> PT_LOAD, vaddr |-> v, memsz |-> m, offset |-> o, filesz |-> f,
     align |-> a]
Note == [type |-> PT_NULL, vaddr |-> 0, memsz |-> 0, offset |-> 0,
         filesz |-> 0, align |-> 0]

MCHeaderTables ==
    {<<Seg(16, 2, 2, 2, 2)>>,                           \* text only
     <<Seg(18, 4, 2, 3, 2)>>,                           \* not at the start
     <<Seg(16, 1, 2, 1, 2), Note, Seg(18, 3, 4, 1, 2)>>, \* data with bss
     <<Seg(16, 2, 2, 2, 2), Seg(24, 2, 4, 0, 2)>>,      \* bss in a far table
     <<Seg(17, 2, 3, 1, 1)>>,                           \* no alignment asked
     <<Seg(16, 2, 2, 2, 2), Seg(18, 2, 4, 2, 2), Seg(28, 1, 2, 1, 2)>>,
     <<Seg(16, 1, 2, 1, 2), Seg(20, 0, 4, 0, 2)>>,      \* an empty segment
     <<Seg(18, 2, 2, 2, 2), Seg(16, 2, 4, 2, 2)>>,      \* out of order
     <<Seg(4, 2, 2, 2, 2)>>}                            \* in the lower half

MCUpperHalf == {t \in MCHeaderTables : \A k \in 1 .. Len(t) :
                    IsLoad(t[k]) => t[k].vaddr >= 16}

MCFwFrames == {0, 1, NFrames - 1}
=============================================================================
