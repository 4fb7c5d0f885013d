---------------------------- MODULE MCElfPlan ------------------------------
(* Small header tables for ElfPlan: up to three headers with segments of   *)
(* zero to five bytes on pages of two.                                     *)
EXTENDS ElfPlan

MCHeader ==
    {[type |-> t, vaddr |-> v, memsz |-> m, offset |-> 0, filesz |-> 0,
      align |-> a] :
        t \in {PT_LOAD}, v \in {0, 2, 3, 4, 8, 14}, m \in {0, 1, 3, 5},
        a \in {1, 2}}
    \cup
    {[type |-> PT_NULL, vaddr |-> 0, memsz |-> 1, offset |-> 0, filesz |-> 0,
      align |-> 0]}

MCHeaderTables ==
    {<<>>} \cup {<<h>> : h \in MCHeader}
           \cup {<<g, h>> : g, h \in MCHeader}
           \cup {<<f, g, h>> : f, g, h \in {x \in MCHeader : x.vaddr < 9 /\ x.memsz # 1}}
=============================================================================
