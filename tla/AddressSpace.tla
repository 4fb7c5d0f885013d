---------------------------- MODULE AddressSpace ---------------------------
(***************************************************************************)
(* What the loader's page-table code promises (bootloader/src/main.c:      *)
(* 866-945), without page tables: an address space maps pages to frames,   *)
(* and every step that changes it maps one page that was not mapped before *)
(* and leaves every other page as it was.  Once the loader has lost        *)
(* control of the memory its tables live in, nothing is promised.          *)
(***************************************************************************)
CONSTANTS Page, Frame, NoFrame

VARIABLES vmap,     \* page -> the frame it is mapped to, or NoFrame
          lost      \* an unchecked failure or a stray write has happened

InitialMap(m) == m \in [Page -> Frame \cup {NoFrame}]

Init == InitialMap(vmap) /\ lost = FALSE

Map ==
    /\ ~lost
    /\ LET old == vmap
           new == vmap'
       IN  \E p \in Page : old[p] = NoFrame /\ new[p] \in Frame
                           /\ new = [old EXCEPT ![p] = new[p]]
    /\ UNCHANGED lost

Lose == lost'       \* vmap' is left open

Next == Map \/ Lose

Spec == Init /\ [][Next]_<<vmap, lost>>
=============================================================================
