----------------------------- MODULE MCTreeWalk ----------------------------
(* The volume that mk_img.sh makes, with a file behind the directories and *)
(* an empty directory.                                                     *)
EXTENDS TreeWalk

MCDirectories == {"/", "efi", "boot", "tmp"}
MCFiles == {"bootx64.efi", "kernel.elf"}
MCEntriesOf ==
    [d \in MCDirectories |->
        CASE d = "/"    -> <<"efi", "tmp", "kernel.elf">>
          [] d = "efi"  -> <<".", "..", "boot">>
          [] d = "boot" -> <<".", "..", "bootx64.efi">>
          [] d = "tmp"  -> <<".", "..">>]
=============================================================================
