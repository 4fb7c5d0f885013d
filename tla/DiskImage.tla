------------------------------ MODULE DiskImage ----------------------------
(***************************************************************************)
(* The rules of src/Makefile that assemble a disk, and the scripts they    *)
(* run: mk_img.sh for disk.img ("release") and disk-debug.img ("debug"),   *)
(* cp_to_disk.sh for the partition /dev/sda3 ("copy").  make -j, or a      *)
(* second terminal, runs them at the same time; all of them mount on the   *)
(* directory mnt, which carries a stack of file systems.  Any command may  *)
(* fail, which ends the script (set -e), and any script may be interrupted.*)
(*                                                                         *)
(* A volume has the name of the script that fills it; of its contents the  *)
(* model keeps what is there and of the present build.  Two commands with  *)
(* no effect the model sees, partprobe and the first mkdir of a directory  *)
(* that is there, belong to the command after them.                        *)
(***************************************************************************)
EXTENDS Naturals, Sequences, FiniteSets, SequencesExt

CONSTANTS
    Scripts,        \* those in use
    Loops,          \* loop devices
    Parts,          \* what the user builds anew
    MaxScripts,     \* bound on the different scripts started
    MaxStarts,      \* bound on the scripts started
    MaxFailures     \* bound on the commands that fail and the interruptions

ASSUME ScriptsAssumption ==
    /\ Scripts \subseteq {"release", "debug", "copy"}
    /\ Parts \subseteq {"efi", "debug efi", "kernel"}

Images    == Scripts \ {"copy"}
Efi(s)    == IF s = "debug" THEN "debug efi" ELSE "efi"
MadeOf(s) == {Efi(s), "kernel"}
Formatted == {"file", "label", "parts", "fs"}
Contents  == {"dirs", "efi", "debug efi", "kernel"}
Sda3      == "sda3"

ASSUME LoopsAssumption == Loops \cap {Sda3, "none"} = {}

VARIABLES
    pc,         \* script -> the command it is at, or how it ended
    disk,       \* volume -> what is on it
    fresh,      \* images that are newer than what they are made of
    loop,       \* loop device -> what it is attached to
    loopback,   \* the variable LOOPBACK of a script
    mounts,     \* the devices mounted on mnt, the visible one last
    mnt,        \* the directory under them: "absent", "empty" or "littered"
    crossed,    \* history: scripts another one got in the way of: both had
                \* mnt mounted, it worked on this one's volume, or unmounted
                \* the loop device this one had chosen
    overtaken,  \* history: scripts whose sources changed while they ran
    broken,     \* history: scripts that failed over what they had begun
    starts, failures

vars == <<pc, disk, fresh, loop, loopback, mounts, mnt, crossed, overtaken,
          broken, starts, failures>>
devices == <<loop, loopback, mounts, mnt, crossed>>
history == <<overtaken, broken, starts, failures>>
----------------------------------------------------------------------------
MkImg == <<"detach", "dd", "parted", "attach", "choose", "sfdisk", "mkfs", "mkdir",
           "mount", "mkdir boot", "cp efi", "cp kernel", "umount", "rmdir", "release">>
CpToDisk == SubSeq(MkImg, 8, 14)

Commands(s) == IF s = "copy" THEN CpToDisk ELSE MkImg
Ended    == {"idle", "done", "failed", "interrupted"}
Running  == {s \in Scripts : pc[s] \notin Ended}

Advanced(s) ==
    LET i == CHOOSE i \in DOMAIN Commands(s) : Commands(s)[i] = pc[s]
    IN  [pc EXCEPT ![s] = IF i < Len(Commands(s)) THEN Commands(s)[i + 1] ELSE "done"]
At(s, command) == pc[s] = command /\ pc' = Advanced(s)

(* A loop device: the image it was attached to, whether that file is still *)
(* the one of this name, and whether it goes with its last mount.          *)
Unused == [image |-> "none", live |-> FALSE, dying |-> FALSE]
Attached(s) == [image |-> s, live |-> TRUE, dying |-> FALSE]
Mounted == ToSet(mounts)
Listed(s) == {l \in Loops : loop[l].image = s}      \* losetup -a | grep

Usable(device) == device = Sda3 \/ (device \in Loops /\ loop[device] # Unused)

(* The volumes that a device holds.                                        *)
On(device) ==
    IF device = Sda3 THEN {"copy"}
    ELSE IF loop[device].live THEN {loop[device].image} ELSE {}

(* The volumes vs lose what is in old and get what is in new; that makes   *)
(* an image the newest file.                                               *)
Change(vs, old, new) ==
    /\ disk' = [v \in Scripts |-> IF v \in vs THEN (disk[v] \ old) \cup new ELSE disk[v]]
    /\ fresh' = fresh \cup (vs \cap Images)

Detached(ls) ==     \* losetup -d: a mounted device is only marked
    [l \in Loops |-> IF l \notin ls THEN loop[l]
                     ELSE IF l \in Mounted THEN [loop[l] EXCEPT !.dying = TRUE]
                     ELSE Unused]

(* Scripts that have mounted and not yet unmounted.                        *)
InSection(s) == pc[s] \in {"mkdir boot", "cp efi", "cp kernel", "umount"}
----------------------------------------------------------------------------
Init ==
    /\ pc = [s \in Scripts |-> "idle"]
    /\ disk = [s \in Scripts |-> IF s = "copy" THEN Formatted \cup {"dirs"} ELSE {}]
    /\ fresh = {} /\ crossed = {} /\ overtaken = {} /\ broken = {}
    /\ loop = [l \in Loops |-> Unused]
    /\ loopback = [s \in Scripts |-> "none"]
    /\ mounts = <<>> /\ mnt = "absent"
    /\ starts = 0 /\ failures = 0

(* What is remembered of an earlier run of the script is over.             *)
Afresh(s) ==
    crossed' = crossed \ {s} /\ overtaken' = overtaken \ {s} /\ broken' = broken \ {s}

(* make runs the recipe of an image that is missing or older than what it  *)
(* is made of, that of copy-to-disk always.                                *)
Start(s) ==
    /\ s \notin Running /\ starts < MaxStarts
    /\ Cardinality({t \in Scripts : pc[t] # "idle"} \cup {s}) <= MaxScripts
    /\ s = "copy" \/ "file" \notin disk[s] \/ s \notin fresh
    /\ pc' = [pc EXCEPT ![s] = Head(Commands(s))]
    /\ IF s = "copy" THEN Afresh(s) ELSE UNCHANGED <<crossed, overtaken, broken>>
    /\ loopback' = [loopback EXCEPT ![s] = "none"]
    /\ starts' = starts + 1
    /\ UNCHANGED <<disk, fresh, loop, mounts, mnt, failures>>

DetachNothing(s) ==     \* plausible bug: loop devices of an earlier run stay
    At(s, "detach") /\ UNCHANGED <<disk, fresh, devices, history>>

Detach(s) ==
    /\ At(s, "detach")
    /\ loop' = Detached(Listed(s))
    /\ UNCHANGED <<disk, fresh, loopback, mounts, mnt, crossed, history>>

Zero(s) ==
    /\ At(s, "dd")
    /\ Change({s}, disk[s], {"file"}) /\ Afresh(s)
    /\ UNCHANGED <<loop, loopback, mounts, mnt, starts, failures>>

Label(s) ==
    /\ At(s, "parted")
    /\ Change({s}, {}, {"label"})
    /\ UNCHANGED <<devices, history>>

Attach(s) ==
    /\ At(s, "attach")
    /\ \E l \in Loops : loop[l] = Unused /\ loop' = [loop EXCEPT ![l] = Attached(s)]
    /\ UNCHANGED <<disk, fresh, loopback, mounts, mnt, crossed, history>>

(* head -n1 takes whichever device of the image is listed first.           *)
Choose(s) ==
    /\ At(s, "choose")
    /\ \E l \in Listed(s) : loopback' = [loopback EXCEPT ![s] = l]
    /\ UNCHANGED <<disk, fresh, loop, mounts, mnt, crossed, history>>

(* sfdisk and mkfs.fat refuse a device that is mounted; mkfs.fat leaves an *)
(* empty file system.                                                      *)
Format(s, command, old, new) ==
    /\ At(s, command)
    /\ Usable(loopback[s]) /\ loopback[s] \notin Mounted
    /\ Change(On(loopback[s]), old, new)
    /\ crossed' = crossed \cup (On(loopback[s]) \ {s})
    /\ UNCHANGED <<loop, loopback, mounts, mnt, history>>

Mkdir(s) ==
    /\ At(s, "mkdir")
    /\ mnt' = IF mnt = "absent" THEN "empty" ELSE mnt
    /\ UNCHANGED <<disk, fresh, loop, loopback, mounts, crossed, history>>

(* A file system is not mounted on itself.                                 *)
CanMount(device) ==
    /\ mnt # "absent" /\ Usable(device) /\ \A v \in On(device) : "fs" \in disk[v]
    /\ ~ (mounts # <<>> /\ Last(mounts) = device)

MountOrGoOn(s) ==       \* plausible bug: a failing mount does not end the script
    LET device == IF s = "copy" THEN Sda3 ELSE loopback[s]
        others == {t \in Scripts \ {s} : InSection(t)}
    IN  /\ At(s, "mount")
        /\ mounts' = IF CanMount(device) THEN Append(mounts, device) ELSE mounts
        /\ crossed' = crossed \cup (On(device) \ {s})
                              \cup (IF others = {} THEN {} ELSE others \cup {s})
        /\ UNCHANGED <<disk, fresh, loop, loopback, mnt, history>>

Mount(s) ==
    LET device == IF s = "copy" THEN Sda3 ELSE loopback[s]
        others == {t \in Scripts \ {s} : InSection(t)}
    IN  /\ At(s, "mount")
        /\ CanMount(device) /\ mounts' = Append(mounts, device)
        /\ crossed' = crossed \cup (On(device) \ {s})
                              \cup (IF others = {} THEN {} ELSE others \cup {s})
        /\ UNCHANGED <<disk, fresh, loop, loopback, mnt, history>>

(* What is written under mnt goes to the visible file system, or to the    *)
(* working tree when there is none.                                        *)
Write(s, command, old, new) ==
    /\ At(s, command)
    /\ IF mounts = <<>>
       THEN mnt # "absent" /\ mnt' = "littered" /\ UNCHANGED <<disk, fresh, crossed>>
       ELSE /\ Change(On(Last(mounts)), old, new)
            /\ crossed' = crossed \cup (On(Last(mounts)) \ {s})
            /\ UNCHANGED mnt
    /\ UNCHANGED <<loop, loopback, mounts, history>>

MkdirBoot(s)  == Write(s, "mkdir boot", {}, {"dirs"})
CopyKernel(s) == Write(s, "cp kernel", {}, {"kernel"})
CopyEfi(s) ==
    /\ mounts # <<>> => \A v \in On(Last(mounts)) : "dirs" \in disk[v]
    /\ Write(s, "cp efi", {"efi", "debug efi"}, {Efi(s)})

(* The top of the stack goes, which writes to the image a last time; a     *)
(* device that was waiting for it is free.                                 *)
Unmounted ==
    /\ mounts # <<>> /\ mounts' = Front(mounts)
    /\ fresh' = fresh \cup (On(Last(mounts)) \cap Images)
    /\ loop' = [l \in Loops |-> IF loop[l].dying /\ l \notin ToSet(mounts') THEN Unused
                                                                          ELSE loop[l]]

Umount(s) ==
    /\ At(s, "umount") /\ Unmounted
    /\ crossed' = crossed \cup {t \in Running \ {s} : loopback[t] = Last(mounts)}
    /\ UNCHANGED <<disk, loopback, mnt, history>>

Rmdir(s) ==
    /\ At(s, "rmdir")
    /\ mounts = <<>> /\ mnt = "empty" /\ mnt' = "absent"
    /\ UNCHANGED <<disk, fresh, loop, loopback, mounts, crossed, history>>

(* Without -r, xargs runs losetup -d also when there is nothing to detach. *)
Release(s) ==
    /\ At(s, "release")
    /\ Listed(s) # {} /\ loop' = Detached(Listed(s))
    /\ UNCHANGED <<disk, fresh, loopback, mounts, mnt, crossed, history>>

Begun(s) == pc[s] \notin {"detach", "dd"}

FailGoesOn(s) ==        \* plausible bug: no set -e
    /\ s \in Running /\ failures < MaxFailures
    /\ pc' = Advanced(s) /\ failures' = failures + 1
    /\ UNCHANGED <<disk, fresh, devices, overtaken, broken, starts>>

Fail(s) ==
    /\ s \in Running /\ failures < MaxFailures
    /\ pc' = [pc EXCEPT ![s] = "failed"] /\ failures' = failures + 1
    /\ broken' = IF Begun(s) THEN broken \cup {s} ELSE broken
    /\ UNCHANGED <<disk, fresh, devices, overtaken, starts>>

(* An interrupted make deletes the target its recipe has changed; a loop   *)
(* device keeps the file.                                                  *)
Deleted(images) ==
    /\ disk' = [v \in Scripts |-> IF v \in images THEN {} ELSE disk[v]]
    /\ loop' = [l \in Loops |-> IF loop[l].image \in images
                                THEN [loop[l] EXCEPT !.live = FALSE] ELSE loop[l]]

Interrupt(s) ==
    /\ s \in Running /\ failures < MaxFailures
    /\ pc' = [pc EXCEPT ![s] = "interrupted"] /\ failures' = failures + 1
    /\ Deleted(IF Begun(s) THEN {s} \cap Images ELSE {})
    /\ UNCHANGED <<fresh, loopback, mounts, mnt, crossed, overtaken, broken, starts>>
----------------------------------------------------------------------------
(* The user: a part is built anew; make clean; what a script left is taken *)
(* away, at a time when none runs.                                         *)
Rebuild(part) ==
    /\ disk' = [v \in Scripts |-> disk[v] \ {part}]
    /\ fresh' = {s \in fresh : part \notin MadeOf(s)}
    /\ overtaken' = overtaken \cup {s \in Running : part \in MadeOf(s)}
    /\ UNCHANGED <<pc, devices, broken, starts, failures>>

Clean ==
    /\ Running = {} /\ Deleted(Images)
    /\ UNCHANGED <<pc, fresh, loopback, mounts, mnt, crossed, history>>

CleanUp ==
    /\ Running = {}
    /\ \/ Unmounted /\ UNCHANGED mnt
       \/ mounts = <<>> /\ mnt # "absent" /\ mnt' = "absent"
          /\ UNCHANGED <<fresh, loop, mounts>>
    /\ UNCHANGED <<pc, disk, loopback, crossed, history>>

Command(s) ==
    \/ Detach(s) \/ Zero(s) \/ Label(s) \/ Attach(s) \/ Choose(s)
    \/ Format(s, "sfdisk", {}, {"parts"}) \/ Format(s, "mkfs", Contents, {"fs"})
    \/ Mkdir(s) \/ Mount(s) \/ MkdirBoot(s) \/ CopyEfi(s) \/ CopyKernel(s)
    \/ Umount(s) \/ Rmdir(s) \/ Release(s)

ImageNext ==
    \/ \E s \in Scripts : Start(s) \/ Command(s) \/ Fail(s) \/ Interrupt(s)
    \/ \E part \in Parts : Rebuild(part)
    \/ Clean \/ CleanUp

ImageSpec == Init /\ [][ImageNext]_vars
----------------------------------------------------------------------------
(* Properties *)

Complete(s) == Formatted \cup MadeOf(s) \subseteq disk[s]
Excused(s)  == s \in crossed \cup overtaken

(* A script that ends well has filled its volume with the present boot     *)
(* loader and kernel, and has left nothing of its own behind: no loop      *)
(* device, no mount (mk_img.sh:17-39, cp_to_disk.sh:7-15).  It need not be *)
(* so when another script got in its way - mounted on mnt at the same      *)
(* time, worked on its volume, unmounted its loop device - or when a part  *)
(* was built anew meanwhile.                                               *)
DoneIsComplete ==
    [][\A s \in Scripts :
        pc[s] \notin Ended /\ pc'[s] = "done" =>
            \/ Excused(s)
            \/ /\ Complete(s)' /\ Listed(s)' = {}
               /\ \A device \in Mounted' : s \notin On(device)']_vars

(* An image that make takes for finished (Makefile:27-31) and nobody works *)
(* on is complete, unless the script that began it failed - the file stays *)
(* and is newer than its sources - or was disturbed.  An interrupted       *)
(* script leaves no such image.                                            *)
TrustedIsComplete ==
    \A s \in Images \ Running :
        "file" \in disk[s] /\ s \in fresh => Complete(s) \/ s \in broken \/ Excused(s)

(* A script puts a boot loader only on its own volume, and nothing into    *)
(* the working tree, except when another one got in its way                *)
(* (mk_img.sh:31-36, cp_to_disk.sh:8-14).                                  *)
WritesStayHome ==
    [][\A s \in Scripts \ crossed : pc'[s] # pc[s] =>
        /\ mnt' = "littered" => mnt = "littered"
        /\ \A v \in Scripts \ {s} :
            (disk'[v] \ disk[v]) \cap {"efi", "debug efi"} = {}]_vars
=============================================================================
