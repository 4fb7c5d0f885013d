-------------------------- MODULE DiskImageProofs --------------------------
(* Proofs about DiskImage, for any number of loop devices, of scripts      *)
(* started, of failures and of interruptions.                              *)
EXTENDS DiskImage, TLAPS, SequenceTheorems

(* The commands of a script, and the place behind each of them.            *)
Order == {"detach", "dd", "parted", "attach", "choose", "sfdisk", "mkfs", "mkdir",
          "mount", "mkdir boot", "cp efi", "cp kernel", "umount", "rmdir", "release"}

OrderOf(s) == IF s = "copy" THEN {"mkdir", "mount", "mkdir boot", "cp efi", "cp kernel",
                                  "umount", "rmdir"}
                            ELSE Order

Behind(s, c) ==
    CASE c = "detach"     -> "dd"
      [] c = "dd"         -> "parted"
      [] c = "parted"     -> "attach"
      [] c = "attach"     -> "choose"
      [] c = "choose"     -> "sfdisk"
      [] c = "sfdisk"     -> "mkfs"
      [] c = "mkfs"       -> "mkdir"
      [] c = "mkdir"      -> "mount"
      [] c = "mount"      -> "mkdir boot"
      [] c = "mkdir boot" -> "cp efi"
      [] c = "cp efi"     -> "cp kernel"
      [] c = "cp kernel"  -> "umount"
      [] c = "umount"     -> "rmdir"
      [] c = "rmdir"      -> IF s = "copy" THEN "done" ELSE "release"
      [] c = "release"    -> "done"

(* The place of a command in mk_img.sh.                                    *)
PlaceOf(c) ==
    CASE c = "detach"     -> 1
      [] c = "dd"         -> 2
      [] c = "parted"     -> 3
      [] c = "attach"     -> 4
      [] c = "choose"     -> 5
      [] c = "sfdisk"     -> 6
      [] c = "mkfs"       -> 7
      [] c = "mkdir"      -> 8
      [] c = "mount"      -> 9
      [] c = "mkdir boot" -> 10
      [] c = "cp efi"     -> 11
      [] c = "cp kernel"  -> 12
      [] c = "umount"     -> 13
      [] c = "rmdir"      -> 14
      [] c = "release"    -> 15

LEMMA Places ==
    \A i \in 1 .. 15 :
        i = 1 \/ i = 2 \/ i = 3 \/ i = 4 \/ i = 5 \/ i = 6 \/ i = 7 \/ i = 8
        \/ i = 9 \/ i = 10 \/ i = 11 \/ i = 12 \/ i = 13 \/ i = 14 \/ i = 15
  OBVIOUS

LEMMA MkImgIs ==
    /\ MkImg \in Seq(Order) /\ Len(MkImg) = 15 /\ DOMAIN MkImg = 1 .. 15
    /\ \A i \in 1 .. 15 : MkImg[i] \in Order /\ PlaceOf(MkImg[i]) = i
    /\ \A c \in Order : PlaceOf(c) \in 1 .. 15 /\ MkImg[PlaceOf(c)] = c
    /\ \A i \in 1 .. 13 : \A s : MkImg[i + 1] = Behind(s, MkImg[i])
    /\ \A s : Behind(s, MkImg[14]) = IF s = "copy" THEN "done" ELSE MkImg[15]
    /\ \A s : Behind(s, MkImg[15]) = "done"
  <1>1. Len(MkImg) = 15 /\ DOMAIN MkImg = 1 .. 15 /\ MkImg = [i \in 1 .. 15 |-> MkImg[i]]
    BY DEF MkImg
  <1>2. /\ MkImg[1] = "detach" /\ MkImg[2] = "dd" /\ MkImg[3] = "parted" /\ MkImg[4] = "attach"
        /\ MkImg[5] = "choose" /\ MkImg[6] = "sfdisk" /\ MkImg[7] = "mkfs" /\ MkImg[8] = "mkdir"
        /\ MkImg[9] = "mount" /\ MkImg[10] = "mkdir boot" /\ MkImg[11] = "cp efi" /\ MkImg[12] = "cp kernel"
        /\ MkImg[13] = "umount" /\ MkImg[14] = "rmdir" /\ MkImg[15] = "release"
    BY DEF MkImg
  <1>3. \A i \in 1 .. 15 : MkImg[i] \in Order /\ PlaceOf(MkImg[i]) = i
    <2>1. /\ PlaceOf("detach") = 1 /\ PlaceOf("dd") = 2 /\ PlaceOf("parted") = 3 /\ PlaceOf("attach") = 4
          /\ PlaceOf("choose") = 5 /\ PlaceOf("sfdisk") = 6 /\ PlaceOf("mkfs") = 7 /\ PlaceOf("mkdir") = 8
          /\ PlaceOf("mount") = 9 /\ PlaceOf("mkdir boot") = 10 /\ PlaceOf("cp efi") = 11
          /\ PlaceOf("cp kernel") = 12 /\ PlaceOf("umount") = 13 /\ PlaceOf("rmdir") = 14
          /\ PlaceOf("release") = 15
      BY ONLY TRUE DEF PlaceOf
    <2>2. \A i \in 1 .. 15 : PlaceOf(MkImg[i]) = i
      <3>1. PlaceOf(MkImg[1]) = 1 /\ PlaceOf(MkImg[2]) = 2 /\ PlaceOf(MkImg[3]) = 3 /\ PlaceOf(MkImg[4]) = 4
        BY ONLY <1>2, <2>1
      <3>2. PlaceOf(MkImg[5]) = 5 /\ PlaceOf(MkImg[6]) = 6 /\ PlaceOf(MkImg[7]) = 7 /\ PlaceOf(MkImg[8]) = 8
        BY ONLY <1>2, <2>1
      <3>3. PlaceOf(MkImg[9]) = 9 /\ PlaceOf(MkImg[10]) = 10 /\ PlaceOf(MkImg[11]) = 11 /\ PlaceOf(MkImg[12]) = 12
        BY ONLY <1>2, <2>1
      <3>4. PlaceOf(MkImg[13]) = 13 /\ PlaceOf(MkImg[14]) = 14 /\ PlaceOf(MkImg[15]) = 15
        BY ONLY <1>2, <2>1
      <3>5. QED
        BY ONLY <3>1, <3>2, <3>3, <3>4, Places
    <2>3. \A i \in 1 .. 15 : MkImg[i] \in Order
      BY ONLY <1>2, Places DEF Order
    <2>4. QED
      BY ONLY <2>2, <2>3
  <1>4. MkImg \in Seq(Order)
    <2>1. MkImg \in [1 .. 15 -> Order]
      BY <1>1, <1>3
    <2>2. QED
      BY <2>1, SeqDef
  <1>5. \A c \in Order : PlaceOf(c) \in 1 .. 15 /\ MkImg[PlaceOf(c)] = c
    <2>1. \A c \in Order : \E i \in 1 .. 15 : MkImg[i] = c
      <3> SUFFICES ASSUME NEW c \in Order, \A i \in 1 .. 15 : MkImg[i] # c PROVE FALSE
        OBVIOUS
      <3>1. /\ MkImg[1] # c /\ MkImg[2] # c /\ MkImg[3] # c /\ MkImg[4] # c /\ MkImg[5] # c
            /\ MkImg[6] # c /\ MkImg[7] # c /\ MkImg[8] # c /\ MkImg[9] # c /\ MkImg[10] # c
            /\ MkImg[11] # c /\ MkImg[12] # c /\ MkImg[13] # c /\ MkImg[14] # c /\ MkImg[15] # c
        OBVIOUS
      <3>2. QED
        BY ONLY <1>2, <3>1, c \in Order DEF Order
    <2>2. QED
      BY <1>3, <2>1
  <1>6. /\ \A i \in 1 .. 13 : \A s : MkImg[i + 1] = Behind(s, MkImg[i])
        /\ \A s : Behind(s, MkImg[14]) = IF s = "copy" THEN "done" ELSE MkImg[15]
        /\ \A s : Behind(s, MkImg[15]) = "done"
    <2>1. ASSUME NEW s
          PROVE  /\ Behind(s, MkImg[1]) = MkImg[2] /\ Behind(s, MkImg[2]) = MkImg[3]
                 /\ Behind(s, MkImg[3]) = MkImg[4] /\ Behind(s, MkImg[4]) = MkImg[5]
                 /\ Behind(s, MkImg[5]) = MkImg[6] /\ Behind(s, MkImg[6]) = MkImg[7]
                 /\ Behind(s, MkImg[7]) = MkImg[8] /\ Behind(s, MkImg[8]) = MkImg[9]
                 /\ Behind(s, MkImg[9]) = MkImg[10] /\ Behind(s, MkImg[10]) = MkImg[11]
                 /\ Behind(s, MkImg[11]) = MkImg[12] /\ Behind(s, MkImg[12]) = MkImg[13]
                 /\ Behind(s, MkImg[13]) = MkImg[14]
      BY ONLY <1>2 DEF Behind
    <2>2. \A i \in 1 .. 13 : i \in 1 .. 15 /\ i # 14 /\ i # 15
      OBVIOUS
    <2>3. \A i \in 1 .. 13 : \A s : MkImg[i + 1] = Behind(s, MkImg[i])
      BY ONLY <2>1, <2>2, Places
    <2>4. \A s : Behind(s, MkImg[14]) = IF s = "copy" THEN "done" ELSE MkImg[15]
      BY ONLY <1>2 DEF Behind
    <2>5. \A s : Behind(s, MkImg[15]) = "done"
      BY ONLY <1>2 DEF Behind
    <2>6. QED
      BY <2>3, <2>4, <2>5
  <1>7. QED
    BY <1>1, <1>3, <1>4, <1>5, <1>6
LEMMA AdvancedIs ==
    ASSUME NEW s, NEW k \in DOMAIN Commands(s), Commands(s)[k] = pc[s],
           \A j \in DOMAIN Commands(s) : Commands(s)[j] = pc[s] => j = k
    PROVE  Advanced(s) = [pc EXCEPT ![s] = IF k < Len(Commands(s)) THEN Commands(s)[k + 1]
                                                                 ELSE "done"]
  <1> DEFINE m == Commands(s)
             x == pc[s]
  <1>1. (CHOOSE i \in DOMAIN m : m[i] = x) = k
    <2> HIDE DEF m, x
    <2>1. k \in DOMAIN m /\ m[k] = x /\ \A j \in DOMAIN m : m[j] = x => j = k
      BY DEF m, x
    <2>2. QED
      BY ONLY <2>1
  <1>2. QED
    BY <1>1 DEF Advanced

LEMMA Middle ==
    ASSUME NEW S, NEW q \in Seq(S), Len(q) = 15
    PROVE  /\ SubSeq(q, 8, 14) \in Seq(S) /\ Len(SubSeq(q, 8, 14)) = 7
           /\ \A i \in 1 .. 7 : SubSeq(q, 8, 14)[i] = q[i + 7]
  <1>1. SubSeq(q, 8, 14) \in Seq(S) /\ Len(SubSeq(q, 8, 14)) = 7
    <2>1. \A i \in 8 .. 14 : q[i] \in S
      <3>1. \A i \in 8 .. 14 : i \in 1 .. Len(q)
        OBVIOUS
      <3>2. QED
        BY <3>1, ElementOfSeq
    <2>2. 8 \in Int /\ 14 \in Int /\ 8 <= 14 /\ 14 - 8 + 1 = 7
      OBVIOUS
    <2>3. QED
      BY <2>1, <2>2, SubSeqProperties
  <1>2. \A i \in 1 .. 7 : SubSeq(q, 8, 14)[i] = q[i + 7]
    OBVIOUS
  <1>3. QED
    BY <1>1, <1>2

LEMMA CopyPlaces == \A c \in OrderOf("copy") : PlaceOf(c) \in 8 .. 14
  <1>1. \A c \in OrderOf("copy") :
            \/ c = "mkdir" \/ c = "mount" \/ c = "mkdir boot" \/ c = "cp efi"
            \/ c = "cp kernel" \/ c = "umount" \/ c = "rmdir"
    BY DEF OrderOf
  <1>2. /\ PlaceOf("mkdir") = 8 /\ PlaceOf("mount") = 9 /\ PlaceOf("mkdir boot") = 10
        /\ PlaceOf("cp efi") = 11 /\ PlaceOf("cp kernel") = 12 /\ PlaceOf("umount") = 13
        /\ PlaceOf("rmdir") = 14
    BY DEF PlaceOf
  <1>3. \A c \in OrderOf("copy") :
            \/ PlaceOf(c) = 8 \/ PlaceOf(c) = 9 \/ PlaceOf(c) = 10 \/ PlaceOf(c) = 11
            \/ PlaceOf(c) = 12 \/ PlaceOf(c) = 13 \/ PlaceOf(c) = 14
    BY <1>1, <1>2, Zenon
  <1>4. QED
    BY <1>3

(* A command is followed by the next one.                                  *)
LEMMA Advances ==
    ASSUME NEW s \in Scripts, pc[s] \in OrderOf(s)
    PROVE  Advanced(s) = [pc EXCEPT ![s] = Behind(s, pc[s])]
  <1> DEFINE k == PlaceOf(pc[s])
  <1>1. pc[s] \in Order /\ k \in 1 .. 15 /\ MkImg[k] = pc[s]
    BY MkImgIs DEF OrderOf, Order
  <1>2. \A j \in 1 .. 15 : MkImg[j] = pc[s] => j = k
    BY MkImgIs
  <1> HIDE DEF k
  <1>3. CASE s # "copy"
    <2>1. Commands(s) = MkImg
      BY <1>3 DEF Commands
    <2>2. DOMAIN MkImg = 1 .. 15
      BY MkImgIs
    <2>3. Advanced(s) = [pc EXCEPT ![s] = IF k < Len(MkImg) THEN MkImg[k + 1] ELSE "done"]
      BY <1>1, <1>2, <2>1, <2>2, AdvancedIs
    <2>4. (IF k < Len(MkImg) THEN MkImg[k + 1] ELSE "done") = Behind(s, MkImg[k])
      <3>1. k \in 1 .. 13 \/ k = 14 \/ k = 15
        BY <1>1
      <3>2. QED
        BY <1>3, <3>1, MkImgIs
    <2>5. QED
      BY <1>1, <2>3, <2>4
  <1>4. CASE s = "copy"
    <2>1. /\ CpToDisk \in Seq(Order) /\ Len(CpToDisk) = 7 /\ DOMAIN CpToDisk = 1 .. 7
          /\ \A i \in 1 .. 7 : CpToDisk[i] = MkImg[i + 7]
      <3>1. /\ SubSeq(MkImg, 8, 14) \in Seq(Order) /\ Len(SubSeq(MkImg, 8, 14)) = 7
            /\ \A i \in 1 .. 7 : SubSeq(MkImg, 8, 14)[i] = MkImg[i + 7]
        BY MkImgIs, Middle
      <3>2. QED
        BY <3>1, LenProperties DEF CpToDisk
    <2>2. k \in 8 .. 14
      BY <1>4, CopyPlaces DEF k
    <2>3. k - 7 \in 1 .. 7 /\ CpToDisk[k - 7] = pc[s]
      BY <1>1, <2>1, <2>2
    <2>4. \A j \in 1 .. 7 : CpToDisk[j] = pc[s] => j = k - 7
      BY <1>2, <2>1, <2>2
    <2>5. Commands(s) = CpToDisk
      BY <1>4 DEF Commands
    <2>6. Advanced(s) = [pc EXCEPT ![s] = IF k - 7 < Len(CpToDisk) THEN CpToDisk[(k - 7) + 1] ELSE "done"]
      BY <2>1, <2>3, <2>4, <2>5, AdvancedIs
    <2>7. (IF k - 7 < Len(CpToDisk) THEN CpToDisk[(k - 7) + 1] ELSE "done") = Behind(s, MkImg[k])
      <3>1. CASE k = 14
        BY <1>4, <2>1, <3>1, MkImgIs
      <3>2. CASE k # 14
        <4>1. k \in 1 .. 13 /\ (k - 7) + 1 \in 1 .. 7 /\ ((k - 7) + 1) + 7 = k + 1 /\ k - 7 < 7
          BY <2>2, <3>2
        <4>2. CpToDisk[(k - 7) + 1] = MkImg[k + 1]
          BY <2>1, <4>1
        <4>3. QED
          BY <2>1, <4>1, <4>2, MkImgIs
      <3>3. QED
        BY <3>1, <3>2
    <2>8. QED
      BY <1>1, <2>6, <2>7
  <1>5. QED
    BY <1>3, <1>4

-----------------------------------------------------------------------------
(* Types.                                                                  *)
LoopState == [image : Images \cup {"none"}, live : BOOLEAN, dying : BOOLEAN]
Device    == Loops \cup {d \in {Sda3} : "copy" \in Scripts}

ImageTypeOK ==
    /\ pc \in [Scripts -> Ended \cup Order]
    /\ \A s \in Scripts : pc[s] \in Ended \cup OrderOf(s)
    /\ disk \in [Scripts -> SUBSET (Formatted \cup Contents)]
    /\ fresh \subseteq Images
    /\ loop \in [Loops -> LoopState]
    /\ \A l \in Loops : loop[l].live => loop[l].image \in Images
    /\ loopback \in [Scripts -> Loops \cup {"none"}]
    /\ mounts \in Seq(Device)
    /\ mnt \in {"absent", "empty", "littered"}
    /\ crossed \subseteq Scripts /\ overtaken \subseteq Scripts /\ broken \subseteq Scripts

LEMMA Stack ==
    ASSUME NEW m \in Seq(Device)
    PROVE  /\ ToSet(m) \subseteq Device /\ (m = <<>> => ToSet(m) = {})
           /\ \A d \in Device : /\ Append(m, d) \in Seq(Device) /\ Append(m, d) # <<>>
                                /\ Last(Append(m, d)) = d /\ ToSet(Append(m, d)) = ToSet(m) \cup {d}
           /\ m # <<>> => /\ Front(m) \in Seq(Device) /\ Last(m) \in Device
                          /\ ToSet(m) = ToSet(Front(m)) \cup {Last(m)}
  <1>1. DOMAIN m = 1 .. Len(m) /\ Len(m) \in Nat /\ \A i \in 1 .. Len(m) : m[i] \in Device
    BY ElementOfSeq, LenProperties
  <1>2. ToSet(m) \subseteq Device /\ (m = <<>> => ToSet(m) = {})
    BY <1>1 DEF ToSet
  <1>3. ASSUME NEW d \in Device
        PROVE  /\ Append(m, d) \in Seq(Device) /\ Append(m, d) # <<>>
               /\ Last(Append(m, d)) = d /\ ToSet(Append(m, d)) = ToSet(m) \cup {d}
    <2> DEFINE n == Append(m, d)
    <2>1. n \in Seq(Device) /\ Len(n) = Len(m) + 1 /\ n[Len(m) + 1] = d
          /\ \A i \in 1 .. Len(m) : n[i] = m[i]
      BY <1>1
    <2>2. DOMAIN n = 1 .. Len(m) + 1
      BY <2>1, LenProperties
    <2> HIDE DEF n
    <2>3. n # <<>> /\ Last(n) = d
      BY <1>1, <2>1 DEF Last
    <2>4. \A i \in 1 .. Len(m) + 1 : i \in 1 .. Len(m) \/ i = Len(m) + 1
      BY <1>1
    <2>5. Len(m) + 1 \in 1 .. Len(m) + 1 /\ \A i \in 1 .. Len(m) : i \in 1 .. Len(m) + 1
      BY <1>1
    <2>6. ToSet(n) = ToSet(m) \cup {d}
      BY <1>1, <2>1, <2>2, <2>4, <2>5 DEF ToSet
    <2>7. QED
      BY <2>1, <2>3, <2>6 DEF n
  <1>4. ASSUME m # <<>>
        PROVE  /\ Front(m) \in Seq(Device) /\ Last(m) \in Device
               /\ ToSet(m) = ToSet(Front(m)) \cup {Last(m)}
    <2> DEFINE n == Front(m)
    <2>1. Len(m) >= 1 /\ Len(m) - 1 \in Nat
      BY <1>1, <1>4
    <2>2. n \in Seq(Device) /\ Len(n) = Len(m) - 1 /\ \A i \in 1 .. Len(m) - 1 : n[i] = m[i]
      <3>1. 1 \in Int /\ Len(m) - 1 \in Int /\ \A i \in 1 .. Len(m) - 1 : m[i] \in Device
        BY <1>1, <2>1
      <3>2. /\ SubSeq(m, 1, Len(m) - 1) \in Seq(Device)
            /\ Len(SubSeq(m, 1, Len(m) - 1)) = IF 1 <= Len(m) - 1 THEN Len(m) - 1 - 1 + 1 ELSE 0
            /\ \A i \in 1 .. Len(m) - 1 - 1 + 1 : SubSeq(m, 1, Len(m) - 1)[i] = m[1 + i - 1]
        BY <3>1, SubSeqProperties
      <3>3. /\ (IF 1 <= Len(m) - 1 THEN Len(m) - 1 - 1 + 1 ELSE 0) = Len(m) - 1
            /\ Len(m) - 1 - 1 + 1 = Len(m) - 1
            /\ \A i \in 1 .. Len(m) - 1 : 1 + i - 1 = i
        BY <1>1, <2>1
      <3>4. QED
        BY <3>2, <3>3 DEF Front
    <2>3. DOMAIN n = 1 .. Len(m) - 1
      BY <2>2, LenProperties
    <2> HIDE DEF n
    <2>4. Last(m) \in Device
      BY <1>1, <2>1 DEF Last
    <2>5. /\ \A i \in 1 .. Len(m) : i \in 1 .. Len(m) - 1 \/ i = Len(m)
          /\ \A i \in 1 .. Len(m) - 1 : i \in 1 .. Len(m)
          /\ Len(m) \in 1 .. Len(m)
      <3> DEFINE k == Len(m)
      <3>1. k \in Nat /\ k >= 1
        BY <1>1, <2>1
      <3> HIDE DEF k
      <3>2. /\ \A i \in 1 .. k : i \in 1 .. k - 1 \/ i = k
            /\ \A i \in 1 .. k - 1 : i \in 1 .. k
            /\ k \in 1 .. k
        BY ONLY <3>1
      <3>3. QED
        BY <3>2 DEF k
    <2>6. ToSet(m) = ToSet(n) \cup {Last(m)}
      BY <1>1, <2>2, <2>3, <2>5 DEF ToSet, Last
    <2>7. QED
      BY <2>2, <2>4, <2>6 DEF n
  <1>5. QED
    BY <1>2, <1>3, <1>4

LEMMA BehindIs ==
    ASSUME NEW s
    PROVE  /\ Behind(s, "detach") = "dd" /\ Behind(s, "dd") = "parted"
           /\ Behind(s, "parted") = "attach" /\ Behind(s, "attach") = "choose"
           /\ Behind(s, "choose") = "sfdisk" /\ Behind(s, "sfdisk") = "mkfs"
           /\ Behind(s, "mkfs") = "mkdir" /\ Behind(s, "mkdir") = "mount"
           /\ Behind(s, "mount") = "mkdir boot" /\ Behind(s, "mkdir boot") = "cp efi"
           /\ Behind(s, "cp efi") = "cp kernel" /\ Behind(s, "cp kernel") = "umount"
           /\ Behind(s, "umount") = "rmdir"
           /\ Behind(s, "rmdir") = IF s = "copy" THEN "done" ELSE "release"
           /\ Behind(s, "release") = "done"
  BY DEF Behind

(* What a command does to the place of its script.                         *)
Moves(s, c) ==
    /\ pc[s] = c /\ c \in OrderOf(s) /\ pc' = [pc EXCEPT ![s] = Behind(s, c)]
    /\ pc'[s] = Behind(s, c) /\ (\A t \in Scripts \ {s} : pc'[t] = pc[t])
    /\ pc' \in [Scripts -> Ended \cup Order]
    /\ \A t \in Scripts : pc'[t] \in Ended \cup OrderOf(t)

LEMMA AtMoves ==
    ASSUME ImageTypeOK, NEW s \in Scripts, NEW c \in Order, At(s, c)
    PROVE  Moves(s, c)
  <1>1. pc[s] = c /\ pc' = Advanced(s)
    BY DEF At
  <1>2. c \in OrderOf(s)
    <2>1. c \notin Ended
      BY DEF Order, Ended
    <2>2. QED
      BY <1>1, <2>1 DEF ImageTypeOK
  <1>3. pc' = [pc EXCEPT ![s] = Behind(s, c)]
    BY <1>1, <1>2, Advances
  <1>4. Behind(s, c) \in Ended \cup OrderOf(s)
    <2>1. CASE s = "copy"
      <3>1. c \in {"mkdir", "mount", "mkdir boot", "cp efi", "cp kernel", "umount", "rmdir"}
        BY <1>2, <2>1 DEF OrderOf
      <3>2. /\ Behind(s, "mkdir") = "mount" /\ Behind(s, "mount") = "mkdir boot"
            /\ Behind(s, "mkdir boot") = "cp efi" /\ Behind(s, "cp efi") = "cp kernel"
            /\ Behind(s, "cp kernel") = "umount" /\ Behind(s, "umount") = "rmdir"
            /\ Behind(s, "rmdir") = "done"
        BY <2>1, BehindIs
      <3>3. Behind(s, c) \in {"mount", "mkdir boot", "cp efi", "cp kernel", "umount", "rmdir", "done"}
        BY <3>1, <3>2
      <3>4. QED
        BY <2>1, <3>3 DEF OrderOf, Ended
    <2>2. CASE s # "copy"
      <3>1. OrderOf(s) = Order
        BY <2>2 DEF OrderOf
      <3>2. \A d \in Order : Behind(s, d) \in Order \cup {"done"}
        <4> SUFFICES ASSUME NEW d \in Order PROVE Behind(s, d) \in Order \cup {"done"}
          OBVIOUS
        <4>1. PICK k \in 1 .. 15 : MkImg[k] = d
          BY MkImgIs
        <4>2. k \in 1 .. 13 \/ k = 14 \/ k = 15
          OBVIOUS
        <4>3. \A j \in 1 .. 13 : j + 1 \in 1 .. 15 /\ MkImg[j + 1] \in Order
          BY MkImgIs
        <4>4. MkImg[15] \in Order
          BY MkImgIs
        <4>5. QED
          BY <2>2, <4>1, <4>2, <4>3, <4>4, MkImgIs
      <3>3. QED
        BY <3>1, <3>2 DEF Ended
    <2>3. QED
      BY <2>1, <2>2
  <1>5. OrderOf(s) \subseteq Order
    BY DEF OrderOf, Order
  <1>6. pc'[s] = Behind(s, c) /\ (\A t \in Scripts \ {s} : pc'[t] = pc[t])
        /\ pc' \in [Scripts -> Ended \cup Order]
    BY <1>3, <1>4, <1>5 DEF ImageTypeOK
  <1>7. \A t \in Scripts : pc'[t] \in Ended \cup OrderOf(t)
    BY <1>4, <1>6 DEF ImageTypeOK
  <1>8. QED
    BY <1>1, <1>2, <1>3, <1>6, <1>7 DEF Moves

-----------------------------------------------------------------------------
(* The invariant.  A device that waits to be detached is mounted.          *)
DyingMounted == \A l \in Loops : loop[l].dying => l \in Mounted

OwnDevice(s) == IF s = "copy" THEN Sda3 ELSE loopback[s]

(* A script nobody got in the way of is alone on mnt, and its own device   *)
(* is the visible one.                                                     *)
SectionInv(s) ==
    InSection(s) /\ s \notin crossed =>
        /\ \A t \in Scripts \ {s} : ~InSection(t)
        /\ mounts # <<>> /\ Last(mounts) = OwnDevice(s)

(* The device it has chosen holds its image; until it is formatted, it may *)
(* be one that waits to be detached, with the image of an earlier run.     *)
Working(s) == pc[s] \in {"mkfs", "mkdir", "mount", "mkdir boot", "cp efi", "cp kernel", "umount"}

ChosenInv(s) ==
    s \in Images /\ s \notin crossed =>
        /\ pc[s] = "sfdisk" \/ Working(s) => loopback[s] \in Loops /\ loop[loopback[s]].image = s
        /\ pc[s] = "sfdisk" => loop[loopback[s]].live \/ loop[loopback[s]].dying
        /\ Working(s) => loop[loopback[s]].live

ListedInv(s) ==
    s \in Images /\ pc[s] \notin Ended /\ pc[s] # "detach" =>
        \A l \in Loops : loop[l].image = s => loop[l].live \/ loop[l].dying

(* What its commands have put on its volume so far.                        *)
FilledAt(s, c) ==
    CASE c = "parted" -> {"file"}
      [] c \in {"attach", "choose", "sfdisk"} -> {"file", "label"}
      [] c = "mkfs" -> {"file", "label", "parts"}
      [] c \in {"mkdir", "mount", "mkdir boot", "cp efi"} -> Formatted
      [] c = "cp kernel" -> Formatted \cup {Efi(s)}
      [] c \in {"umount", "rmdir", "release"} -> Formatted \cup MadeOf(s)
      [] OTHER -> {}

Filled(s) == FilledAt(s, pc[s])

LEMMA FilledIs ==
    ASSUME NEW s
    PROVE  /\ FilledAt(s, "parted") = {"file"}
           /\ FilledAt(s, "attach") = {"file", "label"} /\ FilledAt(s, "choose") = {"file", "label"}
           /\ FilledAt(s, "sfdisk") = {"file", "label"}
           /\ FilledAt(s, "mkfs") = {"file", "label", "parts"}
           /\ FilledAt(s, "mkdir") = Formatted /\ FilledAt(s, "mount") = Formatted
           /\ FilledAt(s, "mkdir boot") = Formatted /\ FilledAt(s, "cp efi") = Formatted
           /\ FilledAt(s, "cp kernel") = Formatted \cup {Efi(s)}
           /\ FilledAt(s, "umount") = Formatted \cup MadeOf(s)
           /\ FilledAt(s, "rmdir") = Formatted \cup MadeOf(s)
           /\ FilledAt(s, "release") = Formatted \cup MadeOf(s)
           /\ FilledAt(s, "detach") = {} /\ FilledAt(s, "dd") = {}
           /\ \A c \in Ended : FilledAt(s, c) = {}
           /\ \A c : FilledAt(s, c) \subseteq Formatted \cup MadeOf(s)
  <1>1. /\ FilledAt(s, "parted") = {"file"}
        /\ FilledAt(s, "attach") = {"file", "label"} /\ FilledAt(s, "choose") = {"file", "label"}
        /\ FilledAt(s, "sfdisk") = {"file", "label"}
        /\ FilledAt(s, "mkfs") = {"file", "label", "parts"}
        /\ FilledAt(s, "mkdir") = Formatted /\ FilledAt(s, "mount") = Formatted
        /\ FilledAt(s, "mkdir boot") = Formatted /\ FilledAt(s, "cp efi") = Formatted
        /\ FilledAt(s, "cp kernel") = Formatted \cup {Efi(s)}
        /\ FilledAt(s, "umount") = Formatted \cup MadeOf(s)
        /\ FilledAt(s, "rmdir") = Formatted \cup MadeOf(s)
        /\ FilledAt(s, "release") = Formatted \cup MadeOf(s)
        /\ FilledAt(s, "detach") = {} /\ FilledAt(s, "dd") = {}
    BY DEF FilledAt
  <1>2. \A c \in Ended : FilledAt(s, c) = {}
    BY DEF FilledAt, Ended
  <1>3. \A c : FilledAt(s, c) \subseteq Formatted \cup MadeOf(s)
    BY DEF FilledAt, Formatted, MadeOf
  <1>4. QED
    BY <1>1, <1>2, <1>3

FilledInv(s) == s \notin crossed /\ s \notin overtaken => Filled(s) \subseteq disk[s]

(* Behind its rmdir no device of the image is mounted.                     *)
ReleaseInv(s) ==
    s \in Images /\ s \notin crossed /\ pc[s] = "release" =>
        \A l \in Loops : loop[l].image = s => l \notin Mounted

(* An image nobody works on is broken, or no device holds it and it is     *)
(* complete or older than its sources.                                     *)
Resting(s) == pc[s] \in Ended \/ pc[s] = "detach" \/ pc[s] = "dd"

SettledInv(s) ==
    s \in Images /\ Resting(s) /\ "file" \in disk[s] =>
        \/ s \in broken \/ s \in crossed \/ s \in overtaken
        \/ (\A l \in Loops : loop[l].image # s) /\ (s \in fresh => Complete(s))

ScriptInv(s) == /\ SectionInv(s) /\ ChosenInv(s) /\ ListedInv(s) /\ FilledInv(s)
                /\ ReleaseInv(s) /\ SettledInv(s)

CopyInv == "copy" \in Scripts => Formatted \subseteq disk["copy"]

ImageInv == ImageTypeOK /\ DyingMounted /\ CopyInv /\ \A s \in Scripts : ScriptInv(s)

(* A step that is none of t's own and does not get in its way.             *)
Undisturbed(t) ==
    /\ pc'[t] = pc[t] /\ loopback'[t] = loopback[t]
    /\ t \in crossed => t \in crossed'
    /\ t \in overtaken' <=> t \in overtaken
    /\ t \in broken' <=> t \in broken
    /\ \A l \in Loops : loop'[l].image = t => loop'[l] = loop[l]
    /\ t \notin crossed' =>
          /\ disk'[t] = disk[t]
          /\ t \in fresh' => t \in fresh \/ \E l \in Loops : loop[l].image = t
          /\ pc[t] = "sfdisk" \/ Working(t) =>
                (loopback[t] \in Loops /\ loop[loopback[t]].image = t =>
                    loop'[loopback[t]] = loop[loopback[t]])
          /\ InSection(t) =>
                /\ mounts # <<>> => mounts' # <<>> /\ Last(mounts') = Last(mounts)
                /\ \A u \in Scripts \ {t} : InSection(u)' => InSection(u)
          /\ pc[t] = "release" => \A l \in Loops : loop[l].image = t /\ l \in Mounted' => l \in Mounted

LEMMA OtherKeeps ==
    ASSUME NEW t \in Scripts, ScriptInv(t), Undisturbed(t)
    PROVE  ScriptInv(t)'
  <1>1. SectionInv(t)'
    BY DEF ScriptInv, SectionInv, Undisturbed, InSection, OwnDevice
  <1>2. ChosenInv(t)'
    BY DEF ScriptInv, ChosenInv, Undisturbed, Working
  <1>3. ListedInv(t)'
    BY DEF ScriptInv, ListedInv, Undisturbed
  <1>4. FilledInv(t)'
    BY DEF ScriptInv, FilledInv, Undisturbed, Filled
  <1>5. ReleaseInv(t)'
    BY DEF ScriptInv, ReleaseInv, Undisturbed
  <1>6. SettledInv(t)'
    BY DEF ScriptInv, SettledInv, Undisturbed, Resting, Complete
  <1>7. QED
    BY <1>1, <1>2, <1>3, <1>4, <1>5, <1>6 DEF ScriptInv

LEMMA ImageInit == Init => ImageInv
  <1> SUFFICES ASSUME Init PROVE ImageInv
    OBVIOUS
  <1>1. ImageTypeOK
    <2>1. Unused \in LoopState
      BY DEF Unused, LoopState
    <2>2. "idle" \in Ended
      BY DEF Ended
    <2>3. mounts \in Seq(Device)
      BY DEF Init
    <2>4. disk \in [Scripts -> SUBSET (Formatted \cup Contents)]
      BY DEF Init, Contents
    <2>5. QED
      BY <2>1, <2>2, <2>3, <2>4 DEF Init, ImageTypeOK, Unused
  <1>2. DyingMounted /\ CopyInv
    BY DEF Init, DyingMounted, CopyInv, Unused
  <1>3. ASSUME NEW s \in Scripts PROVE ScriptInv(s)
    <2>1. pc[s] = "idle" /\ (s \in Images => disk[s] = {})
      BY DEF Init, Images
    <2>2. SectionInv(s) /\ ChosenInv(s) /\ ListedInv(s) /\ ReleaseInv(s) /\ SettledInv(s)
      BY <2>1 DEF SectionInv, ChosenInv, ListedInv, ReleaseInv, SettledInv, InSection, Working, Ended
    <2>3. FilledInv(s)
      BY <2>1, FilledIs DEF FilledInv, Filled, Ended
    <2>4. QED
      BY <2>2, <2>3 DEF ScriptInv
  <1>4. QED
    BY <1>1, <1>2, <1>3 DEF ImageInv

-----------------------------------------------------------------------------
(* The operators of the actions.                                           *)
LEMMA OnIs ==
    ASSUME ImageTypeOK
    PROVE  /\ On(Sda3) = {"copy"}
           /\ \A l \in Loops : /\ On(l) = IF loop[l].live THEN {loop[l].image} ELSE {}
                               /\ On(l) \subseteq Images
  BY LoopsAssumption DEF On, ImageTypeOK

LEMMA ChangeIs ==
    ASSUME ImageTypeOK, NEW vs, NEW old, NEW new \in SUBSET (Formatted \cup Contents),
           Change(vs, old, new)
    PROVE  /\ disk' \in [Scripts -> SUBSET (Formatted \cup Contents)]
           /\ \A v \in Scripts : disk'[v] = IF v \in vs THEN (disk[v] \ old) \cup new ELSE disk[v]
           /\ fresh' = fresh \cup (vs \cap Images) /\ fresh' \subseteq Images
  BY DEF ImageTypeOK, Change

LEMMA DetachedIs ==
    ASSUME ImageTypeOK, NEW ls \in SUBSET Loops
    PROVE  /\ Detached(ls) \in [Loops -> LoopState]
           /\ \A l \in Loops :
                 /\ l \notin ls => Detached(ls)[l] = loop[l]
                 /\ l \in ls /\ l \in Mounted => /\ Detached(ls)[l].image = loop[l].image
                                                 /\ Detached(ls)[l].live = loop[l].live
                                                 /\ Detached(ls)[l].dying
                 /\ l \in ls /\ l \notin Mounted => Detached(ls)[l] = Unused
  <1>1. Unused \in LoopState
    BY DEF Unused, LoopState
  <1>2. \A l \in Loops : /\ [loop[l] EXCEPT !.dying = TRUE] \in LoopState
                         /\ [loop[l] EXCEPT !.dying = TRUE].image = loop[l].image
                         /\ [loop[l] EXCEPT !.dying = TRUE].live = loop[l].live
                         /\ [loop[l] EXCEPT !.dying = TRUE].dying
    BY DEF ImageTypeOK, LoopState
  <1>3. QED
    BY <1>1, <1>2 DEF ImageTypeOK, Detached

LEMMA DeletedIs ==
    ASSUME ImageTypeOK, NEW images \in SUBSET Images, Deleted(images)
    PROVE  /\ disk' \in [Scripts -> SUBSET (Formatted \cup Contents)]
           /\ \A v \in Scripts : disk'[v] = IF v \in images THEN {} ELSE disk[v]
           /\ loop' \in [Loops -> LoopState]
           /\ \A l \in Loops : /\ loop'[l].image = loop[l].image /\ loop'[l].dying = loop[l].dying
                               /\ loop'[l].live => loop[l].live
                               /\ loop[l].image \notin images => loop'[l] = loop[l]
  <1>1. \A l \in Loops : /\ [loop[l] EXCEPT !.live = FALSE] \in LoopState
                         /\ [loop[l] EXCEPT !.live = FALSE].image = loop[l].image
                         /\ [loop[l] EXCEPT !.live = FALSE].dying = loop[l].dying
                         /\ ~[loop[l] EXCEPT !.live = FALSE].live
    BY DEF ImageTypeOK, LoopState
  <1>2. QED
    BY <1>1 DEF ImageTypeOK, Deleted

(* Only a device that waits to be detached goes, and only with its mount.  *)
LEMMA UnmountedIs ==
    ASSUME ImageTypeOK, DyingMounted, Unmounted
    PROVE  /\ mounts # <<>> /\ mounts' = Front(mounts) /\ mounts' \in Seq(Device)
           /\ Last(mounts) \in Device /\ Mounted = Mounted' \cup {Last(mounts)}
           /\ fresh' \subseteq Images /\ fresh \subseteq fresh'
           /\ fresh' = fresh \cup (On(Last(mounts)) \cap Images)
           /\ loop' \in [Loops -> LoopState]
           /\ \A l \in Loops : /\ loop'[l] = loop[l] \/ loop'[l] = Unused
                               /\ l # Last(mounts) => loop'[l] = loop[l]
                               /\ loop'[l].dying => l \in Mounted'
  <1>1. /\ mounts # <<>> /\ mounts' = Front(mounts)
        /\ fresh' = fresh \cup (On(Last(mounts)) \cap Images)
        /\ loop' = [l \in Loops |-> IF loop[l].dying /\ l \notin ToSet(mounts') THEN Unused ELSE loop[l]]
    BY DEF Unmounted
  <1>2. /\ mounts' \in Seq(Device) /\ Last(mounts) \in Device
        /\ ToSet(mounts) = ToSet(mounts') \cup {Last(mounts)}
    BY <1>1, Stack DEF ImageTypeOK
  <1>3. Unused \in LoopState /\ ~Unused.dying
    BY DEF Unused, LoopState
  <1>4. loop' \in [Loops -> LoopState]
    BY <1>1, <1>3 DEF ImageTypeOK
  <1>5. ASSUME NEW l \in Loops
        PROVE  /\ loop'[l] = loop[l] \/ loop'[l] = Unused
               /\ l # Last(mounts) => loop'[l] = loop[l]
               /\ loop'[l].dying => l \in ToSet(mounts')
    <2>1. loop'[l] = IF loop[l].dying /\ l \notin ToSet(mounts') THEN Unused ELSE loop[l]
      BY <1>1
    <2>2. loop[l].dying => l \in ToSet(mounts)
      BY DEF DyingMounted, Mounted
    <2>3. QED
      BY <1>2, <1>3, <2>1, <2>2
  <1>6. QED
    BY <1>1, <1>2, <1>4, <1>5 DEF Mounted, ImageTypeOK

LEMMA FirstCommand ==
    ASSUME NEW s \in Scripts
    PROVE  Head(Commands(s)) = IF s = "copy" THEN "mkdir" ELSE "detach"
  <1>1. CASE s = "copy"
    <2>1. /\ CpToDisk \in Seq(Order) /\ Len(CpToDisk) = 7 /\ CpToDisk[1] = MkImg[8]
      <3>1. /\ SubSeq(MkImg, 8, 14) \in Seq(Order) /\ Len(SubSeq(MkImg, 8, 14)) = 7
            /\ \A i \in 1 .. 7 : SubSeq(MkImg, 8, 14)[i] = MkImg[i + 7]
        BY MkImgIs, Middle
      <3>2. 1 \in 1 .. 7 /\ 1 + 7 = 8
        OBVIOUS
      <3>3. QED
        BY <3>1, <3>2 DEF CpToDisk
    <2>2. MkImg[8] = "mkdir"
      BY DEF MkImg
    <2>3. Head(CpToDisk) = CpToDisk[1]
      BY <2>1, HeadTailProperties
    <2>4. QED
      BY <1>1, <2>1, <2>2, <2>3 DEF Commands
  <1>2. CASE s # "copy"
    <2>1. Head(MkImg) = "detach"
      BY DEF MkImg
    <2>2. QED
      BY <1>2, <2>1 DEF Commands
  <1>3. QED
    BY <1>1, <1>2

(* A step of s.                                                            *)
LEMMA StepOf ==
    ASSUME ImageInv, NEW s \in Scripts, ImageTypeOK', DyingMounted', CopyInv', ScriptInv(s)',
           \A t \in Scripts \ {s} : Undisturbed(t)
    PROVE  ImageInv'
  <1>1. \A t \in Scripts \ {s} : ScriptInv(t)'
    BY OtherKeeps DEF ImageInv
  <1>2. QED
    BY <1>1 DEF ImageInv

-----------------------------------------------------------------------------
(* The steps.  InSection and Working by the place of a script.             *)
LEMMA StartKeeps == ASSUME ImageInv, NEW s \in Scripts, Start(s) PROVE ImageInv'
  <1>1. /\ pc[s] \in Ended
        /\ pc' = [pc EXCEPT ![s] = IF s = "copy" THEN "mkdir" ELSE "detach"]
        /\ s # "copy" => crossed' = crossed /\ overtaken' = overtaken /\ broken' = broken
        /\ s = "copy" => crossed' = crossed \ {s} /\ overtaken' = overtaken \ {s} /\ broken' = broken \ {s}
        /\ loopback' = [loopback EXCEPT ![s] = "none"]
        /\ disk' = disk /\ fresh' = fresh /\ loop' = loop /\ mounts' = mounts /\ mnt' = mnt
    BY FirstCommand DEF Start, Running, Afresh
  <1>2. ImageTypeOK /\ ScriptInv(s) /\ DyingMounted /\ CopyInv
    BY DEF ImageInv
  <1>3. ImageTypeOK'
    BY <1>1, <1>2 DEF ImageTypeOK, OrderOf, Order
  <1>4. DyingMounted' /\ CopyInv'
    BY <1>1, <1>2 DEF DyingMounted, CopyInv, Mounted
  <1>5. pc'[s] = IF s = "copy" THEN "mkdir" ELSE "detach"
    BY <1>1, <1>2 DEF ImageTypeOK
  <1>6. ScriptInv(s)'
    <2>1. SectionInv(s)' /\ ListedInv(s)' /\ ReleaseInv(s)'
      BY <1>5 DEF SectionInv, ListedInv, ReleaseInv, InSection, Images
    <2>2. ChosenInv(s)'
      BY <1>5 DEF ChosenInv, Working, Images
    <2>3. FilledInv(s)'
      <3>1. CASE s = "copy"
        BY <1>1, <1>2, <1>5, <3>1, FilledIs DEF FilledInv, Filled, CopyInv
      <3>2. CASE s # "copy"
        BY <1>5, <3>2, FilledIs DEF FilledInv, Filled
      <3>3. QED
        BY <3>1, <3>2
    <2>4. SettledInv(s)'
      BY <1>1, <1>2, <1>5 DEF ScriptInv, SettledInv, Resting, Complete, Images, Ended
    <2>5. QED
      BY <2>1, <2>2, <2>3, <2>4 DEF ScriptInv
  <1>7. ASSUME NEW t \in Scripts \ {s} PROVE Undisturbed(t)
    <2>1. pc'[t] = pc[t] /\ loopback'[t] = loopback[t]
      BY <1>1, <1>2 DEF ImageTypeOK
    <2>2. \A u \in Scripts : InSection(u)' => InSection(u)
      BY <1>1, <1>2 DEF InSection, ImageTypeOK
    <2>3. QED
      BY <1>1, <2>1, <2>2 DEF Undisturbed, Mounted
  <1>8. QED
    BY <1>3, <1>4, <1>6, <1>7, StepOf

LEMMA DetachKeeps == ASSUME ImageInv, NEW s \in Scripts, Detach(s) PROVE ImageInv'
  <1>1. /\ Moves(s, "detach") /\ loop' = Detached(Listed(s))
        /\ disk' = disk /\ fresh' = fresh /\ loopback' = loopback /\ mounts' = mounts /\ mnt' = mnt
        /\ crossed' = crossed /\ overtaken' = overtaken /\ broken' = broken
    BY AtMoves DEF ImageInv, Detach, history, Order
  <1>2. ImageTypeOK /\ ScriptInv(s) /\ DyingMounted /\ CopyInv
    BY DEF ImageInv
  <1>3. pc[s] = "detach" /\ s \in Images /\ pc'[s] = "dd" /\ \A t \in Scripts \ {s} : pc'[t] = pc[t]
    BY <1>1, BehindIs DEF Moves, OrderOf, Images
  <1>4. /\ loop' \in [Loops -> LoopState]
        /\ \A l \in Loops : /\ loop[l].image # s => loop'[l] = loop[l]
                            /\ loop[l].image = s /\ l \in Mounted =>
                                  /\ loop'[l].image = s /\ loop'[l].live = loop[l].live /\ loop'[l].dying
                            /\ loop[l].image = s /\ l \notin Mounted => loop'[l] = Unused
    BY <1>1, <1>2, DetachedIs DEF Listed
  <1>5. Unused.image = "none" /\ ~Unused.live /\ ~Unused.dying /\ \A t \in Scripts : t # "none"
    BY ScriptsAssumption DEF Unused
  <1>6. ImageTypeOK'
    BY <1>1, <1>2, <1>3, <1>4, <1>5 DEF ImageTypeOK, Moves
  <1>7. DyingMounted' /\ CopyInv'
    BY <1>1, <1>2, <1>4, <1>5 DEF DyingMounted, CopyInv, Mounted
  <1>8. ScriptInv(s)'
    <2>1. SectionInv(s)' /\ ReleaseInv(s)'
      BY <1>3 DEF SectionInv, ReleaseInv, InSection
    <2>2. ListedInv(s)'
      BY <1>4, <1>5 DEF ListedInv
    <2>3. ChosenInv(s)'
      BY <1>3 DEF ChosenInv, Working
    <2>4. FilledInv(s)'
      BY <1>3, FilledIs DEF FilledInv, Filled
    <2>5. SettledInv(s)'
      BY <1>1, <1>2, <1>3, <1>4, <1>5 DEF ScriptInv, SettledInv, Resting, Complete
    <2>6. QED
      BY <2>1, <2>2, <2>3, <2>4, <2>5 DEF ScriptInv
  <1>9. ASSUME NEW t \in Scripts \ {s} PROVE Undisturbed(t)
    <2>1. \A l \in Loops : loop'[l].image = t => loop'[l] = loop[l]
      BY <1>4, <1>5
    <2>2. \A l \in Loops : loop[l].image = t => loop'[l] = loop[l]
      BY <1>4
    <2>3. \A u \in Scripts : InSection(u)' => InSection(u)
      BY <1>3 DEF InSection
    <2>4. QED
      BY <1>1, <1>3, <2>1, <2>2, <2>3 DEF Undisturbed, Mounted
  <1>10. QED
    BY <1>6, <1>7, <1>8, <1>9, StepOf

LEMMA AttachKeeps == ASSUME ImageInv, NEW s \in Scripts, Attach(s) PROVE ImageInv'
  <1>1. PICK d \in Loops : loop[d] = Unused /\ loop' = [loop EXCEPT ![d] = Attached(s)]
    BY DEF Attach
  <1>2. /\ Moves(s, "attach")
        /\ disk' = disk /\ fresh' = fresh /\ loopback' = loopback /\ mounts' = mounts /\ mnt' = mnt
        /\ crossed' = crossed /\ overtaken' = overtaken /\ broken' = broken
    BY AtMoves DEF ImageInv, Attach, history, Order
  <1>3. ImageTypeOK /\ ScriptInv(s) /\ DyingMounted /\ CopyInv
    BY DEF ImageInv
  <1>4. pc[s] = "attach" /\ s \in Images /\ pc'[s] = "choose" /\ \A t \in Scripts \ {s} : pc'[t] = pc[t]
    BY <1>2, BehindIs DEF Moves, OrderOf, Images
  <1>5. Unused.image = "none" /\ \A t \in Scripts : t # "none"
    BY ScriptsAssumption DEF Unused
  <1>6. /\ loop' \in [Loops -> LoopState]
        /\ \A l \in Loops : l # d => loop'[l] = loop[l]
        /\ loop'[d].image = s /\ loop'[d].live /\ ~loop'[d].dying
    BY <1>1, <1>3, <1>4 DEF Attached, LoopState, ImageTypeOK
  <1>7. ImageTypeOK'
    BY <1>2, <1>3, <1>4, <1>6 DEF ImageTypeOK, Moves
  <1>8. DyingMounted' /\ CopyInv'
    BY <1>2, <1>3, <1>6 DEF DyingMounted, CopyInv, Mounted
  <1>9. ScriptInv(s)'
    <2>1. SectionInv(s)' /\ ReleaseInv(s)'
      BY <1>4 DEF SectionInv, ReleaseInv, InSection
    <2>2. ListedInv(s)'
      BY <1>3, <1>4, <1>6 DEF ScriptInv, ListedInv, Ended
    <2>3. ChosenInv(s)'
      BY <1>4 DEF ChosenInv, Working
    <2>4. FilledInv(s)'
      BY <1>2, <1>3, <1>4, FilledIs DEF ScriptInv, FilledInv, Filled
    <2>5. SettledInv(s)'
      BY <1>4 DEF SettledInv, Resting, Ended
    <2>6. QED
      BY <2>1, <2>2, <2>3, <2>4, <2>5 DEF ScriptInv
  <1>10. ASSUME NEW t \in Scripts \ {s} PROVE Undisturbed(t)
    <2>1. \A l \in Loops : loop'[l].image = t => loop'[l] = loop[l]
      BY <1>6
    <2>2. \A l \in Loops : loop[l].image = t => loop'[l] = loop[l]
      BY <1>1, <1>5, <1>6
    <2>3. \A u \in Scripts : InSection(u)' => InSection(u)
      BY <1>4 DEF InSection
    <2>4. QED
      BY <1>2, <1>4, <2>1, <2>2, <2>3 DEF Undisturbed, Mounted
  <1>11. QED
    BY <1>7, <1>8, <1>9, <1>10, StepOf

LEMMA ZeroKeeps == ASSUME ImageInv, NEW s \in Scripts, Zero(s) PROVE ImageInv'
  <1>1. /\ Moves(s, "dd") /\ Change({s}, disk[s], {"file"})
        /\ crossed' = crossed \ {s} /\ overtaken' = overtaken \ {s} /\ broken' = broken \ {s}
        /\ loop' = loop /\ loopback' = loopback /\ mounts' = mounts /\ mnt' = mnt
    BY AtMoves DEF ImageInv, Zero, Afresh, Order
  <1>2. ImageTypeOK /\ ScriptInv(s) /\ DyingMounted /\ CopyInv
    BY DEF ImageInv
  <1>3. /\ pc[s] = "dd" /\ s \in Images /\ s # "copy" /\ pc'[s] = "parted"
        /\ \A t \in Scripts \ {s} : pc'[t] = pc[t]
    BY <1>1, BehindIs DEF Moves, OrderOf, Images
  <1>4. /\ disk' \in [Scripts -> SUBSET (Formatted \cup Contents)]
        /\ disk'[s] = {"file"} /\ \A t \in Scripts \ {s} : disk'[t] = disk[t]
        /\ fresh' \subseteq Images /\ \A t \in Scripts \ {s} : t \in fresh' => t \in fresh
    <2>1. {"file"} \in SUBSET (Formatted \cup Contents)
      BY DEF Formatted
    <2>2. /\ disk' \in [Scripts -> SUBSET (Formatted \cup Contents)]
          /\ \A v \in Scripts : disk'[v] = IF v \in {s} THEN (disk[v] \ disk[s]) \cup {"file"} ELSE disk[v]
          /\ fresh' = fresh \cup ({s} \cap Images) /\ fresh' \subseteq Images
      BY <1>1, <1>2, <2>1, ChangeIs
    <2>3. QED
      BY <2>2
  <1>5. ImageTypeOK'
    BY <1>1, <1>2, <1>4 DEF ImageTypeOK, Moves
  <1>6. DyingMounted' /\ CopyInv'
    BY <1>1, <1>2, <1>3, <1>4 DEF DyingMounted, CopyInv, Mounted
  <1>7. ScriptInv(s)'
    <2>1. SectionInv(s)' /\ ReleaseInv(s)' /\ ChosenInv(s)'
      BY <1>3 DEF SectionInv, ReleaseInv, ChosenInv, InSection, Working
    <2>2. ListedInv(s)'
      BY <1>1, <1>2, <1>3 DEF ScriptInv, ListedInv, Ended
    <2>3. FilledInv(s)'
      BY <1>3, <1>4, FilledIs DEF FilledInv, Filled
    <2>4. SettledInv(s)'
      BY <1>3 DEF SettledInv, Resting, Ended
    <2>5. QED
      BY <2>1, <2>2, <2>3, <2>4 DEF ScriptInv
  <1>8. ASSUME NEW t \in Scripts \ {s} PROVE Undisturbed(t)
    <2>1. \A u \in Scripts : InSection(u)' => InSection(u)
      BY <1>3 DEF InSection
    <2>2. QED
      BY <1>1, <1>3, <1>4, <2>1 DEF Undisturbed, Mounted
  <1>9. QED
    BY <1>5, <1>6, <1>7, <1>8, StepOf

LEMMA LabelKeeps == ASSUME ImageInv, NEW s \in Scripts, Label(s) PROVE ImageInv'
  <1>1. /\ Moves(s, "parted") /\ Change({s}, {}, {"label"})
        /\ crossed' = crossed /\ overtaken' = overtaken /\ broken' = broken
        /\ loop' = loop /\ loopback' = loopback /\ mounts' = mounts /\ mnt' = mnt
    BY AtMoves DEF ImageInv, Label, devices, history, Order
  <1>2. ImageTypeOK /\ ScriptInv(s) /\ DyingMounted /\ CopyInv
    BY DEF ImageInv
  <1>3. /\ pc[s] = "parted" /\ s \in Images /\ s # "copy" /\ pc'[s] = "attach"
        /\ \A t \in Scripts \ {s} : pc'[t] = pc[t]
    BY <1>1, BehindIs DEF Moves, OrderOf, Images
  <1>4. /\ disk' \in [Scripts -> SUBSET (Formatted \cup Contents)]
        /\ disk'[s] = disk[s] \cup {"label"} /\ \A t \in Scripts \ {s} : disk'[t] = disk[t]
        /\ fresh' \subseteq Images /\ \A t \in Scripts \ {s} : t \in fresh' => t \in fresh
    <2>1. {"label"} \in SUBSET (Formatted \cup Contents)
      BY DEF Formatted
    <2>2. /\ disk' \in [Scripts -> SUBSET (Formatted \cup Contents)]
          /\ \A v \in Scripts : disk'[v] = IF v \in {s} THEN (disk[v] \ {}) \cup {"label"} ELSE disk[v]
          /\ fresh' = fresh \cup ({s} \cap Images) /\ fresh' \subseteq Images
      BY <1>1, <1>2, <2>1, ChangeIs
    <2>3. QED
      BY <2>2
  <1>5. ImageTypeOK'
    BY <1>1, <1>2, <1>4 DEF ImageTypeOK, Moves
  <1>6. DyingMounted' /\ CopyInv'
    BY <1>1, <1>2, <1>3, <1>4 DEF DyingMounted, CopyInv, Mounted
  <1>7. ScriptInv(s)'
    <2>1. SectionInv(s)' /\ ReleaseInv(s)' /\ ChosenInv(s)'
      BY <1>3 DEF SectionInv, ReleaseInv, ChosenInv, InSection, Working
    <2>2. ListedInv(s)'
      BY <1>1, <1>2, <1>3 DEF ScriptInv, ListedInv, Ended
    <2>3. FilledInv(s)'
      <3>1. Filled(s) = {"file"} /\ Filled(s)' = {"file", "label"}
        BY <1>3, FilledIs DEF Filled
      <3>2. QED
        BY <1>1, <1>2, <1>4, <3>1 DEF ScriptInv, FilledInv
    <2>4. SettledInv(s)'
      BY <1>3 DEF SettledInv, Resting, Ended
    <2>5. QED
      BY <2>1, <2>2, <2>3, <2>4 DEF ScriptInv
  <1>8. ASSUME NEW t \in Scripts \ {s} PROVE Undisturbed(t)
    <2>1. \A u \in Scripts : InSection(u)' => InSection(u)
      BY <1>3 DEF InSection
    <2>2. QED
      BY <1>1, <1>3, <1>4, <2>1 DEF Undisturbed, Mounted
  <1>9. QED
    BY <1>5, <1>6, <1>7, <1>8, StepOf

LEMMA ChooseKeeps == ASSUME ImageInv, NEW s \in Scripts, Choose(s) PROVE ImageInv'
  <1>1. PICK d \in Listed(s) : loopback' = [loopback EXCEPT ![s] = d]
    BY DEF Choose
  <1>2. /\ Moves(s, "choose")
        /\ crossed' = crossed /\ overtaken' = overtaken /\ broken' = broken
        /\ disk' = disk /\ fresh' = fresh /\ loop' = loop /\ mounts' = mounts /\ mnt' = mnt
    BY AtMoves DEF ImageInv, Choose, history, Order
  <1>3. ImageTypeOK /\ ScriptInv(s) /\ DyingMounted /\ CopyInv
    BY DEF ImageInv
  <1>4. /\ pc[s] = "choose" /\ s \in Images /\ pc'[s] = "sfdisk"
        /\ \A t \in Scripts \ {s} : pc'[t] = pc[t]
    BY <1>2, BehindIs DEF Moves, OrderOf, Images
  <1>5. /\ d \in Loops /\ loop[d].image = s
        /\ loopback' \in [Scripts -> Loops \cup {"none"}]
        /\ loopback'[s] = d /\ \A t \in Scripts \ {s} : loopback'[t] = loopback[t]
    BY <1>1, <1>3 DEF Listed, ImageTypeOK
  <1>6. ImageTypeOK'
    BY <1>2, <1>3, <1>5 DEF ImageTypeOK, Moves
  <1>7. DyingMounted' /\ CopyInv'
    BY <1>2, <1>3 DEF DyingMounted, CopyInv, Mounted
  <1>8. ScriptInv(s)'
    <2>1. SectionInv(s)' /\ ReleaseInv(s)'
      BY <1>4 DEF SectionInv, ReleaseInv, InSection
    <2>2. ListedInv(s)' /\ (loop[d].live \/ loop[d].dying)
      BY <1>2, <1>3, <1>4, <1>5 DEF ScriptInv, ListedInv, Ended
    <2>3. ChosenInv(s)'
      BY <1>2, <1>4, <1>5, <2>2 DEF ChosenInv, Working
    <2>4. FilledInv(s)'
      BY <1>2, <1>3, <1>4, FilledIs DEF ScriptInv, FilledInv, Filled
    <2>5. SettledInv(s)'
      BY <1>4 DEF SettledInv, Resting, Ended
    <2>6. QED
      BY <2>1, <2>2, <2>3, <2>4, <2>5 DEF ScriptInv
  <1>9. ASSUME NEW t \in Scripts \ {s} PROVE Undisturbed(t)
    <2>1. \A u \in Scripts : InSection(u)' => InSection(u)
      BY <1>4 DEF InSection
    <2>2. QED
      BY <1>2, <1>4, <1>5, <2>1 DEF Undisturbed, Mounted
  <1>10. QED
    BY <1>6, <1>7, <1>8, <1>9, StepOf

LEMMA MkdirKeeps == ASSUME ImageInv, NEW s \in Scripts, Mkdir(s) PROVE ImageInv'
  <1>1. /\ Moves(s, "mkdir") /\ mnt' = IF mnt = "absent" THEN "empty" ELSE mnt
        /\ crossed' = crossed /\ overtaken' = overtaken /\ broken' = broken
        /\ disk' = disk /\ fresh' = fresh /\ loop' = loop /\ loopback' = loopback /\ mounts' = mounts
    BY AtMoves DEF ImageInv, Mkdir, history, Order
  <1>2. ImageTypeOK /\ ScriptInv(s) /\ DyingMounted /\ CopyInv
    BY DEF ImageInv
  <1>3. pc[s] = "mkdir" /\ pc'[s] = "mount" /\ \A t \in Scripts \ {s} : pc'[t] = pc[t]
    BY <1>1, BehindIs DEF Moves
  <1>4. ImageTypeOK'
    BY <1>1, <1>2 DEF ImageTypeOK, Moves
  <1>5. DyingMounted' /\ CopyInv'
    BY <1>1, <1>2 DEF DyingMounted, CopyInv, Mounted
  <1>6. ScriptInv(s)'
    <2>1. SectionInv(s)' /\ ReleaseInv(s)'
      BY <1>3 DEF SectionInv, ReleaseInv, InSection
    <2>2. ListedInv(s)'
      BY <1>1, <1>2, <1>3 DEF ScriptInv, ListedInv, Ended
    <2>3. ChosenInv(s)'
      BY <1>1, <1>2, <1>3 DEF ScriptInv, ChosenInv, Working
    <2>4. FilledInv(s)'
      BY <1>1, <1>2, <1>3, FilledIs DEF ScriptInv, FilledInv, Filled
    <2>5. SettledInv(s)'
      BY <1>3 DEF SettledInv, Resting, Ended
    <2>6. QED
      BY <2>1, <2>2, <2>3, <2>4, <2>5 DEF ScriptInv
  <1>7. ASSUME NEW t \in Scripts \ {s} PROVE Undisturbed(t)
    <2>1. \A u \in Scripts : InSection(u)' => InSection(u)
      BY <1>3 DEF InSection
    <2>2. QED
      BY <1>1, <1>3, <2>1 DEF Undisturbed, Mounted
  <1>8. QED
    BY <1>4, <1>5, <1>6, <1>7, StepOf

LEMMA FormatKeeps ==
    ASSUME ImageInv, NEW s \in Scripts, NEW c \in {"sfdisk", "mkfs"},
           NEW old, NEW new \in SUBSET (Formatted \cup Contents), Format(s, c, old, new),
           FilledAt(s, Behind(s, c)) \subseteq (FilledAt(s, c) \ old) \cup new
    PROVE  ImageInv'
  <1> DEFINE d == loopback[s]
  <1>1. /\ Moves(s, c) /\ Change(On(d), old, new)
        /\ Usable(d) /\ d \notin Mounted /\ crossed' = crossed \cup (On(d) \ {s})
        /\ overtaken' = overtaken /\ broken' = broken
        /\ loop' = loop /\ loopback' = loopback /\ mounts' = mounts /\ mnt' = mnt
    BY AtMoves DEF ImageInv, Format, history, Order
  <1>2. ImageTypeOK /\ ScriptInv(s) /\ DyingMounted /\ CopyInv
    BY DEF ImageInv
  <1>3. /\ pc[s] = c /\ s \in Images /\ pc'[s] = (IF c = "sfdisk" THEN "mkfs" ELSE "mkdir")
        /\ \A t \in Scripts \ {s} : pc'[t] = pc[t]
    <2>1. c = "sfdisk" \/ c = "mkfs"
      OBVIOUS
    <2>2. s \in Images
      BY <1>1, <2>1 DEF Moves, OrderOf, Images
    <2>3. Behind(s, c) = IF c = "sfdisk" THEN "mkfs" ELSE "mkdir"
      BY <2>1, BehindIs
    <2>4. QED
      BY <1>1, <2>2, <2>3 DEF Moves
  <1>4. d \in Loops /\ ~loop[d].dying
    <2>1. d \in Loops
      BY <1>1, <1>2, LoopsAssumption DEF Usable, ImageTypeOK, Sda3
    <2>2. QED
      BY <1>1, <1>2, <2>1 DEF DyingMounted
  <1>5. On(d) = (IF loop[d].live THEN {loop[d].image} ELSE {}) /\ On(d) \subseteq Images
    BY <1>2, <1>4, OnIs
  <1>6. s \notin crossed => loop[d].live /\ loop[d].image = s
    BY <1>2, <1>3, <1>4 DEF ScriptInv, ChosenInv, Working
  <1> HIDE DEF d
  <1>7. /\ disk' \in [Scripts -> SUBSET (Formatted \cup Contents)]
        /\ \A v \in Scripts : disk'[v] = IF v \in On(d) THEN (disk[v] \ old) \cup new ELSE disk[v]
        /\ fresh' = fresh \cup (On(d) \cap Images) /\ fresh' \subseteq Images
    BY <1>1, <1>2, ChangeIs
  <1>8. ImageTypeOK'
    BY <1>1, <1>2, <1>5, <1>7 DEF ImageTypeOK, Moves, Images
  <1>9. DyingMounted' /\ CopyInv'
    BY <1>1, <1>2, <1>5, <1>7 DEF DyingMounted, CopyInv, Mounted, Images
  <1>10. ScriptInv(s)'
    <2>1. SectionInv(s)' /\ ReleaseInv(s)'
      BY <1>3 DEF SectionInv, ReleaseInv, InSection
    <2>2. ListedInv(s)'
      BY <1>1, <1>2, <1>3 DEF ScriptInv, ListedInv, Ended
    <2>3. ChosenInv(s)'
      BY <1>1, <1>3, <1>4, <1>6 DEF ChosenInv, Working, d
    <2>4. FilledInv(s)'
      <3> SUFFICES ASSUME s \notin crossed', s \notin overtaken' PROVE Filled(s)' \subseteq disk'[s]
        BY DEF FilledInv
      <3>1. Filled(s) \subseteq disk[s] /\ disk'[s] = (disk[s] \ old) \cup new
        BY <1>1, <1>2, <1>5, <1>6, <1>7 DEF ScriptInv, FilledInv
      <3>2. Filled(s) = FilledAt(s, c) /\ Filled(s)' = FilledAt(s, Behind(s, c))
        BY <1>1 DEF Filled, Moves
      <3>3. QED
        BY <3>1, <3>2
    <2>5. SettledInv(s)'
      BY <1>3 DEF SettledInv, Resting, Ended
    <2>6. QED
      BY <2>1, <2>2, <2>3, <2>4, <2>5 DEF ScriptInv
  <1>11. ASSUME NEW t \in Scripts \ {s} PROVE Undisturbed(t)
    <2>1. \A u \in Scripts : InSection(u)' => InSection(u)
      BY <1>3 DEF InSection
    <2>2. t \notin crossed' => t \notin On(d)
      BY <1>1
    <2>3. QED
      BY <1>1, <1>3, <1>7, <2>1, <2>2 DEF Undisturbed, Mounted
  <1>12. QED
    BY <1>8, <1>9, <1>10, <1>11, StepOf

LEMMA MountKeeps == ASSUME ImageInv, NEW s \in Scripts, Mount(s) PROVE ImageInv'
  <1> DEFINE d == OwnDevice(s)
             others == {t \in Scripts \ {s} : InSection(t)}
  <1>1. /\ Moves(s, "mount") /\ Usable(d) /\ mounts' = Append(mounts, d)
        /\ crossed' = crossed \cup (On(d) \ {s}) \cup (IF others = {} THEN {} ELSE others \cup {s})
        /\ overtaken' = overtaken /\ broken' = broken
        /\ disk' = disk /\ fresh' = fresh /\ loop' = loop /\ loopback' = loopback /\ mnt' = mnt
    BY AtMoves DEF ImageInv, Mount, CanMount, OwnDevice, history, Order
  <1>2. ImageTypeOK /\ ScriptInv(s) /\ DyingMounted /\ CopyInv
    BY DEF ImageInv
  <1>3. pc[s] = "mount" /\ pc'[s] = "mkdir boot" /\ \A t \in Scripts \ {s} : pc'[t] = pc[t]
    BY <1>1, BehindIs DEF Moves
  <1>4. d \in Device
    BY <1>1, <1>2, LoopsAssumption DEF Usable, ImageTypeOK, Sda3, OwnDevice, Device
  <1>5. On(d) \subseteq Scripts
    <2>1. CASE d \in Loops
      BY <1>2, <2>1, OnIs DEF Images
    <2>2. CASE d = Sda3 /\ "copy" \in Scripts
      BY <1>2, <2>2, OnIs
    <2>3. QED
      BY <1>4, <2>1, <2>2 DEF Device
  <1>6. OwnDevice(s)' = d
    BY <1>1 DEF OwnDevice
  <1> HIDE DEF d
  <1>7. /\ mounts' \in Seq(Device) /\ mounts' # <<>> /\ Last(mounts') = d
        /\ Mounted' = Mounted \cup {d}
    BY <1>1, <1>2, <1>4, Stack DEF ImageTypeOK, Mounted
  <1>8. ImageTypeOK'
    <2>1. crossed' \subseteq Scripts
      BY <1>1, <1>2, <1>5 DEF ImageTypeOK
    <2>2. QED
      BY <1>1, <1>2, <1>7, <2>1 DEF ImageTypeOK, Moves
  <1>9. DyingMounted' /\ CopyInv'
    BY <1>1, <1>2, <1>7 DEF DyingMounted, CopyInv
  <1>10. ScriptInv(s)'
    <2>1. ReleaseInv(s)'
      BY <1>3 DEF ReleaseInv
    <2>2. SectionInv(s)'
      <3>1. s \notin crossed' => \A t \in Scripts \ {s} : ~InSection(t)
        BY <1>1
      <3>2. \A t \in Scripts \ {s} : InSection(t)' => InSection(t)
        BY <1>3 DEF InSection
      <3>3. QED
        BY <1>6, <1>7, <3>1, <3>2 DEF SectionInv
    <2>3. ListedInv(s)'
      BY <1>1, <1>2, <1>3 DEF ScriptInv, ListedInv, Ended
    <2>4. ChosenInv(s)'
      BY <1>1, <1>2, <1>3 DEF ScriptInv, ChosenInv, Working
    <2>5. FilledInv(s)'
      BY <1>1, <1>2, <1>3, FilledIs DEF ScriptInv, FilledInv, Filled
    <2>6. SettledInv(s)'
      BY <1>3 DEF SettledInv, Resting, Ended
    <2>7. QED
      BY <2>1, <2>2, <2>3, <2>4, <2>5, <2>6 DEF ScriptInv
  <1>11. ASSUME NEW t \in Scripts \ {s} PROVE Undisturbed(t)
    <2>1. t \notin crossed' => ~InSection(t) /\ t \notin On(d) /\ t \notin crossed
      BY <1>1
    <2>2. ASSUME t \notin crossed', pc[t] = "release", NEW l \in Loops, loop[l].image = t, l \in Mounted'
          PROVE  l \in Mounted
      <3>1. loop[l].live \/ loop[l].dying
        <4>1. ListedInv(t) /\ t \in Images
          BY <2>2, ScriptsAssumption DEF ImageInv, ScriptInv, ImageTypeOK, OrderOf, Images, Ended
        <4>2. QED
          BY <2>2, <4>1 DEF ListedInv, Ended
      <3>2. CASE loop[l].dying
        BY <1>2, <3>2 DEF DyingMounted
      <3>3. CASE loop[l].live
        BY <1>2, <1>7, <2>1, <2>2, <3>3, OnIs
      <3>4. QED
        BY <3>1, <3>2, <3>3
    <2>3. QED
      BY <1>1, <1>3, <2>1, <2>2 DEF Undisturbed
  <1>12. QED
    BY <1>8, <1>9, <1>10, <1>11, StepOf

(* A script nobody got in the way of writes to its own volume.             *)
LEMMA WritesOwn ==
    ASSUME ImageInv, NEW s \in Scripts, s \notin crossed, InSection(s)
    PROVE  mounts # <<>> /\ On(Last(mounts)) = {s}
  <1>1. ImageTypeOK /\ SectionInv(s) /\ ChosenInv(s)
    BY DEF ImageInv, ScriptInv
  <1>2. mounts # <<>> /\ Last(mounts) = OwnDevice(s)
    BY <1>1 DEF SectionInv
  <1>3. CASE s = "copy"
    BY <1>1, <1>2, <1>3, OnIs DEF OwnDevice
  <1>4. CASE s # "copy"
    <2>1. loopback[s] \in Loops /\ loop[loopback[s]].image = s /\ loop[loopback[s]].live
      BY <1>1, <1>4 DEF ChosenInv, Images, Working, InSection
    <2>2. QED
      BY <1>1, <1>2, <1>4, <2>1, OnIs DEF OwnDevice
  <1>5. QED
    BY <1>3, <1>4

LEMMA WriteKeeps ==
    ASSUME ImageInv, NEW s \in Scripts, NEW c \in {"mkdir boot", "cp efi", "cp kernel"},
           NEW old, NEW new \in SUBSET (Formatted \cup Contents), Write(s, c, old, new),
           old \cap Formatted = {},
           FilledAt(s, Behind(s, c)) \subseteq (FilledAt(s, c) \ old) \cup new
    PROVE  ImageInv'
  <1>1. /\ Moves(s, c) /\ loop' = loop /\ loopback' = loopback /\ mounts' = mounts
        /\ overtaken' = overtaken /\ broken' = broken
        /\ mounts = <<>> => /\ mnt' = "littered"
                            /\ disk' = disk /\ fresh' = fresh /\ crossed' = crossed
        /\ mounts # <<>> => /\ Change(On(Last(mounts)), old, new) /\ mnt' = mnt
                            /\ crossed' = crossed \cup (On(Last(mounts)) \ {s})
    BY AtMoves DEF ImageInv, Write, history, Order
  <1>2. ImageTypeOK /\ ScriptInv(s) /\ DyingMounted /\ CopyInv
    BY DEF ImageInv
  <1>3. /\ InSection(s) /\ Working(s) /\ InSection(s)' /\ Working(s)'
        /\ pc[s] \notin Ended \cup {"detach", "sfdisk"} /\ pc'[s] \notin Ended \cup {"sfdisk", "release"}
        /\ ~Resting(s)' /\ \A t \in Scripts \ {s} : pc'[t] = pc[t]
    <2>1. c = "mkdir boot" \/ c = "cp efi" \/ c = "cp kernel"
      OBVIOUS
    <2>2. Behind(s, c) \in {"cp efi", "cp kernel", "umount"}
      <3>1. /\ Behind(s, "mkdir boot") = "cp efi" /\ Behind(s, "cp efi") = "cp kernel"
            /\ Behind(s, "cp kernel") = "umount"
        BY BehindIs
      <3>2. QED
        BY <2>1, <3>1
    <2>3. pc[s] = c /\ pc'[s] = Behind(s, c) /\ \A t \in Scripts \ {s} : pc'[t] = pc[t]
      BY <1>1 DEF Moves
    <2>4. QED
      BY <2>1, <2>2, <2>3 DEF InSection, Working, Ended, Resting
  <1>4. s \notin crossed => mounts # <<>> /\ On(Last(mounts)) = {s}
    BY <1>3, WritesOwn
  <1>5. mounts # <<>> => On(Last(mounts)) \subseteq Scripts
    <2> SUFFICES ASSUME mounts # <<>> PROVE On(Last(mounts)) \subseteq Scripts
      OBVIOUS
    <2>1. Last(mounts) \in Device
      BY <1>2, Stack DEF ImageTypeOK
    <2>2. CASE Last(mounts) \in Loops
      BY <1>2, <2>2, OnIs DEF Images
    <2>3. CASE Last(mounts) = Sda3 /\ "copy" \in Scripts
      BY <1>2, <2>3, OnIs
    <2>4. QED
      BY <2>1, <2>2, <2>3 DEF Device
  <1>6. /\ disk' \in [Scripts -> SUBSET (Formatted \cup Contents)] /\ fresh' \subseteq Images
        /\ crossed' \subseteq Scripts /\ crossed \subseteq crossed'
        /\ \A v \in Scripts : \/ disk'[v] = disk[v] /\ (v \in fresh' => v \in fresh)
                              \/ disk'[v] = (disk[v] \ old) \cup new /\ (v \in crossed' \/ v = s)
        /\ s \notin crossed' => disk'[s] = (disk[s] \ old) \cup new
    <2>1. CASE mounts = <<>>
      BY <1>1, <1>2, <1>4, <2>1 DEF ImageTypeOK
    <2>2. CASE mounts # <<>>
      <3> DEFINE vs == On(Last(mounts))
      <3>1. vs \subseteq Scripts /\ crossed' = crossed \cup (vs \ {s}) /\ Change(vs, old, new)
        BY <1>1, <1>5, <2>2
      <3>2. s \notin crossed => s \in vs
        BY <1>4
      <3> HIDE DEF vs
      <3>3. /\ disk' \in [Scripts -> SUBSET (Formatted \cup Contents)]
            /\ \A v \in Scripts : disk'[v] = IF v \in vs THEN (disk[v] \ old) \cup new ELSE disk[v]
            /\ fresh' = fresh \cup (vs \cap Images) /\ fresh' \subseteq Images
        BY <1>2, <3>1, ChangeIs
      <3>4. QED
        BY <1>2, <3>1, <3>2, <3>3 DEF ImageTypeOK
    <2>3. QED
      BY <2>1, <2>2
  <1>7. ImageTypeOK'
    <2>1. mnt' \in {"absent", "empty", "littered"}
      BY <1>1, <1>2 DEF ImageTypeOK
    <2>2. QED
      BY <1>1, <1>2, <1>6, <2>1 DEF ImageTypeOK, Moves
  <1>8. DyingMounted' /\ CopyInv'
    BY <1>1, <1>2, <1>6 DEF DyingMounted, CopyInv, Mounted
  <1>9. \A t \in Scripts : InSection(t)' <=> InSection(t)
    BY <1>3 DEF InSection
  <1>10. ScriptInv(s)'
    <2>1. SectionInv(s)'
      BY <1>1, <1>2, <1>3, <1>6, <1>9 DEF ScriptInv, SectionInv, OwnDevice
    <2>2. ReleaseInv(s)' /\ SettledInv(s)'
      BY <1>3 DEF ReleaseInv, SettledInv
    <2>3. ListedInv(s)'
      BY <1>1, <1>2, <1>3 DEF ScriptInv, ListedInv
    <2>4. ChosenInv(s)'
      BY <1>1, <1>2, <1>3, <1>6 DEF ScriptInv, ChosenInv
    <2>5. FilledInv(s)'
      <3>1. Filled(s) = FilledAt(s, c) /\ Filled(s)' = FilledAt(s, Behind(s, c))
        BY <1>1 DEF Filled, Moves
      <3>2. QED
        <4>1. s \notin crossed' /\ s \notin overtaken' => Filled(s) \subseteq disk[s]
          BY <1>1, <1>2, <1>6 DEF ScriptInv, FilledInv
        <4>2. QED
          BY <1>6, <3>1, <4>1 DEF FilledInv
    <2>6. QED
      BY <2>1, <2>2, <2>3, <2>4, <2>5 DEF ScriptInv
  <1>11. ASSUME NEW t \in Scripts \ {s} PROVE Undisturbed(t)
    <2>1. t \notin crossed' => disk'[t] = disk[t] /\ (t \in fresh' => t \in fresh)
      BY <1>6
    <2>2. t \in crossed => t \in crossed'
      BY <1>6
    <2>3. QED
      BY <1>1, <1>3, <1>9, <2>1, <2>2 DEF Undisturbed, Mounted
  <1>12. QED
    BY <1>7, <1>8, <1>10, <1>11, StepOf

LEMMA UmountKeeps == ASSUME ImageInv, NEW s \in Scripts, Umount(s) PROVE ImageInv'
  <1>1. /\ Moves(s, "umount") /\ Unmounted
        /\ crossed' = crossed \cup {t \in Running \ {s} : loopback[t] = Last(mounts)}
        /\ overtaken' = overtaken /\ broken' = broken
        /\ disk' = disk /\ loopback' = loopback /\ mnt' = mnt
    BY AtMoves DEF ImageInv, Umount, history, Order
  <1>2. ImageTypeOK /\ ScriptInv(s) /\ DyingMounted /\ CopyInv
    BY DEF ImageInv
  <1>3. pc[s] = "umount" /\ pc'[s] = "rmdir" /\ \A t \in Scripts \ {s} : pc'[t] = pc[t]
    BY <1>1, BehindIs DEF Moves
  <1>4. /\ mounts # <<>> /\ mounts' \in Seq(Device)
        /\ Last(mounts) \in Device /\ Mounted = Mounted' \cup {Last(mounts)}
        /\ fresh' \subseteq Images /\ fresh' = fresh \cup (On(Last(mounts)) \cap Images)
        /\ loop' \in [Loops -> LoopState]
        /\ \A l \in Loops : /\ loop'[l] = loop[l] \/ loop'[l] = Unused
                            /\ l # Last(mounts) => loop'[l] = loop[l]
                            /\ loop'[l].dying => l \in Mounted'
    BY <1>1, <1>2, UnmountedIs
  <1>5. Unused.image = "none" /\ ~Unused.live /\ \A t \in Scripts : t # "none"
    BY ScriptsAssumption DEF Unused
  <1>6. \A l \in Loops : \A t \in Scripts : loop'[l].image = t => loop'[l] = loop[l]
    BY <1>4, <1>5
  <1>7. ImageTypeOK'
    <2>1. crossed' \subseteq Scripts
      BY <1>1, <1>2 DEF ImageTypeOK, Running
    <2>2. \A l \in Loops : loop'[l].live => loop'[l].image \in Images
      BY <1>2, <1>4, <1>5 DEF ImageTypeOK
    <2>3. QED
      BY <1>1, <1>2, <1>4, <2>1, <2>2 DEF ImageTypeOK, Moves
  <1>8. DyingMounted' /\ CopyInv'
    BY <1>1, <1>2, <1>4 DEF DyingMounted, CopyInv
  <1>9. ScriptInv(s)'
    <2>1. SectionInv(s)' /\ ReleaseInv(s)' /\ ChosenInv(s)'
      BY <1>3 DEF SectionInv, ReleaseInv, ChosenInv, InSection, Working
    <2>2. ListedInv(s)'
      BY <1>2, <1>3, <1>6 DEF ScriptInv, ListedInv, Ended
    <2>3. FilledInv(s)'
      BY <1>1, <1>2, <1>3, FilledIs DEF ScriptInv, FilledInv, Filled
    <2>4. SettledInv(s)'
      BY <1>3 DEF SettledInv, Resting, Ended
    <2>5. QED
      BY <2>1, <2>2, <2>3, <2>4 DEF ScriptInv
  <1>10. ASSUME NEW t \in Scripts \ {s} PROVE Undisturbed(t)
    <2>1. t \in fresh' => t \in fresh \/ \E l \in Loops : loop[l].image = t
      <3>1. CASE Last(mounts) \in Loops
        BY <1>2, <1>4, <3>1, OnIs
      <3>2. CASE Last(mounts) = Sda3
        BY <1>2, <1>4, <3>2, OnIs DEF Images
      <3>3. QED
        BY <1>4, <3>1, <3>2 DEF Device
    <2>2. ASSUME t \notin crossed', pc[t] = "sfdisk" \/ Working(t), loopback[t] \in Loops
          PROVE  loop'[loopback[t]] = loop[loopback[t]]
      <3>1. t \in Running
        BY <2>2 DEF Running, Working, Ended
      <3>2. QED
        BY <1>1, <1>4, <2>2, <3>1
    <2>3. t \notin crossed' => ~InSection(t)
      <3>1. InSection(s)
        BY <1>3 DEF InSection
      <3>2. QED
        BY <1>1, <3>1 DEF ImageInv, ScriptInv, SectionInv
    <2>4. QED
      BY <1>1, <1>3, <1>4, <1>6, <2>1, <2>2, <2>3 DEF Undisturbed
  <1>11. QED
    BY <1>7, <1>8, <1>9, <1>10, StepOf

LEMMA RmdirKeeps == ASSUME ImageInv, NEW s \in Scripts, Rmdir(s) PROVE ImageInv'
  <1>1. /\ Moves(s, "rmdir") /\ mounts = <<>> /\ mnt' = "absent"
        /\ crossed' = crossed /\ overtaken' = overtaken /\ broken' = broken
        /\ disk' = disk /\ fresh' = fresh /\ loop' = loop /\ loopback' = loopback /\ mounts' = mounts
    BY AtMoves DEF ImageInv, Rmdir, history, Order
  <1>2. ImageTypeOK /\ ScriptInv(s) /\ DyingMounted /\ CopyInv
    BY DEF ImageInv
  <1>3. /\ pc[s] = "rmdir" /\ pc'[s] = (IF s = "copy" THEN "done" ELSE "release")
        /\ \A t \in Scripts \ {s} : pc'[t] = pc[t]
    BY <1>1, BehindIs DEF Moves
  <1>4. ImageTypeOK'
    BY <1>1, <1>2 DEF ImageTypeOK, Moves
  <1>5. DyingMounted' /\ CopyInv'
    BY <1>1, <1>2 DEF DyingMounted, CopyInv, Mounted
  <1>6. ScriptInv(s)'
    <2>1. SectionInv(s)' /\ ChosenInv(s)'
      BY <1>3 DEF SectionInv, ChosenInv, InSection, Working
    <2>2. ReleaseInv(s)'
      BY <1>1, <1>2, Stack DEF ReleaseInv, Mounted, ImageTypeOK
    <2>3. ListedInv(s)'
      BY <1>1, <1>2, <1>3 DEF ScriptInv, ListedInv, Ended
    <2>4. FilledInv(s)'
      <3>1. Filled(s)' \subseteq Filled(s)
        BY <1>3, FilledIs DEF Filled, Ended
      <3>2. QED
        BY <1>1, <1>2, <3>1 DEF ScriptInv, FilledInv
    <2>5. SettledInv(s)'
      BY <1>3 DEF SettledInv, Resting, Ended, Images
    <2>6. QED
      BY <2>1, <2>2, <2>3, <2>4, <2>5 DEF ScriptInv
  <1>7. ASSUME NEW t \in Scripts \ {s} PROVE Undisturbed(t)
    <2>1. \A u \in Scripts : InSection(u)' => InSection(u)
      BY <1>3 DEF InSection
    <2>2. QED
      BY <1>1, <1>3, <2>1 DEF Undisturbed, Mounted
  <1>8. QED
    BY <1>4, <1>5, <1>6, <1>7, StepOf

LEMMA ReleaseKeeps == ASSUME ImageInv, NEW s \in Scripts, Release(s) PROVE ImageInv'
  <1>1. /\ Moves(s, "release") /\ loop' = Detached(Listed(s))
        /\ crossed' = crossed /\ overtaken' = overtaken /\ broken' = broken
        /\ disk' = disk /\ fresh' = fresh /\ loopback' = loopback /\ mounts' = mounts /\ mnt' = mnt
    BY AtMoves DEF ImageInv, Release, history, Order
  <1>2. ImageTypeOK /\ ScriptInv(s) /\ DyingMounted /\ CopyInv
    BY DEF ImageInv
  <1>3. pc[s] = "release" /\ s \in Images /\ pc'[s] = "done" /\ \A t \in Scripts \ {s} : pc'[t] = pc[t]
    BY <1>1, BehindIs DEF Moves, OrderOf, Images
  <1>4. /\ loop' \in [Loops -> LoopState]
        /\ \A l \in Loops : /\ loop[l].image # s => loop'[l] = loop[l]
                            /\ loop[l].image = s /\ l \in Mounted =>
                                  /\ loop'[l].image = s /\ loop'[l].live = loop[l].live /\ loop'[l].dying
                            /\ loop[l].image = s /\ l \notin Mounted => loop'[l] = Unused
    BY <1>1, <1>2, DetachedIs DEF Listed
  <1>5. Unused.image = "none" /\ ~Unused.live /\ ~Unused.dying /\ \A t \in Scripts : t # "none"
    BY ScriptsAssumption DEF Unused
  <1>6. ImageTypeOK'
    BY <1>1, <1>2, <1>3, <1>4, <1>5 DEF ImageTypeOK, Moves
  <1>7. DyingMounted' /\ CopyInv'
    BY <1>1, <1>2, <1>4, <1>5 DEF DyingMounted, CopyInv, Mounted
  <1>8. ScriptInv(s)'
    <2>1. SectionInv(s)' /\ ReleaseInv(s)' /\ ChosenInv(s)'
      BY <1>3 DEF SectionInv, ReleaseInv, ChosenInv, InSection, Working
    <2>2. ListedInv(s)'
      BY <1>3 DEF ListedInv, Ended
    <2>3. FilledInv(s)'
      BY <1>3, FilledIs DEF FilledInv, Filled, Ended
    <2>4. SettledInv(s)'
      <3>1. s \notin crossed => \A l \in Loops : loop'[l].image # s
        BY <1>2, <1>3, <1>4, <1>5 DEF ScriptInv, ReleaseInv
      <3>2. s \notin crossed /\ s \notin overtaken => Complete(s)'
        BY <1>1, <1>2, <1>3, FilledIs DEF ScriptInv, FilledInv, Filled, Complete
      <3>3. QED
        BY <1>1, <3>1, <3>2 DEF SettledInv
    <2>5. QED
      BY <2>1, <2>2, <2>3, <2>4 DEF ScriptInv
  <1>9. ASSUME NEW t \in Scripts \ {s} PROVE Undisturbed(t)
    <2>1. \A l \in Loops : loop'[l].image = t => loop'[l] = loop[l]
      BY <1>4, <1>5
    <2>2. \A l \in Loops : loop[l].image = t => loop'[l] = loop[l]
      BY <1>4
    <2>3. \A u \in Scripts : InSection(u)' => InSection(u)
      BY <1>3 DEF InSection
    <2>4. QED
      BY <1>1, <1>3, <2>1, <2>2, <2>3 DEF Undisturbed, Mounted
  <1>10. QED
    BY <1>6, <1>7, <1>8, <1>9, StepOf

LEMMA FailKeeps == ASSUME ImageInv, NEW s \in Scripts, Fail(s) PROVE ImageInv'
  <1>1. /\ s \in Running /\ pc' = [pc EXCEPT ![s] = "failed"]
        /\ broken' = IF Begun(s) THEN broken \cup {s} ELSE broken
        /\ crossed' = crossed /\ overtaken' = overtaken /\ loopback' = loopback /\ mnt' = mnt
        /\ disk' = disk /\ fresh' = fresh /\ loop' = loop /\ mounts' = mounts
    BY DEF Fail, devices
  <1>2. ImageTypeOK /\ ScriptInv(s) /\ DyingMounted /\ CopyInv
    BY DEF ImageInv
  <1>3. pc'[s] = "failed" /\ \A t \in Scripts \ {s} : pc'[t] = pc[t]
    BY <1>1, <1>2 DEF ImageTypeOK
  <1>4. ImageTypeOK'
    BY <1>1, <1>2 DEF ImageTypeOK, Ended
  <1>5. DyingMounted' /\ CopyInv'
    BY <1>1, <1>2 DEF DyingMounted, CopyInv, Mounted
  <1>6. ScriptInv(s)'
    <2>1. SectionInv(s)' /\ ReleaseInv(s)' /\ ChosenInv(s)' /\ ListedInv(s)'
      BY <1>3 DEF SectionInv, ReleaseInv, ChosenInv, ListedInv, InSection, Working, Ended
    <2>2. FilledInv(s)'
      BY <1>3, FilledIs DEF FilledInv, Filled, Ended
    <2>3. SettledInv(s)'
      <3>1. CASE Begun(s)
        BY <1>1, <3>1 DEF SettledInv
      <3>2. CASE ~Begun(s)
        <4>1. Resting(s)
          BY <3>2 DEF Begun, Resting
        <4>2. QED
          BY <1>1, <1>2, <4>1 DEF ScriptInv, SettledInv, Complete
      <3>3. QED
        BY <3>1, <3>2
    <2>4. QED
      BY <2>1, <2>2, <2>3 DEF ScriptInv
  <1>7. ASSUME NEW t \in Scripts \ {s} PROVE Undisturbed(t)
    <2>1. \A u \in Scripts : InSection(u)' => InSection(u)
      BY <1>3 DEF InSection
    <2>2. t \in broken' <=> t \in broken
      BY <1>1
    <2>3. QED
      BY <1>1, <1>3, <2>1, <2>2 DEF Undisturbed, Mounted
  <1>8. QED
    BY <1>4, <1>5, <1>6, <1>7, StepOf

LEMMA InterruptKeeps == ASSUME ImageInv, NEW s \in Scripts, Interrupt(s) PROVE ImageInv'
  <1> DEFINE gone == IF Begun(s) THEN {s} \cap Images ELSE {}
  <1>1. /\ s \in Running /\ pc' = [pc EXCEPT ![s] = "interrupted"] /\ Deleted(gone)
        /\ crossed' = crossed /\ overtaken' = overtaken /\ broken' = broken
        /\ fresh' = fresh /\ loopback' = loopback /\ mounts' = mounts /\ mnt' = mnt
    BY DEF Interrupt
  <1>2. ImageTypeOK /\ ScriptInv(s) /\ DyingMounted /\ CopyInv
    BY DEF ImageInv
  <1>3. gone \in SUBSET Images /\ gone \subseteq {s} /\ (s \in Images /\ Begun(s) => s \in gone)
        /\ (~Begun(s) => gone = {})
    OBVIOUS
  <1> HIDE DEF gone
  <1>4. /\ disk' \in [Scripts -> SUBSET (Formatted \cup Contents)]
        /\ \A v \in Scripts : disk'[v] = IF v \in gone THEN {} ELSE disk[v]
        /\ loop' \in [Loops -> LoopState]
        /\ \A l \in Loops : /\ loop'[l].image = loop[l].image /\ loop'[l].dying = loop[l].dying
                            /\ loop'[l].live => loop[l].live
                            /\ loop[l].image \notin gone => loop'[l] = loop[l]
    BY <1>1, <1>2, <1>3, DeletedIs
  <1>5. pc'[s] = "interrupted" /\ \A t \in Scripts \ {s} : pc'[t] = pc[t]
    BY <1>1, <1>2 DEF ImageTypeOK
  <1>6. ImageTypeOK'
    BY <1>1, <1>2, <1>4 DEF ImageTypeOK, Ended
  <1>7. DyingMounted' /\ CopyInv'
    BY <1>1, <1>2, <1>3, <1>4 DEF DyingMounted, CopyInv, Mounted, Images
  <1>8. ScriptInv(s)'
    <2>1. SectionInv(s)' /\ ReleaseInv(s)' /\ ChosenInv(s)' /\ ListedInv(s)'
      BY <1>5 DEF SectionInv, ReleaseInv, ChosenInv, ListedInv, InSection, Working, Ended
    <2>2. FilledInv(s)'
      BY <1>5, FilledIs DEF FilledInv, Filled, Ended
    <2>3. SettledInv(s)'
      <3>1. CASE Begun(s)
        BY <1>3, <1>4, <3>1 DEF SettledInv
      <3>2. CASE ~Begun(s)
        <4>1. Resting(s)
          BY <3>2 DEF Begun, Resting
        <4>2. disk'[s] = disk[s] /\ \A l \in Loops : loop'[l] = loop[l]
          BY <1>3, <1>4, <3>2
        <4>3. QED
          BY <1>1, <1>2, <4>1, <4>2 DEF ScriptInv, SettledInv, Complete
      <3>3. QED
        BY <3>1, <3>2
    <2>4. QED
      BY <2>1, <2>2, <2>3 DEF ScriptInv
  <1>9. ASSUME NEW t \in Scripts \ {s} PROVE Undisturbed(t)
    <2>1. \A u \in Scripts : InSection(u)' => InSection(u)
      BY <1>5 DEF InSection
    <2>2. disk'[t] = disk[t] /\ \A l \in Loops : loop[l].image = t => loop'[l] = loop[l]
      BY <1>3, <1>4
    <2>3. \A l \in Loops : loop'[l].image = t => loop'[l] = loop[l]
      BY <1>4, <2>2
    <2>4. QED
      BY <1>1, <1>5, <2>1, <2>2, <2>3 DEF Undisturbed, Mounted
  <1>10. QED
    BY <1>6, <1>7, <1>8, <1>9, StepOf

LEMMA RebuildKeeps == ASSUME ImageInv, NEW part \in Parts, Rebuild(part) PROVE ImageInv'
  <1>1. /\ disk' = [v \in Scripts |-> disk[v] \ {part}]
        /\ fresh' = {s \in fresh : part \notin MadeOf(s)}
        /\ overtaken' = overtaken \cup {s \in Running : part \in MadeOf(s)}
        /\ pc' = pc /\ crossed' = crossed /\ broken' = broken
        /\ loop' = loop /\ loopback' = loopback /\ mounts' = mounts /\ mnt' = mnt
    BY DEF Rebuild, devices
  <1>2. ImageTypeOK /\ DyingMounted /\ CopyInv
    BY DEF ImageInv
  <1>3. part \notin Formatted
    BY ScriptsAssumption DEF Formatted
  <1>4. ImageTypeOK'
    <2>1. disk' \in [Scripts -> SUBSET (Formatted \cup Contents)]
      BY <1>1, <1>2 DEF ImageTypeOK
    <2>2. QED
      BY <1>1, <1>2, <2>1 DEF ImageTypeOK, Running
  <1>5. DyingMounted' /\ CopyInv'
    BY <1>1, <1>2, <1>3 DEF DyingMounted, CopyInv, Mounted
  <1>6. ASSUME NEW s \in Scripts PROVE ScriptInv(s)'
    <2>1. ScriptInv(s) /\ disk'[s] = disk[s] \ {part}
      BY <1>1 DEF ImageInv
    <2>2. SectionInv(s)' /\ ReleaseInv(s)' /\ ChosenInv(s)' /\ ListedInv(s)'
      BY <1>1, <2>1 DEF ScriptInv, SectionInv, ReleaseInv, ChosenInv, ListedInv, InSection,
                        Working, OwnDevice, Mounted
    <2>3. FilledInv(s)'
      <3>1. s \notin overtaken' => part \notin Filled(s)
        <4>1. CASE s \in Running
          BY <1>1, <1>3, <4>1, FilledIs DEF Filled
        <4>2. CASE s \notin Running
          BY <4>2, FilledIs DEF Filled, Running
        <4>3. QED
          BY <4>1, <4>2
      <3>2. QED
        BY <1>1, <2>1, <3>1 DEF ScriptInv, FilledInv, Filled
    <2>4. SettledInv(s)'
      <3>1. Complete(s) /\ part \notin MadeOf(s) => Complete(s)'
        BY <1>3, <2>1 DEF Complete
      <3>2. QED
        BY <1>1, <2>1, <3>1 DEF ScriptInv, SettledInv, Resting
    <2>5. QED
      BY <2>2, <2>3, <2>4 DEF ScriptInv
  <1>7. QED
    BY <1>4, <1>5, <1>6 DEF ImageInv

LEMMA CleanKeeps == ASSUME ImageInv, Clean PROVE ImageInv'
  <1>1. /\ Running = {} /\ Deleted(Images)
        /\ crossed' = crossed /\ overtaken' = overtaken /\ broken' = broken /\ pc' = pc
        /\ fresh' = fresh /\ loopback' = loopback /\ mounts' = mounts /\ mnt' = mnt
    BY DEF Clean, history
  <1>2. ImageTypeOK /\ DyingMounted /\ CopyInv
    BY DEF ImageInv
  <1>3. /\ disk' \in [Scripts -> SUBSET (Formatted \cup Contents)]
        /\ \A v \in Scripts : disk'[v] = IF v \in Images THEN {} ELSE disk[v]
        /\ loop' \in [Loops -> LoopState]
        /\ \A l \in Loops : /\ loop'[l].image = loop[l].image /\ loop'[l].dying = loop[l].dying
                            /\ loop'[l].live => loop[l].live
    BY <1>1, <1>2, DeletedIs
  <1>4. ImageTypeOK'
    BY <1>1, <1>2, <1>3 DEF ImageTypeOK
  <1>5. DyingMounted' /\ CopyInv'
    BY <1>1, <1>2, <1>3 DEF DyingMounted, CopyInv, Mounted, Images
  <1>6. ASSUME NEW s \in Scripts PROVE ScriptInv(s)'
    <2>1. pc'[s] = pc[s] /\ pc[s] \in Ended
      BY <1>1 DEF Running
    <2>2. SectionInv(s)' /\ ReleaseInv(s)' /\ ChosenInv(s)' /\ ListedInv(s)'
      BY <2>1 DEF SectionInv, ReleaseInv, ChosenInv, ListedInv, InSection, Working, Ended
    <2>3. FilledInv(s)'
      BY <2>1, FilledIs DEF FilledInv, Filled
    <2>4. SettledInv(s)'
      BY <1>3 DEF SettledInv
    <2>5. QED
      BY <2>2, <2>3, <2>4 DEF ScriptInv
  <1>7. QED
    BY <1>4, <1>5, <1>6 DEF ImageInv

LEMMA CleanUpKeeps == ASSUME ImageInv, CleanUp PROVE ImageInv'
  <1>1. /\ Running = {}
        /\ crossed' = crossed /\ overtaken' = overtaken /\ broken' = broken /\ pc' = pc
        /\ disk' = disk /\ loopback' = loopback
        /\ \/ Unmounted /\ mnt' = mnt
           \/ mnt' = "absent" /\ fresh' = fresh /\ loop' = loop /\ mounts' = mounts
    BY DEF CleanUp, history
  <1>2. ImageTypeOK /\ DyingMounted /\ CopyInv
    BY DEF ImageInv
  <1>3. Unused.image = "none" /\ ~Unused.live /\ \A t \in Scripts : t # "none"
    BY ScriptsAssumption DEF Unused
  <1>4. /\ mounts' \in Seq(Device) /\ fresh' \subseteq Images /\ loop' \in [Loops -> LoopState]
        /\ \A t \in Scripts : t \in fresh' => t \in fresh \/ \E l \in Loops : loop[l].image = t
        /\ \A l \in Loops : /\ loop'[l] = loop[l] \/ loop'[l] = Unused
                            /\ loop'[l].dying => l \in Mounted'
    <2>1. CASE Unmounted
      <3>1. /\ mounts' \in Seq(Device) /\ Last(mounts) \in Device
            /\ fresh' \subseteq Images /\ fresh' = fresh \cup (On(Last(mounts)) \cap Images)
            /\ loop' \in [Loops -> LoopState]
            /\ \A l \in Loops : /\ loop'[l] = loop[l] \/ loop'[l] = Unused
                                /\ loop'[l].dying => l \in Mounted'
        BY <1>2, <2>1, UnmountedIs
      <3>2. ASSUME NEW t \in Scripts, t \in fresh' PROVE t \in fresh \/ \E l \in Loops : loop[l].image = t
        <4>1. CASE Last(mounts) \in Loops
          BY <1>2, <3>1, <3>2, <4>1, OnIs
        <4>2. CASE Last(mounts) = Sda3
          BY <1>2, <3>1, <3>2, <4>2, OnIs DEF Images
        <4>3. QED
          BY <3>1, <4>1, <4>2 DEF Device
      <3>3. QED
        BY <3>1, <3>2
    <2>2. CASE fresh' = fresh /\ loop' = loop /\ mounts' = mounts
      BY <1>2, <2>2 DEF ImageTypeOK, DyingMounted, Mounted
    <2>3. QED
      BY <1>1, <2>1, <2>2
  <1>5. ImageTypeOK'
    BY <1>1, <1>2, <1>3, <1>4 DEF ImageTypeOK
  <1>6. DyingMounted' /\ CopyInv'
    BY <1>1, <1>2, <1>4 DEF DyingMounted, CopyInv
  <1>7. ASSUME NEW s \in Scripts PROVE ScriptInv(s)'
    <2>1. pc'[s] = pc[s] /\ pc[s] \in Ended /\ ScriptInv(s)
      BY <1>1 DEF Running, ImageInv
    <2>2. SectionInv(s)' /\ ReleaseInv(s)' /\ ChosenInv(s)' /\ ListedInv(s)'
      BY <2>1 DEF SectionInv, ReleaseInv, ChosenInv, ListedInv, InSection, Working, Ended
    <2>3. FilledInv(s)'
      BY <2>1, FilledIs DEF FilledInv, Filled
    <2>4. SettledInv(s)'
      BY <1>1, <1>3, <1>4, <2>1 DEF ScriptInv, SettledInv, Resting, Complete
    <2>5. QED
      BY <2>2, <2>3, <2>4 DEF ScriptInv
  <1>8. QED
    BY <1>5, <1>6, <1>7 DEF ImageInv

-----------------------------------------------------------------------------
(* What a command puts on its volume is what the next one relies on.       *)
LEMMA CommandKeeps == ASSUME ImageInv, NEW s \in Scripts, Command(s) PROVE ImageInv'
  <1>1. CASE Format(s, "sfdisk", {}, {"parts"})
    <2>1. FilledAt(s, Behind(s, "sfdisk")) \subseteq (FilledAt(s, "sfdisk") \ {}) \cup {"parts"}
      <3>1. /\ Behind(s, "sfdisk") = "mkfs" /\ FilledAt(s, "sfdisk") = {"file", "label"}
            /\ FilledAt(s, "mkfs") = {"file", "label", "parts"}
        BY BehindIs, FilledIs
      <3>2. QED
        BY <3>1
    <2>2. {"parts"} \in SUBSET (Formatted \cup Contents)
      BY DEF Formatted
    <2>3. QED
      BY <1>1, <2>1, <2>2, FormatKeeps
  <1>2. CASE Format(s, "mkfs", Contents, {"fs"})
    <2>1. FilledAt(s, Behind(s, "mkfs")) \subseteq (FilledAt(s, "mkfs") \ Contents) \cup {"fs"}
      <3>1. /\ Behind(s, "mkfs") = "mkdir" /\ FilledAt(s, "mkfs") = {"file", "label", "parts"}
            /\ FilledAt(s, "mkdir") = {"file", "label", "parts", "fs"}
        BY BehindIs, FilledIs DEF Formatted
      <3>2. QED
        BY <3>1 DEF Contents
    <2>2. {"fs"} \in SUBSET (Formatted \cup Contents)
      BY DEF Formatted
    <2>3. QED
      BY <1>2, <2>1, <2>2, FormatKeeps
  <1>3. CASE MkdirBoot(s)
    <2>1. FilledAt(s, Behind(s, "mkdir boot")) \subseteq (FilledAt(s, "mkdir boot") \ {}) \cup {"dirs"}
      <3>1. /\ Behind(s, "mkdir boot") = "cp efi" /\ FilledAt(s, "mkdir boot") = Formatted
            /\ FilledAt(s, "cp efi") = Formatted
        BY BehindIs, FilledIs
      <3>2. QED
        BY <3>1
    <2>2. {"dirs"} \in SUBSET (Formatted \cup Contents) /\ {} \cap Formatted = {}
      BY DEF Contents
    <2>3. QED
      BY <1>3, <2>1, <2>2, WriteKeeps DEF MkdirBoot
  <1>4. CASE CopyEfi(s)
    <2> DEFINE old == {"efi", "debug efi"}
               new == {Efi(s)}
    <2>1. old \cap Formatted = {}
      BY DEF Formatted
    <2>2. FilledAt(s, Behind(s, "cp efi")) \subseteq (FilledAt(s, "cp efi") \ old) \cup new
      <3>1. FilledAt(s, "cp efi") = Formatted /\ FilledAt(s, Behind(s, "cp efi")) = Formatted \cup new
        <4>1. Behind(s, "cp efi") = "cp kernel"
          BY BehindIs
        <4>2. QED
          BY <4>1, FilledIs
      <3>2. QED
        BY <2>1, <3>1
    <2>3. new \in SUBSET (Formatted \cup Contents)
      BY DEF Contents, Efi
    <2>4. Write(s, "cp efi", old, new)
      BY <1>4 DEF CopyEfi
    <2> HIDE DEF old, new
    <2>5. QED
      BY <2>1, <2>2, <2>3, <2>4, WriteKeeps
  <1>5. CASE CopyKernel(s)
    <2>1. FilledAt(s, Behind(s, "cp kernel")) \subseteq (FilledAt(s, "cp kernel") \ {}) \cup {"kernel"}
      <3>1. /\ Behind(s, "cp kernel") = "umount" /\ FilledAt(s, "cp kernel") = Formatted \cup {Efi(s)}
            /\ FilledAt(s, "umount") = Formatted \cup MadeOf(s)
        BY BehindIs, FilledIs
      <3>2. QED
        BY <3>1 DEF MadeOf
    <2>2. {"kernel"} \in SUBSET (Formatted \cup Contents) /\ {} \cap Formatted = {}
      BY DEF Contents
    <2>3. QED
      BY <1>5, <2>1, <2>2, WriteKeeps DEF CopyKernel
  <1>6. QED
    BY <1>1, <1>2, <1>3, <1>4, <1>5, DetachKeeps, ZeroKeeps, LabelKeeps, AttachKeeps, ChooseKeeps,
       MkdirKeeps, MountKeeps, UmountKeeps, RmdirKeeps, ReleaseKeeps DEF Command

LEMMA ImageStep == ASSUME ImageInv, [ImageNext]_vars PROVE ImageInv'
  <1>1. ASSUME NEW s \in Scripts, Start(s) \/ Command(s) \/ Fail(s) \/ Interrupt(s)
        PROVE  ImageInv'
    BY <1>1, StartKeeps, CommandKeeps, FailKeeps, InterruptKeeps
  <1>2. ASSUME NEW part \in Parts, Rebuild(part) PROVE ImageInv'
    BY <1>2, RebuildKeeps
  <1>3. CASE Clean \/ CleanUp
    BY <1>3, CleanKeeps, CleanUpKeeps
  <1>4. CASE UNCHANGED vars
    <2>1. /\ pc' = pc /\ disk' = disk /\ fresh' = fresh /\ loop' = loop /\ loopback' = loopback
          /\ mounts' = mounts /\ mnt' = mnt /\ crossed' = crossed /\ overtaken' = overtaken
          /\ broken' = broken
      BY <1>4 DEF vars
    <2>2. ImageTypeOK' /\ DyingMounted' /\ CopyInv'
      BY <2>1 DEF ImageInv, ImageTypeOK, DyingMounted, CopyInv, Mounted
    <2>3. ASSUME NEW s \in Scripts PROVE ScriptInv(s)'
      <3>1. ScriptInv(s)
        BY DEF ImageInv
      <3>2. Undisturbed(s)
        BY <2>1 DEF Undisturbed, InSection, Mounted
      <3>3. QED
        BY <3>1, <3>2, OtherKeeps
    <2>4. QED
      BY <2>2, <2>3 DEF ImageInv
  <1>5. QED
    BY <1>1, <1>2, <1>3, <1>4 DEF ImageNext

(* The inductive invariant of the scripts.                                 *)
THEOREM ImageInvariant == ImageSpec => []ImageInv
  <1>1. Init => ImageInv
    BY ImageInit
  <1>2. ImageInv /\ [ImageNext]_vars => ImageInv'
    BY ImageStep
  <1>3. QED
    BY <1>1, <1>2, PTL DEF ImageSpec

(* The variables keep their types: no script reaches a command that is not *)
(* its own, and LOOPBACK only names loop devices.                          *)
THEOREM ImageTypeCorrect == ImageSpec => []ImageTypeOK
  <1>1. ImageInv => ImageTypeOK
    BY DEF ImageInv
  <1>2. QED
    BY <1>1, ImageInvariant, PTL

(* An image make takes for finished is complete, unless its script failed  *)
(* over it or was disturbed: for any number of images, runs and failures   *)
(* (Makefile:27-31, mk_img.sh).                                            *)
THEOREM TrustedImages == ImageSpec => []TrustedIsComplete
  <1>1. ASSUME ImageInv PROVE TrustedIsComplete
    <2> SUFFICES ASSUME NEW s \in Images \ Running, "file" \in disk[s], s \in fresh
                 PROVE  Complete(s) \/ s \in broken \/ Excused(s)
      BY DEF TrustedIsComplete
    <2>1. s \in Scripts /\ SettledInv(s) /\ Resting(s)
      BY <1>1 DEF ImageInv, ScriptInv, Images, Running, Resting
    <2>2. QED
      BY <2>1 DEF SettledInv, Excused
  <1>2. QED
    BY <1>1, ImageInvariant, PTL

-----------------------------------------------------------------------------
(* Only its own script moves a place.                                      *)
LEMMA Mover ==
    ASSUME ImageInv, [ImageNext]_vars, NEW s \in Scripts, pc'[s] # pc[s]
    PROVE  Start(s) \/ Command(s) \/ Fail(s) \/ Interrupt(s)
  <1>1. ImageTypeOK
    BY DEF ImageInv
  <1>2. ASSUME NEW u \in Scripts, Start(u) \/ Command(u) \/ Fail(u) \/ Interrupt(u), u # s
        PROVE  FALSE
    <2>1. CASE Start(u) \/ Fail(u) \/ Interrupt(u)
      BY <1>1, <1>2, <2>1 DEF Start, Fail, Interrupt, ImageTypeOK
    <2>2. CASE Command(u)
      <3>1. \E c \in Order : At(u, c)
        BY <2>2 DEF Command, Detach, Zero, Label, Attach, Choose, Format, Mkdir, Mount, MkdirBoot,
                    CopyEfi, CopyKernel, Write, Umount, Rmdir, Release, Order
      <3>2. QED
        BY <1>1, <1>2, <3>1, AtMoves DEF Moves
    <2>3. QED
      BY <1>2, <2>1, <2>2
  <1>3. ~(\E part \in Parts : Rebuild(part)) /\ ~Clean /\ ~CleanUp /\ ~UNCHANGED vars
    BY DEF Rebuild, Clean, CleanUp, vars
  <1>4. QED
    BY <1>2, <1>3 DEF ImageNext

LEMMA HomeWrite ==
    ASSUME ImageInv, NEW s \in Scripts \ crossed, NEW c \in {"mkdir boot", "cp efi", "cp kernel"},
           NEW old, NEW new \in SUBSET (Formatted \cup Contents), Write(s, c, old, new)
    PROVE  mnt' = mnt /\ \A v \in Scripts \ {s} : disk'[v] = disk[v]
  <1>1. pc[s] = c
    BY DEF Write, At
  <1>2. InSection(s)
    BY <1>1 DEF InSection
  <1>3. mounts # <<>> /\ On(Last(mounts)) = {s}
    BY <1>2, WritesOwn
  <1>4. Change({s}, old, new) /\ mnt' = mnt
    BY <1>3 DEF Write
  <1>5. QED
    BY <1>4, ChangeIs DEF ImageInv

(* A script nobody got in the way of puts a boot loader only on its own    *)
(* volume, and nothing into the working tree (mk_img.sh:31-36,             *)
(* cp_to_disk.sh:8-14).                                                    *)
THEOREM HomeWrites == ImageSpec => WritesStayHome
  <1> DEFINE Home(s) == /\ mnt' = "littered" => mnt = "littered"
                        /\ \A v \in Scripts \ {s} : (disk'[v] \ disk[v]) \cap {"efi", "debug efi"} = {}
  <1>1. ASSUME ImageInv, [ImageNext]_vars, NEW s \in Scripts \ crossed, pc'[s] # pc[s]
        PROVE  Home(s)
    <2>1. ImageTypeOK
      BY <1>1 DEF ImageInv
    <2>2. CASE Start(s) \/ Fail(s)
      BY <2>2 DEF Start, Fail, devices
    <2>3. CASE Interrupt(s)
      BY <2>3 DEF Interrupt, Deleted
    <2>4. CASE Detach(s) \/ Attach(s) \/ Choose(s) \/ Mkdir(s) \/ Mount(s) \/ Umount(s) \/ Rmdir(s) \/ Release(s)
      BY <2>4 DEF Detach, Attach, Choose, Mkdir, Mount, Umount, Rmdir, Release
    <2>5. CASE Zero(s) \/ Label(s)
      BY <2>5 DEF Zero, Label, Change, devices
    <2>6. CASE Format(s, "sfdisk", {}, {"parts"}) \/ Format(s, "mkfs", Contents, {"fs"})
      <3>1. /\ mnt' = mnt
            /\ \/ Change(On(loopback[s]), {}, {"parts"})
               \/ Change(On(loopback[s]), Contents, {"fs"})
        BY <2>6 DEF Format
      <3>2. QED
        BY <3>1 DEF Change
    <2>7. CASE MkdirBoot(s) \/ CopyEfi(s) \/ CopyKernel(s)
      <3>1. /\ {"dirs"} \in SUBSET (Formatted \cup Contents)
            /\ {"kernel"} \in SUBSET (Formatted \cup Contents)
            /\ {Efi(s)} \in SUBSET (Formatted \cup Contents)
        BY DEF Contents, Efi
      <3>2. CASE MkdirBoot(s)
        BY <1>1, <3>1, <3>2, HomeWrite DEF MkdirBoot
      <3>3. CASE CopyEfi(s)
        <4>1. Write(s, "cp efi", {"efi", "debug efi"}, {Efi(s)})
          BY <3>3 DEF CopyEfi
        <4>2. QED
          BY <1>1, <3>1, <4>1, HomeWrite
      <3>4. CASE CopyKernel(s)
        BY <1>1, <3>1, <3>4, HomeWrite DEF CopyKernel
      <3>5. QED
        BY <2>7, <3>2, <3>3, <3>4
    <2>8. QED
      BY <1>1, <2>2, <2>3, <2>4, <2>5, <2>6, <2>7, Mover DEF Command
  <1>2. ImageInv /\ [ImageNext]_vars =>
            [\A s \in Scripts \ crossed : pc'[s] # pc[s] =>
                /\ mnt' = "littered" => mnt = "littered"
                /\ \A v \in Scripts \ {s} : (disk'[v] \ disk[v]) \cap {"efi", "debug efi"} = {}]_vars
    BY <1>1
  <1>3. QED
    BY <1>2, ImageInvariant, PTL DEF ImageSpec, WritesStayHome

(* A script that ends well has filled its volume with the present boot     *)
(* loader and kernel and has left no loop device and no mount of it        *)
(* behind, if nobody got in its way and no part was built anew meanwhile.  *)
THEOREM DoneComplete == ImageSpec => DoneIsComplete
  <1> DEFINE Clear(s) == /\ Complete(s)' /\ Listed(s)' = {}
                         /\ \A device \in Mounted' : s \notin On(device)'
  <1>1. ASSUME ImageInv, [ImageNext]_vars, NEW s \in Scripts, pc[s] \notin Ended, pc'[s] = "done",
               s \notin crossed, s \notin overtaken
        PROVE  Clear(s)
    <2>1. ImageInv' /\ ImageTypeOK /\ ImageTypeOK' /\ ScriptInv(s)
      BY <1>1, ImageStep DEF ImageInv
    <2>2. pc[s] # "done" /\ pc'[s] # pc[s]
      BY <1>1 DEF Ended
    <2>3. (Rmdir(s) /\ s = "copy") \/ Release(s)
      <3>1. Command(s)
        <4>1. ~Start(s) /\ ~Fail(s) /\ ~Interrupt(s)
          BY <1>1, <2>1 DEF Start, Running, Fail, Interrupt, ImageTypeOK
        <4>2. QED
          BY <1>1, <2>2, <4>1, Mover
      <3>2. PICK c \in Order : Moves(s, c)
        <4>1. \E c \in Order : At(s, c)
          BY <3>1 DEF Command, Detach, Zero, Label, Attach, Choose, Format, Mkdir, Mount, MkdirBoot,
                      CopyEfi, CopyKernel, Write, Umount, Rmdir, Release, Order
        <4>2. QED
          BY <2>1, <4>1, AtMoves
      <3>3. pc[s] = c /\ Behind(s, c) = "done"
        BY <1>1, <3>2 DEF Moves
      <3>4. c = "release" \/ (c = "rmdir" /\ s = "copy")
        BY <3>3, BehindIs DEF Order
      <3>5. QED
        BY <3>1, <3>3, <3>4 DEF Command, Detach, Zero, Label, Attach, Choose, Format, Mkdir, Mount,
              MkdirBoot, CopyEfi, CopyKernel, Write, Umount, Rmdir, Release, At
    <2>4. Complete(s)'
      <3>1. disk' = disk /\ pc[s] \in {"rmdir", "release"}
        BY <2>3 DEF Rmdir, Release, At
      <3>2. Formatted \cup MadeOf(s) \subseteq disk[s]
        BY <1>1, <2>1, <3>1, FilledIs DEF ScriptInv, FilledInv, Filled
      <3>3. QED
        BY <3>1, <3>2 DEF Complete
    <2>5. CASE Rmdir(s) /\ s = "copy"
      <3>1. Mounted' = {}
        BY <2>1, <2>5, Stack DEF Rmdir, Mounted, ImageTypeOK
      <3>2. Listed(s)' = {}
        BY <2>1, <2>5 DEF Listed, ImageTypeOK, LoopState, Images
      <3>3. QED
        BY <2>4, <3>1, <3>2
    <2>6. CASE Release(s)
      <3>1. /\ pc[s] = "release" /\ loop' = Detached(Listed(s)) /\ mounts' = mounts /\ s \in Images
            /\ Moves(s, "release")
        BY <2>1, <2>6, AtMoves DEF Release, Moves, OrderOf, Images, Order
      <3>2. \A l \in Loops : loop'[l].image # s
        <4>1. /\ \A l \in Loops : /\ loop[l].image # s => loop'[l] = loop[l]
                                  /\ loop[l].image = s /\ l \notin Mounted => loop'[l] = Unused
          BY <2>1, <3>1, DetachedIs DEF Listed
        <4>2. Unused.image # s
          BY ScriptsAssumption DEF Unused
        <4>3. QED
          BY <1>1, <2>1, <3>1, <4>1, <4>2 DEF ScriptInv, ReleaseInv
      <3>3. Listed(s)' = {}
        BY <3>2 DEF Listed
      <3>4. ASSUME NEW device \in Mounted' PROVE s \notin On(device)'
        <4>1. device \in Device
          BY <2>1, <3>1, <3>4, Stack DEF Mounted, ImageTypeOK
        <4>2. CASE device \in Loops
          BY <3>2, <4>2, LoopsAssumption DEF On
        <4>3. CASE device = Sda3
          BY <3>1, <4>3 DEF On, Images
        <4>4. QED
          BY <4>1, <4>2, <4>3 DEF Device
      <3>5. QED
        BY <2>4, <3>3, <3>4
    <2>7. QED
      BY <2>3, <2>5, <2>6
  <1>2. ImageInv /\ [ImageNext]_vars =>
            [\A s \in Scripts :
                pc[s] \notin Ended /\ pc'[s] = "done" =>
                    \/ Excused(s)
                    \/ /\ Complete(s)' /\ Listed(s)' = {}
                       /\ \A device \in Mounted' : s \notin On(device)']_vars
    BY <1>1 DEF Excused
  <1>3. QED
    BY <1>2, ImageInvariant, PTL DEF ImageSpec, DoneIsComplete
=============================================================================
