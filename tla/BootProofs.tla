----------------------------- MODULE BootProofs ----------------------------
(* Proofs about Boot, for both builds and every set of checks, and about   *)
(* DebugHandshake, for every output of the firmware.                       *)
EXTENDS DebugHandshake, TLAPS, WellFoundedInduction, SequenceTheorems

(* The variables of efi_main keep their types (main.c:700-1047).  A prompt *)
(* is shown only in the places that have one, so that an answer goes on.   *)
PromptsInPlace == prompt # "none" => pc \in Prompts

LEMMA BootTypeStep ==
    BootTypeOK /\ PromptsInPlace /\ [BootNext]_bootVars => BootTypeOK' /\ PromptsInPlace'
  <1> SUFFICES ASSUME BootTypeOK, PromptsInPlace, [BootNext]_bootVars
               PROVE  BootTypeOK' /\ PromptsInPlace'
    OBVIOUS
  <1> USE DEF BootTypeOK, PromptsInPlace, Prompts, held, console, Fails, Goes
  <1>1. CASE OpenLoadedImage
    BY <1>1 DEF OpenLoadedImage
  <1>2. CASE OpenFileSystem
    BY <1>2 DEF OpenFileSystem
  <1>3. CASE OpenVolume
    BY <1>3 DEF OpenVolume
  <1>4. CASE OpenKernel
    BY <1>4 DEF OpenKernel
  <1>5. CASE KernelInfo
    BY <1>5 DEF KernelInfo
  <1>6. CASE AllocateFile
    BY <1>6 DEF AllocateFile
  <1>7. CASE ReadKernel
    BY <1>7 DEF ReadKernel
  <1>8. CASE VerifyElf
    BY <1>8 DEF VerifyElf
  <1>9. CASE Plan
    BY <1>9 DEF Plan
  <1>10. CASE LoadKernel
    BY <1>10 DEF LoadKernel
  <1>11. CASE CallKernel
    BY <1>11 DEF CallKernel
  <1>12. CASE LocateGop
    BY <1>12 DEF LocateGop
  <1>13. CASE OpenGop
    BY <1>13 DEF OpenGop
  <1>14. CASE InitConsole
    BY <1>14 DEF InitConsole
  <1>15. CASE BuildMemoryMap
    BY <1>15 DEF BuildMemoryMap
  <1>16. CASE ShowPrompt
    BY <1>16 DEF ShowPrompt
  <1>17. CASE ResetInput
    BY <1>17 DEF ResetInput
  <1>18. CASE KeyArrived
    BY <1>18 DEF KeyArrived, AfterPrompt
  <1>19. CASE PressKey
    BY <1>19 DEF PressKey
  <1>20. CASE UNCHANGED bootVars
    BY <1>20 DEF bootVars
  <1>21. QED
    BY <1>1, <1>2, <1>3, <1>4, <1>5, <1>6, <1>7, <1>8, <1>9, <1>10, <1>11,
       <1>12, <1>13, <1>14, <1>15, <1>16, <1>17, <1>18, <1>19, <1>20
    DEF BootNext, EfiMain, Call

(* The variables of efi_main keep their types (main.c:638-1046).           *)
THEOREM BootTypeCorrect == BootSpec => []BootTypeOK
  <1>1. BootInit => BootTypeOK /\ PromptsInPlace
    BY DEF BootInit, BootTypeOK, PromptsInPlace, Prompts
  <1>2. QED
    BY <1>1, BootTypeStep, PTL DEF BootSpec

(* What efi_main holds in which place.  The places in their order:         *)
Opening   == {"image", "handshake", "volume", "root"}
Reading   == {"info", "file", "read"}
Loading   == {"verify", "plan", "load"}
Showing   == {"interface", "switch"}
Afterward == {"kernel", "gop"} \cup Showing \cup {"console", "memmap"}
Leaving   == {"exit", "returned"}

(* Until the kernel is loaded the processor is on the firmware's tables    *)
(* and only the file is allocated; until InitConsole text goes to the      *)
(* firmware and there is no memory map.                                    *)
NotYetLoaded ==
    pc \in Opening \cup {"open"} \cup Reading \cup Loading =>
        cr3 = "firmware" /\ pages \subseteq {"file"}

NotYetShown ==
    pc \notin Leaving \cup {"memmap"} => printer = "text" /\ "memmap" \notin pages

OpenFiles ==
    /\ pc \in Opening => files = {}
    /\ pc \in {"open"} \cup Loading \cup Afterward => files = {"root"}
    /\ pc \in Reading => files = {"root", "kernel.elf"}
    /\ "kernel.elf" \in files =>
          pc \in Reading \cup Leaving /\ cr3 = "firmware" /\ pages \subseteq {"file"}

OpenPool ==
    "handles" \in pool =>
        /\ pc \in Showing \cup {"console"} \cup Leaving
        /\ printer = "text" /\ "memmap" \notin pages

Succeeded == result = "EFI_SUCCESS" => pc \in Leaving /\ files = {"root"} /\ pool = {}

HeldInv == NotYetLoaded /\ NotYetShown /\ OpenFiles /\ OpenPool /\ Succeeded

LEMMA HeldStep == BootTypeOK /\ HeldInv /\ PromptsInPlace /\ [BootNext]_bootVars => HeldInv'
  <1> SUFFICES ASSUME BootTypeOK, HeldInv, PromptsInPlace, [BootNext]_bootVars
               PROVE  HeldInv'
    OBVIOUS
  <1> USE DEF BootTypeOK, PromptsInPlace, HeldInv, NotYetLoaded, NotYetShown, OpenFiles,
              OpenPool, Succeeded, Opening, Reading, Loading, Showing, Afterward,
              Leaving, Prompts, held, console, Fails, Goes
  <1>1. CASE OpenLoadedImage
    BY <1>1 DEF OpenLoadedImage
  <1>2. CASE OpenFileSystem
    BY <1>2 DEF OpenFileSystem
  <1>3. CASE OpenVolume
    BY <1>3 DEF OpenVolume
  <1>4. CASE OpenKernel
    BY <1>4 DEF OpenKernel
  <1>5. CASE KernelInfo
    BY <1>5 DEF KernelInfo
  <1>6. CASE AllocateFile
    BY <1>6 DEF AllocateFile
  <1>7. CASE ReadKernel
    BY <1>7 DEF ReadKernel
  <1>8. CASE VerifyElf
    BY <1>8 DEF VerifyElf
  <1>9. CASE Plan
    BY <1>9 DEF Plan
  <1>10. CASE LoadKernel
    BY <1>10 DEF LoadKernel
  <1>11. CASE CallKernel
    BY <1>11 DEF CallKernel
  <1>12. CASE LocateGop
    BY <1>12 DEF LocateGop
  <1>13. CASE OpenGop
    BY <1>13 DEF OpenGop
  <1>14. CASE InitConsole
    BY <1>14 DEF InitConsole
  <1>15. CASE BuildMemoryMap
    BY <1>15 DEF BuildMemoryMap
  <1>16. CASE ShowPrompt
    BY <1>16 DEF ShowPrompt
  <1>17. CASE ResetInput
    BY <1>17 DEF ResetInput
  <1>18. CASE KeyArrived
    BY <1>18 DEF KeyArrived, AfterPrompt
  <1>19. CASE PressKey
    BY <1>19 DEF PressKey
  <1>20. CASE UNCHANGED bootVars
    BY <1>20 DEF bootVars
  <1>21. QED
    BY <1>1, <1>2, <1>3, <1>4, <1>5, <1>6, <1>7, <1>8, <1>9, <1>10, <1>11,
       <1>12, <1>13, <1>14, <1>15, <1>16, <1>17, <1>18, <1>19, <1>20
    DEF BootNext, EfiMain, Call

(* What an error return leaves behind (main.c:638-1046): kernel.elf only   *)
(* when the failure came before the loader touched memory, the handle      *)
(* buffer only when it came before the console was switched, a complete    *)
(* boot neither.                                                           *)
THEOREM ReturnsLeave == BootSpec => []LeftBehind
  <1>1. BootInit => BootTypeOK /\ PromptsInPlace /\ HeldInv
    BY DEF BootInit, BootTypeOK, PromptsInPlace, Prompts, HeldInv, NotYetLoaded,
           NotYetShown, OpenFiles, OpenPool, Succeeded, Opening, Reading, Loading,
           Showing, Afterward, Leaving
  <1>2. HeldInv => LeftBehind
    BY DEF HeldInv, OpenFiles, OpenPool, Succeeded, LeftBehind
  <1>3. QED
    BY <1>1, <1>2, BootTypeStep, HeldStep, PTL DEF BootSpec

(* One key never answers two prompts (main.c:504-506, 722-723, 963-964):   *)
(* while efi_main waits, every key that is there was pressed after the     *)
(* message was printed, because Reset has taken away the others.           *)
NoOldKey == prompt = "waiting" => "old" \notin input

LEMMA NoOldKeyStep == NoOldKey /\ [BootNext]_bootVars => NoOldKey'
  <1> SUFFICES ASSUME NoOldKey, [BootNext]_bootVars PROVE NoOldKey'
    OBVIOUS
  <1> USE DEF NoOldKey, console
  <1>1. CASE OpenLoadedImage
    BY <1>1 DEF OpenLoadedImage
  <1>2. CASE OpenFileSystem
    BY <1>2 DEF OpenFileSystem
  <1>3. CASE OpenVolume
    BY <1>3 DEF OpenVolume
  <1>4. CASE OpenKernel
    BY <1>4 DEF OpenKernel
  <1>5. CASE KernelInfo
    BY <1>5 DEF KernelInfo
  <1>6. CASE AllocateFile
    BY <1>6 DEF AllocateFile
  <1>7. CASE ReadKernel
    BY <1>7 DEF ReadKernel
  <1>8. CASE VerifyElf
    BY <1>8 DEF VerifyElf
  <1>9. CASE Plan
    BY <1>9 DEF Plan
  <1>10. CASE LoadKernel
    BY <1>10 DEF LoadKernel
  <1>11. CASE CallKernel
    BY <1>11 DEF CallKernel
  <1>12. CASE LocateGop
    BY <1>12 DEF LocateGop
  <1>13. CASE OpenGop
    BY <1>13 DEF OpenGop
  <1>14. CASE InitConsole
    BY <1>14 DEF InitConsole
  <1>15. CASE BuildMemoryMap
    BY <1>15 DEF BuildMemoryMap
  <1>16. CASE ShowPrompt
    BY <1>16 DEF ShowPrompt
  <1>17. CASE ResetInput
    BY <1>17 DEF ResetInput
  <1>18. CASE KeyArrived
    BY <1>18 DEF KeyArrived
  <1>19. CASE PressKey
    BY <1>19 DEF PressKey
  <1>20. CASE UNCHANGED bootVars
    BY <1>20 DEF bootVars
  <1>21. QED
    BY <1>1, <1>2, <1>3, <1>4, <1>5, <1>6, <1>7, <1>8, <1>9, <1>10, <1>11,
       <1>12, <1>13, <1>14, <1>15, <1>16, <1>17, <1>18, <1>19, <1>20
    DEF BootNext, EfiMain, Call

THEOREM KeysAreFresh == BootSpec => FreshKey
  <1>1. BootInit => NoOldKey
    BY DEF BootInit, NoOldKey
  <1>2. NoOldKey /\ [BootNext]_bootVars => [KeyArrived => "old" \notin input]_bootVars
    BY DEF KeyArrived, NoOldKey
  <1>3. QED
    BY <1>1, <1>2, NoOldKeyStep, PTL DEF BootSpec, FreshKey

(* A nonempty set of numbers up to n has a greatest one.                   *)
LEMMA Greatest ==
    ASSUME NEW n \in Nat, NEW S \in SUBSET (0 .. n), S # {}
    PROVE  \E m \in S : \A k \in S : k <= m
  <1> DEFINE T == {n - k : k \in S}
             R == OpToRel(<, Nat)
  <1>1. T \subseteq Nat /\ T # {}
    <2>1. \A k \in S : k \in 0 .. n /\ n - k \in Nat
      OBVIOUS
    <2>2. QED
      BY <2>1
  <1>2. PICK x \in T : \A y \in T : ~ (<<y, x>> \in R)
    <2> HIDE DEF T, R
    <2>1. IsWellFoundedOn(R, Nat)
      BY NatLessThanWellFounded DEF R
    <2>2. QED
      BY <1>1, <2>1, WFMin
  <1>3. \A y \in T : ~ (y < x)
    BY <1>1, <1>2 DEF OpToRel
  <1>4. PICK m \in S : x = n - m
    BY <1>2
  <1>5. ASSUME NEW k \in S PROVE k <= m
    <2>1. ~ (n - k < n - m)
      BY <1>3, <1>4
    <2>2. QED
      BY <2>1
  <1>6. QED
    BY <1>5

(* What has come over the serial line, and what is still under way, holds  *)
(* the address right behind every "!!".                                    *)
Piece == {"text", "\n", "!!", "base"}
Announces(s) == \A k \in 1 .. Len(s) : s[k] = "!!" => k + 1 \in 1 .. Len(s) /\ s[k + 1] = "base"

LEMMA AnnouncesConcat ==
    ASSUME NEW s \in Seq(Piece), NEW t \in Seq(Piece), Announces(s), Announces(t)
    PROVE  Announces(s \o t)
  <1>1. /\ s \o t \in Seq(Piece) /\ Len(s \o t) = Len(s) + Len(t)
        /\ Len(s) \in Nat /\ Len(t) \in Nat
        /\ \A k \in 1 .. Len(s) + Len(t) :
              (s \o t)[k] = IF k <= Len(s) THEN s[k] ELSE t[k - Len(s)]
    OBVIOUS
  <1> DEFINE u == s \o t
  <1> HIDE DEF u
  <1>2. SUFFICES ASSUME NEW k \in 1 .. Len(s) + Len(t), u[k] = "!!"
                 PROVE  k + 1 \in 1 .. Len(s) + Len(t) /\ u[k + 1] = "base"
    BY <1>1 DEF Announces, u
  <1>3. CASE k <= Len(s)
    <2>1. k \in 1 .. Len(s) /\ s[k] = "!!"
      BY <1>1, <1>2, <1>3 DEF u
    <2>2. k + 1 \in 1 .. Len(s) /\ s[k + 1] = "base"
      BY <2>1 DEF Announces
    <2>3. QED
      BY <1>1, <2>2 DEF u
  <1>4. CASE k > Len(s)
    <2>1. k - Len(s) \in 1 .. Len(t) /\ t[k - Len(s)] = "!!"
      BY <1>1, <1>2, <1>4 DEF u
    <2>2. k - Len(s) + 1 \in 1 .. Len(t) /\ t[k - Len(s) + 1] = "base"
      BY <2>1 DEF Announces
    <2>3. k + 1 \in 1 .. Len(s) + Len(t) /\ k + 1 > Len(s)
          /\ k + 1 - Len(s) = k - Len(s) + 1
      BY <1>1, <1>4, <2>2
    <2>4. QED
      BY <1>1, <2>2, <2>3 DEF u
  <1>5. QED
    BY <1>1, <1>3, <1>4

LEMMA AnnouncesSuffix ==
    ASSUME NEW s \in Seq(Piece), NEW n \in 0 .. Len(s), Announces(s)
    PROVE  Announces(SubSeq(s, n + 1, Len(s)))
  <1> DEFINE u == SubSeq(s, n + 1, Len(s))
  <1>1. Len(u) = Len(s) - n /\ \A k \in 1 .. Len(s) - n : u[k] = s[k + n]
    OBVIOUS
  <1> HIDE DEF u
  <1>2. SUFFICES ASSUME NEW k \in 1 .. Len(s) - n, u[k] = "!!"
                 PROVE  k + 1 \in 1 .. Len(s) - n /\ u[k + 1] = "base"
    BY <1>1 DEF Announces, u
  <1>3. k + n \in 1 .. Len(s) /\ s[k + n] = "!!"
    BY <1>1, <1>2
  <1>4. k + n + 1 \in 1 .. Len(s) /\ s[k + n + 1] = "base"
    BY <1>3 DEF Announces
  <1>5. k + 1 \in 1 .. Len(s) - n /\ (k + 1) + n = k + n + 1
    BY <1>4
  <1>6. QED
    BY <1>1, <1>4, <1>5

LEMMA LineEndType ==
    ASSUME NEW s \in Seq(Piece)
    PROVE  LineEnd(s) \in 0 .. Len(s)
  <1> DEFINE S == {n \in 0 .. Len(s) : n = 0 \/ s[n] = "\n"}
  <1>1. 0 \in S /\ S \in SUBSET (0 .. Len(s)) /\ Len(s) \in Nat
    OBVIOUS
  <1>2. PICK m \in S : \A k \in S : k <= m
    <2> HIDE DEF S
    <2>1. QED
      BY <1>1, Greatest
  <1>3. m \in 0 .. Len(s) /\ (m = 0 \/ s[m] = "\n") /\ \A k \in m + 1 .. Len(s) : s[k] # "\n"
    BY <1>2
  <1>4. QED
    BY <1>3 DEF LineEnd

(* The invariant of the handshake: there is a key only when the script has *)
(* sent its newline, and the address it has read is the loader's base.     *)
SerialInv ==
    /\ stream \in Seq(Piece) /\ buffer \in Seq(Piece)
    /\ Announces(buffer \o stream)

HandshakeInv ==
    /\ Passed \/ input # {} => dbg = "end"
    /\ dbg \in {"interrupt", "load", "send", "end"} => res = "base"
    /\ SerialInv

(* What is left of a sequence after its first e elements.                  *)
LEMMA Dropped ==
  ASSUME NEW S, NEW s \in Seq(S), NEW e \in 0 .. Len(s)
  PROVE  /\ SubSeq(s, e + 1, Len(s)) \in Seq(S)
         /\ Len(SubSeq(s, e + 1, Len(s))) = Len(s) - e
         /\ \A k \in 1 .. Len(s) - e : SubSeq(s, e + 1, Len(s))[k] = s[k + e]
  OBVIOUS

(* Moving the first n pieces of r behind b and dropping e pieces from the   *)
(* front leaves what dropping them from all of it leaves.                   *)
SameRest(b, r, s, n, e) ==
    SubSeq(s, e + 1, Len(s)) \o SubSeq(r, n + 1, Len(r))
        = SubSeq(b \o r, e + 1, Len(b \o r))

LEMMA MovedAcross ==
  ASSUME NEW S, NEW b \in Seq(S), NEW r \in Seq(S), NEW s \in Seq(S),
         NEW n \in 0 .. Len(r), s = b \o SubSeq(r, 1, n), NEW e \in 0 .. Len(s)
  PROVE  SameRest(b, r, s, n, e)
  <1> DEFINE u == SubSeq(s, e + 1, Len(s))
             w == SubSeq(r, n + 1, Len(r))
             t == b \o r
             v == SubSeq(t, e + 1, Len(t))
  <1>1. /\ Len(b) \in Nat /\ Len(r) \in Nat /\ n \in Nat /\ n <= Len(r)
        /\ Len(s) = Len(b) + n /\ e \in Nat /\ e <= Len(b) + n
    OBVIOUS
  <1>2. /\ \A k \in 1 .. Len(b) : s[k] = b[k]
        /\ \A k \in 1 .. Len(s) : k > Len(b) => s[k] = r[k - Len(b)]
    BY <1>1
  <1>3. /\ t \in Seq(S) /\ Len(t) = Len(b) + Len(r)
        /\ \A k \in 1 .. Len(b) : t[k] = b[k]
        /\ \A k \in 1 .. Len(t) : k > Len(b) => t[k] = r[k - Len(b)]
    BY <1>1
  <1> HIDE DEF t
  <1>4. u \in Seq(S) /\ Len(u) = Len(s) - e /\ \A k \in 1 .. Len(s) - e : u[k] = s[k + e]
    BY Dropped
  <1>5. w \in Seq(S) /\ Len(w) = Len(r) - n /\ \A k \in 1 .. Len(r) - n : w[k] = r[k + n]
    BY Dropped
  <1>6. v \in Seq(S) /\ Len(v) = Len(t) - e /\ \A k \in 1 .. Len(t) - e : v[k] = t[k + e]
    <2>1. e \in 0 .. Len(t)
      BY <1>1, <1>3
    <2>2. QED
      BY <1>3, <2>1, Dropped
  <1> HIDE DEF u, v, w
  <1>7. /\ u \o w \in Seq(S) /\ Len(u \o w) = Len(u) + Len(w)
        /\ \A k \in 1 .. Len(u) + Len(w) :
             (u \o w)[k] = IF k <= Len(u) THEN u[k] ELSE w[k - Len(u)]
    BY <1>4, <1>5, ConcatProperties
  <1>8. Len(u \o w) = Len(v)
    BY <1>1, <1>3, <1>4, <1>5, <1>6, <1>7
  <1>9. ASSUME NEW k \in 1 .. Len(u \o w)
        PROVE  (u \o w)[k] = v[k]
    <2>1. /\ k \in 1 .. Len(u) + Len(w) /\ k \in 1 .. Len(t) - e /\ v[k] = t[k + e]
          /\ k \in Nat /\ Len(u) \in Nat /\ Len(u) = Len(b) + n - e
      BY <1>1, <1>4, <1>6, <1>7, <1>8
    <2>2. CASE k <= Len(s) - e
      <3>1. k <= Len(u) /\ k \in 1 .. Len(s) - e
        BY <1>1, <2>1, <2>2
      <3>2. (u \o w)[k] = s[k + e]
        BY <1>4, <1>7, <2>1, <3>1
      <3>3. k + e \in 1 .. Len(s) /\ k + e \in 1 .. Len(t)
        BY <1>1, <1>3, <2>1, <2>2
      <3>4. \A x \in 1 .. Len(s) : x \in 1 .. Len(t) => s[x] = t[x]
        <4> SUFFICES ASSUME NEW x \in 1 .. Len(s), x \in 1 .. Len(t) PROVE s[x] = t[x]
          OBVIOUS
        <4>1. CASE x > Len(b)
          BY ONLY <1>2, <1>3, <4>1, x \in 1 .. Len(s), x \in 1 .. Len(t)
        <4>2. CASE ~(x > Len(b))
          <5>1. x \in 1 .. Len(b)
            BY ONLY <1>1, <4>2, x \in 1 .. Len(s)
          <5>2. QED
            BY ONLY <1>2, <1>3, <5>1
        <4>3. QED
          BY ONLY <4>1, <4>2
      <3>5. s[k + e] = t[k + e]
        BY ONLY <3>3, <3>4
      <3>6. QED
        BY ONLY <2>1, <3>2, <3>5
    <2>3. CASE k > Len(s) - e
      <3> DEFINE j == k - Len(u)
      <3>1. ~(k <= Len(u)) /\ j \in 1 .. Len(r) - n
        <4>1. j = k - Len(u) /\ k \in 1 .. Len(u) + Len(w)
          BY <2>1
        <4> HIDE DEF j
        <4>2. Len(w) = Len(r) - n
          BY <1>5
        <4>3. k \in Nat /\ k > Len(u) /\ k <= Len(u) + Len(w)
          BY <1>1, <2>1, <2>3, <4>2
        <4>4. QED
          BY <1>1, <2>1, <4>1, <4>2, <4>3
      <3>2. (u \o w)[k] = w[j]
        BY <1>7, <2>1, <3>1
      <3>3. w[j] = r[j + n]
        BY <1>5, <3>1
      <3>4. t[k + e] = r[k + e - Len(b)]
        BY <1>1, <1>3, <2>1, <2>3
      <3>5. j + n = k + e - Len(b)
        BY <1>1, <2>1
      <3>6. QED
        BY <2>1, <3>2, <3>3, <3>4, <3>5
    <2>4. k <= Len(s) - e \/ k > Len(s) - e
      <3>1. k \in Int /\ Len(s) - e \in Int
        BY <1>1, <2>1
      <3>2. QED
        BY ONLY <3>1
    <2>5. QED
      BY ONLY <2>2, <2>3, <2>4
  <1>10. u \o w = v
    BY <1>6, <1>7, <1>8, <1>9, SeqEqual
  <1>11. QED
    BY <1>10 DEF SameRest, u, v, w, t

LEMMA ReceiveStep == HandshakeInv /\ Receive => HandshakeInv'
  <1> SUFFICES ASSUME HandshakeInv, Receive PROVE HandshakeInv'
    OBVIOUS
  <1>1. stream \in Seq(Piece) /\ buffer \in Seq(Piece) /\ Announces(buffer \o stream)
    BY DEF HandshakeInv, SerialInv
  <1>2. PICK n \in 1 .. Len(stream) :
          LET s == buffer \o SubSeq(stream, 1, n)
          IN  /\ stream' = SubSeq(stream, n + 1, Len(stream))
              /\ buffer' = Rest(s)
              /\ IF Found(s) = {}
                 THEN UNCHANGED <<dbg, res>>
                 ELSE \E a \in Found(s) : res' = s[a + 1] /\ dbg' = "interrupt"
    BY DEF Receive
  <1> DEFINE s == buffer \o SubSeq(stream, 1, n)
             t == buffer \o stream
             e == LineEnd(s)
  <1>3. /\ s \in Seq(Piece) /\ Len(s) = Len(buffer) + n
        /\ t \in Seq(Piece) /\ Len(t) = Len(buffer) + Len(stream)
        /\ \A k \in 1 .. Len(s) : s[k] = t[k]
        /\ Len(buffer) \in Nat /\ Len(stream) \in Nat
    BY <1>1
  <1>4. e \in 0 .. Len(s)
    BY <1>3, LineEndType
  <1>5. stream' \in Seq(Piece) /\ buffer' \in Seq(Piece)
    BY <1>1, <1>2, <1>3, <1>4 DEF Rest
  <1>6. buffer' \o stream' = SubSeq(t, e + 1, Len(t))
    <2>1. buffer' = SubSeq(s, e + 1, Len(s)) /\ stream' = SubSeq(stream, n + 1, Len(stream))
      BY <1>2 DEF Rest
    <2>2. n \in 0 .. Len(stream) /\ s = buffer \o SubSeq(stream, 1, n)
      BY <1>3
    <2> HIDE DEF e, s, t
    <2>3. stream \in Seq(Piece) /\ buffer \in Seq(Piece) /\ s \in Seq(Piece)
      BY <1>1, <1>3
    <2>4. SameRest(buffer, stream, s, n, e)
      BY <1>4, <2>2, <2>3, MovedAcross
    <2>5. QED
      BY <2>1, <2>4 DEF SameRest, t
  <1>7. SerialInv'
    <2>1. e \in 0 .. Len(t)
      BY <1>3, <1>4
    <2>2. Announces(SubSeq(t, e + 1, Len(t)))
      BY <1>1, <1>3, <2>1, AnnouncesSuffix
    <2>3. QED
      BY <1>5, <1>6, <2>2 DEF SerialInv
  <1>8. dbg' \in {"interrupt", "load", "send", "end"} => res' = "base"
    <2>1. CASE Found(s) = {}
      BY <1>2, <2>1 DEF HandshakeInv
    <2>2. CASE Found(s) # {}
      <3>1. PICK a \in Found(s) : res' = s[a + 1] /\ dbg' = "interrupt"
        BY <1>2, <2>2
      <3>2. /\ a \in 1 .. Len(s) /\ s[a] = "!!"
            /\ \E b \in a .. Len(s) : s[b] = "\n"
        BY <3>1 DEF Found, IsLine
      <3>3. a + 1 \in 1 .. Len(s)
        BY <1>3, <3>2
      <3>4. t[a] = "!!" /\ a \in 1 .. Len(t) /\ s[a + 1] = t[a + 1]
        BY <1>3, <3>2, <3>3
      <3>5. t[a + 1] = "base"
        BY <1>1, <3>4 DEF Announces
      <3>6. QED
        BY <3>1, <3>4, <3>5
    <2>3. QED
      BY <2>1, <2>2
  <1>9. Passed' \/ input' # {} => dbg' = "end"
    <2>1. ~Passed /\ input = {}
      BY DEF Receive, HandshakeInv
    <2>2. Passed' = Passed /\ input' = input
      BY DEF Receive, bootVars, held, console, Passed
    <2>3. QED
      BY <2>1, <2>2
  <1>10. QED
    BY <1>7, <1>8, <1>9 DEF HandshakeInv

(* The loader's steps: only OpenLoadedImage brings the protocol, only an   *)
(* answered prompt takes efi_main past the handshake, and no step of its   *)
(* own presses a key.                                                      *)
LEMMA LoaderPasses ==
    ASSUME EfiMain, Passed' \/ input' # {}
    PROVE  Passed \/ input # {}
  <1> USE DEF Passed, held, console, Fails, Goes, Prompts
  <1>1. CASE OpenLoadedImage
    BY <1>1, DebugAssumption DEF OpenLoadedImage
  <1>2. CASE OpenFileSystem
    BY <1>2 DEF OpenFileSystem
  <1>3. CASE OpenVolume
    BY <1>3 DEF OpenVolume
  <1>4. CASE OpenKernel
    BY <1>4 DEF OpenKernel
  <1>5. CASE KernelInfo
    BY <1>5 DEF KernelInfo
  <1>6. CASE AllocateFile
    BY <1>6 DEF AllocateFile
  <1>7. CASE ReadKernel
    BY <1>7 DEF ReadKernel
  <1>8. CASE VerifyElf
    BY <1>8 DEF VerifyElf
  <1>9. CASE Plan
    BY <1>9 DEF Plan
  <1>10. CASE LoadKernel
    BY <1>10 DEF LoadKernel
  <1>11. CASE CallKernel
    BY <1>11 DEF CallKernel
  <1>12. CASE LocateGop
    BY <1>12 DEF LocateGop
  <1>13. CASE OpenGop
    BY <1>13 DEF OpenGop
  <1>14. CASE InitConsole
    BY <1>14 DEF InitConsole
  <1>15. CASE BuildMemoryMap
    BY <1>15 DEF BuildMemoryMap
  <1>16. CASE ShowPrompt
    BY <1>16 DEF ShowPrompt
  <1>17. CASE ResetInput
    BY <1>17 DEF ResetInput
  <1>18. CASE KeyArrived
    BY <1>18 DEF KeyArrived
  <1>19. QED
    BY <1>1, <1>2, <1>3, <1>4, <1>5, <1>6, <1>7, <1>8, <1>9, <1>10, <1>11,
       <1>12, <1>13, <1>14, <1>15, <1>16, <1>17, <1>18
    DEF EfiMain, Call

LEMMA HandshakeStep == HandshakeInv /\ [DebugNext]_debugVars => HandshakeInv'
  <1> SUFFICES ASSUME HandshakeInv, [DebugNext]_debugVars PROVE HandshakeInv'
    OBVIOUS
  <1> USE DEF HandshakeInv
  <1>1. CASE Loader
    <2>1. EfiMain /\ dbg' = dbg /\ res' = res /\ buffer' = buffer
      BY <1>1 DEF Loader
    <2>2. Passed' \/ input' # {} => dbg' = "end"
      BY <2>1, LoaderPasses
    <2>3. SerialInv'
      <3>1. stream \in Seq(Piece) /\ buffer \in Seq(Piece) /\ Announces(buffer \o stream)
        BY DEF SerialInv
      <3>2. CASE stream' = stream
        BY <2>1, <3>1, <3>2 DEF SerialInv
      <3>3. CASE stream' = stream \o Announcement
        <4>1. Announcement \in Seq(Piece) /\ Announces(Announcement)
          BY DEF Announcement, Announces, Piece
        <4>2. buffer \o stream \in Seq(Piece) /\ stream' \in Seq(Piece)
          BY <3>1, <3>3, <4>1
        <4>3. buffer' \o stream' = (buffer \o stream) \o Announcement
          BY <2>1, <3>1, <3>3, <4>1, ConcatAssociative
        <4>4. Announces((buffer \o stream) \o Announcement)
          BY <3>1, <4>1, <4>2, AnnouncesConcat
        <4>5. QED
          BY <2>1, <3>1, <4>2, <4>3, <4>4 DEF SerialInv
      <3>4. stream' = stream \/ stream' = stream \o Announcement
        BY ONLY <1>1 DEF Loader
      <3>5. QED
        BY ONLY <3>2, <3>3, <3>4
    <2>4. QED
      BY <2>1, <2>2, <2>3
  <1>2. CASE Connect
    BY <1>2 DEF Connect, Passed, SerialInv, bootVars, held, console
  <1>3. CASE Attach
    BY <1>3 DEF Attach, Passed, SerialInv, bootVars, held, console
  <1>4. CASE Receive
    BY <1>4, ReceiveStep
  <1>5. CASE LoadSymbols
    BY <1>5 DEF LoadSymbols, Passed, SerialInv, bootVars, held, console
  <1>6. CASE SendNewline
    BY <1>6 DEF SendNewline, Passed, SerialInv, held
  <1>7. CASE QemuStarts
    BY <1>7 DEF QemuStarts, Passed, SerialInv, bootVars, held, console
  <1>8. CASE Interrupt
    BY <1>8 DEF Interrupt, Passed, SerialInv, bootVars, held, console
  <1>9. CASE Raise
    BY <1>9 DEF Raise, Passed, SerialInv, bootVars, held, console
  <1>10. CASE UNCHANGED debugVars
    BY <1>10 DEF debugVars, script, Passed, SerialInv, bootVars, held, console
  <1>11. QED
    BY <1>1, <1>2, <1>3, <1>4, <1>5, <1>6, <1>7, <1>8, <1>9, <1>10 DEF DebugNext, Debugger

(* The loader passes its handshake only when the script has finished       *)
(* loading the symbols at the base it announced (main.c:717-725,           *)
(* lldb_dbg.py:93-113), for every output of the firmware and however recv  *)
(* cuts the line.                                                          *)
THEOREM SymbolsComeFirst == DebugSpec => []SymbolsFirst
  <1>1. DebugInit => HandshakeInv
    <2> SUFFICES ASSUME DebugInit PROVE HandshakeInv
      OBVIOUS
    <2>1. stream \in Seq(Piece) /\ buffer = <<>> /\ \A k \in 1 .. Len(stream) : stream[k] # "!!"
      <3>1. stream \in Seq({"text", "\n"}) /\ buffer = <<>>
        BY OutputAssumption DEF DebugInit
      <3>2. QED
        BY <3>1 DEF Piece
    <2>2. buffer \o stream = stream
      BY <2>1
    <2>3. SerialInv
      BY <2>1, <2>2 DEF SerialInv, Announces
    <2>4. QED
      BY <2>3 DEF DebugInit, BootInit, HandshakeInv, Passed
  <1>2. HandshakeInv => SymbolsFirst
    BY DEF HandshakeInv, SymbolsFirst
  <1>3. QED
    BY <1>1, <1>2, HandshakeStep, PTL DEF DebugSpec
=============================================================================
