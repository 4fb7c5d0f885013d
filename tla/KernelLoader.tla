---------------------------- MODULE KernelLoader ---------------------------
(***************************************************************************)
(* The loader's mapping pass (bootloader/src/main.c:866-950): once ElfPlan *)
(* has accepted the file, efi_main copies the firmware's PML4, switches to *)
(* the copy, loads every PT_LOAD segment into frames of its own, maps its  *)
(* pages through four levels of tables and calls the kernel's entry.       *)
(*                                                                         *)
(* Physical memory is a flat array of words; an address of the model is a  *)
(* word, a frame has PageSize words and a table PageSize entries (4096     *)
(* bytes and 512 entries in the program).  A word is a pair <<kind, arg>>: *)
(*   <<"zero",0>>   all zero, an empty table entry                         *)
(*   <<"pte",f>>    a present entry that points to frame f                 *)
(*   <<"np",f>>     an entry that points to f and is not present           *)
(*   <<"large",0>>  the firmware's identity mapping of the lower half      *)
(*   <<"elf",k>>    word k of the kernel file                              *)
(*   <<"fw",0>>, <<"junk",0>>   other contents                             *)
(***************************************************************************)
EXTENDS ElfPlan, FiniteSets

CONSTANTS
    NFrames,        \* frames of physical memory
    FwPml4,         \* the frame of the firmware's PML4
    FwFrames,       \* the other frames the firmware owns
    FileFrames,     \* frames of the buffer the file was read into
    Placements,     \* where AllocatePages may place: "lowest", "highest"
    TableFails      \* TRUE: an unchecked AllocatePages may fail

Fan   == PageSize
Frame == 0 .. NFrames - 1
Addr  == 0 .. NFrames * Fan - 1
Page  == 0 .. Fan * Fan * Fan * Fan - 1
NoFrame == -1           \* not a frame: a page that is not mapped, a local
                        \* pointer that was never assigned

ASSUME LoaderAssumption ==
    /\ NFrames \in Nat /\ FileFrames \in Nat \ {0}
    /\ FwPml4 \in Frame /\ FwFrames \subseteq Frame \ {FwPml4}
    /\ 0 \in FwFrames           \* frame 0 is never given out
    /\ NFrames - 1 \in FwFrames \* no allocation ends at the top of memory
    /\ Placements \subseteq {"lowest", "highest"} /\ Placements # {}
    /\ TableFails \in BOOLEAN

(* The loader trusts the file: the headers of a linked kernel, whose       *)
(* segments lie in the file and fit their pages as the file places them.   *)
ASSUME FilesAssumption ==
    \A t \in HeaderTables :
        /\ \E k \in 1 .. Len(t) : IsLoad(t[k])
        /\ \A k \in 1 .. Len(t) : IsLoad(t[k]) =>
                /\ NoWrap(t[k]) /\ t[k].filesz <= t[k].memsz
                /\ t[k].vaddr + t[k].memsz <= Fan * Fan * Fan * Fan * PageSize
                /\ t[k].offset + t[k].filesz <= FileFrames * PageSize
                /\ (t[k].offset % PageSize) + t[k].memsz <= PageCount(t[k]) * PageSize

VARIABLES
    mem,        \* Addr -> word
    owner,      \* Frame -> who has it
    elf,        \* first frame of the file's buffer
    cr3,        \* the active PML4
    map,        \* 1..4 -> the tables pml4, map2, map3, map4 point to
    seg,        \* headers the mapping pass has consumed
    page, addr, \* the page loop's page and frame
    level,      \* table level the page loop stands at
    step,       \* where efi_main is between lines 866 and 950
    claimed,    \* history: the pairs printed as "Mapped %#llx to %#llx"
    trouble     \* history: "smear" a byte outside the destination of a copy
                \* has changed, "stale" a table was reused after a failed
                \* allocation

loadVars == <<mem, owner, elf, cr3, map, seg, page, addr, level, step,
              claimed, trouble>>
vars == <<planVars, loadVars>>

Zero == <<"zero", 0>>

NotPresent(f) == <<"np", f>>            \* plausible bug: flags without bit 0

Pte(f) == <<"pte", f>>
FrameOf(a) == a \div Fan

Word == ({"pte", "np"} \X Frame) \cup ({"elf"} \X (0 .. FileFrames * Fan - 1))
            \cup ({"zero", "large", "fw", "junk"} \X {0})
----------------------------------------------------------------------------
(* builtins.c: memset and memmove, as what they leave in memory.  The      *)
(* backward copy starts at index num, one past the end: the first byte     *)
(* behind the destination becomes the first byte behind the source.        *)
WideMemset(m, dest, word, num) ==   \* plausible bug: num counted in frames
    [a \in Addr |-> IF a \in dest .. dest + num * Fan - 1 THEN word ELSE m[a]]

memset(m, dest, word, num) ==
    [a \in Addr |-> IF a \in dest .. dest + num - 1 THEN word ELSE m[a]]

Copied(m, dest, src, num) ==
    [a \in Addr |-> IF a \in dest .. dest + num - 1 THEN m[src + (a - dest)]
                                                    ELSE m[a]]

Smears(w) ==    \* w with another low byte: in an entry, its flags
    CASE w[1] \in {"pte", "np"} -> {<<"pte", w[2]>>, <<"np", w[2]>>}
      [] w[1] = "zero"          -> {w, <<"pte", 0>>, <<"np", 0>>}
      [] w[1] = "large"         -> {w, <<"np", 0>>}
      [] OTHER                  -> {w, <<"junk", 0>>}

ForwardWhenAbove(m, dest, src, num) ==      \* plausible bug: dest > src
    IF dest > src
    THEN {Copied(m, dest, src, num)}
    ELSE {[Copied(m, dest, src, num) EXCEPT ![dest + num] = w] :
            w \in Smears(m[dest + num])}

memmove(m, dest, src, num) ==
    IF dest < src
    THEN {Copied(m, dest, src, num)}
    ELSE {[Copied(m, dest, src, num) EXCEPT ![dest + num] = w] :
            w \in Smears(m[dest + num])}

(* A byte behind the destination has changed in memory someone relies on;  *)
(* the first byte of the file, its magic number, is not looked at again.   *)
Smeared(m, m2, a) ==
    m2[a] # m[a] /\ owner[FrameOf(a)] # "free" /\ a # elf * Fan
----------------------------------------------------------------------------
(* AllocatePages(AllocateAnyPages, ...) of the firmware, as the loader uses *)
(* it: n consecutive free frames, or a failure; zero pages always fail.     *)
Fits(n) == {s \in Frame : s + n <= NFrames /\ n > 0 /\
                          \A f \in s .. s + n - 1 : owner[f] = "free"}

AllocatePages(n) ==
    {s \in Fits(n) :
        \/ "lowest"  \in Placements /\ \A t \in Fits(n) : s <= t
        \/ "highest" \in Placements /\ \A t \in Fits(n) : s >= t}

OwnFirst(s, n) == [owner EXCEPT ![s] = "loader"] \* plausible bug: one frame

Own(s, n) == [f \in Frame |-> IF f \in s .. s + n - 1 THEN "loader" ELSE owner[f]]
----------------------------------------------------------------------------
(* The processor's walk of the tables under root: the frame of page p.     *)
Index(p, l) == CASE l = 1 -> (p \div (Fan * Fan * Fan)) % Fan
                 [] l = 2 -> (p \div (Fan * Fan)) % Fan
                 [] l = 3 -> (p \div Fan) % Fan
                 [] l = 4 -> p % Fan

EntryAddr(table, p, l) == table * Fan + Index(p, l)

Step(m, table, p, l) ==     \* what the entry of table for page p points to
    IF table = NoFrame THEN NoFrame
    ELSE LET w == m[EntryAddr(table, p, l)]
         IN  IF w[1] = "pte" THEN w[2] ELSE NoFrame

Translate(m, root, p) ==
    IF m[EntryAddr(root, p, 1)][1] = "large" THEN p
    ELSE Step(m, Step(m, Step(m, Step(m, root, p, 1), p, 2), p, 3), p, 4)
----------------------------------------------------------------------------
LoaderInit ==
    /\ PlanInit
    /\ elf \in {s \in Frame \ (FwFrames \cup {FwPml4}) :
            LET fits == {t \in Frame : \A f \in t .. t + FileFrames - 1 :
                            f \in Frame \ (FwFrames \cup {FwPml4})}
            IN  /\ s \in fits
                /\ \/ "lowest"  \in Placements /\ \A t \in fits : s <= t
                   \/ "highest" \in Placements /\ \A t \in fits : s >= t}
    /\ owner = [f \in Frame |->
            IF f \in FwFrames \cup {FwPml4} THEN "fw"
            ELSE IF f \in elf .. elf + FileFrames - 1 THEN "loader" ELSE "free"]
    /\ mem = [a \in Addr |->
            CASE FrameOf(a) = FwPml4 -> IF a % Fan < Fan \div 2
                                        THEN <<"large", 0>> ELSE Zero
              [] FrameOf(a) \in FwFrames -> <<"fw", 0>>
              [] FrameOf(a) \in elf .. elf + FileFrames - 1 ->
                                            <<"elf", a - elf * Fan>>
              [] OTHER -> <<"junk", 0>>]
    /\ cr3 = FwPml4
    /\ map = [l \in 1 .. 4 |-> NoFrame]
    /\ seg = 0 /\ page = 0 /\ addr = 0 /\ level = 1
    /\ step = "pml4"
    /\ claimed = {}
    /\ trouble = {}

(* Lines 866-870.  The status of the allocation is not looked at.          *)
NewPml4 ==
    /\ step = "pml4"
    /\ \E s \in AllocatePages(1) : \E m \in memmove(mem, s * Fan, cr3 * Fan, Fan) :
          /\ mem' = m
          /\ owner' = Own(s, 1)
          /\ map' = [map EXCEPT ![1] = s]
          /\ cr3' = s
          /\ trouble' = IF Smeared(mem, m, (s + 1) * Fan) THEN {"smear"} ELSE {}
    /\ step' = "segment"
    /\ UNCHANGED <<elf, seg, page, addr, level, claimed>>

(* When it fails, address still holds the file's buffer: the copy lands on *)
(* the headers the next line iterates over.                                *)
NewPml4Fails ==
    /\ step = "pml4" /\ TableFails
    /\ \E m \in memmove(mem, elf * Fan, cr3 * Fan, Fan) : mem' = m
    /\ map' = [map EXCEPT ![1] = elf]
    /\ cr3' = elf
    /\ step' = "wild"
    /\ UNCHANGED <<owner, elf, seg, page, addr, level, claimed, trouble>>

HasSegment == seg < Len(headers)
segment    == headers[seg + 1]

SkipSegment ==
    /\ step = "segment" /\ HasSegment /\ segment.type # PT_LOAD
    /\ seg' = seg + 1
    /\ UNCHANGED <<mem, owner, elf, cr3, map, page, addr, level, step,
                   claimed, trouble>>

(* Lines 880-883: the file's bytes at dest are surrounded by zeros.        *)
NoTail(m, s, skip, h) == memset(m, s * Fan, Zero, skip)     \* plausible bug

Cleared(m, s, skip, h) ==
    memset(memset(m, s * Fan, Zero, skip),
           s * Fan + skip + h.filesz, Zero, h.memsz - h.filesz)

(* Lines 878-887: frames for the segment, its bytes, the zeros around them. *)
LoadSegment ==
    /\ step = "segment" /\ HasSegment /\ segment.type = PT_LOAD
    /\ LET h    == segment
           n    == PageCount(h)
           skip == h.offset % PageSize
       IN  \E s \in AllocatePages(n) :
          \E m \in memmove(mem, s * Fan + skip, elf * Fan + h.offset, h.filesz) :
              /\ mem' = Cleared(m, s, skip, h)
              /\ owner' = Own(s, n)
              /\ addr' = s
              /\ trouble' = trouble \cup
                     IF Smeared(mem, mem', (s + n) * Fan) THEN {"smear"} ELSE {}
              /\ page' = PageStart(h)
    /\ level' = 1
    /\ step' = "walk"
    /\ UNCHANGED <<elf, cr3, map, seg, claimed>>

LoadSegmentFails ==
    /\ step = "segment" /\ HasSegment /\ segment.type = PT_LOAD
    /\ step' = "error"
    /\ UNCHANGED <<mem, owner, elf, cr3, map, seg, page, addr, level,
                   claimed, trouble>>

HereByLeaf == EntryAddr(map[level], page, 4)     \* plausible bug: l4 for all

Here == EntryAddr(map[level], page, level)      \* the entry looked at

(* One level of lines 901-930: an empty entry gets a new table, zeroed.    *)
NewTable ==
    /\ step = "walk" /\ level < 4 /\ mem[Here] = Zero
    /\ \E s \in AllocatePages(1) :
          /\ mem' = [memset(mem, s * Fan, Zero, Fan) EXCEPT ![Here] = Pte(s)]
          /\ owner' = Own(s, 1)
          /\ map' = [map EXCEPT ![level + 1] = s]
    /\ level' = level + 1
    /\ UNCHANGED <<elf, cr3, seg, page, addr, step, claimed, trouble>>

(* The status is not looked at here either: the local pointer keeps what   *)
(* its stack slot held, the table of the page before if there was one.     *)
NewTableFails ==
    /\ step = "walk" /\ level < 4 /\ mem[Here] = Zero /\ TableFails
    /\ IF map[level + 1] = NoFrame
       THEN step' = "wild" /\ UNCHANGED <<mem, level, trouble>>
       ELSE /\ mem' = [memset(mem, map[level + 1] * Fan, Zero, Fan)
                          EXCEPT ![Here] = Pte(map[level + 1])]
            /\ level' = level + 1
            /\ trouble' = trouble \cup {"stale"}
            /\ UNCHANGED step
    /\ UNCHANGED <<owner, elf, cr3, map, seg, page, addr, claimed>>

(* An entry in use is followed, whatever its flags.                        *)
FollowTable ==
    /\ step = "walk" /\ level < 4 /\ mem[Here] # Zero
    /\ IF mem[Here][1] \in {"pte", "np"}
       THEN /\ map' = [map EXCEPT ![level + 1] = mem[Here][2]]
            /\ level' = level + 1
            /\ UNCHANGED step
       ELSE step' = "wild" /\ UNCHANGED <<map, level>>
    /\ UNCHANGED <<mem, owner, elf, cr3, seg, page, addr, claimed, trouble>>

(* Line 931, and the message of line 932.                                  *)
SetLeaf ==
    /\ step = "walk" /\ level = 4
    /\ mem' = [mem EXCEPT ![Here] = Pte(addr)]
    /\ claimed' = claimed \cup {<<page, addr>>}
    /\ step' = "test"
    /\ UNCHANGED <<owner, elf, cr3, map, seg, page, addr, level, trouble>>

(* Lines 937-940: a byte of the page is read, and the loop goes on.        *)
TestMapping ==
    /\ step = "test"
    /\ Translate(mem, cr3, page) # NoFrame
    /\ IF page < PageEnd(segment)
       THEN /\ page' = page + 1 /\ addr' = addr + 1 /\ level' = 1
            /\ step' = "walk"
            /\ UNCHANGED seg
       ELSE /\ seg' = seg + 1 /\ step' = "segment"
            /\ UNCHANGED <<page, addr, level>>
    /\ UNCHANGED <<mem, owner, elf, cr3, map, claimed, trouble>>

TestFaults ==
    /\ step = "test"
    /\ Translate(mem, cr3, page) = NoFrame
    /\ step' = "fault"
    /\ UNCHANGED <<mem, owner, elf, cr3, map, seg, page, addr, level,
                   claimed, trouble>>

(* Lines 945-949.  The entry is the first address of the first segment, as *)
(* kernel/link.ld lays the kernel out.                                     *)
FirstLoad == CHOOSE k \in 1 .. Len(headers) :
                 IsLoad(headers[k]) /\ \A j \in 1 .. k - 1 : ~IsLoad(headers[j])
EntryPage == PageStart(headers[FirstLoad])

EnterKernel ==
    /\ step = "segment" /\ ~HasSegment
    /\ cr3' = map[1]
    /\ step' = IF Translate(mem, map[1], EntryPage) # NoFrame
               THEN "entered" ELSE "fault"
    /\ UNCHANGED <<mem, owner, elf, map, seg, page, addr, level, claimed, trouble>>

LoadNext ==
    \/ NewPml4 \/ NewPml4Fails
    \/ SkipSegment \/ LoadSegment \/ LoadSegmentFails
    \/ NewTable \/ NewTableFails \/ FollowTable \/ SetLeaf
    \/ TestMapping \/ TestFaults \/ EnterKernel

Next ==
    \/ PlanNext /\ UNCHANGED loadVars
    \/ phase = "accepted" /\ LoadNext /\ UNCHANGED planVars

Spec == LoaderInit /\ [][Next]_vars
----------------------------------------------------------------------------
(* Properties *)

(* Types of the mapping pass's state (main.c:866-950). *)
LoaderTypeOK ==
    /\ mem \in [Addr -> Word]
    /\ owner \in [Frame -> {"free", "fw", "loader"}]
    /\ elf \in Frame /\ cr3 \in Frame
    /\ map \in [1 .. 4 -> Frame \cup {NoFrame}]
    /\ seg \in 0 .. Len(headers) /\ page \in Page
    /\ addr \in Frame /\ level \in 1 .. 4
    /\ step \in {"pml4", "segment", "walk", "test", "entered", "error",
                 "wild", "fault"}
    /\ claimed \subseteq Page \X Frame
    /\ trouble \subseteq {"smear", "stale"}

Sound == trouble = {} /\ step # "wild"

Vmap == [p \in Page |-> Translate(mem, cr3, p)]

(* The page tables the loop builds (main.c:887-940) implement an abstract  *)
(* address space: whatever the placement of tables and segments, a step    *)
(* maps one page that was not mapped or changes no mapping at all.  So the *)
(* firmware, which runs on these tables from line 870 on, never loses its  *)
(* identity mapping, on no error path either.                              *)
AS == INSTANCE AddressSpace WITH
          vmap <- Vmap, lost <- ~Sound,
          Frame <- Frame \cup Page, NoFrame <- NoFrame
ImplementsAddressSpace == AS!Spec

(* Each claim "Mapped X to Y" (main.c:932) stays true up to the kernel's   *)
(* entry, and a kernel page is mapped only by a claim.                     *)
KernelPages == {p \in Page : Index(p, 1) >= Fan \div 2}
ClaimsHold ==
    Sound => LET v == Vmap
             IN  claimed = {<<p, v[p]>> : p \in {q \in KernelPages : v[q] # NoFrame}}

(* No frame has two uses (main.c:866-931): a page of the kernel never      *)
(* shares its frame with another page, with a table of the walk, with the  *)
(* file's buffer or with the firmware.                                     *)
FramesExclusive ==
    Sound =>
        LET v == Vmap
            mapped == {p \in KernelPages : v[p] # NoFrame}
        IN  /\ \A p, q \in mapped : v[p] = v[q] => p = q
            /\ \A p \in mapped :
                  /\ owner[v[p]] = "loader"
                  /\ v[p] \notin elf .. elf + FileFrames - 1
                  /\ Cardinality({a \in Addr : mem[a] = Pte(v[p])}) = 1

(* What the kernel finds at its entry (main.c:878-883, 949): every byte of *)
(* every segment is the file's byte, or zero behind the file's part, at    *)
(* the address the file asks for, provided the file places the segment at  *)
(* the same offset in its page as memory does.  Only the first byte of the *)
(* file may have changed before it was copied.                             *)
KernelImage ==
    step = "entered" /\ Sound =>
        LET v == Vmap
            read(a) == mem[(v[a \div Fan] * Fan) + (a % Fan)]
        IN  \A k \in 1 .. Len(headers) :
                LET h == headers[k]
                IN  IsLoad(h) /\ h.offset % PageSize = h.vaddr % PageSize =>
                      \A b \in 0 .. h.memsz - 1 : h.offset + b > 0 =>
                          read(h.vaddr + b) =
                              IF b < h.filesz THEN <<"elf", h.offset + b>> ELSE Zero

(* A page fault in the mapping test or at the entry (main.c:938, 949) has  *)
(* an unchecked failure or a stray byte as its cause, never the tables.    *)
(* Without one, the walk follows something that is no table (main.c:899)   *)
(* only under a PML4 that was not allocated, in the firmware's half of the *)
(* address space, or through a pointer that was never assigned.            *)
FaultExplained ==
    step \in {"fault", "wild"} /\ trouble = {} =>
        /\ step = "wild"
        /\ \/ map[1] = elf
           \/ level = 1 /\ page \notin KernelPages
           \/ mem[Here] = Zero /\ map[level + 1] = NoFrame

(* A step writes into frames the loader owns; the only word it may change  *)
(* elsewhere is the first word behind them, by the copy of builtins.c:25.  *)
WritesConfined ==
    [][\A a \in Addr : mem'[a] # mem[a] =>
          \/ owner'[FrameOf(a)] = "loader"
          \/ a % Fan = 0 /\ owner'[FrameOf(a) - 1] = "loader"]_vars

(* The overrun of builtins.c:25 needs a firmware that does not allocate    *)
(* from the top (main.c:866-881): what is placed below everything the      *)
(* loader holds, and below the PML4 in use, is copied forward, and no      *)
(* stray byte hits what is used.                                           *)
TopDownSafe ==
    [][LET new == {f \in Frame : owner'[f] = "loader" /\ owner[f] # "loader"}
       IN  (\A f \in new, g \in Frame : owner[g] = "loader" \/ g = cr3 => f < g)
             => ("smear" \in trouble' => "smear" \in trouble)]_vars

(* "Mapped %#llx to %#llx" (main.c:932): what the message says of a page,  *)
(* for as long as the pass runs.  Violated: the backward copy of a later   *)
(* segment changes the first byte behind its frames, which may be an entry *)
(* of a table, so that a printed mapping is gone.                          *)
MappedAsPrinted ==
    step # "wild" /\ "stale" \notin trouble =>
        LET v == Vmap IN \A c \in claimed : v[c[1]] = c[2]
=============================================================================
