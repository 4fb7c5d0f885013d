------------------------------ MODULE ElfPlan ------------------------------
(***************************************************************************)
(* The loader's plan for /kernel.elf: the first pass over the program      *)
(* headers (efi_main, bootloader/src/main.c:829-852), which notes the      *)
(* virtual pages of every PT_LOAD segment in the array pages[16], and the  *)
(* overlap check over that array (main.c:854-864).  Nothing is allocated   *)
(* or mapped before the check has accepted the plan.                       *)
(*                                                                         *)
(* Addresses are numbers below AddrSpace (2^64 in the program), a page has *)
(* PageSize addresses (4096), and every uint64_t computation is reduced    *)
(* modulo AddrSpace.  A program header keeps the fields the loader reads.  *)
(***************************************************************************)
EXTENDS Integers, Sequences, FiniteSets

CONSTANTS
    PageSize,       \* addresses in a page
    AddrSpace,      \* number of values of a uint64_t
    MaxLoad,        \* slots of the array pages
    HeaderTables    \* the program header tables a kernel file may carry

PT_NULL == 0
PT_LOAD == 1

Header == [type : {PT_NULL, PT_LOAD}, vaddr : 0 .. AddrSpace - 1,
           memsz : 0 .. AddrSpace - 1, offset : 0 .. AddrSpace - 1,
           filesz : 0 .. AddrSpace - 1, align : 0 .. AddrSpace - 1]

ASSUME PageSizeAssumption  == PageSize \in Nat /\ PageSize > 1
ASSUME AddrSpaceAssumption == AddrSpace \in Nat /\ AddrSpace > 1
ASSUME MaxLoadAssumption   == MaxLoad \in Nat \ {0}
ASSUME HeadersAssumption   == \A t \in HeaderTables : t \in Seq(Header)

VARIABLES
    headers,    \* the program header table of the file in memory
    iter,       \* struct ProgramHeaderIter
    pages,      \* the used part of the array pages; its length is n
    cursor,     \* first page after the last checked segment
    i,          \* segments the overlap check has passed
    phase       \* where efi_main is between lines 829 and 864

planVars == <<headers, iter, pages, cursor, i, phase>>

Phases == {"planning", "checking", "accepted",
           "misaligned", "overlapping", "overrun"}

Planned == phase \in {"accepted", "misaligned", "overlapping", "overrun"}
----------------------------------------------------------------------------
(* The iterator over the header table.  The stride is the entry size of    *)
(* the table, so that next counts entries.                                 *)
program_header_iter(table) == [next |-> 1, headers_left |-> Len(table)]

(* Plausible bug: the iterator does not count down.                        *)
UncountedIter(it) == [next |-> it.next + 1, headers_left |-> it.headers_left]

ph_next(it) == [next |-> it.next + 1, headers_left |-> it.headers_left - 1]

HasItem == iter.headers_left > 0
item    == headers[iter.next]

(* The pages a segment spans; the last one is computed from the address of *)
(* its last byte, which wraps for an empty segment at address 0.           *)
PageStart(h) == h.vaddr \div PageSize
(* Plausible bug: the end taken as the address after the last byte.        *)
PageEndExclusive(h) == ((h.vaddr + h.memsz) % AddrSpace) \div PageSize

PageEnd(h) == ((h.vaddr + h.memsz - 1) % AddrSpace) \div PageSize

(* Plausible bug: the last page is not counted.                            *)
PageCountShort(h) == (PageEnd(h) - PageStart(h)) % AddrSpace

PageCount(h) == (PageEnd(h) - PageStart(h) + 1) % AddrSpace

PageSpan == [vpage_start : Nat, vpage_size : 0 .. AddrSpace - 1]

Span(h) == [vpage_start |-> PageStart(h), vpage_size |-> PageCount(h)]

(* The comparison of line 840: an address is rounded down only when the    *)
(* header asks for an alignment.                                           *)
Misaligned(h) == h.align > 1 /\ h.vaddr % PageSize # 0
----------------------------------------------------------------------------
(* Plausible bugs of the actions below, for the mutants of the runs.       *)

(* headers of other types are planned as well *)
SkipHeaderPlanned ==
    /\ phase = "planning" /\ HasItem
    /\ item.type # PT_LOAD
    /\ pages' = Append(pages, Span(item))
    /\ iter' = ph_next(iter)
    /\ UNCHANGED <<headers, cursor, i, phase>>

(* a segment may start on the last page of the one before *)
CheckSegmentOffByOne ==
    /\ phase = "checking" /\ i < Len(pages)
    /\ pages[i + 1].vpage_start >= cursor - 1
    /\ cursor' = (pages[i + 1].vpage_start + pages[i + 1].vpage_size) % AddrSpace
    /\ i' = i + 1
    /\ UNCHANGED <<headers, iter, pages, phase>>

(* a segment may not start right after the one before *)
RejectTouching ==
    /\ phase = "checking" /\ i < Len(pages)
    /\ pages[i + 1].vpage_start <= cursor
    /\ phase' = "overlapping"
    /\ UNCHANGED <<headers, iter, pages, cursor, i>>
----------------------------------------------------------------------------
PlanInit ==
    /\ headers \in HeaderTables
    /\ iter = program_header_iter(headers)
    /\ pages = <<>>
    /\ cursor = 0
    /\ i = 0
    /\ phase = "planning"

SkipHeader ==
    /\ phase = "planning" /\ HasItem
    /\ item.type # PT_LOAD
    /\ iter' = ph_next(iter)
    /\ UNCHANGED <<headers, pages, cursor, i, phase>>

RejectMisaligned ==
    /\ phase = "planning" /\ HasItem
    /\ item.type = PT_LOAD /\ Misaligned(item)
    /\ phase' = "misaligned"
    /\ iter' = ph_next(iter)
    /\ UNCHANGED <<headers, pages, cursor, i>>

PlanSegment ==
    /\ phase = "planning" /\ HasItem
    /\ item.type = PT_LOAD /\ ~Misaligned(item)
    /\ Len(pages) < MaxLoad
    /\ pages' = Append(pages, Span(item))
    /\ iter' = ph_next(iter)
    /\ UNCHANGED <<headers, cursor, i, phase>>

(* pages[n++] has no bound check: a segment more than the array has slots  *)
(* is written past its end, after which the program's behaviour is open.   *)
OverrunPages ==
    /\ phase = "planning" /\ HasItem
    /\ item.type = PT_LOAD /\ ~Misaligned(item)
    /\ Len(pages) = MaxLoad
    /\ phase' = "overrun"
    /\ iter' = ph_next(iter)
    /\ UNCHANGED <<headers, pages, cursor, i>>

StartCheck ==
    /\ phase = "planning" /\ ~HasItem
    /\ phase' = "checking"
    /\ UNCHANGED <<headers, iter, pages, cursor, i>>

CheckSegment ==
    /\ phase = "checking" /\ i < Len(pages)
    /\ pages[i + 1].vpage_start >= cursor
    /\ cursor' = (pages[i + 1].vpage_start + pages[i + 1].vpage_size) % AddrSpace
    /\ i' = i + 1
    /\ UNCHANGED <<headers, iter, pages, phase>>

RejectOverlapping ==
    /\ phase = "checking" /\ i < Len(pages)
    /\ pages[i + 1].vpage_start < cursor
    /\ phase' = "overlapping"
    /\ UNCHANGED <<headers, iter, pages, cursor, i>>

Accept ==
    /\ phase = "checking" /\ i = Len(pages)
    /\ phase' = "accepted"
    /\ UNCHANGED <<headers, iter, pages, cursor, i>>

PlanNext ==
    \/ SkipHeader \/ RejectMisaligned \/ PlanSegment \/ OverrunPages
    \/ StartCheck \/ CheckSegment \/ RejectOverlapping \/ Accept

PlanSpec == PlanInit /\ [][PlanNext]_planVars /\ WF_planVars(PlanNext)
----------------------------------------------------------------------------
(* Properties *)

(* Types of the pass's variables (main.c:829-854).                         *)
PlanTypeOK ==
    /\ headers \in Seq(Header)
    /\ iter \in [next : Nat \ {0}, headers_left : Nat]
    /\ iter.next + iter.headers_left = Len(headers) + 1
    /\ pages \in Seq(PageSpan)
    /\ cursor \in 0 .. AddrSpace - 1
    /\ i \in 0 .. Len(pages)
    /\ phase \in Phases

(* A segment whose last byte lies in the address space and after address 0 *)
(* does not make the uint64_t sums of lines 845-846 wrap.                  *)
NoWrap(h) == h.vaddr + h.memsz \in 1 .. AddrSpace

NoHeaderWraps ==
    \A k \in 1 .. Len(headers) : headers[k].type = PT_LOAD => NoWrap(headers[k])

SpanEnd(s) == s.vpage_start + s.vpage_size

(* "All loadable segments are non-overlapping" (main.c:864): in a plan the *)
(* check has accepted, every segment ends before any later one starts, so  *)
(* that no two segments share a page.                                      *)
AcceptedDisjoint ==
    phase = "accepted" /\ NoHeaderWraps =>
        \A k \in 1 .. Len(pages) : \A j \in 1 .. k - 1 :
            SpanEnd(pages[j]) <= pages[k].vpage_start

(* The plan the check reads is the plan of the file: when the first pass   *)
(* ends (main.c:852), pages holds the spans of the PT_LOAD headers, all of *)
(* them, in the order of the table, and the array was not overrun.         *)
IsLoad(h) == h.type = PT_LOAD
Loads(n)  == {k \in 1 .. n : IsLoad(headers[k])}    \* of the first n headers

PlanComplete ==
    phase \in {"checking", "accepted", "overlapping"} =>
        /\ Len(pages) = Cardinality(Loads(Len(headers))) /\ Len(pages) <= MaxLoad
        /\ \A k \in Loads(Len(headers)) : pages[Cardinality(Loads(k))] = Span(headers[k])

(* The check rejects only what the mapping pass could not map as planned   *)
(* (main.c:857-860): a rejected plan has a segment that starts before the  *)
(* end of an earlier one.                                                  *)
RejectionJustified ==
    phase = "overlapping" /\ NoHeaderWraps =>
        \E k \in 1 .. Len(pages) : \E j \in 1 .. k - 1 :
            pages[k].vpage_start < SpanEnd(pages[j])

(* A valid table is not refused (main.c:836-864): page-aligned segments in *)
(* ascending order, each starting after the pages of the ones before it,   *)
(* and no more of them than pages has slots, are accepted in the end.      *)
WellFormed(t) ==
    LET loads == SelectSeq(t, IsLoad)
    IN  /\ Len(loads) <= MaxLoad
        /\ \A k \in 1 .. Len(loads) :
              /\ NoWrap(loads[k]) /\ loads[k].vaddr % PageSize = 0
              /\ \A j \in 1 .. k - 1 :
                    loads[j].vaddr + loads[j].memsz <= loads[k].vaddr
WellFormedAccepted == WellFormed(headers) ~> phase = "accepted"

(* "All program segments in %s must be aligned to 4K pages" (main.c:842):  *)
(* what the message promises of an accepted file.  Violated: a header with *)
(* an alignment of 0 or 1 is not checked.                                  *)
AcceptedAligned ==
    phase = "accepted" =>
        \A k \in 1 .. Len(headers) :
            IsLoad(headers[k]) => headers[k].vaddr % PageSize = 0
=============================================================================
