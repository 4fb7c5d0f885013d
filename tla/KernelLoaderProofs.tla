------------------------- MODULE KernelLoaderProofs ------------------------
(* Proofs about KernelLoader, for every memory, firmware, kernel file and  *)
(* size of a page; first those about the plan it begins with, ElfPlan, for *)
(* every header table, page size, width of an address and size of the      *)
(* array pages.                                                            *)
EXTENDS KernelLoader, TLAPS, FiniteSetTheorems

-----------------------------------------------------------------------------
(* The plan.                                                               *)

(* The quotient of a page computation stays well below the address space.  *)
LEMMA Quotient ==
    ASSUME NEW a \in Nat
    PROVE  /\ a \div PageSize \in Nat
           /\ 2 * (a \div PageSize) <= a
  BY PageSizeAssumption, Z3

(* Division by the page size is monotone, and a page back is at most one.  *)
LEMMA QuotientMonotone ==
    ASSUME NEW a \in Nat, NEW b \in Nat, a <= b + 1
    PROVE  a \div PageSize <= (b \div PageSize) + 1
  BY PageSizeAssumption, Z3

(* Where the span of a segment that does not wrap ends: before the last    *)
(* page number a uint64_t can hold, so that the sum of line 862 is exact.  *)
LEMMA SpanFits ==
    ASSUME NEW h \in Header, NoWrap(h)
    PROVE  /\ SpanEnd(Span(h)) = PageEnd(h) + 1
           /\ SpanEnd(Span(h)) < AddrSpace
  <1> DEFINE a == h.vaddr + h.memsz - 1
  <1>1. /\ h.vaddr \in Nat /\ h.memsz \in Nat /\ a \in 0 .. AddrSpace - 1
        /\ AddrSpace \in Nat /\ AddrSpace > 1 /\ h.vaddr <= a + 1
    BY AddrSpaceAssumption DEF Header, NoWrap
  <1> HIDE DEF a
  <1>2. a % AddrSpace = a
    BY <1>1
  <1>3. PageEnd(h) = a \div PageSize
    BY <1>2 DEF PageEnd, a
  <1>4. /\ PageEnd(h) \in Nat /\ 2 * PageEnd(h) <= a
        /\ PageStart(h) \in Nat /\ PageStart(h) <= PageEnd(h) + 1
    <2>1. a \in Nat
      BY <1>1
    <2>2. PageEnd(h) \in Nat /\ 2 * PageEnd(h) <= a
      BY <1>3, <2>1, Quotient
    <2>3. PageStart(h) \in Nat
      BY <1>1, Quotient DEF PageStart
    <2>4. PageStart(h) <= PageEnd(h) + 1
      BY <1>1, <1>3, <2>1, QuotientMonotone DEF PageStart
    <2>5. QED
      BY <2>2, <2>3, <2>4
  <1>5. PageEnd(h) - PageStart(h) + 1 \in 0 .. AddrSpace - 1
    BY <1>1, <1>4
  <1>6. PageCount(h) = PageEnd(h) - PageStart(h) + 1
    BY <1>1, <1>5 DEF PageCount
  <1>7. QED
    BY <1>1, <1>4, <1>6 DEF SpanEnd, Span

(* Every span the first pass notes has the type of an element of pages.    *)
LEMMA PageSpand ==
    ASSUME NEW h \in Header
    PROVE  Span(h) \in PageSpan
  <1>1. PageStart(h) \in Nat
    BY Quotient DEF Header, PageStart
  <1>2. PageEnd(h) \in Int
    <2>1. h.vaddr + h.memsz - 1 \in Int
      BY DEF Header
    <2>2. (h.vaddr + h.memsz - 1) % AddrSpace \in Nat
      BY <2>1, AddrSpaceAssumption
    <2>3. QED
      BY <2>2, Quotient DEF PageEnd
  <1>3. PageCount(h) \in 0 .. AddrSpace - 1
    <2>1. PageEnd(h) - PageStart(h) + 1 \in Int
      BY <1>1, <1>2
    <2>2. QED
      BY <2>1, AddrSpaceAssumption DEF PageCount
  <1>4. QED
    BY <1>1, <1>3 DEF Span, PageSpan

(* The variables of the pass keep their types (main.c:829-864).            *)
LEMMA PlanTypeStep == PlanTypeOK /\ [PlanNext]_planVars => PlanTypeOK'
  <1> SUFFICES ASSUME PlanTypeOK, [PlanNext]_planVars PROVE PlanTypeOK'
    OBVIOUS
  <1> USE DEF PlanTypeOK, Phases
  <1>1. ASSUME HasItem
        PROVE  /\ item \in Header
               /\ ph_next(iter) \in [next : Nat \ {0}, headers_left : Nat]
               /\ ph_next(iter).next + ph_next(iter).headers_left = Len(headers) + 1
    <2>1. /\ iter.next \in 1 .. Len(headers) /\ iter.headers_left - 1 \in Nat
          /\ iter.next + 1 \in Nat \ {0}
      BY <1>1 DEF HasItem
    <2>2. QED
      BY <2>1 DEF item, ph_next
  <1>2. CASE SkipHeader
    BY <1>1, <1>2 DEF SkipHeader
  <1>3. CASE RejectMisaligned
    BY <1>1, <1>3 DEF RejectMisaligned
  <1>4. CASE PlanSegment
    <2>1. Span(item) \in PageSpan
      BY <1>1, <1>4, PageSpand DEF PlanSegment
    <2>2. pages' \in Seq(PageSpan) /\ Len(pages') = Len(pages) + 1
      BY <1>4, <2>1 DEF PlanSegment
    <2>3. i \in 0 .. Len(pages')
      BY <2>2
    <2>4. QED
      BY <1>1, <1>4, <2>2, <2>3 DEF PlanSegment
  <1>5. CASE OverrunPages
    BY <1>1, <1>5 DEF OverrunPages
  <1>6. CASE StartCheck
    BY <1>6 DEF StartCheck
  <1>7. CASE CheckSegment
    <2>1. i + 1 \in 1 .. Len(pages) /\ pages[i + 1] \in PageSpan
      BY <1>7 DEF CheckSegment
    <2>2. pages[i + 1].vpage_start + pages[i + 1].vpage_size \in Int
      <3>1. \A s \in PageSpan : s.vpage_start + s.vpage_size \in Int
        BY ONLY AddrSpaceAssumption DEF PageSpan
      <3>2. QED
        BY ONLY <2>1, <3>1
    <2>3. cursor' \in 0 .. AddrSpace - 1
      <3>1. \A n \in Int : n % AddrSpace \in 0 .. AddrSpace - 1
        BY ONLY AddrSpaceAssumption
      <3>2. cursor' = (pages[i + 1].vpage_start + pages[i + 1].vpage_size) % AddrSpace
        BY ONLY <1>7 DEF CheckSegment
      <3>3. QED
        BY ONLY <2>2, <3>1, <3>2
    <2>4. QED
      BY <1>7, <2>1, <2>3 DEF CheckSegment
  <1>8. CASE RejectOverlapping
    BY <1>8 DEF RejectOverlapping
  <1>9. CASE Accept
    BY <1>9 DEF Accept
  <1>10. CASE UNCHANGED planVars
    BY <1>10 DEF planVars
  <1>11. QED
    BY <1>2, <1>3, <1>4, <1>5, <1>6, <1>7, <1>8, <1>9, <1>10 DEF PlanNext

LEMMA PlanTypeInit == PlanInit => PlanTypeOK
  BY HeadersAssumption, AddrSpaceAssumption
  DEF PlanInit, PlanTypeOK, Phases, program_header_iter

(* The variables of the pass keep their types (main.c:829-864).            *)
THEOREM PlanTypeCorrect == PlanSpec => []PlanTypeOK
  BY PlanTypeInit, PlanTypeStep, PTL DEF PlanSpec

(* The inductive invariant of the overlap check: no noted span reaches the *)
(* end of the address space, and the spans the check has passed are in     *)
(* order and end at the cursor or before it.                               *)
SpansFit == \A k \in 1 .. Len(pages) : SpanEnd(pages[k]) < AddrSpace

PassedInOrder ==
    \A k \in 1 .. i : /\ SpanEnd(pages[k]) <= cursor
                     /\ \A j \in 1 .. k - 1 :
                            SpanEnd(pages[j]) <= pages[k].vpage_start

CheckInv ==
    /\ phase = "planning" => i = 0
    /\ phase = "accepted" => i = Len(pages)
    /\ NoHeaderWraps => SpansFit /\ PassedInOrder

LEMMA CheckStep == PlanTypeOK /\ CheckInv /\ [PlanNext]_planVars => CheckInv'
  <1> SUFFICES ASSUME PlanTypeOK, CheckInv, [PlanNext]_planVars PROVE CheckInv'
    OBVIOUS
  <1>1. i \in Nat /\ Len(pages) \in Nat /\ pages \in Seq(PageSpan)
    BY DEF PlanTypeOK
  <1>2. ASSUME headers' = headers, pages' = pages, i' = i, cursor' = cursor
        PROVE  NoHeaderWraps' => SpansFit' /\ PassedInOrder'
    BY <1>2 DEF CheckInv, NoHeaderWraps, SpansFit, PassedInOrder
  <1>3. CASE SkipHeader
    BY <1>2, <1>3 DEF SkipHeader, CheckInv
  <1>4. CASE RejectMisaligned
    BY <1>2, <1>4 DEF RejectMisaligned, CheckInv
  <1>5. CASE PlanSegment
    <2>1. i' = 0 /\ i = 0 /\ phase' = "planning"
      BY <1>5 DEF PlanSegment, CheckInv
    <2>2. ASSUME NoHeaderWraps PROVE SpansFit'
      <3>1. iter.next \in 1 .. Len(headers) /\ item \in Header /\ NoWrap(item)
        <4>1. iter.next \in 1 .. Len(headers)
          BY <1>5 DEF PlanSegment, HasItem, PlanTypeOK
        <4>2. item \in Header
          BY <4>1 DEF item, PlanTypeOK
        <4>3. NoWrap(item)
          BY <1>5, <2>2, <4>1 DEF PlanSegment, item, NoHeaderWraps
        <4>4. QED
          BY <4>1, <4>2, <4>3
      <3>2. SpanEnd(Span(item)) < AddrSpace
        BY <3>1, SpanFits
      <3>3. /\ Len(pages') = Len(pages) + 1
            /\ \A k \in 1 .. Len(pages) : pages'[k] = pages[k]
            /\ pages'[Len(pages) + 1] = Span(item)
        BY <1>1, <1>5 DEF PlanSegment
      <3>4. SpansFit
        BY <2>2 DEF CheckInv
      <3>5. \A k \in 1 .. Len(pages') : k \in 1 .. Len(pages) \/ k = Len(pages) + 1
        BY <1>1, <3>3
      <3>6. QED
        BY <3>2, <3>3, <3>4, <3>5 DEF SpansFit
    <2>3. PassedInOrder'
      BY <2>1 DEF PassedInOrder
    <2>4. NoHeaderWraps' <=> NoHeaderWraps
      BY <1>5 DEF PlanSegment, NoHeaderWraps
    <2>5. QED
      BY <2>1, <2>2, <2>3, <2>4 DEF CheckInv
  <1>6. CASE OverrunPages
    BY <1>2, <1>6 DEF OverrunPages, CheckInv
  <1>7. CASE StartCheck
    BY <1>2, <1>7 DEF StartCheck, CheckInv
  <1>8. CASE CheckSegment
    <2> DEFINE s == pages[i + 1]
    <2>1. /\ i + 1 \in 1 .. Len(pages) /\ s \in PageSpan /\ i' = i + 1
          /\ s.vpage_start >= cursor /\ phase' = "checking"
          /\ headers' = headers /\ pages' = pages
      BY <1>1, <1>8 DEF CheckSegment
    <2>2. s.vpage_start \in Nat /\ s.vpage_size \in Nat /\ cursor \in Nat
      <3>1. \A t \in PageSpan : t.vpage_start \in Nat /\ t.vpage_size \in Nat
        BY ONLY AddrSpaceAssumption DEF PageSpan
      <3>2. cursor \in Nat
        BY ONLY PlanTypeOK, AddrSpaceAssumption DEF PlanTypeOK
      <3>3. QED
        BY ONLY <2>1, <3>1, <3>2
    <2>3. ASSUME NoHeaderWraps PROVE SpansFit' /\ PassedInOrder'
      <3>1. SpansFit /\ PassedInOrder
        BY <2>3 DEF CheckInv
      <3>2. SpanEnd(s) < AddrSpace
        BY <2>1, <3>1 DEF SpansFit
      <3>3. cursor' = SpanEnd(s)
        <4>1. cursor' = SpanEnd(s) % AddrSpace
          BY <1>8 DEF CheckSegment, SpanEnd
        <4>2. SpanEnd(s) \in 0 .. AddrSpace - 1
          BY <2>2, <3>2, AddrSpaceAssumption DEF SpanEnd
        <4>3. \A n \in 0 .. AddrSpace - 1 : n % AddrSpace = n
          BY AddrSpaceAssumption
        <4>4. QED
          BY <4>1, <4>2, <4>3
      <3>4. cursor <= cursor' /\ cursor' \in Nat
        BY <2>1, <2>2, <3>3 DEF SpanEnd
      <3>5. \A k \in 1 .. i : SpanEnd(pages[k]) \in Nat /\ SpanEnd(pages[k]) <= cursor
        <4> SUFFICES ASSUME NEW k \in 1 .. i
                     PROVE  SpanEnd(pages[k]) \in Nat /\ SpanEnd(pages[k]) <= cursor
          OBVIOUS
        <4>1. pages[k] \in PageSpan
          BY <1>1, <2>1
        <4>2. QED
          BY <3>1, <4>1 DEF SpanEnd, PassedInOrder, PageSpan
      <3>6. ASSUME NEW k \in 1 .. i + 1
            PROVE  /\ SpanEnd(pages[k]) <= cursor'
                   /\ \A j \in 1 .. k - 1 : SpanEnd(pages[j]) <= pages[k].vpage_start
        <4>1. CASE k = i + 1
          <5>1. SpanEnd(pages[k]) <= cursor'
            BY <3>3, <3>4, <4>1
          <5>2. \A j \in 1 .. k - 1 : SpanEnd(pages[j]) <= pages[k].vpage_start
            BY <1>1, <2>1, <2>2, <3>5, <4>1
          <5>3. QED
            BY <5>1, <5>2
        <4>2. CASE k # i + 1
          <5>1. k \in 1 .. i
            BY <1>1, <4>2
          <5>2. QED
            BY <2>2, <3>1, <3>4, <3>5, <5>1 DEF PassedInOrder
        <4>3. QED
          BY <4>1, <4>2
      <3>7. PassedInOrder'
        BY <2>1, <3>6 DEF PassedInOrder, SpanEnd
      <3>8. QED
        BY <2>1, <3>1, <3>7 DEF SpansFit, SpanEnd
    <2>4. NoHeaderWraps' <=> NoHeaderWraps
      BY <2>1 DEF NoHeaderWraps
    <2>5. QED
      BY <2>1, <2>3, <2>4 DEF CheckInv
  <1>9. CASE RejectOverlapping
    BY <1>2, <1>9 DEF RejectOverlapping, CheckInv
  <1>10. CASE Accept
    BY <1>2, <1>10 DEF Accept, CheckInv
  <1>11. CASE UNCHANGED planVars
    BY <1>2, <1>11 DEF planVars, CheckInv
  <1>12. QED
    BY <1>3, <1>4, <1>5, <1>6, <1>7, <1>8, <1>9, <1>10, <1>11 DEF PlanNext

(* "All loadable segments are non-overlapping" (main.c:864) is true of     *)
(* every plan the check accepts, for segments that do not wrap around the  *)
(* end of the address space.                                               *)
THEOREM PlanDisjoint == PlanSpec => []AcceptedDisjoint
  <1>1. PlanInit => CheckInv
    BY DEF PlanInit, CheckInv, SpansFit, PassedInOrder
  <1>2. CheckInv => AcceptedDisjoint
    BY DEF CheckInv, PassedInOrder, AcceptedDisjoint
  <1>3. QED
    BY <1>1, <1>2, CheckStep, PlanTypeCorrect, PTL DEF PlanSpec

(* The check compares with the segment it has just passed: the cursor is   *)
(* its end, and 0 before the first one.                                    *)
CursorInv ==
    NoHeaderWraps =>
        /\ i = 0 => cursor = 0
        /\ i > 0 => cursor = SpanEnd(pages[i])
        /\ phase = "overlapping" =>
              i < Len(pages) /\ pages[i + 1].vpage_start < cursor

LEMMA CursorStep ==
    PlanTypeOK /\ CheckInv /\ CursorInv /\ [PlanNext]_planVars => CursorInv'
  <1> SUFFICES ASSUME PlanTypeOK, CheckInv, CursorInv, [PlanNext]_planVars, NoHeaderWraps'
               PROVE  CursorInv'
    BY DEF CursorInv
  <1>1. headers' = headers /\ NoHeaderWraps
    BY DEF PlanNext, planVars, SkipHeader, RejectMisaligned, PlanSegment, OverrunPages,
           StartCheck, CheckSegment, RejectOverlapping, Accept, NoHeaderWraps
  <1>2. /\ i \in Nat /\ pages \in Seq(PageSpan) /\ i <= Len(pages)
        /\ i = 0 => cursor = 0
        /\ i > 0 => cursor = SpanEnd(pages[i])
    BY <1>1 DEF PlanTypeOK, CursorInv
  <1>3. CASE \/ SkipHeader \/ RejectMisaligned \/ OverrunPages \/ StartCheck
             \/ Accept \/ RejectOverlapping
    BY <1>2, <1>3 DEF SkipHeader, RejectMisaligned, OverrunPages, StartCheck, Accept,
                      RejectOverlapping, CursorInv
  <1>4. CASE PlanSegment
    <2>1. i = 0 /\ i' = 0 /\ cursor' = 0 /\ phase' = "planning"
      BY <1>2, <1>4 DEF PlanSegment, CheckInv
    <2>2. QED
      BY <2>1 DEF CursorInv
  <1>5. CASE CheckSegment
    <2>1. /\ i + 1 \in 1 .. Len(pages) /\ i' = i + 1 /\ pages' = pages /\ phase' = "checking"
          /\ pages[i + 1] \in PageSpan
          /\ cursor' = SpanEnd(pages[i + 1]) % AddrSpace
      BY <1>2, <1>5 DEF CheckSegment, SpanEnd
    <2>2. SpanEnd(pages[i + 1]) \in 0 .. AddrSpace - 1
      <3>1. SpansFit
        BY <1>1 DEF CheckInv
      <3>2. SpanEnd(pages[i + 1]) < AddrSpace
        BY ONLY <2>1, <3>1 DEF SpansFit
      <3>3. SpanEnd(pages[i + 1]) \in Nat
        BY ONLY <2>1, AddrSpaceAssumption DEF SpanEnd, PageSpan
      <3>4. QED
        BY ONLY <3>2, <3>3, AddrSpaceAssumption
    <2>3. \A n \in 0 .. AddrSpace - 1 : n % AddrSpace = n
      BY AddrSpaceAssumption
    <2>4. cursor' = SpanEnd(pages'[i'])
      BY <2>1, <2>2, <2>3 DEF SpanEnd
    <2>5. i' > 0 /\ i' # 0 /\ phase' # "overlapping"
      BY <1>2, <2>1
    <2>6. QED
      BY <2>4, <2>5 DEF CursorInv, SpanEnd
  <1>6. CASE UNCHANGED planVars
    BY <1>1, <1>6 DEF planVars, CursorInv, SpanEnd
  <1>7. QED
    BY <1>3, <1>4, <1>5, <1>6 DEF PlanNext

LEMMA CheckInit == PlanInit => CheckInv /\ CursorInv
  BY DEF PlanInit, CheckInv, SpansFit, PassedInOrder, CursorInv

(* A plan is rejected only if a segment starts before the end of an        *)
(* earlier one (main.c:857-860), and it is the one right before it.        *)
THEOREM RejectedOverlaps == PlanSpec => []RejectionJustified
  <1>1. PlanTypeOK /\ CursorInv => RejectionJustified
    <2> SUFFICES ASSUME PlanTypeOK, CursorInv, phase = "overlapping", NoHeaderWraps
                 PROVE  \E k \in 1 .. Len(pages) : \E j \in 1 .. k - 1 :
                            pages[k].vpage_start < SpanEnd(pages[j])
      BY DEF RejectionJustified
    <2>1. /\ i \in Nat /\ i + 1 \in 1 .. Len(pages) /\ pages[i + 1] \in PageSpan
          /\ pages[i + 1].vpage_start < cursor
      BY DEF PlanTypeOK, CursorInv
    <2>2. pages[i + 1].vpage_start \in Nat
      BY <2>1 DEF PageSpan
    <2>3. i > 0
      BY <2>1, <2>2 DEF CursorInv
    <2>4. i \in 1 .. (i + 1) - 1 /\ pages[i + 1].vpage_start < SpanEnd(pages[i])
      BY <2>1, <2>3 DEF CursorInv
    <2>5. QED
      BY <2>1, <2>4
  <1>2. QED
    BY <1>1, CheckInit, CheckStep, CursorStep, PlanTypeCorrect, PTL DEF PlanSpec

(* One more header is one more segment, or none.                           *)
LEMMA LoadsGrow ==
    ASSUME NEW n \in Nat
    PROVE  /\ IsFiniteSet(Loads(n)) /\ Cardinality(Loads(n)) \in Nat
           /\ Cardinality(Loads(n + 1)) = Cardinality(Loads(n))
                                           + (IF IsLoad(headers[n + 1]) THEN 1 ELSE 0)
           /\ \A k \in Loads(n) : /\ Cardinality(Loads(k)) \in 1 .. Cardinality(Loads(n))
  <1>1. ASSUME NEW m \in Nat
        PROVE  IsFiniteSet(Loads(m)) /\ Cardinality(Loads(m)) \in Nat
    <2>1. IsFiniteSet(1 .. m)
      BY FS_Interval
    <2>2. Loads(m) \in SUBSET (1 .. m)
      BY DEF Loads
    <2>3. IsFiniteSet(Loads(m))
      BY <2>1, <2>2, FS_Subset
    <2>4. QED
      BY <2>3, FS_CardinalityType
  <1>2. Cardinality(Loads(n + 1)) = Cardinality(Loads(n))
                                    + (IF IsLoad(headers[n + 1]) THEN 1 ELSE 0)
    <2>1. CASE IsLoad(headers[n + 1])
      <3>1. Loads(n + 1) = Loads(n) \cup {n + 1} /\ n + 1 \notin Loads(n)
        BY <2>1 DEF Loads
      <3>2. QED
        BY <1>1, <2>1, <3>1, FS_AddElement
    <2>2. CASE ~IsLoad(headers[n + 1])
      <3>1. Loads(n + 1) = Loads(n)
        BY <2>2 DEF Loads
      <3>2. QED
        BY <1>1, <2>2, <3>1
    <2>3. QED
      BY <2>1, <2>2
  <1>3. ASSUME NEW k \in Loads(n)
        PROVE  Cardinality(Loads(k)) \in 1 .. Cardinality(Loads(n))
    <2>1. k \in Nat /\ k \in Loads(k) /\ Loads(k) \in SUBSET Loads(n)
      BY DEF Loads
    <2>2. Cardinality(Loads(k)) \in Nat /\ Cardinality(Loads(k)) # 0
      BY <1>1, <2>1, FS_EmptySet
    <2>3. Cardinality(Loads(k)) <= Cardinality(Loads(n))
      BY <1>1, <2>1, FS_Subset
    <2>4. QED
      BY <1>1, <2>2, <2>3
  <1>4. QED
    BY <1>1, <1>2, <1>3

(* The first pass has noted the spans of the segments among the headers it *)
(* has read, until it gives up; it ends behind the last header.            *)
NotedInv ==
    phase \notin {"misaligned", "overrun"} =>
        /\ Len(pages) = Cardinality(Loads(iter.next - 1)) /\ Len(pages) <= MaxLoad
        /\ \A k \in Loads(iter.next - 1) : pages[Cardinality(Loads(k))] = Span(headers[k])
        /\ phase # "planning" => ~HasItem

LEMMA NotedStep == PlanTypeOK /\ NotedInv /\ [PlanNext]_planVars => NotedInv'
  <1> SUFFICES ASSUME PlanTypeOK, NotedInv, [PlanNext]_planVars PROVE NotedInv'
    OBVIOUS
  <1>1. /\ iter.next \in Nat \ {0} /\ Len(pages) \in Nat /\ MaxLoad \in Nat
        /\ pages \in Seq(PageSpan)
    BY MaxLoadAssumption DEF PlanTypeOK
  <1> DEFINE n == iter.next - 1
  <1>2. n \in Nat /\ n + 1 = iter.next
    BY <1>1
  <1>3. ASSUME headers' = headers
        PROVE  \A m : Loads(m)' = Loads(m)
    BY <1>3 DEF Loads
  <1>4. CASE SkipHeader
    <2>1. /\ headers' = headers /\ pages' = pages /\ phase = "planning" /\ phase' = phase
          /\ iter'.next - 1 = n + 1 /\ ~IsLoad(headers[n + 1])
      BY <1>2, <1>4 DEF SkipHeader, ph_next, item, IsLoad
    <2>2. Loads(n + 1) = Loads(n)
      BY <1>2, <2>1 DEF Loads
    <2>3. Loads(iter.next - 1)' = Loads(n)
      BY <2>1, <2>2 DEF Loads
    <2>4. QED
      BY <1>3, <2>1, <2>3 DEF NotedInv
  <1>5. CASE PlanSegment
    <2>1. /\ headers' = headers /\ pages' = Append(pages, Span(headers[n + 1]))
          /\ phase = "planning" /\ phase' = phase /\ Len(pages) < MaxLoad
          /\ iter'.next - 1 = n + 1 /\ IsLoad(headers[n + 1])
      BY <1>2, <1>5 DEF PlanSegment, ph_next, item, IsLoad
    <2>2. /\ Len(pages') = Len(pages) + 1 /\ pages'[Len(pages) + 1] = Span(headers[n + 1])
          /\ \A k \in 1 .. Len(pages) : pages'[k] = pages[k]
      BY <1>1, <2>1
    <2>3. /\ Len(pages) = Cardinality(Loads(n))
          /\ \A k \in Loads(n) : pages[Cardinality(Loads(k))] = Span(headers[k])
      BY <2>1 DEF NotedInv
    <2>4. Cardinality(Loads(n + 1)) = Len(pages) + 1
      BY <1>2, <2>1, <2>3, LoadsGrow
    <2>5. ASSUME NEW k \in Loads(n + 1)
          PROVE  pages'[Cardinality(Loads(k))] = Span(headers[k])
      <3>1. CASE k = n + 1
        BY <2>2, <2>4, <3>1
      <3>2. CASE k # n + 1
        <4>1. k \in Loads(n)
          BY <1>2, <3>2 DEF Loads
        <4>2. Cardinality(Loads(k)) \in 1 .. Len(pages)
          BY <1>2, <2>3, <4>1, LoadsGrow
        <4>3. QED
          BY <2>2, <2>3, <4>1, <4>2
      <3>3. QED
        BY <3>1, <3>2
    <2>6. Len(pages') <= MaxLoad
      BY <1>1, <2>1, <2>2
    <2>7. Loads(iter.next - 1)' = Loads(n + 1)
      BY <2>1 DEF Loads
    <2>8. QED
      BY <1>3, <2>1, <2>2, <2>4, <2>5, <2>6, <2>7 DEF NotedInv
  <1>6. CASE RejectMisaligned \/ OverrunPages
    BY <1>6 DEF RejectMisaligned, OverrunPages, NotedInv
  <1>7. CASE StartCheck \/ CheckSegment \/ RejectOverlapping \/ Accept \/ UNCHANGED planVars
    <2>1. /\ headers' = headers /\ pages' = pages /\ iter' = iter
          /\ phase' \notin {"misaligned", "overrun"} => phase \notin {"misaligned", "overrun"}
          /\ (phase # "planning" => ~HasItem) => (phase' # "planning" => ~HasItem')
      BY <1>7 DEF StartCheck, CheckSegment, RejectOverlapping, Accept, planVars, HasItem
    <2>2. QED
      BY <1>3, <2>1 DEF NotedInv
  <1>8. QED
    BY <1>4, <1>5, <1>6, <1>7 DEF PlanNext

LEMMA NotedInit == PlanInit => NotedInv
  <1> SUFFICES ASSUME PlanInit PROVE NotedInv
    OBVIOUS
  <1>1. pages = <<>> /\ iter.next - 1 = 0 /\ phase = "planning"
    BY DEF PlanInit, program_header_iter
  <1>2. Loads(0) = {}
    BY DEF Loads
  <1>3. Cardinality(Loads(0)) = 0
    BY <1>2, FS_EmptySet
  <1>4. QED
    BY <1>1, <1>2, <1>3, MaxLoadAssumption DEF NotedInv

LEMMA NotedIsComplete == PlanTypeOK /\ NotedInv => PlanComplete
  <1> SUFFICES ASSUME PlanTypeOK, NotedInv,
                      phase \in {"checking", "accepted", "overlapping"}
               PROVE  /\ Len(pages) = Cardinality(Loads(Len(headers)))
                      /\ Len(pages) <= MaxLoad
                      /\ \A k \in Loads(Len(headers)) :
                              pages[Cardinality(Loads(k))] = Span(headers[k])
    BY DEF PlanComplete
  <1>1. iter.next - 1 = Len(headers)
    BY DEF NotedInv, PlanTypeOK, HasItem
  <1>2. QED
    BY <1>1 DEF NotedInv

(* The plan the check reads is the plan of the file (main.c:836-852): the   *)
(* spans of the PT_LOAD headers, all of them, in the order of the table.   *)
THEOREM PlanOfTheFile == PlanSpec => []PlanComplete
  BY NotedInit, NotedIsComplete, NotedStep, PlanTypeCorrect, PTL DEF PlanSpec

-----------------------------------------------------------------------------
(* Addresses, frames and the digits of a page number.                      *)

LEMMA Division ==
    ASSUME NEW a \in Nat, NEW b \in Nat \ {0}
    PROVE  a \div b \in Nat /\ a % b \in 0 .. b - 1 /\ a = (a \div b) * b + (a % b)
  BY Z3

LEMMA DivisionIs ==
    ASSUME NEW a \in Nat, NEW b \in Nat \ {0}, NEW q \in Nat, NEW r \in 0 .. b - 1,
           a = q * b + r
    PROVE  a \div b = q /\ a % b = r
  BY Z3

LEMMA Remainder ==
    ASSUME NEW a \in Nat, NEW b \in Nat \ {0}
    PROVE  a % b \in Nat /\ a % b < b /\ a % b <= a
  BY Z3

LEMMA Rows ==
    ASSUME NEW p \in Nat, NEW q \in Nat, NEW b \in Nat, p < q
    PROVE  p * b + b <= q * b /\ p * b \in Nat /\ q * b \in Nat
  BY Z3

LEMMA Distributes ==
    ASSUME NEW p \in Int, NEW q \in Int, NEW b \in Int
    PROVE  (p + q) * b = p * b + q * b /\ p * b \in Int /\ q * b \in Int
  BY Z3

LEMMA Fans == Fan \in Nat \ {0} /\ Fan > 1 /\ Fan \div 2 \in 1 .. Fan - 1
  BY PageSizeAssumption DEF Fan

LEMMA InFrame ==
    ASSUME NEW f \in Nat, NEW j \in 0 .. Fan - 1
    PROVE  /\ f * Fan + j \in Nat /\ FrameOf(f * Fan + j) = f /\ (f * Fan + j) % Fan = j
           /\ f \in Frame => f * Fan + j \in Addr
  <1>1. Fan \in Nat \ {0} /\ f * Fan \in Nat
    BY Fans
  <1>2. f * Fan + j \in Nat
    BY <1>1
  <1> HIDE DEF Fan
  <1>3. FrameOf(f * Fan + j) = f /\ (f * Fan + j) % Fan = j
    BY <1>1, <1>2, DivisionIs DEF FrameOf
  <1>4. ASSUME f \in Frame PROVE f * Fan + j \in Addr
    <2>1. NFrames \in Nat /\ f < NFrames
      BY <1>4, LoaderAssumption DEF Frame
    <2>2. f * Fan + Fan <= NFrames * Fan /\ NFrames * Fan \in Nat
      BY <1>1, <2>1, Rows
    <2>3. QED
      BY <1>1, <1>2, <2>2 DEF Addr
  <1>5. QED
    BY <1>2, <1>3, <1>4

LEMMA AddrParts ==
    ASSUME NEW a \in Nat
    PROVE  /\ FrameOf(a) \in Nat /\ a % Fan \in 0 .. Fan - 1
           /\ a = FrameOf(a) * Fan + (a % Fan)
           /\ a \in Addr => FrameOf(a) \in Frame
  <1>1. FrameOf(a) \in Nat /\ a % Fan \in 0 .. Fan - 1 /\ a = FrameOf(a) * Fan + (a % Fan)
    BY Fans, Division DEF FrameOf
  <1>2. ASSUME a \in Addr, ~(FrameOf(a) < NFrames) PROVE FALSE
    <2>1. NFrames \in Nat /\ NFrames * Fan \in Nat /\ a < NFrames * Fan
      BY <1>2, Fans, LoaderAssumption DEF Addr
    <2>2. FrameOf(a) = NFrames \/ NFrames < FrameOf(a)
      BY <1>1, <1>2, <2>1
    <2>3. NFrames * Fan <= FrameOf(a) * Fan /\ FrameOf(a) * Fan \in Nat
      BY <1>1, <2>1, <2>2, Fans, Rows
    <2>4. QED
      BY <1>1, <2>1, <2>3, Fans
  <1>3. QED
    BY <1>1, <1>2, LoaderAssumption DEF Frame

(* The addresses of n frames from s on.                                    *)
LEMMA SpanFrames ==
    ASSUME NEW s \in Nat, NEW n \in Nat, NEW a \in Nat
    PROVE  /\ a \in s * Fan .. s * Fan + n * Fan - 1 <=> FrameOf(a) \in s .. s + n - 1
           /\ s * Fan \in Nat /\ n * Fan \in Nat /\ (s + n) * Fan = s * Fan + n * Fan
  <1>1. Fan \in Nat \ {0} /\ s * Fan \in Nat /\ n * Fan \in Nat
    BY Fans
  <1>2. (s + n) * Fan = s * Fan + n * Fan
    BY <1>1, Distributes
  <1>3. FrameOf(a) \in Nat /\ a % Fan \in 0 .. Fan - 1 /\ a = FrameOf(a) * Fan + (a % Fan)
    BY AddrParts
  <1> DEFINE f == FrameOf(a)
  <1>4. f \in Nat /\ f * Fan \in Nat
    BY <1>1, <1>3
  <1>5. /\ f < s => f * Fan + Fan <= s * Fan
        /\ s < f => s * Fan <= f * Fan
        /\ f < s + n => f * Fan + Fan <= (s + n) * Fan
        /\ s + n < f => (s + n) * Fan <= f * Fan
    BY <1>1, <1>4, Rows
  <1>6. /\ f = s => f * Fan = s * Fan
        /\ f = s + n => f * Fan = (s + n) * Fan
    OBVIOUS
  <1> HIDE DEF f, Fan
  <1>7. a = f * Fan + (a % Fan) /\ a % Fan \in 0 .. Fan - 1
    BY <1>3 DEF f
  <1>8. a \in s * Fan .. s * Fan + n * Fan - 1 <=> f \in s .. s + n - 1
    BY <1>1, <1>2, <1>4, <1>5, <1>6, <1>7
  <1>9. QED
    BY <1>1, <1>2, <1>8 DEF f

LEMMA SameEntry ==
    ASSUME NEW t \in Nat, NEW u \in Nat, NEW j \in 0 .. Fan - 1, NEW k \in 0 .. Fan - 1,
           t * Fan + j = u * Fan + k
    PROVE  t = u /\ j = k
  BY InFrame

-----------------------------------------------------------------------------
(* The first indices of a page: Prefix(p, n) is the number that the        *)
(* indices of the levels before n form.                                    *)
Prefix(p, n) == CASE n = 5 -> p
                  [] n = 4 -> p \div Fan
                  [] n = 3 -> (p \div Fan) \div Fan
                  [] n = 2 -> ((p \div Fan) \div Fan) \div Fan
                  [] n = 1 -> (((p \div Fan) \div Fan) \div Fan) \div Fan

LEMMA Quotients ==
    ASSUME NEW p \in Nat, NEW a \in Nat \ {0}, NEW b \in Nat \ {0}
    PROVE  p \div (a * b) = (p \div a) \div b
  <1> DEFINE x == p \div a
             y == x \div b
             r == p % a
             v == x % b
  <1>1. x \in Nat /\ r \in 0 .. a - 1 /\ p = x * a + r
    BY Division
  <1>2. y \in Nat /\ v \in 0 .. b - 1 /\ x = y * b + v
    BY <1>1, Division
  <1> HIDE DEF x, y, r, v
  <1>3. a * b \in Nat \ {0} /\ v * a \in Nat /\ v * a + a <= a * b
    <2>1. v < b /\ v \in Nat
      BY <1>2
    <2>2. v * a + a <= b * a /\ v * a \in Nat /\ b * a \in Nat
      BY <2>1, Rows
    <2>3. b * a = a * b
      OBVIOUS
    <2>4. QED
      BY <2>2, <2>3
  <1>4. p = y * (a * b) + (v * a + r)
    <2>1. (y * b + v) * a = (y * b) * a + v * a
      BY <1>2, Distributes
    <2>2. (y * b) * a = y * (a * b)
      BY <1>2
    <2>3. x * a = y * (a * b) + v * a
      BY <1>2, <2>1, <2>2
    <2>4. y * (a * b) \in Nat
      BY <1>2
    <2>5. QED
      BY <1>1, <1>3, <2>3, <2>4
  <1>5. v * a + r \in 0 .. (a * b) - 1
    BY <1>1, <1>3
  <1> DEFINE c == a * b
             w == v * a + r
  <1>6. c \in Nat \ {0} /\ w \in 0 .. c - 1 /\ p = y * c + w
    BY <1>3, <1>4, <1>5
  <1> HIDE DEF c, w
  <1>7. p \div c = y
    BY <1>2, <1>6, DivisionIs
  <1>8. QED
    BY <1>7 DEF c, x, y

(* A page number is the number its indices form.                           *)
LEMMA Digits ==
    ASSUME NEW p \in Nat, NEW n \in 1 .. 4
    PROVE  /\ Prefix(p, n) \in Nat /\ Prefix(p, n + 1) \in Nat /\ Index(p, n) \in 0 .. Fan - 1
           /\ Prefix(p, n + 1) = Prefix(p, n) * Fan + Index(p, n)
           /\ Prefix(p, n) = Prefix(p, n + 1) \div Fan
  <1>1. Fan \in Nat \ {0}
    BY Fans
  <1> HIDE DEF Fan
  <1>2. p \div Fan \in Nat /\ (p \div Fan) \div Fan \in Nat
        /\ ((p \div Fan) \div Fan) \div Fan \in Nat
    BY <1>1, Division
  <1>3. Fan * Fan \in Nat \ {0}
    BY <1>1
  <1>4. /\ p \div (Fan * Fan) = (p \div Fan) \div Fan
        /\ p \div (Fan * Fan * Fan) = ((p \div Fan) \div Fan) \div Fan
    <2>1. p \div (Fan * Fan) = (p \div Fan) \div Fan
      BY <1>1, Quotients
    <2>2. p \div ((Fan * Fan) * Fan) = (p \div (Fan * Fan)) \div Fan
      BY <1>1, <1>3, Quotients
    <2>3. QED
      BY <2>1, <2>2
  <1>5. Index(p, n) = Prefix(p, n + 1) % Fan /\ Prefix(p, n) = Prefix(p, n + 1) \div Fan
        /\ Prefix(p, n + 1) \in Nat
    <2>1. CASE n = 1
      BY <1>2, <1>4, <2>1 DEF Index, Prefix
    <2>2. CASE n = 2
      BY <1>2, <1>4, <2>2 DEF Index, Prefix
    <2>3. CASE n = 3
      BY <1>2, <1>4, <2>3 DEF Index, Prefix
    <2>4. CASE n = 4
      BY <1>2, <1>4, <2>4 DEF Index, Prefix
    <2>5. QED
      BY <2>1, <2>2, <2>3, <2>4
  <1>6. QED
    BY <1>1, <1>5, Division

LEMMA PrefixMonotone ==
    ASSUME NEW q \in Nat, NEW p \in Nat, q <= p, NEW n \in 1 .. 5
    PROVE  Prefix(q, n) <= Prefix(p, n) /\ Prefix(q, n) \in Nat /\ Prefix(p, n) \in Nat
  <1>1. Fan \in Nat \ {0}
    BY Fans
  <1> HIDE DEF Fan
  <1>2. ASSUME NEW a \in Nat, NEW b \in Nat, a <= b
        PROVE  a \div Fan <= b \div Fan /\ a \div Fan \in Nat /\ b \div Fan \in Nat
    BY <1>1, <1>2, Z3
  <1>3. /\ q \div Fan <= p \div Fan /\ q \div Fan \in Nat /\ p \div Fan \in Nat
    BY <1>2
  <1>4. /\ (q \div Fan) \div Fan <= (p \div Fan) \div Fan
        /\ (q \div Fan) \div Fan \in Nat /\ (p \div Fan) \div Fan \in Nat
    BY <1>2, <1>3
  <1>5. /\ ((q \div Fan) \div Fan) \div Fan <= ((p \div Fan) \div Fan) \div Fan
        /\ ((q \div Fan) \div Fan) \div Fan \in Nat
        /\ ((p \div Fan) \div Fan) \div Fan \in Nat
    BY <1>2, <1>4
  <1>6. /\ (((q \div Fan) \div Fan) \div Fan) \div Fan
                <= (((p \div Fan) \div Fan) \div Fan) \div Fan
        /\ (((q \div Fan) \div Fan) \div Fan) \div Fan \in Nat
        /\ (((p \div Fan) \div Fan) \div Fan) \div Fan \in Nat
    BY <1>2, <1>5
  <1>7. n = 1 \/ n = 2 \/ n = 3 \/ n = 4 \/ n = 5
    OBVIOUS
  <1>8. QED
    BY <1>3, <1>4, <1>5, <1>6, <1>7 DEF Prefix

(* Pages that agree up to a level agree on the indices before it.          *)
LEMMA PrefixShared ==
    ASSUME NEW q \in Nat, NEW p \in Nat, NEW n \in 1 .. 5, Prefix(q, n) = Prefix(p, n)
    PROVE  \A l \in 1 .. n - 1 : Index(q, l) = Index(p, l)
  <1>1. ASSUME NEW l \in 1 .. 4, Prefix(q, l + 1) = Prefix(p, l + 1)
        PROVE  Prefix(q, l) = Prefix(p, l) /\ Index(q, l) = Index(p, l)
    <2>1. Prefix(q, l) = Prefix(p, l)
      <3>1. Prefix(q, l) = Prefix(q, l + 1) \div Fan
        BY Digits
      <3>2. Prefix(p, l) = Prefix(p, l + 1) \div Fan
        BY Digits
      <3>3. QED
        BY <1>1, <3>1, <3>2
    <2>2. /\ Prefix(q, l + 1) = Prefix(q, l) * Fan + Index(q, l)
          /\ Prefix(p, l + 1) = Prefix(p, l) * Fan + Index(p, l)
          /\ Index(q, l) \in 0 .. Fan - 1 /\ Index(p, l) \in 0 .. Fan - 1
          /\ Prefix(p, l) \in Nat
      BY Digits
    <2>3. QED
      BY <1>1, <2>1, <2>2, SameEntry
  <1> DEFINE Same(l) == Prefix(q, l) = Prefix(p, l)
  <1>2. \A l \in 1 .. 4 : Same(l + 1) => Same(l) /\ Index(q, l) = Index(p, l)
    BY <1>1
  <1>3. Same(n)
    OBVIOUS
  <1> HIDE DEF Same
  <1>4. /\ n >= 5 => Same(5)
        /\ n >= 4 => Same(4)
        /\ n >= 3 => Same(3)
        /\ n >= 2 => Same(2)
    BY <1>2, <1>3
  <1>5. QED
    BY <1>2, <1>4

(* The order of the pages is the order of the indices.                     *)
LEMMA PagesInOrder ==
    ASSUME NEW q \in Nat, NEW p \in Nat, q < p, NEW n \in 1 .. 4,
           Prefix(q, n) = Prefix(p, n)
    PROVE  /\ Index(q, n) <= Index(p, n)
           /\ Index(q, n) = Index(p, n) => Prefix(q, n + 1) = Prefix(p, n + 1) /\ n # 4
  <1>1. /\ Prefix(q, n + 1) = Prefix(q, n) * Fan + Index(q, n)
        /\ Prefix(p, n + 1) = Prefix(p, n) * Fan + Index(p, n)
        /\ Index(q, n) \in 0 .. Fan - 1 /\ Index(p, n) \in 0 .. Fan - 1
        /\ Prefix(p, n) \in Nat
    BY Digits
  <1>2. Prefix(q, n + 1) <= Prefix(p, n + 1)
    <2>1. q <= p /\ n + 1 \in 1 .. 5
      OBVIOUS
    <2>2. QED
      BY <2>1, PrefixMonotone
  <1>3. Index(q, n) <= Index(p, n)
    <2>1. Prefix(p, n) * Fan \in Nat
      BY <1>1, Fans
    <2> DEFINE x == Prefix(p, n) * Fan
    <2>2. /\ Prefix(q, n + 1) = x + Index(q, n) /\ Prefix(p, n + 1) = x + Index(p, n)
          /\ x \in Nat
      BY <1>1, <2>1
    <2> HIDE DEF x
    <2>3. QED
      BY <1>1, <1>2, <2>2, Fans
  <1>4. ASSUME Index(q, n) = Index(p, n)
        PROVE  Prefix(q, n + 1) = Prefix(p, n + 1) /\ n # 4
    <2>1. Prefix(q, n + 1) = Prefix(p, n + 1)
      BY <1>1, <1>4
    <2>2. ASSUME n = 4 PROVE FALSE
      <3>1. Prefix(q, 5) = q /\ Prefix(p, 5) = p
        BY DEF Prefix
      <3>2. QED
        BY <2>1, <2>2, <3>1
    <2>3. QED
      BY <2>1, <2>2
  <1>5. QED
    BY <1>3, <1>4

(* The kernel's half of the address space is the upper one.                *)
LEMMA PrefixBound ==
    ASSUME NEW p \in Page
    PROVE  Prefix(p, 1) = 0 /\ Index(p, 1) = Prefix(p, 2) /\ p \in Nat
  <1>1. Fan \in Nat \ {0} /\ Fan * Fan \in Nat \ {0} /\ Fan * Fan * Fan \in Nat \ {0}
        /\ Fan * Fan * Fan * Fan \in Nat \ {0}
    <2>1. \A a \in Nat \ {0}, b \in Nat \ {0} : a * b \in Nat \ {0}
      BY Z3
    <2>2. QED
      BY <2>1, Fans
  <1> HIDE DEF Fan
  <1>2. p \in Nat /\ p < Fan * Fan * Fan * Fan
    BY <1>1 DEF Page
  <1>3. p \div (Fan * Fan * Fan * Fan) = 0
    <2> DEFINE c == Fan * Fan * Fan * Fan
    <2>1. c \in Nat \ {0} /\ p \in 0 .. c - 1
      BY <1>1, <1>2
    <2> HIDE DEF c
    <2>2. p = 0 * c + p
      BY <1>2, <2>1
    <2>3. p \div c = 0
      BY <1>2, <2>1, <2>2, DivisionIs
    <2>4. QED
      BY <2>3 DEF c
  <1>4. p \div ((Fan * Fan * Fan) * Fan) = (p \div (Fan * Fan * Fan)) \div Fan
    <2> DEFINE c == Fan * Fan * Fan
    <2>1. c \in Nat \ {0} /\ p \in Nat /\ Fan \in Nat \ {0}
      BY <1>1, <1>2
    <2> HIDE DEF c
    <2>2. p \div (c * Fan) = (p \div c) \div Fan
      BY ONLY <2>1, Quotients
    <2>3. QED
      BY <2>2 DEF c
  <1>5. p \div ((Fan * Fan) * Fan) = (p \div (Fan * Fan)) \div Fan
    BY <1>1, <1>2, Quotients
  <1>6. p \div (Fan * Fan) = (p \div Fan) \div Fan
    BY <1>1, <1>2, Quotients
  <1>7. Prefix(p, 1) = 0
    BY <1>3, <1>4, <1>5, <1>6 DEF Prefix
  <1>8. Prefix(p, 2) = Prefix(p, 1) * Fan + Index(p, 1) /\ Index(p, 1) \in 0 .. Fan - 1
    BY <1>2, Digits
  <1>9. QED
    BY <1>1, <1>2, <1>7, <1>8

LEMMA KernelAbove ==
    ASSUME NEW q \in KernelPages, NEW p \in Page, q <= p
    PROVE  p \in KernelPages
  <1>1. q \in Page /\ Index(q, 1) >= Fan \div 2
    BY DEF KernelPages
  <1>2. Prefix(q, 2) <= Prefix(p, 2) /\ Prefix(q, 2) \in Nat /\ Prefix(p, 2) \in Nat
    BY <1>1, PrefixBound, PrefixMonotone
  <1>3. Index(p, 1) >= Fan \div 2
    BY <1>1, <1>2, PrefixBound, Fans
  <1>4. QED
    BY <1>3 DEF KernelPages

LEMMA Entries ==
    ASSUME NEW t \in Frame, NEW p \in Page, NEW l \in 1 .. 4
    PROVE  /\ Index(p, l) \in 0 .. Fan - 1 /\ EntryAddr(t, p, l) = t * Fan + Index(p, l)
           /\ EntryAddr(t, p, l) \in Addr /\ FrameOf(EntryAddr(t, p, l)) = t
  <1>1. p \in Nat /\ t \in Nat
    BY PrefixBound, LoaderAssumption DEF Frame
  <1>2. Index(p, l) \in 0 .. Fan - 1
    BY <1>1, Digits
  <1>3. QED
    BY <1>1, <1>2, InFrame DEF EntryAddr

-----------------------------------------------------------------------------
(* What the plan of an accepted file says about its segments.              *)
PlanInv == headers \in HeaderTables /\ PlanTypeOK /\ CheckInv /\ NotedInv

LEMMA PlanInit0 == LoaderInit => PlanInv
  BY PlanTypeInit, CheckInit, NotedInit DEF LoaderInit, PlanInit, PlanInv

LEMMA PlanStep0 == PlanInv /\ [Next]_vars => PlanInv'
  <1> SUFFICES ASSUME PlanInv, [Next]_vars PROVE PlanInv'
    OBVIOUS
  <1>1. [PlanNext]_planVars
    BY DEF Next, vars, planVars
  <1>2. PlanTypeOK' /\ CheckInv' /\ NotedInv'
    BY <1>1, PlanTypeStep, CheckStep, NotedStep DEF PlanInv
  <1>3. headers' = headers
    BY <1>1 DEF PlanNext, planVars, SkipHeader, RejectMisaligned, PlanSegment, OverrunPages,
                StartCheck, CheckSegment, RejectOverlapping, Accept
  <1>4. QED
    BY <1>2, <1>3 DEF PlanInv

(* A segment of the file, as the assumption about the files describes it.  *)
LEMMA SegmentFacts ==
    ASSUME PlanInv, NEW k \in 1 .. Len(headers), IsLoad(headers[k])
    PROVE  LET h == headers[k]
           IN  /\ h \in Header /\ NoWrap(h)
               /\ h.vaddr \in Nat /\ h.memsz \in Nat /\ h.offset \in Nat /\ h.filesz \in Nat
               /\ h.filesz <= h.memsz /\ h.offset + h.filesz <= FileFrames * Fan
               /\ (h.offset % Fan) + h.memsz <= PageCount(h) * Fan
               /\ PageStart(h) \in Nat /\ PageEnd(h) \in Nat
               /\ PageCount(h) = PageEnd(h) - PageStart(h) + 1 /\ PageCount(h) \in Nat
               /\ PageStart(h) <= PageEnd(h) => PageEnd(h) \in Page /\ PageStart(h) \in Page
  <1> DEFINE h == headers[k]
  <1>1. /\ h \in Header /\ NoWrap(h) /\ h.filesz <= h.memsz
        /\ h.vaddr + h.memsz <= Fan * Fan * Fan * Fan * Fan
        /\ h.offset + h.filesz <= FileFrames * Fan
        /\ (h.offset % Fan) + h.memsz <= PageCount(h) * Fan
    BY FilesAssumption DEF PlanInv, PlanTypeOK, Fan
  <1>2. /\ h.vaddr \in Nat /\ h.memsz \in Nat /\ h.offset \in Nat /\ h.filesz \in Nat
    BY <1>1, AddrSpaceAssumption DEF Header
  <1>3. PageStart(h) \in Nat /\ SpanEnd(Span(h)) = PageEnd(h) + 1
    BY <1>1, <1>2, SpanFits, Quotient DEF PageStart
  <1>4. /\ PageCount(h) = PageEnd(h) - PageStart(h) + 1
        /\ PageEnd(h) \in Nat /\ PageCount(h) \in Nat
    <2>1. PageStart(h) + PageCount(h) = PageEnd(h) + 1
      BY <1>3 DEF SpanEnd, Span
    <2>2. PageEnd(h) \in Nat
      <3>1. (h.vaddr + h.memsz - 1) % AddrSpace \in Nat
        BY <1>2, AddrSpaceAssumption
      <3>2. QED
        BY <3>1, Quotient DEF PageEnd
    <2>3. Span(h) \in PageSpan
      BY <1>1, PageSpand
    <2>4. PageCount(h) \in Nat
      BY <2>3, AddrSpaceAssumption DEF Span, PageSpan
    <2>5. QED
      BY <1>3, <2>1, <2>2, <2>4
  <1>5. PageEnd(h) \in Page
    <2>1. h.vaddr + h.memsz - 1 \in 0 .. AddrSpace - 1
      <3>1. h.vaddr + h.memsz \in 1 .. AddrSpace
        BY <1>1 DEF NoWrap
      <3>2. \A x \in Nat, y \in Nat : x + y \in 1 .. AddrSpace => x + y - 1 \in 0 .. AddrSpace - 1
        BY ONLY AddrSpaceAssumption
      <3>3. QED
        BY ONLY <1>2, <3>1, <3>2
    <2> DEFINE a == h.vaddr + h.memsz - 1
               c == Fan * Fan * Fan * Fan
    <2>2. PageEnd(h) = a \div Fan
      BY <2>1, AddrSpaceAssumption DEF PageEnd, Fan
    <2>3. c \in Nat
      BY Fans
    <2>4. h.vaddr + h.memsz <= c * Fan
      BY <1>1
    <2> HIDE DEF c
    <2>8. a \in Nat /\ a < c * Fan /\ c * Fan \in Nat
      <3>1. c * Fan \in Nat
        BY <2>3, Fans
      <3> DEFINE d == c * Fan
      <3>2. d \in Nat /\ h.vaddr + h.memsz <= d
        BY <2>4, <3>1
      <3> HIDE DEF d
      <3>3. a \in Nat /\ a < d
        BY <1>2, <2>1, <3>2
      <3>4. QED
        BY <3>1, <3>3 DEF d
    <2> HIDE DEF a
    <2>5. a \div Fan \in Nat /\ a = (a \div Fan) * Fan + (a % Fan) /\ a % Fan \in 0 .. Fan - 1
      BY <2>8, Fans, Division
    <2>6. a \div Fan < c
      <3>1. CASE c = a \div Fan
        BY <2>3, <2>8, <2>5, <3>1, Fans
      <3>2. CASE c < a \div Fan
        <4>1. c * Fan + Fan <= (a \div Fan) * Fan /\ c * Fan \in Nat /\ (a \div Fan) * Fan \in Nat
          BY <2>3, <2>5, <3>2, Fans, Rows
        <4>2. QED
          BY <2>8, <2>5, <4>1, Fans
      <3>3. QED
        BY <2>3, <2>5, <3>1, <3>2
    <2>7. QED
      BY <1>4, <2>2, <2>3, <2>5, <2>6 DEF Page, c
  <1>6. ASSUME PageStart(h) <= PageEnd(h) PROVE PageStart(h) \in Page
    <2> DEFINE c == Fan * Fan * Fan * Fan
    <2>1. Page = 0 .. c - 1 /\ c \in Nat
      BY Fans DEF Page
    <2> HIDE DEF c
    <2>2. QED
      BY <1>3, <1>4, <1>5, <1>6, <2>1
  <1>7. QED
    BY <1>1, <1>2, <1>3, <1>4, <1>5, <1>6

(* The segments of an accepted file are in order.                          *)
LEMMA SegmentsInOrder ==
    ASSUME PlanInv, phase = "accepted", NEW k \in 1 .. Len(headers), NEW j \in 1 .. k - 1,
           IsLoad(headers[j]), IsLoad(headers[k])
    PROVE  PageEnd(headers[j]) < PageStart(headers[k])
  <1> DEFINE n == Len(headers)
             C(m) == Cardinality(Loads(m))
  <1>1. n \in Nat /\ k \in Nat /\ j \in Nat /\ j \in 1 .. n /\ k - 1 \in Nat
    BY DEF PlanInv, PlanTypeOK
  <1>2. j \in Loads(k - 1) /\ k \in Loads(n) /\ j \in Loads(n)
    BY <1>1 DEF Loads
  <1>3. C(j) \in 1 .. C(k - 1) /\ C(k - 1) \in Nat /\ C((k - 1) + 1) = C(k - 1) + 1
    BY <1>1, <1>2, LoadsGrow
  <1>4. C(k) \in 1 .. C(n)
    BY <1>1, <1>2, LoadsGrow
  <1>5. C(j) \in 1 .. C(k) - 1
    BY <1>1, <1>3
  <1>6. Len(pages) = C(n) /\ pages[C(j)] = Span(headers[j]) /\ pages[C(k)] = Span(headers[k])
    BY <1>2, NotedIsComplete DEF PlanInv, PlanComplete
  <1>7. NoHeaderWraps
    BY SegmentFacts DEF NoHeaderWraps, IsLoad
  <1>8. PassedInOrder /\ i = Len(pages)
    BY <1>7 DEF PlanInv, CheckInv
  <1>9. SpanEnd(pages[C(j)]) <= pages[C(k)].vpage_start
    <2> HIDE DEF C, n
    <2>1. C(k) \in 1 .. i
      BY <1>4, <1>6, <1>8
    <2>2. QED
      BY <1>5, <1>8, <2>1 DEF PassedInOrder
  <1>10. SpanEnd(Span(headers[j])) = PageEnd(headers[j]) + 1 /\ PageEnd(headers[j]) \in Nat
    BY <1>1, SegmentFacts, SpanFits
  <1>11. PageStart(headers[k]) \in Nat /\ Span(headers[k]).vpage_start = PageStart(headers[k])
    BY SegmentFacts DEF Span
  <1>12. QED
    BY <1>6, <1>9, <1>10, <1>11

-----------------------------------------------------------------------------
(* What the library functions and the allocator leave behind.              *)
LEMMA WordKinds ==
    ASSUME NEW w \in Word
    PROVE  /\ w = <<w[1], w[2]>>
           /\ w[1] \in {"pte", "np"} => w[2] \in Frame
           /\ w[1] \notin {"pte", "np", "elf"} => w[2] = 0
           /\ w[1] \in {"zero", "pte", "np", "large", "elf", "fw", "junk"}
  BY DEF Word

LEMMA SmearedWord ==
    ASSUME NEW w \in Word, NEW v \in Smears(w)
    PROVE  /\ v \in Word
           /\ w[1] \in {"pte", "np"} => v[1] \in {"pte", "np"} /\ v[2] = w[2]
           /\ w[1] \in {"fw", "junk", "elf"} => v = w \/ v = <<"junk", 0>>
           /\ w[1] = "large" => v = w \/ v = <<"np", 0>>
           /\ w[1] = "zero" => v = w \/ v[1] \in {"pte", "np"}
  <1>1. 0 \in Frame
    BY LoaderAssumption DEF Frame
  <1>2. CASE w[1] \in {"pte", "np"}
    <2>1. w[2] \in Frame /\ v \in {<<"pte", w[2]>>, <<"np", w[2]>>}
      BY <1>2, WordKinds DEF Smears
    <2>2. QED
      BY <1>2, <2>1 DEF Word
  <1>3. CASE w[1] = "zero"
    <2>1. v \in {w, <<"pte", 0>>, <<"np", 0>>}
      BY <1>3 DEF Smears
    <2>2. QED
      BY <1>1, <1>3, <2>1 DEF Word
  <1>4. CASE w[1] = "large"
    <2>1. v \in {w, <<"np", 0>>}
      BY <1>4 DEF Smears
    <2>2. QED
      BY <1>1, <1>4, <2>1 DEF Word
  <1>5. CASE w[1] \in {"elf", "fw", "junk"}
    <2>1. v \in {w, <<"junk", 0>>}
      BY <1>5 DEF Smears
    <2>2. QED
      BY <1>5, <2>1 DEF Word
  <1>6. QED
    BY <1>2, <1>3, <1>4, <1>5, WordKinds

(* What a copy of num words leaves: m2 for m.                              *)
CopyEffect(m, m2, dest, src, num) ==
    /\ m2 \in [Addr -> Word]
    /\ \A a \in Addr : a \in dest .. dest + num - 1 => m2[a] = m[src + (a - dest)]
    /\ \A a \in Addr : a \notin dest .. dest + num => m2[a] = m[a]
    /\ m2[dest + num] = m[dest + num] \/ m2[dest + num] \in Smears(m[dest + num])
    /\ dest < src => m2[dest + num] = m[dest + num]

LEMMA CopyIs ==
    ASSUME NEW m \in [Addr -> Word], NEW dest \in Nat, NEW src \in Nat, NEW num \in Nat,
           dest + num \in Addr, \A j \in 0 .. num - 1 : src + j \in Addr,
           NEW m2 \in memmove(m, dest, src, num)
    PROVE  CopyEffect(m, m2, dest, src, num)
  <1>1. \A a \in Addr : a \in Nat
    BY DEF Addr
  <1>2. \A a \in Addr : a \in dest .. dest + num - 1 => src + (a - dest) \in Addr
    <2> SUFFICES ASSUME NEW a \in Addr, a \in dest .. dest + num - 1
                 PROVE  src + (a - dest) \in Addr
      OBVIOUS
    <2>1. a - dest \in 0 .. num - 1
      BY <1>1
    <2>2. QED
      BY <2>1
  <1>3. Copied(m, dest, src, num) \in [Addr -> Word]
    BY <1>2 DEF Copied
  <1>4. dest + num \notin dest .. dest + num - 1
    OBVIOUS
  <1>5. CASE dest < src
    <2>1. m2 = Copied(m, dest, src, num)
      BY <1>5 DEF memmove
    <2>2. QED
      BY <1>1, <1>3, <1>4, <2>1 DEF CopyEffect, Copied
  <1>6. CASE ~(dest < src)
    <2>1. PICK v \in Smears(m[dest + num]) :
              m2 = [Copied(m, dest, src, num) EXCEPT ![dest + num] = v]
      BY <1>6 DEF memmove
    <2>2. v \in Word
      BY SmearedWord
    <2>3. m2 \in [Addr -> Word] /\ m2[dest + num] = v
      BY <1>3, <2>1, <2>2
    <2>4. \A a \in Addr : a # dest + num => m2[a] = Copied(m, dest, src, num)[a]
      BY <1>3, <2>1
    <2>5. \A a \in Addr : a \in dest .. dest + num - 1 => m2[a] = m[src + (a - dest)]
      BY <1>4, <2>4 DEF Copied
    <2>6. \A a \in Addr : a \notin dest .. dest + num => m2[a] = m[a]
      BY <1>1, <2>4 DEF Copied
    <2>7. QED
      BY <1>6, <2>3, <2>5, <2>6 DEF CopyEffect
  <1>7. QED
    BY <1>5, <1>6

LEMMA ClearIs ==
    ASSUME NEW m \in [Addr -> Word], NEW dest, NEW num
    PROVE  /\ memset(m, dest, Zero, num) \in [Addr -> Word]
           /\ \A a \in Addr : memset(m, dest, Zero, num)[a] =
                  IF a \in dest .. dest + num - 1 THEN Zero ELSE m[a]
  BY DEF memset, Zero, Word

(* Who owns what, whatever the loader does.                                *)
OwnersInv ==
    /\ owner \in [Frame -> {"free", "fw", "loader"}]
    /\ elf \in Frame /\ elf + FileFrames < NFrames
    /\ \A f \in elf .. elf + FileFrames - 1 : owner[f] = "loader"
    /\ \A f \in FwFrames \cup {FwPml4} : owner[f] = "fw"

LEMMA Allocated ==
    ASSUME OwnersInv, NEW n \in Nat, NEW s \in AllocatePages(n)
    PROVE  /\ s \in Nat /\ s \in Frame /\ n > 0 /\ s + n \in Frame
           /\ \A f \in s .. s + n - 1 : f \in Frame /\ owner[f] = "free"
           /\ Own(s, n) \in [Frame -> {"free", "fw", "loader"}]
           /\ \A f \in Frame : Own(s, n)[f] = IF f \in s .. s + n - 1 THEN "loader" ELSE owner[f]
           /\ \A f \in Frame : owner[f] # "free" => f \notin s .. s + n - 1
  <1>1. /\ s \in Frame /\ s + n <= NFrames /\ n > 0
        /\ \A f \in s .. s + n - 1 : owner[f] = "free"
    BY DEF AllocatePages, Fits
  <1>2. NFrames \in Nat /\ s \in Nat
    BY <1>1, LoaderAssumption DEF Frame
  <1>3. s + n # NFrames
    <2> SUFFICES ASSUME s + n = NFrames PROVE FALSE
      OBVIOUS
    <2>1. NFrames - 1 \in s .. s + n - 1
      BY <1>1, <1>2
    <2>2. owner[NFrames - 1] = "fw"
      BY LoaderAssumption DEF OwnersInv
    <2>3. QED
      BY <1>1, <2>1, <2>2
  <1>4. \A f \in s .. s + n - 1 : f \in Frame
    BY <1>1, <1>2 DEF Frame
  <1>5. s + n \in Frame
    BY <1>1, <1>2, <1>3 DEF Frame
  <1>6. Own(s, n) \in [Frame -> {"free", "fw", "loader"}]
    BY DEF Own, OwnersInv
  <1>7. \A f \in Frame : Own(s, n)[f] = IF f \in s .. s + n - 1 THEN "loader" ELSE owner[f]
    BY DEF Own
  <1>8. QED
    BY <1>1, <1>2, <1>4, <1>5, <1>6, <1>7

(* What lines 880-883 leave between base and the word at end: num words    *)
(* from src on behind skip zeros, zeros up to size, and behind them what   *)
(* was there, but for one byte.                                            *)
Placed(m, m2, base, end, skip, num, size, src) ==
    /\ m2 \in [Addr -> Word]
    /\ \A a \in Addr : a \notin base .. end => m2[a] = m[a]
    /\ m2[end] = m[end] \/ m2[end] \in Smears(m[end])
    /\ base + skip < src => m2[end] = m[end]
    /\ \A a \in Addr :
          /\ a \in base + skip .. base + skip + num - 1 => m2[a] = m[src + (a - (base + skip))]
          /\ a \in base .. base + skip - 1 => m2[a] = Zero
          /\ a \in base + skip + num .. base + skip + size - 1 => m2[a] = Zero
          /\ a >= base + skip + size /\ a < end => m2[a] = m[a] \/ m2[a] \in Smears(m[a])

LEMMA PlacedWords ==
    ASSUME NEW m \in [Addr -> Word], NEW base \in Nat, NEW end \in Addr, NEW skip \in Nat,
           NEW num \in Nat, NEW size \in Nat, NEW src \in Nat,
           num <= size, base + skip + size <= end, base + skip < end,
           \A j \in 0 .. num - 1 : src + j \in Addr,
           NEW m1 \in memmove(m, base + skip, src, num)
    PROVE  Placed(m, memset(memset(m1, base, Zero, skip), base + skip + num, Zero, size - num),
                  base, end, skip, num, size, src)
  <1> DEFINE dest == base + skip
             m2 == memset(memset(m1, base, Zero, skip), base + skip + num, Zero, size - num)
  <1>1. dest \in Nat /\ dest + num \in Nat /\ dest + num <= end /\ end \in Nat
        /\ dest >= base /\ dest + size <= end /\ dest < end
    BY DEF Addr
  <1>2. dest + num \in Addr /\ \A a \in Addr : a \in Nat
    <2>1. Addr = 0 .. NFrames * Fan - 1 /\ NFrames * Fan \in Nat
      BY Fans, LoaderAssumption DEF Addr
    <2>2. end \in Addr
      OBVIOUS
    <2> DEFINE c == NFrames * Fan
    <2>3. Addr = 0 .. c - 1 /\ c \in Nat
      BY <2>1
    <2> HIDE DEF c
    <2>4. QED
      BY <1>1, <2>2, <2>3
  <1>3. CopyEffect(m, m1, dest, src, num)
    BY <1>1, <1>2, CopyIs
  <1>4. /\ m2 \in [Addr -> Word]
        /\ \A a \in Addr : m2[a] = IF a \in dest + num .. dest + size - 1 THEN Zero
                                   ELSE IF a \in base .. dest - 1 THEN Zero ELSE m1[a]
    <2>1. m1 \in [Addr -> Word]
      BY <1>3 DEF CopyEffect
    <2> DEFINE m0 == memset(m1, base, Zero, skip)
    <2>2. m0 \in [Addr -> Word]
          /\ \A a \in Addr : m0[a] = IF a \in base .. base + skip - 1 THEN Zero ELSE m1[a]
      BY <2>1, ClearIs
    <2>3. m2 = memset(m0, dest + num, Zero, size - num)
      OBVIOUS
    <2> HIDE DEF m0, m2
    <2>4. m2 \in [Addr -> Word]
          /\ \A a \in Addr : m2[a] = IF a \in dest + num .. dest + num + (size - num) - 1
                                     THEN Zero ELSE m0[a]
      BY <2>2, <2>3, ClearIs
    <2>5. dest + num + (size - num) - 1 = dest + size - 1
      OBVIOUS
    <2>6. QED
      BY <2>2, <2>4, <2>5
  <1> HIDE DEF m2
  <1>5. \A a \in Addr : a \notin base .. end => m2[a] = m[a]
    <2> SUFFICES ASSUME NEW a \in Addr, a \notin base .. end PROVE m2[a] = m[a]
      OBVIOUS
    <2>1. a \notin dest .. dest + num /\ a \notin dest + num .. dest + size - 1
          /\ a \notin base .. dest - 1
      BY <1>1, <1>2
    <2>2. QED
      BY <1>3, <1>4, <2>1 DEF CopyEffect
  <1>6. ASSUME NEW a \in Addr, a >= dest + size, a <= end
        PROVE  /\ m2[a] = m[a] \/ m2[a] \in Smears(m[a])
               /\ dest < src => m2[a] = m[a]
    <2>1. a \notin dest + num .. dest + size - 1 /\ a \notin base .. dest - 1
      BY <1>1, <1>2, <1>6
    <2>2. m2[a] = m1[a]
      BY <1>4, <2>1
    <2>3. a = dest + num \/ a \notin dest .. dest + num
      BY <1>1, <1>2, <1>6
    <2>4. QED
      BY <1>3, <2>2, <2>3 DEF CopyEffect
  <1>7. \A a \in Addr : a \in dest .. dest + num - 1 => m2[a] = m[src + (a - dest)]
    <2> SUFFICES ASSUME NEW a \in Addr, a \in dest .. dest + num - 1
                 PROVE  m2[a] = m[src + (a - dest)]
      OBVIOUS
    <2>1. a \notin dest + num .. dest + size - 1 /\ a \notin base .. dest - 1
      BY <1>1, <1>2
    <2>2. m2[a] = m1[a]
      BY <1>4, <2>1
    <2>3. QED
      BY <1>3, <2>2 DEF CopyEffect
  <1>8. QED
    BY <1>1, <1>2, <1>4, <1>5, <1>6, <1>7 DEF Placed, m2

(* What lines 880-883 leave: the file's part of segment h in the frames    *)
(* from s on.                                                              *)
SegmentIn(h, s, m2) ==
    /\ Placed(mem, m2, s * Fan, (s + PageCount(h)) * Fan, h.offset % Fan, h.filesz, h.memsz,
              elf * Fan + h.offset)
    /\ \A a \in Addr : a \in s * Fan .. (s + PageCount(h)) * Fan - 1
                            <=> FrameOf(a) \in s .. s + PageCount(h) - 1
    /\ s < elf => s * Fan + (h.offset % Fan) < elf * Fan + h.offset

(* A frame's words lie in memory, and frames follow each other.            *)
LEMMA FrameSpan ==
    ASSUME NEW s \in Nat, NEW n \in Nat, n > 0, s + n \in Frame
    PROVE  /\ s * Fan \in Nat /\ (s + n) * Fan \in Addr /\ (s + n) * Fan \in Nat
           /\ s * Fan + Fan <= (s + n) * Fan /\ (s + n) * Fan = s * Fan + n * Fan
           /\ \A a \in Addr : a \in s * Fan .. (s + n) * Fan - 1 <=> FrameOf(a) \in s .. s + n - 1
           /\ \A a \in Nat : a \in s * Fan .. (s + n) * Fan => a \in Addr
           /\ FrameOf((s + n) * Fan) = s + n
  <1>1. s * Fan \in Nat /\ (s + n) * Fan = s * Fan + n * Fan /\ n * Fan \in Nat
    BY SpanFrames
  <1>2. s < s + n /\ s + n \in Nat
    OBVIOUS
  <1>3. s * Fan + Fan <= (s + n) * Fan
    BY <1>2, Fans, Rows
  <1>4. (s + n) * Fan + 0 \in Addr /\ FrameOf((s + n) * Fan + 0) = s + n
    BY <1>2, Fans, InFrame
  <1>5. (s + n) * Fan \in Nat
    BY <1>2, Fans
  <1> DEFINE b == s * Fan
             e == (s + n) * Fan
             c == n * Fan
  <1>6. b \in Nat /\ e \in Nat /\ c \in Nat /\ e = b + c /\ b + Fan <= e /\ e \in Addr /\ FrameOf(e) = s + n
    BY <1>1, <1>3, <1>4, <1>5
  <1>7. \A a \in Nat : a \in b .. b + c - 1 <=> FrameOf(a) \in s .. s + n - 1
    BY SpanFrames
  <1>8. \A a \in Nat : a <= e => a \in Addr
    <2> DEFINE z == NFrames * Fan
    <2>1. Addr = 0 .. z - 1 /\ z \in Nat
      BY Fans, LoaderAssumption DEF Addr
    <2> HIDE DEF z, e
    <2>2. QED
      BY <1>6, <2>1
  <1>9. \A a \in Addr : a \in Nat
    BY DEF Addr
  <1> HIDE DEF b, e, c
  <1>10. /\ \A a \in Addr : a \in b .. e - 1 <=> FrameOf(a) \in s .. s + n - 1
         /\ \A a \in Nat : a \in b .. e => a \in Addr
    BY <1>6, <1>7, <1>8, <1>9
  <1>11. QED
    BY <1>6, <1>10 DEF b, e, c

LEMMA SegmentCopied ==
    ASSUME OwnersInv, PlanInv, mem \in [Addr -> Word],
           NEW k \in 1 .. Len(headers), IsLoad(headers[k]),
           NEW s, s \in AllocatePages(PageCount(headers[k])),
           NEW m, m \in memmove(mem, s * Fan + (headers[k].offset % PageSize),
                                elf * Fan + headers[k].offset, headers[k].filesz)
    PROVE  SegmentIn(headers[k], s, Cleared(m, s, headers[k].offset % PageSize, headers[k]))
  <1> DEFINE h == headers[k]
             n == PageCount(h)
             skip == h.offset % Fan
             base == s * Fan
             end == (s + n) * Fan
             words == n * Fan
             file == elf * Fan
             size == FileFrames * Fan
  <1>1. /\ h.memsz \in Nat /\ h.offset \in Nat /\ h.filesz \in Nat /\ h.filesz <= h.memsz
        /\ h.offset + h.filesz <= size /\ skip + h.memsz <= words /\ n \in Nat
    BY SegmentFacts
  <1>2. skip \in Nat /\ skip < Fan /\ skip <= h.offset
    BY <1>1, Fans, Remainder
  <1>3. s \in Nat /\ n > 0 /\ s + n \in Frame
    BY <1>1, Allocated
  <1>5. /\ elf \in Nat /\ FileFrames \in Nat /\ FileFrames > 0 /\ elf + FileFrames \in Frame
    BY LoaderAssumption DEF OwnersInv, Frame
  <1> HIDE DEF n
  <1>4. /\ base \in Nat /\ end \in Addr /\ end \in Nat /\ base + Fan <= end
        /\ end = base + words /\ words \in Int
    <2>1. /\ s * Fan \in Nat /\ (s + n) * Fan \in Addr /\ (s + n) * Fan \in Nat
          /\ s * Fan + Fan <= (s + n) * Fan /\ (s + n) * Fan = s * Fan + n * Fan
      BY ONLY <1>1, <1>3, FrameSpan
    <2>2. n * Fan \in Int
      BY ONLY <1>1, Fans
    <2>3. QED
      BY ONLY <2>1, <2>2
  <1>15. \A a \in Addr : a \in base .. end - 1 <=> FrameOf(a) \in s .. s + n - 1
    BY <1>1, <1>3, FrameSpan
  <1>6. file \in Nat /\ size \in Nat
    BY <1>5, Fans
  <1>16. \A a \in Nat : a \in file .. file + size => a \in Addr
    BY <1>5, FrameSpan
  <1>7. ASSUME s < elf PROVE base + Fan <= file
    BY <1>3, <1>5, <1>7, Fans, Rows
  <1>8. /\ headers[k].offset % PageSize = skip
        /\ m \in memmove(mem, base + skip, file + h.offset, h.filesz)
        /\ Cleared(m, s, skip, h)
               = memset(memset(m, base, Zero, skip), base + skip + h.filesz, Zero, h.memsz - h.filesz)
    BY DEF Cleared, Fan
  <1> HIDE DEF skip, base, end, words, file, size, h
  <1>9. \A j \in 0 .. h.filesz - 1 : (file + h.offset) + j \in Addr
    <2> SUFFICES ASSUME NEW j \in 0 .. h.filesz - 1 PROVE (file + h.offset) + j \in Addr
      OBVIOUS
    <2>1. (file + h.offset) + j \in file .. file + size /\ (file + h.offset) + j \in Nat
      <3>1. j \in Nat /\ j < h.filesz
        BY <1>1
      <3>2. h.offset + j <= size
        BY ONLY <1>1, <1>6, <3>1
      <3>3. h.offset \in Nat
        BY ONLY <1>1
      <3> DEFINE x == h.offset
      <3> HIDE DEF x
      <3>4. x \in Nat /\ x + j <= size
        BY <3>2, <3>3 DEF x
      <3>5. (file + x) + j \in file .. file + size /\ (file + x) + j \in Nat
        BY ONLY <1>6, <3>1, <3>4
      <3>6. QED
        BY <3>5 DEF x
    <2>2. QED
      BY <1>16, <2>1
  <1>10. /\ base + skip + h.memsz <= end /\ base + skip < end /\ skip \in Nat
         /\ file + h.offset \in Nat
    <2>1. Fan \in Nat
      BY Fans
    <2>2. base + skip < end
      BY ONLY <1>2, <1>4, <2>1
    <2>3. base + skip + h.memsz <= end
      BY ONLY <1>1, <1>2, <1>4
    <2>4. QED
      BY ONLY <1>1, <1>2, <1>6, <2>2, <2>3
  <1>11. Placed(mem, Cleared(m, s, skip, h), base, end, skip, h.filesz, h.memsz, file + h.offset)
    <2>1. /\ Placed(mem, memset(memset(m, base, Zero, skip), base + skip + h.filesz, Zero,
                                 h.memsz - h.filesz),
                     base, end, skip, h.filesz, h.memsz, file + h.offset)
      BY ONLY <1>1, <1>4, <1>8, <1>9, <1>10, PlacedWords, mem \in [Addr -> Word]
    <2>2. QED
      BY ONLY <1>8, <2>1
  <1>12. ASSUME s < elf PROVE base + skip < file + h.offset
    <2>1. Fan \in Nat /\ base + Fan <= file
      BY <1>7, <1>12, Fans
    <2>2. QED
      BY ONLY <1>1, <1>2, <1>4, <1>6, <2>1
  <1>13. SegmentIn(h, s, Cleared(m, s, skip, h))
    BY <1>15, <1>11, <1>12 DEF SegmentIn, skip, base, end, file, n
  <1>14. QED
    BY <1>8, <1>13 DEF h

(* One table copied to frame s: what memmove of lines 868 leaves.          *)
TableCopied(m, m2, s, from) ==
    /\ m2 \in [Addr -> Word]
    /\ \A a \in Addr : FrameOf(a) = s => m2[a] = m[from * Fan + (a % Fan)]
    /\ \A a \in Addr : FrameOf(a) # s /\ a # (s + 1) * Fan => m2[a] = m[a]
    /\ m2[(s + 1) * Fan] = m[(s + 1) * Fan] \/ m2[(s + 1) * Fan] \in Smears(m[(s + 1) * Fan])
    /\ s < from => m2[(s + 1) * Fan] = m[(s + 1) * Fan]

LEMMA TableCopy ==
    ASSUME NEW m \in [Addr -> Word], NEW s \in Frame, s + 1 \in Frame, NEW from \in Frame,
           NEW m2, m2 \in memmove(m, s * Fan, from * Fan, Fan)
    PROVE  TableCopied(m, m2, s, from)
  <1>1. /\ s \in Nat /\ from \in Nat /\ s + 1 > s
    BY LoaderAssumption DEF Frame
  <1>2. /\ s * Fan \in Nat /\ (s + 1) * Fan \in Addr /\ (s + 1) * Fan \in Nat
        /\ (s + 1) * Fan = s * Fan + 1 * Fan
        /\ \A a \in Addr : a \in s * Fan .. (s + 1) * Fan - 1 <=> FrameOf(a) \in s .. s + 1 - 1
        /\ FrameOf((s + 1) * Fan) = s + 1
    <2>1. 1 \in Nat /\ 1 > 0
      OBVIOUS
    <2>2. QED
      BY ONLY <1>1, <2>1, s + 1 \in Frame, FrameSpan
  <1>3. from * Fan \in Nat /\ \A j \in 0 .. Fan - 1 : from * Fan + j \in Addr
    <2>1. from * Fan \in Nat
      BY ONLY <1>1, Fans
    <2>2. ASSUME NEW j \in 0 .. Fan - 1 PROVE from * Fan + j \in Addr
      BY <1>1, InFrame
    <2>3. QED
      BY <2>1, <2>2
  <1> DEFINE b == s * Fan
             e == (s + 1) * Fan
             f == from * Fan
  <1>4. b \in Nat /\ e \in Addr /\ e \in Nat /\ e = b + Fan /\ f \in Nat /\ Fan \in Nat
    BY ONLY <1>2, <1>3, Fans
  <1>5. \A a \in Addr : a \in Nat /\ (a \in b .. e - 1 <=> FrameOf(a) = s)
                        /\ (FrameOf(a) = s => a = b + (a % Fan))
    <2> SUFFICES ASSUME NEW a \in Addr
                 PROVE  a \in Nat /\ (a \in b .. e - 1 <=> FrameOf(a) = s)
                        /\ (FrameOf(a) = s => a = b + (a % Fan))
      OBVIOUS
    <2>1. a \in Nat
      BY DEF Addr
    <2>2. FrameOf(a) \in Nat /\ a = FrameOf(a) * Fan + (a % Fan)
      BY <2>1, AddrParts
    <2>3. a \in b .. e - 1 <=> FrameOf(a) \in s .. s + 1 - 1
      BY <1>2
    <2>4. FrameOf(a) \in s .. s + 1 - 1 <=> FrameOf(a) = s
      BY ONLY <1>1, <2>2
    <2>5. QED
      BY <2>1, <2>2, <2>3, <2>4
  <1>6. m2 \in memmove(m, b, f, Fan) /\ \A j \in 0 .. Fan - 1 : f + j \in Addr
    BY <1>3
  <1>9. FrameOf(e) # s /\ (s < from => b < f)
    <2>1. FrameOf(e) # s
      BY ONLY <1>1, <1>2
    <2>2. ASSUME s < from PROVE b < f
      BY ONLY <1>1, <1>4, <2>2, Fans, Rows
    <2>3. QED
      BY <2>1, <2>2
  <1> HIDE DEF b, e, f
  <1>7. b + Fan \in Addr
    BY <1>4
  <1>8. CopyEffect(m, m2, b, f, Fan)
    BY ONLY <1>4, <1>6, <1>7, CopyIs, m \in [Addr -> Word]
  <1>10. \A a \in Addr : FrameOf(a) = s => m2[a] = m[f + (a % Fan)]
    <2> SUFFICES ASSUME NEW a \in Addr, FrameOf(a) = s PROVE m2[a] = m[f + (a % Fan)]
      OBVIOUS
    <2>1. a \in b .. b + Fan - 1 /\ a = b + (a % Fan) /\ a % Fan \in Nat
      BY <1>4, <1>5, AddrParts
    <2>2. a - b = a % Fan
      BY ONLY <1>4, <2>1
    <2>3. QED
      BY <1>8, <2>1, <2>2 DEF CopyEffect
  <1>11. \A a \in Addr : FrameOf(a) # s /\ a # e => m2[a] = m[a]
    <2> SUFFICES ASSUME NEW a \in Addr, FrameOf(a) # s, a # e PROVE m2[a] = m[a]
      OBVIOUS
    <2>1. a \in Nat /\ a \notin b .. e - 1
      BY <1>5
    <2>2. a \notin b .. b + Fan
      BY ONLY <1>4, <2>1, a # e
    <2>3. QED
      BY <1>8, <2>2 DEF CopyEffect
  <1>12. QED
    BY <1>4, <1>8, <1>9, <1>10, <1>11 DEF CopyEffect, TableCopied, b, e, f

(* A table cleared and entered at address here.                            *)
TableEntered(m, m2, here, s) ==
    /\ m2 \in [Addr -> Word]
    /\ m2[here] = Pte(s)
    /\ \A a \in Addr : a # here => m2[a] = IF FrameOf(a) = s THEN Zero ELSE m[a]

LEMMA TableEntry ==
    ASSUME NEW m \in [Addr -> Word], NEW s \in Frame, NEW here \in Addr,
           NEW m2, m2 = [memset(m, s * Fan, Zero, Fan) EXCEPT ![here] = Pte(s)]
    PROVE  TableEntered(m, m2, here, s)
  <1>1. Pte(s) \in Word
    BY DEF Pte, Word
  <1>2. \A a \in Addr : a \in s * Fan .. s * Fan + Fan - 1 <=> FrameOf(a) = s
    <2> SUFFICES ASSUME NEW a \in Addr
                 PROVE  a \in s * Fan .. s * Fan + Fan - 1 <=> FrameOf(a) = s
      OBVIOUS
    <2>1. a \in Nat /\ s \in Nat /\ 1 \in Nat
      BY LoaderAssumption DEF Addr, Frame
    <2>2. /\ a \in s * Fan .. s * Fan + 1 * Fan - 1 <=> FrameOf(a) \in s .. s + 1 - 1
          /\ FrameOf(a) \in Nat
      BY ONLY <2>1, SpanFrames, AddrParts
    <2>3. FrameOf(a) \in s .. s + 1 - 1 <=> FrameOf(a) = s
      BY ONLY <2>1, <2>2
    <2>4. 1 * Fan = Fan
      BY Fans
    <2>5. QED
      BY <2>2, <2>3, <2>4
  <1>3. /\ memset(m, s * Fan, Zero, Fan) \in [Addr -> Word]
        /\ \A a \in Addr : memset(m, s * Fan, Zero, Fan)[a] =
               IF a \in s * Fan .. s * Fan + Fan - 1 THEN Zero ELSE m[a]
    BY ClearIs
  <1>4. QED
    BY <1>1, <1>2, <1>3 DEF TableEntered

-----------------------------------------------------------------------------
(* What holds at every step, whatever the firmware's placement and the     *)
(* unchecked failures: the types, the words of the firmware, and where     *)
(* efi_main is.                                                            *)
FwWords == \A a \in Addr : FrameOf(a) \in FwFrames => mem[a][1] \in {"fw", "junk"}

OnSegment ==
    step \in {"walk", "test"} =>
        /\ seg + 1 \in 1 .. Len(headers) /\ IsLoad(segment)
        /\ page \in PageStart(segment) .. PageEnd(segment)
        /\ \A f \in addr .. addr + (PageEnd(segment) - page) : f \in Frame /\ owner[f] = "loader"

Started ==
    /\ step = "pml4" => /\ cr3 = FwPml4 /\ trouble = {} /\ claimed = {} /\ seg = 0
                        /\ \A l \in 1 .. 4 : map[l] = NoFrame
    /\ step # "pml4" => map[1] # NoFrame /\ cr3 = map[1] /\ map[1] \in Frame
    /\ step = "walk" => map[level] # NoFrame

BaseInv == PlanInv /\ OwnersInv /\ LoaderTypeOK /\ FwWords /\ OnSegment /\ Started

LEMMA BaseInit == LoaderInit => BaseInv
  <1> SUFFICES ASSUME LoaderInit PROVE BaseInv
    OBVIOUS
  <1>1. PlanInv
    BY PlanInit0
  <1>2. /\ NFrames \in Nat /\ FileFrames \in Nat \ {0} /\ FwPml4 \in Frame /\ FwFrames \subseteq Frame
        /\ NFrames - 1 \in FwFrames
    BY LoaderAssumption
  <1>3. /\ elf \in Frame \ (FwFrames \cup {FwPml4})
        /\ \A f \in elf .. elf + FileFrames - 1 : f \in Frame \ (FwFrames \cup {FwPml4})
    BY DEF LoaderInit
  <1>4. elf + FileFrames < NFrames
    <2> SUFFICES ASSUME elf + FileFrames >= NFrames PROVE FALSE
      BY <1>2, <1>3 DEF Frame
    <2>1. elf \in Nat /\ elf <= NFrames - 1
      BY <1>2, <1>3 DEF Frame
    <2>2. NFrames - 1 \in elf .. elf + FileFrames - 1
      BY <1>2, <2>1
    <2>3. QED
      BY <1>2, <1>3, <2>2
  <1>5. owner = [f \in Frame |-> IF f \in FwFrames \cup {FwPml4} THEN "fw"
                ELSE IF f \in elf .. elf + FileFrames - 1 THEN "loader" ELSE "free"]
    BY DEF LoaderInit
  <1>6. OwnersInv
    BY <1>2, <1>3, <1>4, <1>5 DEF OwnersInv
  <1>7. mem \in [Addr -> Word] /\ FwWords
    <2> DEFINE W(a) == CASE FrameOf(a) = FwPml4 -> IF a % Fan < Fan \div 2
                                                  THEN <<"large", 0>> ELSE Zero
                         [] FrameOf(a) \in FwFrames -> <<"fw", 0>>
                         [] FrameOf(a) \in elf .. elf + FileFrames - 1 ->
                                                  <<"elf", a - elf * Fan>>
                         [] OTHER -> <<"junk", 0>>
    <2>1. mem = [a \in Addr |-> W(a)]
      BY DEF LoaderInit
    <2>2. \A a \in Addr : W(a) \in Word
      <3> SUFFICES ASSUME NEW a \in Addr PROVE W(a) \in Word
        OBVIOUS
      <3>1. CASE FrameOf(a) = FwPml4
        <4>1. W(a) = IF a % Fan < Fan \div 2 THEN <<"large", 0>> ELSE Zero
          BY <1>3, <3>1, LoaderAssumption
        <4>2. QED
          BY <4>1 DEF Word, Zero
      <3>2. CASE FrameOf(a) # FwPml4 /\ FrameOf(a) \in FwFrames
        <4>1. W(a) = <<"fw", 0>>
          BY <1>3, <3>2
        <4>2. QED
          BY <4>1 DEF Word
      <3>3. CASE FrameOf(a) # FwPml4 /\ FrameOf(a) \notin FwFrames
                 /\ FrameOf(a) \in elf .. elf + FileFrames - 1
        <4>1. W(a) = <<"elf", a - elf * Fan>>
          BY <3>3
        <4>2. a \in Nat /\ elf \in Nat /\ FileFrames \in Nat
          BY <1>2, <1>3 DEF Addr, Frame
        <4>3. /\ a \in elf * Fan .. elf * Fan + FileFrames * Fan - 1
              /\ elf * Fan \in Nat /\ FileFrames * Fan \in Nat
          BY <3>3, <4>2, SpanFrames
        <4> DEFINE e == elf * Fan
                   c == FileFrames * Fan
        <4>4. a \in e .. e + c - 1 /\ e \in Nat /\ c \in Nat
          BY <4>3
        <4> HIDE DEF e, c
        <4>5. a - e \in 0 .. c - 1
          BY ONLY <4>2, <4>4
        <4>6. QED
          BY <4>1, <4>5 DEF Word, e, c
      <3>4. CASE FrameOf(a) # FwPml4 /\ FrameOf(a) \notin FwFrames
                 /\ FrameOf(a) \notin elf .. elf + FileFrames - 1
        <4>1. W(a) = <<"junk", 0>>
          BY <3>4
        <4>2. QED
          BY <4>1 DEF Word
      <3>5. QED
        BY <3>1, <3>2, <3>3, <3>4
    <2>3. \A a \in Addr : FrameOf(a) \in FwFrames => W(a) = <<"fw", 0>>
      BY <1>3, LoaderAssumption
    <2> HIDE DEF W
    <2>4. mem \in [Addr -> Word]
      BY <2>1, <2>2
    <2>5. \A a \in Addr : mem[a] = W(a)
      BY <2>1
    <2>6. QED
      BY <2>3, <2>4, <2>5 DEF FwWords
  <1>8. 0 \in Page /\ 0 \in Frame
    <2>1. Fan * Fan * Fan * Fan \in Nat \ {0}
      <3>1. \A a \in Nat \ {0}, b \in Nat \ {0} : a * b \in Nat \ {0}
        BY Z3
      <3>2. QED
        BY <3>1, Fans
    <2>2. QED
      BY <2>1, LoaderAssumption DEF Page, Frame
  <1>9. /\ cr3 = FwPml4 /\ map = [l \in 1 .. 4 |-> NoFrame] /\ seg = 0 /\ page = 0 /\ addr = 0
        /\ level = 1 /\ step = "pml4" /\ claimed = {} /\ trouble = {}
    BY DEF LoaderInit
  <1>10. LoaderTypeOK
    <2>1. Len(headers) \in Nat
      BY <1>1 DEF PlanInv, PlanTypeOK
    <2>2. seg \in 0 .. Len(headers)
      BY <1>9, <2>1
    <2>3. QED
      BY <1>2, <1>6, <1>7, <1>8, <1>9, <2>2 DEF LoaderTypeOK, OwnersInv
  <1>11. QED
    BY <1>1, <1>6, <1>7, <1>9, <1>10 DEF BaseInv, OnSegment, Started

LEMMA OwnersTaken ==
    ASSUME OwnersInv, NEW n \in Nat, NEW s, s \in AllocatePages(n), owner' = Own(s, n), elf' = elf
    PROVE  /\ OwnersInv' /\ \A f \in Frame : owner[f] # "free" => owner'[f] = owner[f]
           /\ \A f \in Frame : owner'[f] = IF f \in s .. s + n - 1 THEN "loader" ELSE owner[f]
  <1>1. /\ Own(s, n) \in [Frame -> {"free", "fw", "loader"}]
        /\ \A f \in Frame : owner'[f] = IF f \in s .. s + n - 1 THEN "loader" ELSE owner[f]
        /\ \A f \in Frame : owner[f] # "free" => owner'[f] = owner[f]
    BY Allocated
  <1>2. /\ \A f \in elf .. elf + FileFrames - 1 : f \in Frame
        /\ \A f \in FwFrames \cup {FwPml4} : f \in Frame
    BY LoaderAssumption DEF OwnersInv, Frame
  <1>3. QED
    BY <1>1, <1>2 DEF OwnersInv

(* What each action that writes to memory does.                            *)
LEMMA NewPml4Does ==
    ASSUME BaseInv, NewPml4
    PROVE  \E s \in Frame :
              /\ s + 1 \in Frame /\ owner[s] = "free" /\ OwnersInv'
              /\ \A f \in Frame : owner'[f] = IF f = s THEN "loader" ELSE owner[f]
              /\ TableCopied(mem, mem', s, FwPml4)
              /\ map' = [map EXCEPT ![1] = s] /\ cr3' = s
              /\ trouble' = IF Smeared(mem, mem', (s + 1) * Fan) THEN {"smear"} ELSE {}
  <1>1. cr3 = FwPml4 /\ OwnersInv /\ mem \in [Addr -> Word] /\ FwPml4 \in Frame /\ elf' = elf
    BY LoaderAssumption DEF BaseInv, Started, LoaderTypeOK, NewPml4
  <1>2. PICK s \in AllocatePages(1) : \E m \in memmove(mem, s * Fan, cr3 * Fan, Fan) :
            /\ mem' = m /\ owner' = Own(s, 1)
            /\ map' = [map EXCEPT ![1] = s] /\ cr3' = s
            /\ trouble' = IF Smeared(mem, m, (s + 1) * Fan) THEN {"smear"} ELSE {}
    BY DEF NewPml4
  <1> DEFINE m == mem'
  <1>9. /\ m \in memmove(mem, s * Fan, FwPml4 * Fan, Fan) /\ owner' = Own(s, 1)
        /\ map' = [map EXCEPT ![1] = s] /\ cr3' = s
        /\ trouble' = IF Smeared(mem, mem', (s + 1) * Fan) THEN {"smear"} ELSE {}
    BY <1>1, <1>2
  <1>3. 1 \in Nat
    OBVIOUS
  <1>4. /\ s \in Frame /\ s + 1 \in Frame /\ s \in Nat
        /\ \A f \in s .. s + 1 - 1 : owner[f] = "free"
    BY <1>1, <1>3, Allocated
  <1>5. \A f \in Frame : f \in s .. s + 1 - 1 <=> f = s
    BY <1>4, LoaderAssumption DEF Frame
  <1>6. /\ OwnersInv'
        /\ \A f \in Frame : owner'[f] = IF f \in s .. s + 1 - 1 THEN "loader" ELSE owner[f]
    BY <1>1, <1>9, <1>3, OwnersTaken
  <1>7. TableCopied(mem, m, s, FwPml4)
    BY <1>1, <1>4, <1>9, TableCopy
  <1>8. QED
    BY <1>9, <1>4, <1>5, <1>6, <1>7

LEMMA NewPml4FailsDoes ==
    ASSUME BaseInv, NewPml4Fails
    PROVE  elf + 1 \in Frame /\ elf \in Frame /\ owner[elf] = "loader" /\ TableCopied(mem, mem', elf, FwPml4)
  <1>1. cr3 = FwPml4 /\ OwnersInv /\ mem \in [Addr -> Word] /\ FwPml4 \in Frame
    BY LoaderAssumption DEF BaseInv, Started, LoaderTypeOK, NewPml4Fails
  <1>2. elf \in Frame /\ elf + 1 \in Frame /\ elf \in elf .. elf + FileFrames - 1
    BY <1>1, LoaderAssumption DEF OwnersInv, Frame
  <1>3. mem' \in memmove(mem, elf * Fan, FwPml4 * Fan, Fan)
    BY <1>1 DEF NewPml4Fails
  <1>4. QED
    BY <1>1, <1>2, <1>3, TableCopy DEF OwnersInv

LEMMA LoadSegmentDoes ==
    ASSUME BaseInv, LoadSegment
    PROVE  /\ seg + 1 \in 1 .. Len(headers) /\ IsLoad(segment)
           /\ \E s \in Frame :
                 /\ PageCount(segment) \in Nat /\ PageCount(segment) > 0
                 /\ s + PageCount(segment) \in Frame
                 /\ \A f \in s .. s + PageCount(segment) - 1 : f \in Frame /\ owner[f] = "free"
                 /\ OwnersInv'
                 /\ \A f \in Frame : owner[f] # "free" => owner'[f] = owner[f]
                 /\ \A f \in Frame : owner'[f] = IF f \in s .. s + PageCount(segment) - 1
                                                 THEN "loader" ELSE owner[f]
                 /\ SegmentIn(segment, s, mem')
                 /\ addr' = s /\ page' = PageStart(segment)
                 /\ trouble' = trouble \cup
                        IF Smeared(mem, mem', (s + PageCount(segment)) * Fan)
                        THEN {"smear"} ELSE {}
  <1>1. seg + 1 \in 1 .. Len(headers) /\ IsLoad(segment) /\ segment = headers[seg + 1]
    BY DEF BaseInv, LoaderTypeOK, PlanInv, PlanTypeOK, LoadSegment, HasSegment, IsLoad, segment
  <1> DEFINE h == headers[seg + 1]
             n == PageCount(h)
  <1>2. n \in Nat /\ OwnersInv /\ PlanInv /\ mem \in [Addr -> Word] /\ elf' = elf
    BY <1>1, SegmentFacts DEF BaseInv, LoaderTypeOK, LoadSegment
  <1>3. PICK s \in AllocatePages(n) :
          \E m \in memmove(mem, s * Fan + (h.offset % PageSize), elf * Fan + h.offset, h.filesz) :
            /\ mem' = Cleared(m, s, h.offset % PageSize, h)
            /\ owner' = Own(s, n) /\ addr' = s /\ page' = PageStart(h)
            /\ trouble' = trouble \cup
                   IF Smeared(mem, mem', (s + n) * Fan) THEN {"smear"} ELSE {}
    BY DEF LoadSegment, segment
  <1>4. /\ s \in Frame /\ n > 0 /\ s + n \in Frame
        /\ \A f \in s .. s + n - 1 : f \in Frame /\ owner[f] = "free"
    BY <1>2, Allocated
  <1>5. /\ OwnersInv' /\ \A f \in Frame : owner[f] # "free" => owner'[f] = owner[f]
        /\ \A f \in Frame : owner'[f] = IF f \in s .. s + n - 1 THEN "loader" ELSE owner[f]
    BY <1>2, <1>3, OwnersTaken
  <1>6. SegmentIn(h, s, mem')
    BY <1>1, <1>2, <1>3, SegmentCopied
  <1>7. QED
    BY <1>1, <1>2, <1>3, <1>4, <1>5, <1>6 DEF segment

LEMMA HereIs ==
    ASSUME BaseInv, step = "walk"
    PROVE  /\ map[level] \in Frame /\ Index(page, level) \in 0 .. Fan - 1
           /\ Here = map[level] * Fan + Index(page, level)
           /\ Here \in Addr /\ FrameOf(Here) = map[level] /\ mem[Here] \in Word
  <1>1. map[level] \in Frame /\ page \in Page /\ level \in 1 .. 4 /\ mem \in [Addr -> Word]
    BY DEF BaseInv, Started, LoaderTypeOK
  <1>2. QED
    BY <1>1, Entries DEF Here

LEMMA NewTableDoes ==
    ASSUME BaseInv, NewTable
    PROVE  \E s \in Frame :
              /\ owner[s] = "free" /\ OwnersInv'
              /\ \A f \in Frame : owner'[f] = IF f = s THEN "loader" ELSE owner[f]
              /\ TableEntered(mem, mem', Here, s)
              /\ map' = [map EXCEPT ![level + 1] = s]
  <1>1. OwnersInv /\ mem \in [Addr -> Word] /\ Here \in Addr /\ elf' = elf
    BY HereIs DEF BaseInv, LoaderTypeOK, NewTable
  <1>2. PICK s \in AllocatePages(1) :
            /\ mem' = [memset(mem, s * Fan, Zero, Fan) EXCEPT ![Here] = Pte(s)]
            /\ owner' = Own(s, 1) /\ map' = [map EXCEPT ![level + 1] = s]
    BY DEF NewTable
  <1>3. 1 \in Nat
    OBVIOUS
  <1>4. /\ s \in Frame /\ s \in Nat
        /\ \A f \in s .. s + 1 - 1 : owner[f] = "free"
    BY <1>1, <1>3, Allocated
  <1>5. \A f \in Frame : f \in s .. s + 1 - 1 <=> f = s
    BY <1>4, LoaderAssumption DEF Frame
  <1>6. /\ OwnersInv'
        /\ \A f \in Frame : owner'[f] = IF f \in s .. s + 1 - 1 THEN "loader" ELSE owner[f]
    BY <1>1, <1>2, <1>3, OwnersTaken
  <1>7. TableEntered(mem, mem', Here, s)
    BY <1>1, <1>2, <1>4, TableEntry
  <1>8. QED
    BY <1>2, <1>4, <1>5, <1>6, <1>7

LEMMA NewTableFailsDoes ==
    ASSUME BaseInv, NewTableFails
    PROVE  \/ map[level + 1] = NoFrame /\ step' = "wild" /\ mem' = mem /\ level' = level
                /\ trouble' = trouble
           \/ /\ map[level + 1] \in Frame /\ TableEntered(mem, mem', Here, map[level + 1])
              /\ level' = level + 1 /\ step' = step /\ trouble' = trouble \cup {"stale"}
  <1>1. mem \in [Addr -> Word] /\ Here \in Addr /\ level + 1 \in 1 .. 4 /\ map \in [1 .. 4 -> Frame \cup {NoFrame}]
    BY HereIs DEF BaseInv, LoaderTypeOK, NewTableFails
  <1>2. CASE map[level + 1] = NoFrame
    BY <1>2 DEF NewTableFails
  <1>3. CASE map[level + 1] # NoFrame
    <2>1. map[level + 1] \in Frame
      BY <1>1, <1>3
    <2>2. mem' = [memset(mem, map[level + 1] * Fan, Zero, Fan) EXCEPT ![Here] = Pte(map[level + 1])]
      BY <1>3 DEF NewTableFails
    <2>3. TableEntered(mem, mem', Here, map[level + 1])
      BY <1>1, <2>1, <2>2, TableEntry
    <2>4. QED
      BY <1>3, <2>1, <2>3 DEF NewTableFails
  <1>4. QED
    BY <1>2, <1>3

(* The actions of the mapping pass leave the file and its plan alone.      *)
LEMMA PlanKept ==
    ASSUME BaseInv, [Next]_vars
    PROVE  /\ PlanInv' /\ headers' = headers /\ seg \in 0 .. Len(headers)
           /\ \/ UNCHANGED loadVars
              \/ phase = "accepted" /\ LoadNext
  <1>1. PlanInv'
    BY PlanStep0 DEF BaseInv
  <1>2. headers' = headers
    BY DEF Next, vars, planVars, PlanNext, SkipHeader, RejectMisaligned, PlanSegment, OverrunPages,
           StartCheck, CheckSegment, RejectOverlapping, Accept
  <1>3. UNCHANGED loadVars \/ (phase = "accepted" /\ LoadNext)
    BY DEF Next, vars
  <1>4. QED
    BY <1>1, <1>2, <1>3 DEF BaseInv, LoaderTypeOK

LEMMA TypesStep ==
    ASSUME BaseInv, [Next]_vars
    PROVE  PlanInv' /\ OwnersInv' /\ LoaderTypeOK' /\ OnSegment' /\ Started'
  <1>1. PlanInv' /\ headers' = headers /\ segment = headers[seg + 1]
    BY PlanKept DEF segment
  <1>2. OwnersInv /\ LoaderTypeOK /\ OnSegment /\ Started /\ PlanInv
    BY DEF BaseInv
  <1>3. /\ Len(headers) \in Nat /\ seg \in Nat /\ seg <= Len(headers)
    BY <1>2 DEF PlanInv, PlanTypeOK, LoaderTypeOK
  <1> SUFFICES OwnersInv' /\ LoaderTypeOK' /\ OnSegment' /\ Started'
    BY <1>1
  <1>4. CASE UNCHANGED loadVars
    BY <1>1, <1>2, <1>4 DEF loadVars, OwnersInv, LoaderTypeOK, OnSegment, Started, segment
  <1>5. CASE NewPml4
    <2>1. PICK s \in Frame :
              /\ OwnersInv' /\ TableCopied(mem, mem', s, FwPml4)
              /\ map' = [map EXCEPT ![1] = s] /\ cr3' = s
              /\ trouble' = IF Smeared(mem, mem', (s + 1) * Fan) THEN {"smear"} ELSE {}
      BY <1>5, NewPml4Does
    <2>2. mem' \in [Addr -> Word]
      BY <2>1 DEF TableCopied
    <2>3. s # NoFrame /\ map'[1] = s
      BY <1>2, <2>1, LoaderAssumption DEF NoFrame, Frame, LoaderTypeOK
    <2>4. /\ step' = "segment" /\ seg' = seg /\ page' = page /\ addr' = addr /\ level' = level
          /\ claimed' = claimed
      BY <1>5 DEF NewPml4
    <2>5. LoaderTypeOK'
      BY <1>1, <1>2, <2>1, <2>2, <2>4 DEF LoaderTypeOK, OwnersInv
    <2>6. QED
      BY <2>1, <2>3, <2>4, <2>5 DEF OnSegment, Started
  <1>6. CASE NewPml4Fails
    <2>1. elf \in Frame /\ mem' \in [Addr -> Word]
      BY <1>6, NewPml4FailsDoes DEF TableCopied
    <2>2. elf # NoFrame /\ map'[1] = elf /\ cr3' = elf /\ map' \in [1 .. 4 -> Frame \cup {NoFrame}]
      BY <1>2, <1>6, <2>1, LoaderAssumption DEF NoFrame, Frame, LoaderTypeOK, NewPml4Fails
    <2>3. /\ step' = "wild" /\ seg' = seg /\ page' = page /\ addr' = addr /\ level' = level
          /\ claimed' = claimed /\ trouble' = trouble /\ owner' = owner /\ elf' = elf
      BY <1>6 DEF NewPml4Fails
    <2>4. LoaderTypeOK'
      BY <1>1, <1>2, <2>1, <2>2, <2>3 DEF LoaderTypeOK
    <2>5. QED
      BY <1>2, <2>1, <2>2, <2>3, <2>4 DEF OnSegment, Started, OwnersInv
  <1>7. CASE SkipSegment
    <2>1. /\ seg' = seg + 1 /\ step' = step /\ step = "segment" /\ seg + 1 \in 0 .. Len(headers)
          /\ mem' = mem /\ owner' = owner /\ elf' = elf /\ cr3' = cr3 /\ map' = map /\ page' = page
          /\ addr' = addr /\ level' = level /\ claimed' = claimed /\ trouble' = trouble
      BY <1>3, <1>7 DEF SkipSegment, HasSegment
    <2>2. QED
      BY <1>1, <1>2, <2>1 DEF LoaderTypeOK, OwnersInv, OnSegment, Started
  <1>8. CASE LoadSegment
    <2> DEFINE n == PageCount(segment)
    <2>1. PICK s \in Frame :
              /\ n \in Nat /\ n > 0
              /\ \A f \in s .. s + n - 1 : f \in Frame /\ owner[f] = "free"
              /\ OwnersInv'
              /\ \A f \in Frame : owner'[f] = IF f \in s .. s + n - 1 THEN "loader" ELSE owner[f]
              /\ SegmentIn(segment, s, mem')
              /\ addr' = s /\ page' = PageStart(segment)
              /\ trouble' \subseteq trouble \cup {"smear"}
      BY <1>8, LoadSegmentDoes
    <2>2. seg + 1 \in 1 .. Len(headers) /\ IsLoad(segment)
      BY <1>8, LoadSegmentDoes
    <2>3. mem' \in [Addr -> Word]
      BY <2>1 DEF SegmentIn, Placed
    <2>4. /\ PageStart(segment) \in Nat /\ PageEnd(segment) \in Nat
          /\ n = PageEnd(segment) - PageStart(segment) + 1
          /\ PageStart(segment) <= PageEnd(segment) => PageStart(segment) \in Page
      BY <1>1, <1>2, <2>2, SegmentFacts
    <2> HIDE DEF n
    <2>5. /\ PageStart(segment) \in Page
          /\ PageStart(segment) \in PageStart(segment) .. PageEnd(segment)
          /\ s + (PageEnd(segment) - PageStart(segment)) = s + n - 1
      BY <2>1, <2>4, LoaderAssumption DEF Frame
    <2>6. /\ step' = "walk" /\ seg' = seg /\ level' = 1 /\ elf' = elf /\ cr3' = cr3 /\ map' = map
          /\ claimed' = claimed
      BY <1>8 DEF LoadSegment
    <2>7. LoaderTypeOK'
      BY <1>1, <1>2, <2>1, <2>3, <2>5, <2>6 DEF LoaderTypeOK, OwnersInv
    <2>8. \A f \in s .. s + n - 1 : f \in Frame /\ owner'[f] = "loader"
      BY <2>1
    <2>9. segment' = segment
      BY <1>1, <2>6 DEF segment
    <2>10. OnSegment'
      BY <1>1, <2>1, <2>2, <2>5, <2>6, <2>8, <2>9 DEF OnSegment
    <2>11. Started'
      BY <1>2, <1>8, <2>6 DEF Started, LoadSegment
    <2>12. QED
      BY <2>1, <2>7, <2>10, <2>11
  <1>9. CASE LoadSegmentFails
    BY <1>1, <1>2, <1>9 DEF LoadSegmentFails, LoaderTypeOK, OwnersInv, OnSegment, Started
  <1>10. CASE NewTable
    <2>1. PICK s \in Frame :
              /\ OwnersInv' /\ TableEntered(mem, mem', Here, s)
              /\ \A f \in Frame : owner'[f] = IF f = s THEN "loader" ELSE owner[f]
              /\ map' = [map EXCEPT ![level + 1] = s]
      BY <1>10, NewTableDoes
    <2>2. /\ step = "walk" /\ step' = "walk" /\ level' = level + 1 /\ level + 1 \in 2 .. 4 /\ elf' = elf
          /\ cr3' = cr3 /\ seg' = seg /\ page' = page /\ addr' = addr /\ claimed' = claimed
          /\ trouble' = trouble
      BY <1>2, <1>10 DEF NewTable, LoaderTypeOK
    <2>3. mem' \in [Addr -> Word] /\ s # NoFrame
      BY <2>1, LoaderAssumption DEF TableEntered, Frame, NoFrame
    <2>4. /\ map' \in [1 .. 4 -> Frame \cup {NoFrame}] /\ map'[level + 1] = s /\ map'[1] = map[1]
      BY <1>2, <2>1, <2>2 DEF LoaderTypeOK
    <2>5. LoaderTypeOK'
      BY <1>1, <1>2, <2>1, <2>2, <2>3, <2>4 DEF LoaderTypeOK, OwnersInv
    <2>6. segment' = segment /\ \A f \in Frame : owner[f] = "loader" => owner'[f] = "loader"
      BY <1>1, <2>1, <2>2 DEF segment
    <2>7. OnSegment'
      BY <1>1, <1>2, <2>2, <2>6 DEF OnSegment
    <2>8. Started'
      BY <1>2, <2>2, <2>3, <2>4 DEF Started
    <2>9. QED
      BY <2>1, <2>5, <2>7, <2>8
  <1>11. CASE NewTableFails
    <2>1. /\ step = "walk" /\ owner' = owner /\ elf' = elf /\ cr3' = cr3 /\ map' = map /\ seg' = seg
          /\ page' = page /\ addr' = addr /\ claimed' = claimed /\ level + 1 \in 2 .. 4
      BY <1>2, <1>11 DEF NewTableFails, LoaderTypeOK
    <2>2. /\ mem' \in [Addr -> Word] /\ level' \in 1 .. 4 /\ trouble' \subseteq {"smear", "stale"}
          /\ step' \in {"walk", "wild"} /\ (step' = "walk" => map[level'] # NoFrame)
      <3>1. CASE map[level + 1] = NoFrame /\ step' = "wild" /\ mem' = mem /\ level' = level
                 /\ trouble' = trouble
        BY <1>2, <3>1 DEF LoaderTypeOK
      <3>2. CASE /\ map[level + 1] \in Frame /\ TableEntered(mem, mem', Here, map[level + 1])
                 /\ level' = level + 1 /\ step' = step /\ trouble' = trouble \cup {"stale"}
        BY <1>2, <2>1, <3>2, LoaderAssumption DEF LoaderTypeOK, TableEntered, NoFrame, Frame
      <3>3. QED
        BY <1>11, <3>1, <3>2, NewTableFailsDoes
    <2>3. LoaderTypeOK'
      BY <1>1, <1>2, <2>1, <2>2 DEF LoaderTypeOK
    <2>4. QED
      BY <1>1, <1>2, <2>1, <2>2, <2>3 DEF OwnersInv, OnSegment, Started, segment
  <1>12. CASE FollowTable
    <2>1. /\ step = "walk" /\ owner' = owner /\ elf' = elf /\ cr3' = cr3 /\ seg' = seg /\ mem' = mem
          /\ page' = page /\ addr' = addr /\ claimed' = claimed /\ level + 1 \in 2 .. 4
          /\ trouble' = trouble
      BY <1>2, <1>12 DEF FollowTable, LoaderTypeOK
    <2>2. /\ map' \in [1 .. 4 -> Frame \cup {NoFrame}] /\ level' \in 1 .. 4 /\ map'[1] = map[1]
          /\ step' \in {"walk", "wild"} /\ (step' = "walk" => map'[level'] # NoFrame)
      <3>1. CASE mem[Here][1] \in {"pte", "np"}
        <4>1. mem[Here][2] \in Frame
          BY <2>1, <3>1, HereIs, WordKinds
        <4>2. map' = [map EXCEPT ![level + 1] = mem[Here][2]] /\ level' = level + 1 /\ step' = step
          BY <1>12, <3>1 DEF FollowTable
        <4>3. QED
          BY <1>2, <2>1, <4>1, <4>2, LoaderAssumption DEF LoaderTypeOK, NoFrame, Frame
      <3>2. CASE mem[Here][1] \notin {"pte", "np"}
        BY <1>2, <1>12, <3>2 DEF FollowTable, LoaderTypeOK
      <3>3. QED
        BY <3>1, <3>2
    <2>3. LoaderTypeOK'
      BY <1>1, <1>2, <2>1, <2>2 DEF LoaderTypeOK
    <2>4. QED
      BY <1>1, <1>2, <2>1, <2>2, <2>3 DEF OwnersInv, OnSegment, Started, segment
  <1>13. CASE SetLeaf
    <2>1. /\ step = "walk" /\ step' = "test" /\ owner' = owner /\ elf' = elf /\ cr3' = cr3 /\ map' = map
          /\ seg' = seg /\ page' = page /\ addr' = addr /\ level' = level /\ trouble' = trouble
          /\ mem' = [mem EXCEPT ![Here] = Pte(addr)] /\ claimed' = claimed \cup {<<page, addr>>}
      BY <1>13 DEF SetLeaf
    <2>2. mem' \in [Addr -> Word]
      BY <1>2, <2>1 DEF LoaderTypeOK, Pte, Word
    <2>3. claimed' \subseteq Page \X Frame
      BY <1>2, <2>1 DEF LoaderTypeOK
    <2>4. LoaderTypeOK'
      BY <1>1, <1>2, <2>1, <2>2, <2>3 DEF LoaderTypeOK
    <2>5. QED
      BY <1>1, <1>2, <2>1, <2>4 DEF OwnersInv, OnSegment, Started, segment
  <1>14. CASE TestMapping
    <2>1. /\ step = "test" /\ owner' = owner /\ elf' = elf /\ cr3' = cr3 /\ map' = map /\ mem' = mem
          /\ claimed' = claimed /\ trouble' = trouble
      BY <1>14 DEF TestMapping
    <2>2. /\ seg + 1 \in 1 .. Len(headers) /\ IsLoad(segment) /\ page \in Nat
          /\ page \in PageStart(segment) .. PageEnd(segment)
          /\ \A f \in addr .. addr + (PageEnd(segment) - page) : f \in Frame /\ owner[f] = "loader"
      BY <1>2, <2>1, PrefixBound DEF OnSegment, LoaderTypeOK
    <2>3. /\ PageStart(segment) \in Nat /\ PageEnd(segment) \in Nat
          /\ PageStart(segment) <= PageEnd(segment) => PageEnd(segment) \in Page
      BY <1>1, <1>2, <2>2, SegmentFacts
    <2>4. CASE page < PageEnd(segment)
      <3>1. /\ page' = page + 1 /\ addr' = addr + 1 /\ level' = 1 /\ step' = "walk" /\ seg' = seg
        BY <1>14, <2>4 DEF TestMapping
      <3>2. page + 1 \in PageStart(segment) .. PageEnd(segment)
        BY <2>2, <2>3, <2>4
      <3>3. page + 1 \in Page
        <4>1. PageEnd(segment) \in Page /\ page + 1 \in Nat /\ page + 1 <= PageEnd(segment)
          BY <2>2, <2>3, <3>2
        <4> DEFINE c == Fan * Fan * Fan * Fan
        <4>2. Page = 0 .. c - 1 /\ c \in Nat
          BY Fans DEF Page
        <4> HIDE DEF c
        <4>3. QED
          BY ONLY <4>1, <4>2
      <3>4. /\ addr \in Nat
            /\ \A f \in addr + 1 .. addr + 1 + (PageEnd(segment) - (page + 1)) :
                    f \in Frame /\ owner[f] = "loader"
            /\ addr + 1 \in Frame
        <4>1. addr \in Nat
          BY <1>2, LoaderAssumption DEF LoaderTypeOK, Frame
        <4>2. /\ addr + 1 + (PageEnd(segment) - (page + 1)) = addr + (PageEnd(segment) - page)
              /\ addr + 1 \in addr .. addr + (PageEnd(segment) - page)
          BY <2>2, <2>3, <2>4, <4>1
        <4>3. \A f \in addr + 1 .. addr + (PageEnd(segment) - page) :
                    f \in addr .. addr + (PageEnd(segment) - page)
          BY <2>2, <2>3, <4>1
        <4>4. QED
          BY <2>2, <4>1, <4>2, <4>3
      <3>5. LoaderTypeOK'
        BY <1>1, <1>2, <2>1, <3>1, <3>3, <3>4 DEF LoaderTypeOK
      <3>6. segment' = segment
        BY <1>1, <3>1 DEF segment
      <3>7. OnSegment'
        BY <1>1, <2>1, <2>2, <3>1, <3>2, <3>4, <3>6 DEF OnSegment
      <3>8. Started'
        BY <1>2, <2>1, <3>1, LoaderAssumption DEF Started, Frame, NoFrame
      <3>9. QED
        BY <1>2, <2>1, <3>5, <3>7, <3>8 DEF OwnersInv
    <2>5. CASE ~(page < PageEnd(segment))
      <3>1. /\ page' = page /\ addr' = addr /\ level' = level /\ step' = "segment" /\ seg' = seg + 1
        BY <1>14, <2>5 DEF TestMapping
      <3>2. seg + 1 \in 0 .. Len(headers)
        BY <1>3, <2>2
      <3>3. QED
        BY <1>1, <1>2, <2>1, <3>1, <3>2 DEF LoaderTypeOK, OwnersInv, OnSegment, Started
    <2>6. QED
      BY <2>4, <2>5
  <1>15. CASE TestFaults
    BY <1>1, <1>2, <1>15 DEF TestFaults, LoaderTypeOK, OwnersInv, OnSegment, Started
  <1>16. CASE EnterKernel
    BY <1>1, <1>2, <1>16 DEF EnterKernel, LoaderTypeOK, OwnersInv, OnSegment, Started
  <1>17. QED
    BY <1>4, <1>5, <1>6, <1>7, <1>8, <1>9, <1>10, <1>11, <1>12, <1>13, <1>14, <1>15, <1>16,
       PlanKept DEF LoadNext

-----------------------------------------------------------------------------
(* The walk is a cursor.  The pages of a file are mapped in ascending      *)
(* order, so that in every table of the path the entries behind the last   *)
(* page are empty.  A stray byte falls on the first word of a frame, which *)
(* is never behind the cursor: no walk follows what it leaves there.       *)
Slot(l, j) == mem[(map[l] * Fan) + j]

EmptyFrom(l, j) == \A k \in j .. Fan - 1 : Slot(l, k) = Zero

Leads(l, p) == /\ map[l] \in Frame /\ map[l + 1] \in Frame
               /\ Slot(l, Index(p, l))[1] \in {"pte", "np"}
               /\ Slot(l, Index(p, l))[2] = map[l + 1]

PathTo(p, n) == \A l \in 1 .. n - 1 : Leads(l, p) /\ EmptyFrom(l, Index(p, l) + 1)

Walked(q) == PathTo(q, 4) /\ EmptyFrom(4, Index(q, 4) + 1)
Fresh(p, n) == PathTo(p, n) /\ EmptyFrom(n, Index(p, n))
Following(p, n) == \E q \in KernelPages : q < p /\ Prefix(q, n) = Prefix(p, n) /\ Walked(q)
Unwalked == EmptyFrom(1, Fan \div 2)

Ahead(q) == \A k \in seg + 1 .. Len(headers) : IsLoad(headers[k]) => q < PageStart(headers[k])

(* The lower half of the PML4, but for a stray byte, is the firmware's.    *)
LowerHalf == \A j \in 0 .. (Fan \div 2) - 1 : Slot(1, j) \in {<<"large", 0>>, <<"pte", 0>>, <<"np", 0>>}

OwnTables == \A l \in 1 .. 4 : map[l] # NoFrame =>
                 owner[map[l]] = "loader" /\ \A k \in 1 .. l - 1 : map[k] # map[l]

(* A page of the lower half is walked through what is no table, and the    *)
(* walk ends there.                                                        *)
Astray == step = "walk" /\ page \notin KernelPages /\ level = 2 /\ map[2] = 0

(* The firmware's PML4 as efi_main finds it.                               *)
FirstPml4 == \A j \in 0 .. Fan - 1 :
                 mem[FwPml4 * Fan + j] = IF j < Fan \div 2 THEN <<"large", 0>> ELSE Zero

PathInv ==
    /\ step = "pml4" => FirstPml4
    /\ step \in {"segment", "walk", "test"} =>
          /\ OwnTables \/ Astray
          /\ LowerHalf
          /\ step = "segment" => Unwalked \/ \E q \in KernelPages : Walked(q) /\ Ahead(q)
          /\ step = "walk" => IF page \in KernelPages THEN Fresh(page, level) \/ Following(page, level)
                              ELSE level = 1 \/ Astray
          /\ step = "test" => page \in KernelPages /\ Walked(page)

WalkInv == BaseInv /\ PathInv

(* What a step may write: frames the loader owns, and a byte of the word   *)
(* behind them.                                                            *)
Confined ==
    \A a \in Addr : mem'[a] # mem[a] =>
        \/ owner'[FrameOf(a)] = "loader"
        \/ a % Fan = 0 /\ owner'[FrameOf(a) - 1] = "loader" /\ mem'[a] \in Smears(mem[a])

LEMMA SlotFacts ==
    ASSUME NEW t \in Frame, NEW j \in 0 .. Fan - 1
    PROVE  t * Fan + j \in Addr /\ FrameOf(t * Fan + j) = t /\ (t * Fan + j) % Fan = j
  <1>1. t \in Nat
    BY LoaderAssumption DEF Frame
  <1>2. QED
    BY <1>1, InFrame

(* A walk of an empty entry is not behind any page.                        *)
LEMMA EmptyIsFresh ==
    ASSUME WalkInv, step = "walk", page \in KernelPages, mem[Here] = Zero \/ level = 4
    PROVE  Fresh(page, level) /\ OwnTables
  <1>1. OwnTables
    BY DEF WalkInv, PathInv, Astray
  <1>2. CASE Fresh(page, level)
    BY <1>1, <1>2
  <1>3. CASE Following(page, level)
    <2>1. PICK q \in KernelPages : q < page /\ Prefix(q, level) = Prefix(page, level) /\ Walked(q)
      BY <1>3 DEF Following
    <2>2. q \in Nat /\ page \in Nat /\ level \in 1 .. 4
      BY PrefixBound DEF KernelPages, WalkInv, BaseInv, LoaderTypeOK
    <2>3. /\ Index(q, level) <= Index(page, level)
          /\ Index(q, level) = Index(page, level) => level # 4
      BY <2>1, <2>2, PagesInOrder
    <2>4. Index(q, level) # Index(page, level)
      <3>1. CASE level = 4
        BY <2>3, <3>1
      <3>2. CASE level # 4 /\ Index(q, level) = Index(page, level)
        <4>1. Here = (map[level] * Fan) + Index(page, level) /\ mem[Here] = Zero
          BY <3>2, HereIs DEF WalkInv
        <4>2. Leads(level, q)
          BY <2>1, <2>2, <3>2 DEF Walked, PathTo
        <4>3. QED
          BY <3>2, <4>1, <4>2 DEF Leads, Slot, Zero
      <3>3. QED
        BY <3>1, <3>2
    <2>5. Index(q, level) \in 0 .. Fan - 1 /\ Index(page, level) \in 0 .. Fan - 1
      BY <2>2, Digits
    <2>6. Index(q, level) + 1 <= Index(page, level)
      BY <2>3, <2>4, <2>5
    <2>7. EmptyFrom(level, Index(page, level))
      <3>1. EmptyFrom(level, Index(q, level) + 1)
        BY <2>1, <2>2 DEF Walked, PathTo
      <3>2. \A k \in Index(page, level) .. Fan - 1 : k \in Index(q, level) + 1 .. Fan - 1
        BY <2>5, <2>6
      <3>3. QED
        BY <3>1, <3>2 DEF EmptyFrom
    <2>8. \A l \in 1 .. level - 1 : Index(q, l) = Index(page, l)
      BY <2>1, <2>2, PrefixShared
    <2>9. PathTo(page, level)
      <3> SUFFICES ASSUME NEW l \in 1 .. level - 1
                   PROVE  Leads(l, page) /\ EmptyFrom(l, Index(page, l) + 1)
        BY DEF PathTo
      <3>1. l \in 1 .. 3 /\ Index(q, l) = Index(page, l)
        BY <2>2, <2>8
      <3>2. Leads(l, q) /\ EmptyFrom(l, Index(q, l) + 1)
        BY <2>1, <3>1 DEF Walked, PathTo
      <3>3. QED
        BY <3>1, <3>2 DEF Leads
    <2>10. QED
      BY <1>1, <2>7, <2>9 DEF Fresh
  <1>4. QED
    BY <1>2, <1>3 DEF WalkInv, PathInv

(* An entry in use leads where the walk of the page before went.           *)
LEMMA UsedIsFollowed ==
    ASSUME WalkInv, step = "walk", page \in KernelPages, mem[Here] # Zero, level < 4
    PROVE  /\ OwnTables /\ mem[Here][1] \in {"pte", "np"} /\ mem[Here][2] = map[level + 1]
           /\ map[level + 1] \in Frame /\ Following(page, level + 1)
  <1>1. OwnTables
    BY DEF WalkInv, PathInv, Astray
  <1>2. /\ Here = (map[level] * Fan) + Index(page, level) /\ level \in 1 .. 3
        /\ Index(page, level) \in 0 .. Fan - 1 /\ page \in Nat
    BY HereIs, PrefixBound DEF WalkInv, BaseInv, LoaderTypeOK, KernelPages
  <1>3. ~Fresh(page, level)
    <2> SUFFICES ASSUME Fresh(page, level) PROVE FALSE
      OBVIOUS
    <2>1. Index(page, level) \in Index(page, level) .. Fan - 1
      BY <1>2
    <2>2. Slot(level, Index(page, level)) = Zero
      BY <2>1 DEF Fresh, EmptyFrom
    <2>3. QED
      BY <1>2, <2>2 DEF Slot
  <1>4. PICK q \in KernelPages : q < page /\ Prefix(q, level) = Prefix(page, level) /\ Walked(q)
    BY <1>3 DEF WalkInv, PathInv, Following
  <1>5. q \in Nat
    BY PrefixBound DEF KernelPages
  <1>6. /\ Index(q, level) <= Index(page, level) /\ level \in 1 .. 4
        /\ Index(q, level) = Index(page, level) => Prefix(q, level + 1) = Prefix(page, level + 1)
        /\ Index(q, level) \in 0 .. Fan - 1
    <2>1. level \in 1 .. 4
      BY <1>2
    <2>2. /\ Index(q, level) <= Index(page, level)
          /\ Index(q, level) = Index(page, level) => Prefix(q, level + 1) = Prefix(page, level + 1)
      BY <1>2, <1>4, <1>5, <2>1, PagesInOrder
    <2>3. Index(q, level) \in 0 .. Fan - 1
      BY <1>5, <2>1, Digits
    <2>4. QED
      BY <2>1, <2>2, <2>3
  <1>7. Index(q, level) = Index(page, level)
    <2> SUFFICES ASSUME Index(q, level) # Index(page, level) PROVE FALSE
      OBVIOUS
    <2>1. Index(page, level) \in Index(q, level) + 1 .. Fan - 1
      BY <1>2, <1>6
    <2>2. EmptyFrom(level, Index(q, level) + 1)
      BY <1>2, <1>4 DEF Walked, PathTo
    <2>3. Slot(level, Index(page, level)) = Zero
      BY <2>1, <2>2 DEF EmptyFrom
    <2>4. QED
      BY <1>2, <2>3 DEF Slot
  <1>8. Leads(level, q)
    BY <1>2, <1>4 DEF Walked, PathTo
  <1>9. Following(page, level + 1)
    BY <1>4, <1>6, <1>7 DEF Following
  <1>10. QED
    BY <1>1, <1>2, <1>7, <1>8, <1>9 DEF Leads, Slot

(* The entry a walk writes is one of the loader's.                         *)
LEMMA HereIsOwn ==
    ASSUME WalkInv, step = "walk", mem[Here] = Zero \/ level = 4
    PROVE  OwnTables /\ owner[FrameOf(Here)] = "loader"
  <1>1. map[level] \in Frame /\ Here \in Addr /\ FrameOf(Here) = map[level] /\ level \in 1 .. 4
    BY HereIs DEF WalkInv, BaseInv, LoaderTypeOK
  <1>2. ~Astray
    <2> SUFFICES ASSUME Astray PROVE FALSE
      OBVIOUS
    <2>1. level = 2 /\ FrameOf(Here) = 0
      BY <1>1 DEF Astray
    <2>2. mem[Here][1] \in {"fw", "junk"}
      BY <1>1, <2>1, LoaderAssumption DEF WalkInv, BaseInv, FwWords
    <2>3. QED
      BY <2>1, <2>2 DEF Zero
  <1>3. OwnTables
    BY <1>2 DEF WalkInv, PathInv
  <1>4. map[level] # NoFrame
    BY <1>1, LoaderAssumption DEF Frame, NoFrame
  <1>5. QED
    BY <1>1, <1>3, <1>4 DEF OwnTables

(* Frames taken with the word behind them: what may have changed.          *)
LEMMA ConfinedTo ==
    ASSUME NEW s \in Frame, NEW n \in Nat, n > 0, s + n \in Frame,
           \A f \in s .. s + n - 1 : f \in Frame /\ owner'[f] = "loader",
           \A a \in Addr : FrameOf(a) \notin s .. s + n - 1 /\ a # (s + n) * Fan => mem'[a] = mem[a],
           mem'[(s + n) * Fan] = mem[(s + n) * Fan]
               \/ mem'[(s + n) * Fan] \in Smears(mem[(s + n) * Fan])
    PROVE  Confined
  <1> SUFFICES ASSUME NEW a \in Addr, mem'[a] # mem[a]
               PROVE  \/ owner'[FrameOf(a)] = "loader"
                      \/ a % Fan = 0 /\ owner'[FrameOf(a) - 1] = "loader" /\ mem'[a] \in Smears(mem[a])
    BY DEF Confined
  <1>1. CASE FrameOf(a) \in s .. s + n - 1
    BY <1>1
  <1>2. CASE a = (s + n) * Fan
    <2>1. s \in Nat /\ s + n \in Nat
      BY LoaderAssumption DEF Frame
    <2>2. FrameOf((s + n) * Fan + 0) = s + n /\ ((s + n) * Fan + 0) % Fan = 0
      <3>1. 0 \in 0 .. Fan - 1
        BY Fans
      <3>2. QED
        BY ONLY <2>1, <3>1, InFrame
    <2>3. (s + n) * Fan + 0 = (s + n) * Fan
      BY ONLY <2>1, Fans
    <2>4. FrameOf(a) - 1 \in s .. s + n - 1
      BY <1>2, <2>1, <2>2, <2>3
    <2>5. QED
      BY <1>2, <2>2, <2>3, <2>4
  <1>3. QED
    BY <1>1, <1>2

LEMMA StepConfined ==
    ASSUME WalkInv, [Next]_vars
    PROVE  Confined
  <1>1. BaseInv /\ (UNCHANGED loadVars \/ LoadNext)
    BY PlanKept DEF WalkInv
  <1>2. CASE UNCHANGED mem
    BY <1>2 DEF Confined
  <1>3. CASE NewPml4
    <2>1. PICK s \in Frame :
              /\ s + 1 \in Frame
              /\ \A f \in Frame : owner'[f] = IF f = s THEN "loader" ELSE owner[f]
              /\ TableCopied(mem, mem', s, FwPml4)
      BY <1>1, <1>3, NewPml4Does
    <2>2. /\ 1 \in Nat /\ 1 > 0
          /\ \A f \in s .. s + 1 - 1 : f \in Frame /\ owner'[f] = "loader"
          /\ \A a \in Addr : FrameOf(a) \notin s .. s + 1 - 1 => FrameOf(a) # s
      BY <2>1, LoaderAssumption DEF Frame
    <2>3. QED
      BY <2>1, <2>2, ConfinedTo DEF TableCopied
  <1>4. CASE NewPml4Fails
    <2>1. /\ elf + 1 \in Frame /\ elf \in Frame /\ owner[elf] = "loader" /\ owner' = owner
          /\ TableCopied(mem, mem', elf, FwPml4)
      BY <1>1, <1>4, NewPml4FailsDoes DEF NewPml4Fails
    <2>2. /\ 1 \in Nat /\ 1 > 0
          /\ \A f \in elf .. elf + 1 - 1 : f \in Frame /\ owner'[f] = "loader"
          /\ \A a \in Addr : FrameOf(a) \notin elf .. elf + 1 - 1 => FrameOf(a) # elf
      BY <2>1, LoaderAssumption DEF Frame
    <2>3. QED
      BY <2>1, <2>2, ConfinedTo DEF TableCopied
  <1>5. CASE LoadSegment
    <2> DEFINE n == PageCount(segment)
    <2>1. PICK s \in Frame :
              /\ n \in Nat /\ n > 0 /\ s + n \in Frame
              /\ \A f \in s .. s + n - 1 : f \in Frame /\ owner[f] = "free"
              /\ \A f \in Frame : owner'[f] = IF f \in s .. s + n - 1 THEN "loader" ELSE owner[f]
              /\ SegmentIn(segment, s, mem')
      BY <1>1, <1>5, LoadSegmentDoes
    <2>2. /\ \A a \in Addr : a \notin s * Fan .. (s + n) * Fan => mem'[a] = mem[a]
          /\ mem'[(s + n) * Fan] = mem[(s + n) * Fan]
               \/ mem'[(s + n) * Fan] \in Smears(mem[(s + n) * Fan])
          /\ \A a \in Addr : a \in s * Fan .. (s + n) * Fan - 1 <=> FrameOf(a) \in s .. s + n - 1
      BY <2>1 DEF SegmentIn, Placed
    <2>3. s * Fan \in Nat /\ (s + n) * Fan \in Nat /\ \A a \in Addr : a \in Nat
      BY <2>1, Fans, LoaderAssumption DEF Frame, Addr
    <2> HIDE DEF n
    <2>4. \A a \in Addr : FrameOf(a) \notin s .. s + n - 1 /\ a # (s + n) * Fan => mem'[a] = mem[a]
      <3> DEFINE b == s * Fan
                 e == (s + n) * Fan
      <3>1. /\ \A a \in Addr : a \notin b .. e => mem'[a] = mem[a]
            /\ \A a \in Addr : a \in b .. e - 1 <=> FrameOf(a) \in s .. s + n - 1
            /\ b \in Nat /\ e \in Nat /\ \A a \in Addr : a \in Nat
        BY <2>2, <2>3
      <3> HIDE DEF b, e
      <3>2. \A a \in Addr : FrameOf(a) \notin s .. s + n - 1 /\ a # e => mem'[a] = mem[a]
        BY ONLY <3>1
      <3>3. QED
        BY <3>2 DEF e
    <2>5. QED
      BY <2>1, <2>2, <2>4, ConfinedTo
  <1>6. ASSUME step = "walk", mem[Here] = Zero \/ level = 4,
               \A f \in Frame : owner[f] = "loader" => owner'[f] = "loader",
               NEW s \in Frame, owner'[s] = "loader", TableEntered(mem, mem', Here, s)
        PROVE  Confined
    <2>1. owner'[FrameOf(Here)] = "loader"
      BY <1>1, <1>6, HereIsOwn, HereIs DEF BaseInv, LoaderTypeOK
    <2>2. QED
      BY <1>6, <2>1 DEF TableEntered, Confined
  <1>7. CASE NewTable
    <2>1. PICK s \in Frame :
              /\ \A f \in Frame : owner'[f] = IF f = s THEN "loader" ELSE owner[f]
              /\ TableEntered(mem, mem', Here, s)
      BY <1>1, <1>7, NewTableDoes
    <2>2. step = "walk" /\ mem[Here] = Zero
      BY <1>7 DEF NewTable
    <2>3. QED
      BY <1>6, <2>1, <2>2
  <1>8. CASE NewTableFails
    <2>1. /\ step = "walk" /\ mem[Here] = Zero /\ owner' = owner /\ level \in 1 .. 4 /\ level < 4
      BY <1>1, <1>8 DEF NewTableFails, BaseInv, LoaderTypeOK
    <2>2. CASE mem' = mem
      BY <2>2 DEF Confined
    <2>3. CASE map[level + 1] \in Frame /\ TableEntered(mem, mem', Here, map[level + 1])
      <3>1. map[level + 1] # NoFrame /\ level + 1 \in 1 .. 4
        BY <2>1, <2>3, LoaderAssumption DEF Frame, NoFrame
      <3>2. owner[map[level + 1]] = "loader"
        BY <2>1, <3>1, HereIsOwn DEF OwnTables
      <3>3. QED
        BY <1>6, <2>1, <2>3, <3>2
    <2>4. QED
      BY <1>1, <1>8, <2>2, <2>3, NewTableFailsDoes
  <1>9. CASE SetLeaf
    <2>1. /\ step = "walk" /\ level = 4 /\ owner' = owner /\ mem' = [mem EXCEPT ![Here] = Pte(addr)]
          /\ mem \in [Addr -> Word]
      BY <1>1, <1>9 DEF SetLeaf, BaseInv, LoaderTypeOK
    <2>2. owner[FrameOf(Here)] = "loader"
      BY <2>1, HereIsOwn
    <2>3. QED
      BY <2>1, <2>2 DEF Confined
  <1>10. QED
    BY <1>1, <1>2, <1>3, <1>4, <1>5, <1>7, <1>8, <1>9
       DEF loadVars, LoadNext, SkipSegment, LoadSegmentFails, FollowTable, TestMapping, TestFaults,
           EnterKernel

(* The firmware's frames keep their words, but for a byte.                 *)
LEMMA FwWordsStep ==
    ASSUME WalkInv, [Next]_vars
    PROVE  FwWords'
  <1> SUFFICES ASSUME NEW a \in Addr, FrameOf(a) \in FwFrames
               PROVE  mem'[a][1] \in {"fw", "junk"}
    BY DEF FwWords
  <1>1. mem[a] \in Word /\ mem[a][1] \in {"fw", "junk"}
    BY DEF WalkInv, BaseInv, FwWords, LoaderTypeOK
  <1>2. owner'[FrameOf(a)] # "loader"
    BY TypesStep DEF WalkInv, OwnersInv
  <1>3. mem'[a] = mem[a] \/ mem'[a] \in Smears(mem[a])
    BY <1>2, StepConfined DEF Confined
  <1>4. QED
    BY <1>1, <1>3, SmearedWord

LEMMA BaseStep == ASSUME WalkInv, [Next]_vars PROVE BaseInv'
  BY TypesStep, FwWordsStep DEF WalkInv, BaseInv

-----------------------------------------------------------------------------
(* The cursor moves with the page loop.                                    *)

LEMMA PageFacts ==
    ASSUME BaseInv
    PROVE  /\ page \in Page /\ page \in Nat /\ level \in 1 .. 4
           /\ \A l \in 1 .. 4 : Index(page, l) \in 0 .. Fan - 1
           /\ mem \in [Addr -> Word] /\ map \in [1 .. 4 -> Frame \cup {NoFrame}]
           /\ map[1] # NoFrame => map[1] \in Frame
  <1>1. page \in Page /\ level \in 1 .. 4 /\ mem \in [Addr -> Word]
        /\ map \in [1 .. 4 -> Frame \cup {NoFrame}]
    BY DEF BaseInv, LoaderTypeOK
  <1>2. page \in Nat
    BY <1>1, PrefixBound
  <1>3. \A l \in 1 .. 4 : Index(page, l) \in 0 .. Fan - 1
    BY <1>2, Digits
  <1>4. QED
    BY <1>1, <1>2, <1>3

LEMMA PathInit == LoaderInit => PathInv
  <1> SUFFICES ASSUME LoaderInit PROVE FirstPml4
    BY DEF PathInv, LoaderInit
  <1> SUFFICES ASSUME NEW j \in 0 .. Fan - 1
               PROVE  mem[FwPml4 * Fan + j] = IF j < Fan \div 2 THEN <<"large", 0>> ELSE Zero
    BY DEF FirstPml4
  <1> DEFINE a == FwPml4 * Fan + j
             W(b) == CASE FrameOf(b) = FwPml4 -> IF b % Fan < Fan \div 2
                                                 THEN <<"large", 0>> ELSE Zero
                       [] FrameOf(b) \in FwFrames -> <<"fw", 0>>
                       [] FrameOf(b) \in elf .. elf + FileFrames - 1 ->
                                                 <<"elf", b - elf * Fan>>
                       [] OTHER -> <<"junk", 0>>
  <1>1. a \in Addr /\ FrameOf(a) = FwPml4 /\ a % Fan = j
    BY SlotFacts, LoaderAssumption
  <1>2. mem = [b \in Addr |-> W(b)]
    BY DEF LoaderInit
  <1>3. \A f \in elf .. elf + FileFrames - 1 : f # FwPml4
    BY DEF LoaderInit
  <1>4. W(a) = IF j < Fan \div 2 THEN <<"large", 0>> ELSE Zero
    <2> HIDE DEF a
    <2>1. /\ FrameOf(a) \notin FwFrames /\ FrameOf(a) \notin elf .. elf + FileFrames - 1
      BY <1>1, <1>3, LoaderAssumption
    <2>2. QED
      BY <1>1, <2>1
  <1> HIDE DEF W
  <1>5. QED
    BY <1>1, <1>2, <1>4

(* The tables' words are as they were, but for the first of a table.       *)
Unspoiled == \A l \in 1 .. 4 : map[l] # NoFrame => \A j \in 0 .. Fan - 1 :
                 \/ Slot(l, j)' = Slot(l, j)
                 \/ j = 0 /\ Slot(l, j)' \in Smears(Slot(l, j))

LEMMA PathKept ==
    ASSUME BaseInv, step # "pml4", map' = map, Unspoiled
    PROVE  /\ LowerHalf => LowerHalf'
           /\ Unwalked => Unwalked'
           /\ \A q \in KernelPages : Walked(q) => Walked(q)'
  <1>1. map \in [1 .. 4 -> Frame \cup {NoFrame}] /\ map[1] \in Frame /\ mem \in [Addr -> Word]
    BY PageFacts DEF BaseInv, Started
  <1>2. \A f \in Frame : f # NoFrame /\ \A j \in 0 .. Fan - 1 : f * Fan + j \in Addr
    BY SlotFacts, LoaderAssumption DEF Frame, NoFrame
  <1>3. Fan \div 2 \in 1 .. Fan - 1 /\ Fan \in Nat
    BY Fans
  <1>4. ASSUME NEW l \in 1 .. 4, map[l] \in Frame, NEW j \in 1 .. Fan, EmptyFrom(l, j)
        PROVE  EmptyFrom(l, j)'
    <2> SUFFICES ASSUME NEW k \in j .. Fan - 1 PROVE Slot(l, k)' = Zero
      BY DEF EmptyFrom
    <2>1. k \in 0 .. Fan - 1 /\ k # 0
      BY <1>3
    <2>2. Slot(l, k)' = Slot(l, k)
      BY <1>2, <1>4, <2>1 DEF Unspoiled
    <2>3. QED
      BY <1>4, <2>2 DEF EmptyFrom
  <1>5. ASSUME LowerHalf PROVE LowerHalf'
    <2> SUFFICES ASSUME NEW j \in 0 .. (Fan \div 2) - 1
                 PROVE  Slot(1, j)' \in {<<"large", 0>>, <<"pte", 0>>, <<"np", 0>>}
      BY DEF LowerHalf
    <2>1. j \in 0 .. Fan - 1
      BY <1>3
    <2>2. Slot(1, j)' = Slot(1, j) \/ Slot(1, j)' \in Smears(Slot(1, j))
      BY <1>1, <1>2, <2>1 DEF Unspoiled
    <2>3. Slot(1, j) \in {<<"large", 0>>, <<"pte", 0>>, <<"np", 0>>}
      BY <1>5 DEF LowerHalf
    <2>4. QED
      BY <2>2, <2>3 DEF Smears
  <1>6. ASSUME Unwalked PROVE Unwalked'
    BY <1>1, <1>3, <1>4, <1>6 DEF Unwalked
  <1>7. ASSUME NEW q \in KernelPages, Walked(q) PROVE Walked(q)'
    <2>1. \A l \in 1 .. 4 : Index(q, l) \in 0 .. Fan - 1
      BY PrefixBound, Digits DEF KernelPages
    <2>2. ASSUME NEW l \in 1 .. 3 PROVE Leads(l, q)' /\ EmptyFrom(l, Index(q, l) + 1)'
      <3>1. Leads(l, q) /\ EmptyFrom(l, Index(q, l) + 1) /\ l \in 1 .. 4
        BY <1>7 DEF Walked, PathTo
      <3>2. Index(q, l) + 1 \in 1 .. Fan
        BY <1>3, <2>1, <3>1
      <3>3. map[l] \in Frame /\ map[l] # NoFrame /\ Slot(l, Index(q, l)) \in Word
        BY <1>1, <1>2, <2>1, <3>1 DEF Leads, Slot
      <3>4. Slot(l, Index(q, l))' = Slot(l, Index(q, l)) \/ Slot(l, Index(q, l))' \in Smears(Slot(l, Index(q, l)))
        BY <2>1, <3>1, <3>3 DEF Unspoiled
      <3>5. /\ Slot(l, Index(q, l))'[1] \in {"pte", "np"}
            /\ Slot(l, Index(q, l))'[2] = Slot(l, Index(q, l))[2]
        BY <3>1, <3>3, <3>4, SmearedWord DEF Leads
      <3>6. EmptyFrom(l, Index(q, l) + 1)'
        BY <1>4, <3>1, <3>2, <3>3
      <3>7. QED
        BY <3>1, <3>5, <3>6 DEF Leads
    <2>3. EmptyFrom(4, Index(q, 4) + 1)'
      <3>1. map[4] \in Frame /\ EmptyFrom(4, Index(q, 4) + 1)
        BY <1>7 DEF Walked, PathTo, Leads
      <3>2. Index(q, 4) + 1 \in 1 .. Fan
        BY <1>3, <2>1
      <3>3. QED
        BY <1>4, <3>1, <3>2
    <2>4. PathTo(q, 4)'
      BY <2>2 DEF PathTo
    <2>5. QED
      BY <2>3, <2>4 DEF Walked
  <1>8. QED
    BY <1>5, <1>6, <1>7

(* Only a page of the kernel is walked through an empty entry.             *)
LEMMA EmptyInKernel ==
    ASSUME WalkInv, step = "walk", mem[Here] = Zero \/ level = 4
    PROVE  page \in KernelPages
  <1> SUFFICES ASSUME page \notin KernelPages PROVE FALSE
    OBVIOUS
  <1>1. /\ BaseInv /\ LowerHalf /\ (level = 1 \/ Astray)
        /\ Index(page, 1) \in 0 .. Fan - 1 /\ page \in Page
    BY PageFacts DEF WalkInv, PathInv, BaseInv
  <1>2. /\ Here = (map[level] * Fan) + Index(page, level) /\ Here \in Addr
        /\ FrameOf(Here) = map[level]
    BY <1>1, HereIs
  <1>3. ~Astray
    <2> SUFFICES ASSUME Astray PROVE FALSE
      OBVIOUS
    <2>1. FrameOf(Here) = 0 /\ mem[Here][1] \in {"fw", "junk"} /\ level = 2
      BY <1>1, <1>2, LoaderAssumption DEF Astray, BaseInv, FwWords
    <2>2. QED
      BY <2>1 DEF Zero
  <1>4. Index(page, 1) \in 0 .. (Fan \div 2) - 1
    BY <1>1, Fans DEF KernelPages
  <1>5. Slot(1, Index(page, 1)) # Zero
    BY <1>1, <1>4 DEF LowerHalf, Zero
  <1>6. QED
    BY <1>1, <1>2, <1>3, <1>5 DEF Slot

(* A cleared table behind an empty entry takes the walk one level on.      *)
LEMMA TableAdded ==
    ASSUME WalkInv, step = "walk", NEW p, p = page, NEW n \in 1 .. 3, n = level,
           mem[Here] = Zero, NEW s \in Frame,
           TableEntered(mem, mem', Here, s), \A k \in 1 .. n : map[k] # s,
           map'[n + 1] = s, \A k \in 1 .. n : map'[k] = map[k]
    PROVE  p \in KernelPages /\ Fresh(p, n + 1)' /\ LowerHalf'
  <1>1. /\ p \in Page /\ n \in 1 .. 3 /\ \A l \in 1 .. 4 : Index(p, l) \in 0 .. Fan - 1
        /\ BaseInv /\ OwnTables /\ LowerHalf /\ map \in [1 .. 4 -> Frame \cup {NoFrame}]
        /\ map[1] \in Frame
    BY PageFacts, HereIsOwn DEF WalkInv, PathInv, BaseInv, Started
  <1>2. /\ Here = (map[n] * Fan) + Index(p, n) /\ Here \in Addr
        /\ FrameOf(Here) = map[n] /\ map[n] \in Frame
    BY <1>1, HereIs
  <1>3. \A f \in Frame : f # NoFrame
    BY LoaderAssumption DEF Frame, NoFrame
  <1>4. p \in KernelPages
    BY EmptyInKernel
  <1>5. Fresh(p, n)
    BY <1>4, EmptyIsFresh
  <1>6. ASSUME NEW l \in 1 .. n, map[l] \in Frame, NEW j \in 0 .. Fan - 1, l # n \/ j # Index(p, n)
        PROVE  Slot(l, j)' = Slot(l, j)
    <2>1. (map[l] * Fan) + j \in Addr /\ FrameOf((map[l] * Fan) + j) = map[l] /\ map[l] # s
          /\ ((map[l] * Fan) + j) % Fan = j
      BY <1>6, SlotFacts
    <2>2. (map[l] * Fan) + j # Here
      <3>1. CASE l # n
        <4>1. map[l] # map[n]
          BY <1>1, <1>2, <1>3, <3>1 DEF OwnTables
        <4>2. QED
          BY <1>2, <2>1, <4>1
      <3>2. CASE l = n
        <4>1. Here % Fan = Index(p, n)
          BY <1>1, <1>2, SlotFacts
        <4>2. QED
          BY <1>6, <2>1, <3>2, <4>1
      <3>3. QED
        BY <3>1, <3>2
    <2>3. mem'[(map[l] * Fan) + j] = mem[(map[l] * Fan) + j]
      BY <2>1, <2>2 DEF TableEntered
    <2>4. QED
      BY <2>3 DEF Slot
  <1>7. ASSUME NEW l \in 1 .. n - 1
        PROVE  Leads(l, p)' /\ EmptyFrom(l, Index(p, l) + 1)'
    <2>1. /\ Leads(l, p) /\ EmptyFrom(l, Index(p, l) + 1) /\ l \in 1 .. n /\ l \in 1 .. 4
          /\ l # n /\ l + 1 \in 1 .. n
      BY <1>1, <1>5 DEF Fresh, PathTo
    <2>2. \A j \in 0 .. Fan - 1 : Slot(l, j)' = Slot(l, j)
      BY <1>6, <2>1 DEF Leads
    <2>3. Leads(l, p)'
      BY <1>1, <2>1, <2>2 DEF Leads
    <2>4. \A k \in Index(p, l) + 1 .. Fan - 1 : k \in 0 .. Fan - 1
      BY <1>1, <2>1, Fans
    <2>5. EmptyFrom(l, Index(p, l) + 1)'
      BY <2>1, <2>2, <2>4 DEF EmptyFrom
    <2>6. QED
      BY <2>3, <2>5
  <1>8. Leads(n, p)' /\ EmptyFrom(n, Index(p, n) + 1)'
    <2>1. mem'[Here] = Pte(s) /\ map'[n] = map[n] /\ map'[n + 1] = s
      BY <1>1 DEF TableEntered
    <2>2. (map'[n] * Fan) + Index(p, n) = Here
      BY <1>2, <2>1
    <2>3. Leads(n, p)'
      BY <1>2, <2>1, <2>2 DEF Leads, Slot, Pte
    <2>4. ASSUME NEW k \in Index(p, n) + 1 .. Fan - 1 PROVE Slot(n, k)' = Zero
      <3>1. k \in 0 .. Fan - 1 /\ k # Index(p, n) /\ k \in Index(p, n) .. Fan - 1
        BY <1>1, Fans
      <3>2. Slot(n, k) = Zero
        BY <1>5, <3>1 DEF Fresh, EmptyFrom
      <3>3. QED
        BY <1>1, <1>2, <1>6, <3>1, <3>2
    <2>5. QED
      BY <2>3, <2>4 DEF EmptyFrom
  <1>9. EmptyFrom(n + 1, Index(p, n + 1))'
    <2> SUFFICES ASSUME NEW k \in Index(p, n + 1) .. Fan - 1 PROVE Slot(n + 1, k)' = Zero
      BY DEF EmptyFrom
    <2>1. k \in 0 .. Fan - 1
      BY <1>1, Fans
    <2>2. (s * Fan) + k \in Addr /\ FrameOf((s * Fan) + k) = s
      BY <2>1, SlotFacts
    <2>3. (s * Fan) + k # Here
      BY <1>1, <1>2, <2>2
    <2>4. mem'[(s * Fan) + k] = Zero
      BY <2>2, <2>3 DEF TableEntered
    <2>5. QED
      BY <2>4 DEF Slot
  <1>10. Fresh(p, n + 1)'
    <2>1. \A l \in 1 .. n : Leads(l, p)' /\ EmptyFrom(l, Index(p, l) + 1)'
      BY <1>1, <1>7, <1>8
    <2>2. (n + 1) - 1 = n
      BY <1>1
    <2>3. PathTo(p, n + 1)'
      BY <2>1, <2>2 DEF PathTo
    <2>4. EmptyFrom(n + 1, Index(p, n + 1))'
      BY <1>9
    <2>5. QED
      BY <2>3, <2>4 DEF Fresh
  <1>11. LowerHalf'
    <2> SUFFICES ASSUME NEW j \in 0 .. (Fan \div 2) - 1
                 PROVE  Slot(1, j)' = Slot(1, j)
      BY <1>1 DEF LowerHalf
    <2>1. j \in 0 .. Fan - 1 /\ j < Fan \div 2
      BY Fans
    <2>2. Index(p, 1) >= Fan \div 2
      BY <1>4 DEF KernelPages
    <2>3. 1 # n \/ j # Index(p, n)
      <3>1. ASSUME n = 1 PROVE j # Index(p, n)
        BY <1>1, <2>1, <2>2, <3>1, Fans
      <3>2. QED
        BY <3>1
    <2>4. QED
      BY <1>1, <1>6, <2>1, <2>3
  <1>12. QED
    BY <1>4, <1>10, <1>11

(* What the copies of the pass write is at most the first word of a table. *)
LEMMA TablesUnspoiled ==
    ASSUME BaseInv, OwnTables, step # "pml4", LoadSegment
    PROVE  Unspoiled
  <1> DEFINE n == PageCount(segment)
  <1>1. PICK s \in Frame :
            /\ n \in Nat /\ n > 0 /\ s + n \in Frame
            /\ \A f \in s .. s + n - 1 : f \in Frame /\ owner[f] = "free"
            /\ SegmentIn(segment, s, mem')
    BY LoadSegmentDoes
  <1>2. /\ \A a \in Addr : a \notin s * Fan .. (s + n) * Fan => mem'[a] = mem[a]
        /\ mem'[(s + n) * Fan] = mem[(s + n) * Fan]
               \/ mem'[(s + n) * Fan] \in Smears(mem[(s + n) * Fan])
        /\ \A a \in Addr : a \in s * Fan .. (s + n) * Fan - 1 <=> FrameOf(a) \in s .. s + n - 1
    BY <1>1 DEF SegmentIn, Placed
  <1>3. s * Fan \in Nat /\ (s + n) * Fan \in Nat /\ \A a \in Addr : a \in Nat
    BY <1>1, Fans, LoaderAssumption DEF Frame, Addr
  <1>4. map' = map
    BY DEF LoadSegment
  <1>5. (s + n) * Fan + 0 = (s + n) * Fan /\ ((s + n) * Fan + 0) % Fan = 0
    <2>1. s + n \in Nat /\ 0 \in 0 .. Fan - 1
      BY <1>1, Fans, LoaderAssumption DEF Frame
    <2>2. ((s + n) * Fan + 0) % Fan = 0
      BY ONLY <2>1, InFrame
    <2>3. QED
      BY <1>3, <2>2
  <1> DEFINE b == s * Fan
             e == (s + n) * Fan
  <1>6. /\ \A a \in Addr : a \notin b .. e => mem'[a] = mem[a]
        /\ mem'[e] = mem[e] \/ mem'[e] \in Smears(mem[e])
        /\ \A a \in Addr : a \in b .. e - 1 <=> FrameOf(a) \in s .. s + n - 1
        /\ b \in Nat /\ e \in Nat /\ \A a \in Addr : a \in Nat /\ e % Fan = 0
    BY <1>2, <1>3, <1>5
  <1> HIDE DEF b, e, n
  <1> SUFFICES ASSUME NEW l \in 1 .. 4, map[l] # NoFrame, NEW j \in 0 .. Fan - 1
               PROVE  \/ Slot(l, j)' = Slot(l, j)
                      \/ j = 0 /\ Slot(l, j)' \in Smears(Slot(l, j))
    BY DEF Unspoiled
  <1> DEFINE a == (map[l] * Fan) + j
  <1>7. map[l] \in Frame /\ owner[map[l]] = "loader"
    BY PageFacts DEF OwnTables
  <1>8. a \in Addr /\ FrameOf(a) = map[l] /\ a % Fan = j
    BY <1>7, SlotFacts
  <1>9. Slot(l, j)' = mem'[a] /\ Slot(l, j) = mem[a]
    BY <1>4 DEF Slot
  <1> HIDE DEF a
  <1>10. FrameOf(a) \notin s .. s + n - 1
    BY <1>1, <1>7, <1>8
  <1>11. CASE a = e
    BY <1>6, <1>8, <1>9, <1>11
  <1>12. CASE a # e
    <2>1. a \notin b .. e - 1 /\ a \in Nat
      BY <1>6, <1>8, <1>10
    <2>2. a \notin b .. e
      BY ONLY <1>6, <1>12, <2>1
    <2>3. QED
      BY <1>6, <1>8, <1>9, <2>2
  <1>13. QED
    BY <1>11, <1>12

LEMMA PathStep ==
    ASSUME WalkInv, [Next]_vars
    PROVE  PathInv'
  <1>1. /\ BaseInv /\ PathInv /\ BaseInv' /\ headers' = headers
        /\ UNCHANGED loadVars \/ (phase = "accepted" /\ LoadNext)
    BY PlanKept, BaseStep DEF WalkInv
  <1>2. /\ page \in Page /\ page \in Nat /\ level \in 1 .. 4
        /\ \A l \in 1 .. 4 : Index(page, l) \in 0 .. Fan - 1
        /\ mem \in [Addr -> Word] /\ map \in [1 .. 4 -> Frame \cup {NoFrame}]
        /\ map[1] # NoFrame => map[1] \in Frame
    BY <1>1, PageFacts
  <1>3. \A f \in Frame : f # NoFrame
    BY LoaderAssumption DEF Frame, NoFrame
  <1>4. /\ step # "pml4" => map[1] \in Frame
        /\ Len(headers) \in Nat /\ seg \in 0 .. Len(headers)
    <2>1. step # "pml4" => map[1] \in Frame
      BY <1>1 DEF BaseInv, Started
    <2>2. Len(headers) \in Nat
      BY <1>1 DEF BaseInv, PlanInv, PlanTypeOK
    <2>3. seg \in 0 .. Len(headers)
      BY <1>1 DEF BaseInv, LoaderTypeOK
    <2>4. QED
      BY <2>1, <2>2, <2>3
  <1>5. CASE UNCHANGED loadVars
    <2>1. /\ UNCHANGED <<mem, map, page, level, step, owner, seg, headers>>
      BY <1>1, <1>5 DEF loadVars
    <2>2. QED
      BY <1>1, <2>1 DEF PathInv, OwnTables, Astray, LowerHalf, Unwalked, Walked, Ahead, Fresh,
                Following, PathTo, Leads, EmptyFrom, Slot, FirstPml4
  <1>6. CASE NewPml4
    <2>1. PICK s \in Frame :
              /\ s + 1 \in Frame
              /\ \A f \in Frame : owner'[f] = IF f = s THEN "loader" ELSE owner[f]
              /\ TableCopied(mem, mem', s, FwPml4)
              /\ map' = [map EXCEPT ![1] = s]
      BY <1>1, <1>6, NewPml4Does
    <2>2. step = "pml4" /\ step' = "segment" /\ FirstPml4
      BY <1>1, <1>6 DEF NewPml4, PathInv
    <2>3. map'[1] = s /\ \A l \in 2 .. 4 : map'[l] = NoFrame
      BY <1>1, <1>2, <2>1, <2>2 DEF BaseInv, Started
    <2>4. \A j \in 0 .. Fan - 1 : Slot(1, j)' = IF j < Fan \div 2 THEN <<"large", 0>> ELSE Zero
      <3> SUFFICES ASSUME NEW j \in 0 .. Fan - 1
                   PROVE  Slot(1, j)' = IF j < Fan \div 2 THEN <<"large", 0>> ELSE Zero
        OBVIOUS
      <3>1. s * Fan + j \in Addr /\ FrameOf(s * Fan + j) = s /\ (s * Fan + j) % Fan = j
        BY <2>1, SlotFacts
      <3>2. mem'[s * Fan + j] = mem[FwPml4 * Fan + j]
        BY <2>1, <3>1 DEF TableCopied
      <3>3. QED
        BY <2>2, <2>3, <3>2 DEF Slot, FirstPml4
    <2>5. LowerHalf' /\ Unwalked'
      <3>1. /\ \A j \in 0 .. (Fan \div 2) - 1 : j \in 0 .. Fan - 1 /\ j < Fan \div 2
            /\ \A j \in (Fan \div 2) .. Fan - 1 : j \in 0 .. Fan - 1 /\ ~(j < Fan \div 2)
        BY Fans
      <3>2. QED
        BY <2>4, <3>1 DEF LowerHalf, Unwalked, EmptyFrom
    <2>6. OwnTables'
      <3> SUFFICES ASSUME NEW l \in 1 .. 4, map'[l] # NoFrame
                   PROVE  owner'[map'[l]] = "loader" /\ \A k \in 1 .. l - 1 : map'[k] # map'[l]
        BY DEF OwnTables
      <3>1. l = 1
        BY <2>3
      <3>2. QED
        BY <2>1, <2>3, <3>1
    <2>7. QED
      BY <2>2, <2>5, <2>6 DEF PathInv
  <1>7. CASE NewPml4Fails \/ LoadSegmentFails \/ TestFaults \/ EnterKernel
    <2>1. step' \in {"wild", "error", "fault", "entered"}
      BY <1>7 DEF NewPml4Fails, LoadSegmentFails, TestFaults, EnterKernel
    <2>2. QED
      BY <2>1 DEF PathInv
  <1>8. CASE SkipSegment
    <2>1. /\ UNCHANGED <<mem, map, page, level, step, owner>> /\ seg' = seg + 1 /\ step = "segment"
      BY <1>8 DEF SkipSegment
    <2>2. \A q : Ahead(q) => Ahead(q)'
      <3>1. \A k \in seg' + 1 .. Len(headers) : k \in seg + 1 .. Len(headers)
        BY <1>4, <2>1
      <3>2. QED
        BY <1>1, <3>1 DEF Ahead
    <2>3. /\ OwnTables' = OwnTables /\ LowerHalf' = LowerHalf /\ Unwalked' = Unwalked
          /\ ~Astray /\ \A q : Walked(q)' = Walked(q)
      BY <2>1 DEF OwnTables, Astray, LowerHalf, Unwalked, Walked, PathTo, Leads, EmptyFrom, Slot
    <2>4. QED
      BY <1>1, <2>1, <2>2, <2>3 DEF PathInv
  <1>9. CASE LoadSegment
    <2>1. step = "segment" /\ step' = "walk" /\ level' = 1 /\ page' = PageStart(segment) /\ map' = map
      BY <1>9 DEF LoadSegment
    <2>2. OwnTables /\ LowerHalf /\ (Unwalked \/ \E q \in KernelPages : Walked(q) /\ Ahead(q))
      BY <1>1, <2>1 DEF PathInv, Astray
    <2>3. Unspoiled
      BY <1>1, <1>9, <2>1, <2>2, TablesUnspoiled
    <2>4. /\ LowerHalf' /\ (Unwalked => Unwalked')
          /\ \A q \in KernelPages : Walked(q) => Walked(q)'
      BY <1>1, <2>1, <2>2, <2>3, PathKept
    <2>5. /\ seg + 1 \in 1 .. Len(headers) /\ IsLoad(segment)
          /\ \A f \in Frame : owner[f] # "free" => owner'[f] = owner[f]
      BY <1>1, <1>9, LoadSegmentDoes
    <2>6. OwnTables'
      BY <1>2, <2>1, <2>2, <2>5 DEF OwnTables
    <2>13. PICK p : p = PageStart(segment)
      OBVIOUS
    <2>7. p \in Page
      BY <1>1, <2>1, <2>13 DEF BaseInv, LoaderTypeOK
    <2>8. p \in KernelPages => Fresh(p, 1)' \/ Following(p, 1)'
      <3> SUFFICES ASSUME p \in KernelPages PROVE Fresh(p, 1)' \/ Following(p, 1)'
        OBVIOUS
      <3>1. CASE Unwalked
        <4>1. Unwalked' /\ Index(p, 1) >= Fan \div 2 /\ Index(p, 1) \in 0 .. Fan - 1
          BY <2>4, <2>7, <3>1, PrefixBound, Digits DEF KernelPages
        <4>2. \A k \in Index(p, 1) .. Fan - 1 : k \in (Fan \div 2) .. Fan - 1
          BY <4>1, Fans
        <4>3. EmptyFrom(1, Index(p, 1))'
          BY <4>1, <4>2 DEF Unwalked, EmptyFrom
        <4>4. PathTo(p, 1)'
          BY DEF PathTo
        <4>5. QED
          BY <4>3, <4>4 DEF Fresh
      <3>2. ASSUME NEW q \in KernelPages, Walked(q), Ahead(q) PROVE Following(p, 1)'
        <4>1. seg + 1 \in seg + 1 .. Len(headers)
          BY <1>4, <2>5
        <4>2. q < p
          BY <2>5, <2>13, <3>2, <4>1 DEF Ahead, segment
        <4>3. Prefix(q, 1) = Prefix(p, 1)
          BY <2>7, PrefixBound DEF KernelPages
        <4>4. Walked(q)'
          BY <2>4, <3>2
        <4>5. QED
          BY <4>2, <4>3, <4>4 DEF Following
      <3>3. QED
        BY <2>2, <3>1, <3>2
    <2>9. page' = p
      BY <2>1, <2>13
    <2>10. page' \in KernelPages => Fresh(page, level)' \/ Following(page, level)'
      BY <2>1, <2>8, <2>9 DEF Fresh, PathTo, Leads, EmptyFrom, Slot, Following, Walked
    <2>11. KernelPages' = KernelPages
      BY DEF KernelPages
    <2>12. QED
      BY <2>1, <2>4, <2>6, <2>10, <2>11 DEF PathInv
  <1>10. ASSUME step = "walk", step' = "walk", level \in 1 .. 3, mem[Here] = Zero, NEW s \in Frame,
                TableEntered(mem, mem', Here, s), \A k \in 1 .. level : map[k] # s,
                map'[level + 1] = s, \A k \in 1 .. level : map'[k] = map[k],
                level' = level + 1, page' = page, OwnTables'
         PROVE  PathInv'
    <2>6. PICK p : p = page
      OBVIOUS
    <2>7. PICK n \in 1 .. 3 : n = level
      BY <1>10
    <2>1. p \in KernelPages /\ Fresh(p, n + 1)' /\ LowerHalf'
      <3>1. /\ \A k \in 1 .. n : map[k] # s
            /\ \A k \in 1 .. n : map'[k] = map[k]
            /\ map'[n + 1] = s
        BY <1>10, <2>7
      <3>2. QED
        BY ONLY <1>10, <2>6, <2>7, <3>1, TableAdded, WalkInv
    <2>2. page' = p /\ level' = n + 1
      BY <1>10, <2>6, <2>7
    <2>3. Fresh(page, level)'
      BY <2>1, <2>2 DEF Fresh, PathTo, Leads, EmptyFrom, Slot
    <2>4. KernelPages' = KernelPages
      BY DEF KernelPages
    <2>5. QED
      BY <1>10, <2>1, <2>2, <2>3, <2>4 DEF PathInv
  <1>11. CASE NewTable
    <2>1. PICK s \in Frame :
              /\ owner[s] = "free"
              /\ \A f \in Frame : owner'[f] = IF f = s THEN "loader" ELSE owner[f]
              /\ TableEntered(mem, mem', Here, s)
              /\ map' = [map EXCEPT ![level + 1] = s]
      BY <1>1, <1>11, NewTableDoes
    <2>2. /\ step = "walk" /\ step' = "walk" /\ level \in 1 .. 3 /\ mem[Here] = Zero
          /\ level' = level + 1 /\ page' = page
      BY <1>2, <1>11 DEF NewTable
    <2>3. OwnTables
      BY <2>2, HereIsOwn
    <2>4. \A l \in 1 .. 4 : map[l] # s
      BY <1>3, <2>1, <2>3 DEF OwnTables
    <2>5. \A l \in 1 .. 4 : map'[l] = IF l = level + 1 THEN s ELSE map[l]
      BY <1>2, <2>1, <2>2
    <2>6. OwnTables'
      <3> SUFFICES ASSUME NEW l \in 1 .. 4, map'[l] # NoFrame
                   PROVE  owner'[map'[l]] = "loader" /\ \A k \in 1 .. l - 1 : map'[k] # map'[l]
        BY DEF OwnTables
      <3>1. owner'[map'[l]] = "loader"
        BY <1>2, <2>1, <2>3, <2>5 DEF OwnTables
      <3>2. \A k \in 1 .. l - 1 : k \in 1 .. 4 /\ k # l
        OBVIOUS
      <3>3. \A k \in 1 .. l - 1 : map'[k] # map'[l]
        BY <2>3, <2>4, <2>5, <3>2 DEF OwnTables
      <3>4. QED
        BY <3>1, <3>3
    <2>7. /\ map'[level + 1] = s /\ \A k \in 1 .. level : map'[k] = map[k] /\ map[k] # s
      BY <2>2, <2>4, <2>5
    <2>8. QED
      BY <1>10, <2>1, <2>2, <2>6, <2>7
  <1>12. CASE NewTableFails
    <2>1. /\ step = "walk" /\ level \in 1 .. 3 /\ mem[Here] = Zero /\ page' = page /\ map' = map
          /\ owner' = owner
      BY <1>2, <1>12 DEF NewTableFails
    <2>2. CASE step' = "wild"
      BY <2>2 DEF PathInv
    <2>3. CASE /\ map[level + 1] \in Frame /\ TableEntered(mem, mem', Here, map[level + 1])
               /\ level' = level + 1 /\ step' = step
      <3>1. OwnTables
        BY <2>1, HereIsOwn
      <3>2. OwnTables'
        BY <2>1, <3>1 DEF OwnTables
      <3>3. \A k \in 1 .. level : map[k] # map[level + 1]
        <4>1. level + 1 \in 1 .. 4 /\ map[level + 1] # NoFrame
              /\ \A k \in 1 .. level : k \in 1 .. (level + 1) - 1
          BY <1>3, <2>1, <2>3
        <4>2. QED
          BY <3>1, <4>1 DEF OwnTables
      <3>4. QED
        BY <1>10, <2>1, <2>3, <3>2, <3>3
    <2>4. QED
      BY <1>1, <1>12, <2>2, <2>3, NewTableFailsDoes
  <1>13. CASE FollowTable
    <2>1. /\ step = "walk" /\ level \in 1 .. 3 /\ mem[Here] # Zero /\ page' = page /\ mem' = mem
          /\ owner' = owner /\ seg' = seg
      BY <1>2, <1>13 DEF FollowTable
    <2>2. CASE mem[Here][1] \notin {"pte", "np"}
      <3>1. step' = "wild"
        BY <1>13, <2>2 DEF FollowTable
      <3>2. QED
        BY <3>1 DEF PathInv
    <2>3. CASE mem[Here][1] \in {"pte", "np"}
      <3>1. map' = [map EXCEPT ![level + 1] = mem[Here][2]] /\ level' = level + 1 /\ step' = "walk"
        BY <1>13, <2>1, <2>3 DEF FollowTable
      <3>2. CASE page \in KernelPages
        <4>1. /\ OwnTables /\ mem[Here][2] = map[level + 1]
              /\ Following(page, level + 1) /\ LowerHalf
          BY <1>1, <2>1, <3>2, UsedIsFollowed DEF PathInv
        <4>2. map' = map
          BY <1>2, <2>1, <3>1, <4>1
        <4>3. OwnTables' /\ LowerHalf' /\ Following(page, level)'
          BY <2>1, <3>1, <4>1, <4>2
             DEF OwnTables, LowerHalf, Following, Walked, PathTo, Leads, EmptyFrom, Slot
        <4>4. KernelPages' = KernelPages
          BY DEF KernelPages
        <4>5. QED
          BY <2>1, <3>1, <3>2, <4>3, <4>4 DEF PathInv
      <3>3. CASE page \notin KernelPages
        <4>1. level = 1
          <5>1. level = 1 \/ Astray
            BY <1>1, <2>1, <3>3 DEF PathInv
          <5>2. ~Astray
            <6> SUFFICES ASSUME Astray PROVE FALSE
              OBVIOUS
            <6>1. FrameOf(Here) = 0 /\ Here \in Addr
              BY <1>1, <2>1, HereIs DEF Astray
            <6>2. mem[Here][1] \in {"fw", "junk"}
              BY <1>1, <6>1, LoaderAssumption DEF BaseInv, FwWords
            <6>3. QED
              BY <2>3, <6>2
          <5>3. QED
            BY <5>1, <5>2
        <4>2. Index(page, 1) \in 0 .. (Fan \div 2) - 1 /\ LowerHalf
          BY <1>1, <1>2, <2>1, <3>3, Fans DEF KernelPages, PathInv
        <4>3. mem[Here] = Slot(1, Index(page, 1))
          BY <1>1, <2>1, <4>1, HereIs DEF Slot
        <4>4. mem[Here][2] = 0
          BY <4>2, <4>3 DEF LowerHalf
        <4>5. map'[2] = 0 /\ level' = 2 /\ map'[1] = map[1]
          BY <1>2, <3>1, <4>1, <4>4
        <4>6. LowerHalf'
          BY <2>1, <4>2, <4>5 DEF LowerHalf, Slot
        <4>7. Astray'
          BY <2>1, <3>1, <3>3, <4>5 DEF Astray, KernelPages
        <4>8. page' \notin KernelPages'
          BY <2>1, <3>3 DEF KernelPages
        <4>9. QED
          BY <3>1, <4>6, <4>7, <4>8 DEF PathInv
      <3>4. QED
        BY <3>2, <3>3
    <2>4. QED
      BY <2>2, <2>3
  <1>14. CASE SetLeaf
    <2>1. /\ step = "walk" /\ level = 4 /\ step' = "test" /\ page' = page /\ map' = map
          /\ owner' = owner /\ mem' = [mem EXCEPT ![Here] = Pte(addr)]
      BY <1>14 DEF SetLeaf
    <2>2. page \in KernelPages
      BY <1>1, <2>1 DEF PathInv, Astray
    <2>3. Fresh(page, 4) /\ OwnTables /\ LowerHalf
      BY <1>1, <2>1, <2>2, EmptyIsFresh DEF PathInv
    <2>4. /\ Here = (map[4] * Fan) + Index(page, 4) /\ Here \in Addr /\ FrameOf(Here) = map[4]
          /\ map[4] \in Frame
      BY <1>1, <2>1, HereIs
    <2>5. ASSUME NEW l \in 1 .. 4, map[l] \in Frame, NEW j \in 0 .. Fan - 1,
                 l # 4 \/ j # Index(page, 4)
          PROVE  Slot(l, j)' = Slot(l, j)
      <3>1. (map[l] * Fan) + j \in Addr /\ FrameOf((map[l] * Fan) + j) = map[l]
            /\ ((map[l] * Fan) + j) % Fan = j
        BY <2>5, SlotFacts
      <3>2. l # 4 => map[l] # map[4]
        BY <1>3, <2>3, <2>4 DEF OwnTables
      <3>3. Here % Fan = Index(page, 4)
        BY <1>2, <2>4, SlotFacts
      <3>4. (map[l] * Fan) + j # Here
        BY <2>4, <2>5, <3>1, <3>2, <3>3
      <3>5. QED
        BY <1>2, <2>1, <3>1, <3>4 DEF Slot
    <2>6. ASSUME NEW l \in 1 .. 3 PROVE Leads(l, page)' /\ EmptyFrom(l, Index(page, l) + 1)'
      <3>1. Leads(l, page) /\ EmptyFrom(l, Index(page, l) + 1) /\ l \in 1 .. 4 /\ l # 4
        BY <2>3 DEF Fresh, PathTo
      <3>2. \A j \in 0 .. Fan - 1 : Slot(l, j)' = Slot(l, j)
        BY <2>5, <3>1 DEF Leads
      <3>3. \A k \in Index(page, l) + 1 .. Fan - 1 : k \in 0 .. Fan - 1
        BY <1>2, <3>1, Fans
      <3>4. EmptyFrom(l, Index(page, l) + 1)'
        BY <2>1, <3>1, <3>2, <3>3 DEF EmptyFrom
      <3>5. QED
        BY <1>2, <2>1, <3>1, <3>2, <3>4 DEF Leads
    <2>7. EmptyFrom(4, Index(page, 4) + 1)'
      <3> SUFFICES ASSUME NEW k \in Index(page, 4) + 1 .. Fan - 1 PROVE Slot(4, k)' = Zero
        BY <2>1 DEF EmptyFrom
      <3>1. k \in 0 .. Fan - 1 /\ k \in Index(page, 4) .. Fan - 1 /\ k # Index(page, 4)
        BY <1>2, Fans
      <3>2. Slot(4, k) = Zero
        BY <2>3, <3>1 DEF Fresh, EmptyFrom
      <3>3. QED
        BY <2>4, <2>5, <3>1, <3>2
    <2>8. Walked(page)'
      BY <2>6, <2>7 DEF Walked, PathTo
    <2>9. LowerHalf'
      <3>1. \A j \in 0 .. (Fan \div 2) - 1 : j \in 0 .. Fan - 1
        BY Fans
      <3>2. map[1] \in Frame
        BY <1>4, <2>1
      <3>3. QED
        BY <2>3, <2>5, <3>1, <3>2 DEF LowerHalf
    <2>10. OwnTables' /\ KernelPages' = KernelPages
      BY <2>1, <2>3 DEF OwnTables, KernelPages
    <2>11. QED
      BY <2>1, <2>2, <2>8, <2>9, <2>10 DEF PathInv
  <1>15. CASE TestMapping
    <2>1. /\ step = "test" /\ mem' = mem /\ owner' = owner /\ map' = map
      BY <1>15 DEF TestMapping
    <2>2. OwnTables /\ LowerHalf /\ page \in KernelPages /\ Walked(page)
      BY <1>1, <2>1 DEF PathInv, Astray
    <2>3. /\ OwnTables' /\ LowerHalf' /\ KernelPages' = KernelPages
          /\ \A q : Walked(q)' = Walked(q)
      BY <2>1, <2>2 DEF OwnTables, LowerHalf, KernelPages, Walked, PathTo, Leads, EmptyFrom, Slot
    <2>4. /\ seg + 1 \in 1 .. Len(headers) /\ IsLoad(segment)
          /\ page \in PageStart(segment) .. PageEnd(segment)
      BY <1>1, <2>1 DEF BaseInv, OnSegment
    <2>5. CASE page < PageEnd(segment)
      <3>1. page' = page + 1 /\ level' = 1 /\ step' = "walk"
        BY <1>15, <2>5 DEF TestMapping
      <3>2. page + 1 \in Page
        BY <1>1, <3>1 DEF BaseInv, LoaderTypeOK
      <3>3. page + 1 \in KernelPages /\ page < page + 1
        <4>1. page <= page + 1 /\ page < page + 1
          BY <1>2
        <4>2. QED
          BY <2>2, <3>2, <4>1, KernelAbove
      <3>4. Prefix(page, 1) = Prefix(page + 1, 1)
        <4>1. Prefix(page, 1) = 0
          BY <1>2, PrefixBound
        <4>2. Prefix(page + 1, 1) = 0
          BY <3>2, PrefixBound
        <4>3. QED
          BY <4>1, <4>2
      <3>5. Following(page, level)'
        BY <2>2, <2>3, <3>1, <3>3, <3>4 DEF Following
      <3>6. QED
        BY <2>3, <3>1, <3>3, <3>5 DEF PathInv
    <2>6. CASE ~(page < PageEnd(segment))
      <3>1. seg' = seg + 1 /\ step' = "segment"
        BY <1>15, <2>6 DEF TestMapping
      <3>2. Ahead(page)'
        <4> DEFINE p == page
        <4>1. \A k \in seg + 2 .. Len(headers) : IsLoad(headers[k]) => p < PageStart(headers[k])
          <5> SUFFICES ASSUME NEW k \in seg + 2 .. Len(headers), IsLoad(headers[k])
                       PROVE  p < PageStart(headers[k])
            OBVIOUS
          <5>1. k \in 1 .. Len(headers) /\ seg + 1 \in 1 .. k - 1
            BY <1>4
          <5>2. PlanInv /\ phase = "accepted"
            BY <1>1, <1>15 DEF BaseInv, TestMapping, LoadNext, loadVars
          <5>3. IsLoad(headers[seg + 1]) /\ page \in PageStart(headers[seg + 1]) .. PageEnd(headers[seg + 1])
            BY <2>4 DEF segment
          <5>4. PageEnd(headers[seg + 1]) < PageStart(headers[k])
            BY <5>1, <5>2, <5>3, SegmentsInOrder
          <5>5. PageStart(headers[k]) \in Nat
            BY <5>1, <5>2, SegmentFacts
          <5>6. PageEnd(headers[seg + 1]) \in Nat
            BY <2>4, <5>2, <5>3, SegmentFacts
          <5>7. QED
            BY <1>2, <5>3, <5>4, <5>5, <5>6
        <4>2. page' = page
          BY <1>15, <2>6 DEF TestMapping
        <4>3. seg' + 1 = seg + 2
          BY <1>4, <3>1
        <4>4. QED
          BY <1>1, <4>1, <4>2, <4>3 DEF Ahead
      <3>3. page' = page
        BY <1>15, <2>6 DEF TestMapping
      <3>4. (\E q \in KernelPages : Walked(q) /\ Ahead(q))'
        BY <2>2, <2>3, <3>2, <3>3
      <3>5. QED
        BY <2>3, <3>1, <3>4 DEF PathInv
    <2>7. QED
      BY <2>5, <2>6
  <1>16. QED
    BY <1>1, <1>5, <1>6, <1>7, <1>8, <1>9, <1>11, <1>12, <1>13, <1>14, <1>15 DEF LoadNext

LEMMA WalkInit == LoaderInit => WalkInv
  BY BaseInit, PathInit DEF WalkInv

LEMMA WalkStep == ASSUME WalkInv, [Next]_vars PROVE WalkInv'
  <1>1. BaseInv'
    BY BaseStep
  <1>2. PathInv'
    BY PathStep
  <1>3. QED
    BY <1>1, <1>2 DEF WalkInv

-----------------------------------------------------------------------------
(* Types of the mapping pass's state, and what it knows of the file.       *)
THEOREM LoaderTypeCorrect == Spec => []LoaderTypeOK
  <1>1. WalkInv => LoaderTypeOK
    BY DEF WalkInv, BaseInv
  <1>2. WalkInv /\ [Next]_vars => WalkInv'
    BY WalkStep
  <1>3. QED
    BY <1>1, <1>2, WalkInit, PTL DEF Spec

(* No step of the pass writes outside the frames the loader owns, but for  *)
(* the word behind them.                                                   *)
THEOREM WritesStayInside == Spec => WritesConfined
  <1>1. WalkInv /\ [Next]_vars =>
            [\A a \in Addr : mem'[a] # mem[a] =>
                \/ owner'[FrameOf(a)] = "loader"
                \/ a % Fan = 0 /\ owner'[FrameOf(a) - 1] = "loader"]_vars
    BY StepConfined DEF Confined
  <1>2. WalkInv /\ [Next]_vars => WalkInv'
    BY WalkStep
  <1>3. QED
    BY <1>1, <1>2, WalkInit, PTL DEF Spec, WritesConfined

(* A table or segment placed below what the loader holds is copied         *)
(* forward.                                                                *)
LEMMA CopiedForward ==
    ASSUME WalkInv, [Next]_vars,
           \A f \in {f \in Frame : owner'[f] = "loader" /\ owner[f] # "loader"}, g \in Frame :
               owner[g] = "loader" \/ g = cr3 => f < g,
           "smear" \in trouble'
    PROVE  "smear" \in trouble
  <1>1. /\ BaseInv /\ (UNCHANGED loadVars \/ LoadNext)
        /\ elf \in Frame /\ owner[elf] = "loader" /\ cr3 \in Frame
    <2>1. BaseInv /\ OwnersInv /\ LoaderTypeOK
      BY DEF WalkInv, BaseInv
    <2>2. elf \in elf .. elf + FileFrames - 1
      BY <2>1, LoaderAssumption DEF OwnersInv, Frame
    <2>3. QED
      BY <2>1, <2>2, PlanKept DEF OwnersInv, LoaderTypeOK
  <1>2. CASE NewPml4
    <2>1. PICK s \in Frame :
              /\ s + 1 \in Frame /\ owner[s] = "free"
              /\ \A f \in Frame : owner'[f] = IF f = s THEN "loader" ELSE owner[f]
              /\ TableCopied(mem, mem', s, FwPml4)
              /\ trouble' = IF Smeared(mem, mem', (s + 1) * Fan) THEN {"smear"} ELSE {}
      BY <1>1, <1>2, NewPml4Does
    <2>2. cr3 = FwPml4
      BY <1>1, <1>2 DEF BaseInv, Started, NewPml4
    <2>3. s < FwPml4
      BY <1>1, <2>1, <2>2
    <2>4. mem'[(s + 1) * Fan] = mem[(s + 1) * Fan]
      BY <2>1, <2>3 DEF TableCopied
    <2>5. QED
      BY <2>1, <2>4 DEF Smeared
  <1>3. CASE LoadSegment
    <2> DEFINE n == PageCount(segment)
    <2>1. PICK s \in Frame :
              /\ n \in Nat /\ n > 0 /\ s + n \in Frame
              /\ \A f \in s .. s + n - 1 : f \in Frame /\ owner[f] = "free"
              /\ \A f \in Frame : owner'[f] = IF f \in s .. s + n - 1 THEN "loader" ELSE owner[f]
              /\ SegmentIn(segment, s, mem')
              /\ trouble' = trouble \cup
                     IF Smeared(mem, mem', (s + n) * Fan) THEN {"smear"} ELSE {}
      BY <1>1, <1>3, LoadSegmentDoes
    <2>2. s \in s .. s + n - 1
      BY <2>1, LoaderAssumption DEF Frame
    <2>3. s < elf
      BY <1>1, <2>1, <2>2
    <2>4. mem'[(s + n) * Fan] = mem[(s + n) * Fan]
      BY <2>1, <2>3 DEF SegmentIn, Placed
    <2> HIDE DEF n
    <2>5. QED
      BY <2>1, <2>4 DEF Smeared
  <1>4. CASE NewTableFails
    BY <1>4 DEF NewTableFails
  <1>5. CASE UNCHANGED trouble
    BY <1>5
  <1>6. QED
    BY <1>1, <1>2, <1>3, <1>4, <1>5
       DEF loadVars, LoadNext, NewPml4Fails, SkipSegment, LoadSegmentFails, NewTable, FollowTable,
           SetLeaf, TestMapping, TestFaults, EnterKernel

(* With a firmware that allocates from the top no stray byte hits what     *)
(* somebody uses.                                                          *)
THEOREM NoSmearFromTheTop == Spec => TopDownSafe
  <1>1. WalkInv /\ [Next]_vars =>
            [LET new == {f \in Frame : owner'[f] = "loader" /\ owner[f] # "loader"}
             IN  (\A f \in new, g \in Frame : owner[g] = "loader" \/ g = cr3 => f < g)
                   => ("smear" \in trouble' => "smear" \in trouble)]_vars
    BY CopiedForward
  <1>2. WalkInv /\ [Next]_vars => WalkInv'
    BY WalkStep
  <1>3. QED
    BY <1>1, <1>2, WalkInit, PTL DEF Spec, TopDownSafe
=============================================================================
